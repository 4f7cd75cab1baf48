\* Two clients, one of them twice in the list maybe, and two senders.
CONSTANTS
  Clients = {c1, c2}
  Threads = {t1, t2}
  None = None
  MaxValue = 2
  MaxSubscribes = 2
  MaxSends = 2
SPECIFICATION Spec
INVARIANTS
  WalkReachesAll
  InSyncUnlessRaced
  CountedWhenFree
SYMMETRY
  Interchangeable
CHECK_DEADLOCK FALSE
