\* An action and a document requested, three calls of Start and Stop, a Dispose.
CONSTANTS
  c1 = c1
  c2 = c2
  Conns = {c1, c2}
  KindOf <- ActionAndDocument
  Reentrant = TRUE
  MaxCalls = 3
SPECIFICATION FairSpec
INVARIANTS
  FaultOnlyWhenBusy
  NoWayBack
PROPERTIES
  RequestServed
CHECK_DEADLOCK FALSE
