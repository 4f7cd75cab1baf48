\* Two connections and two starts over three descriptors.
CONSTANTS
  MaxFd = 3
  MaxConns = 2
  MaxStarts = 2
SPECIFICATION LiveSpec
INVARIANTS
  NoSocketLeft
  CrossTalkExplained
PROPERTIES
  DisposeReturnsUnlessCleared
CHECK_DEADLOCK FALSE
