\* A thread that reads again from the number of the socket it has closed.
CONSTANTS
  MaxFd = 2
  MaxConns = 2
  MaxStarts = 1
SPECIFICATION Spec
INVARIANTS
  NoCrossTalk
CHECK_DEADLOCK FALSE
