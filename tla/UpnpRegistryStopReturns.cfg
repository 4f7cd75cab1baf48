\* The mutex that Stop holds and the thread that Stop joins.
CONSTANTS
  Devices = {d1}
  MaxStarts = 1
SPECIFICATION FairSpec
PROPERTIES
  StopReturns
CHECK_DEADLOCK FALSE
