\* Restarts, unregistering, searches and a Dispose without Stop.
CONSTANTS
  Devices = {d1, d2}
  MaxStarts = 3
SPECIFICATION FairSpec
INVARIANTS
  NoAnswerAfterGoodbye
  DeafOnlyByLeftover
PROPERTIES
  AdvertisementSpec
  StopReturnsUnlessSearched
  DisposeReturns
CHECK_DEADLOCK FALSE
