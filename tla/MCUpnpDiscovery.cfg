\* A device and a device with an NT of another type, three scans, three changes.
CONSTANTS
  u1 = u1
  u2 = u2
  Usns = {u1, u2}
  UsnType <- TypesOfUsns
  NtType <- TypesOfNts
  FilterOf <- Filters
  MaxScans = 3
  MaxChanges = 3
SPECIFICATION DiscoveryFairSpec
INVARIANTS
  CleanUnlessRaced
  ReportsAlternate
PROPERTIES
  Rediscovered
CHECK_DEADLOCK FALSE
