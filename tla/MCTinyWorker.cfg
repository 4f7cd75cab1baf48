\* Restarts, GetJob, Dispose and a listener that may end the loop.
CONSTANTS
  Jobs = {j1, j2, j3}
  Producers = {p1, p2}
  NoJob = NoJob
  Verdicts <- MayRefuse
  MaxStarts = 3
  MaxPolls = 1
SPECIFICATION FairSpec
INVARIANTS
  AliveUntilSurplusToken
  DisposeSettlesAll
PROPERTIES
  LeakOnlyInStop
  LedgerSpec
  DisposeReturns
  JobServed
CHECK_DEADLOCK FALSE
