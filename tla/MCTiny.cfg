\* A timer of two ticks or of endless ticks, started three times; three waiters;
\* a list of up to four nodes; heads of three bytes and contents of up to four.
CONSTANTS
  TimesSet = {0, 2}
  Interval = 4
  Elapsed <- ClockReadings
  Verdicts = {TRUE, FALSE}
  MaxStarts = 3
  w1 = w1
  w2 = w2
  w3 = w3
  Waiters = {w1, w2, w3}
  MaxWaits = 4
  MaxNotifies = 3
  MaxSpurious = 2
  d1 = d1
  d2 = d2
  Data = {d1, d2}
  Nodes = {1, 2, 3, 4}
  Null = Null
  HeadLen = 3
  InValue = {1}
  Lengths = {0, 1, 2, 4, 5}
  Surpluses = {0, 1, 2}
  BufferSize = 5
  MaxContent = 4
SPECIFICATION PartSpec
INVARIANTS
  IntervalBounded
  StopsReadOnce
  WellLinked
  WholeWhenOK
  WaitsForNoMore
PROPERTIES
  StopReturns
  OnlyNotifiedReturn
  CalledReturns
  DataListSpec
CHECK_DEADLOCK FALSE
