\* Two threads, one registry observer after the other.
CONSTANTS
  Devices = {d1, d2}
  Threads = {t1, t2}
  Registries = {r1, r2}
  Gena = Gena
  None = None
SPECIFICATION Spec
INVARIANTS
  ViewIsRegistry
  ListenerIffServed
  FaultOnlyInRace
PROPERTIES
  EveryEventDelivered
SYMMETRY
  Interchangeable
CHECK_DEADLOCK FALSE
