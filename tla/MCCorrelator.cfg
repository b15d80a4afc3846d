SPECIFICATION Spec
CONSTANTS
  None = None
  Conns = {c1, c2, c3}
  MaxEntries = 2
  Ttl = 2
  ClockMod = 16
  MaxClock = 3
  MaxHellos = 3
  ClockSteps = 1
SYMMETRY ConnSymmetry
INVARIANTS
  Bounded
  JoinsLatestHello
  PendingIsLatest
  ConsumedOnce
PROPERTIES
  NoSilentLoss
