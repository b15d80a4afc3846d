SPECIFICATION WorkerSpec
CONSTANTS
  a = a
  b = b
  Conns <- TwoConns
  MaxEntries = 2
  Ttl = 3
  ClockMod = 16
  MaxClock = 3
  MaxHellos = 4
  ClockSteps = 0
  None = None
  Scripts <- AllScripts
  Host <- OneEach
  SweepEvery = 3
  ReasmTimeout = 2
  MaxFaults = 1
CHECK_DEADLOCK FALSE
INVARIANTS MtlsIsReal NegotiationFits FlightReported FailureIsFinal
