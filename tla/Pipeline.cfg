SPECIFICATION FairSpec
CONSTANTS
  RingSize = 2
  CaptureCap = 1
  WriterCap = 1
  MaxCopies = 2
  MaxEvents = 4
INVARIANTS EventsAccounted ShutdownOrder NothingLeftBehind
PROPERTIES IsLossyStream ShutdownCompletes
CHECK_DEADLOCK FALSE
