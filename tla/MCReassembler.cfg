SPECIFICATION Spec
CONSTANTS
  None = None
  Keys = {1, 2, 3}
  Captures <- McCaptures
  MaxFlows = 2
  MaxSegments = 4
  Timeout = 2
  SeqMod = 64
INVARIANTS
  EmittedIsContiguous
  UntruncatedIsWhole
  NoCompleteEntryPending
PROPERTY NoSilentLoss
