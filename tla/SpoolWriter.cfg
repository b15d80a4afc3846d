SPECIFICATION Spec
CONSTANTS
  MaxChunk = 4
  MaxTotal = 5
  BufCap = 2
  FlushThreshold = 3
  FreshSeconds = TRUE
  MaxLines = 9
  MaxSecs = 4
  MaxSetBacks = 1
  MaxFaults = 2
  MaxCrashes = 2
INVARIANTS LinesAccounted ChunksInOrder
PROPERTIES CapAfterRotation EvictsOldestFirst CompleteIsFinal
CHECK_DEADLOCK FALSE
