SPECIFICATION WalkSpec
CONSTANTS
  SeqMod = 7
  MaxFragments = 4
  MaxLen = 3
INVARIANTS
  ComputesRun
CHECK_DEADLOCK FALSE
