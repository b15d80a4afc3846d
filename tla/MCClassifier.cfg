SPECIFICATION Spec
CONSTANTS
  None = None
  Flows = {f1}
  Packets <- McPackets
  Cpus = {cpu1, cpu2}
  MaxReasmSegments = 4
  RawPayloadSize = 12
  RingSize = 2
  MaxPackets = 5
SYMMETRY CpuSymmetry
INVARIANTS
  EventsAccounted
  FinishedIsUntracked
  BudgetAccounted
