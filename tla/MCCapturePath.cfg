SPECIFICATION FairPathSpec
CONSTANTS
  None = None
  Flows = {1}
  Wire <- TwoRecords
  Packets <- TwoRecordsPackets
  Cpus = {1, 2}
  MaxReasmSegments = 3
  RawPayloadSize = 12
  RingSize = 2
  MaxPackets = 5
  MaxFlows = 4
  MaxSegments = 3
  Timeout = 1
  SeqMod = 64
  SweepEvery = 2
  Traffic = TRUE
  MaxFaults = 1
  TimePasses = TRUE
INVARIANTS RecordsAreReal
PROPERTIES ShortRecordsComplete NothingWaitsForever
CHECK_DEADLOCK FALSE
