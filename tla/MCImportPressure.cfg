CONSTANTS
  w1 = w1
  w2 = w2
  Workers <- TwoWorkers
  NBatches = 4
  Size <- SmallThenOversized
  MaxInFlight = 4
  MaxPermits = 8
  ChannelSlots = 1
  DoneSlots = 1
  Adaptive = TRUE
  Checkpointing = TRUE
  AtomicPut = FALSE
  Overwrite = FALSE
  SendFaults = TRUE
  ParseFaults = TRUE
  StoreFaults = FALSE
  MaxRuns = 2
SPECIFICATION FairSpec
INVARIANTS
  FinalCheckpointTight
  PermitsConserved
  MemoryBounded
  LimiterSound
PROPERTIES
  RunTerminates
