CONSTANTS
  w1 = w1
  w2 = w2
  Workers <- TwoWorkers
  NBatches = 4
  Size <- AllSmall
  MaxInFlight = 4
  MaxPermits = 8
  ChannelSlots = 4
  DoneSlots = 8
  Adaptive = FALSE
  Checkpointing = TRUE
  AtomicPut = TRUE
  Overwrite = FALSE
  SendFaults = TRUE
  ParseFaults = TRUE
  StoreFaults = TRUE
  MaxRuns = 3
SPECIFICATION Spec
INVARIANTS
  TypeOK
  CheckpointBehindServer
  SuccessIsComplete
  SummaryExact
PROPERTIES
  ImplementsResumableImport
