CONSTANTS
  w1 = w1
  w2 = w2
  Workers <- TwoWorkers
  NBatches = 2
  Size <- AllSmall
  MaxInFlight = 4
  MaxPermits = 8
  ChannelSlots = 4
  DoneSlots = 8
  Adaptive = FALSE
  Checkpointing = FALSE
  AtomicPut = TRUE
  Overwrite = TRUE
  SendFaults = FALSE
  ParseFaults = FALSE
  StoreFaults = FALSE
  MaxRuns = 1
SPECIFICATION Spec
INVARIANTS
  SuccessIsComplete
