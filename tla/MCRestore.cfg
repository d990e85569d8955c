CONSTANTS
  Dumps = {"full", "small", "later", "bare"}
  Artifacts <- TheArtifacts
  Stamp <- TheStamps
  Unsupported = {}
  EdgeNames = {"edges"}
  AliasViews = {"alias"}
  Targets <- TheTargets
  NoDatabase = "none"
  Nothing = "nothing"
  Foreign = "foreign"
  AtomicPut = FALSE
  MaxRuns = 3
SPECIFICATION Spec
CHECK_DEADLOCK FALSE
INVARIANTS
  TypeOK
  CheckpointBehindServer
  RestoreComplete
  NeverRefused
