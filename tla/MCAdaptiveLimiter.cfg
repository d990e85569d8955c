CONSTANTS
  t1 = t1
  t2 = t2
  t3 = t3
  Tasks <- MCTasks
  MaxConcurrency = 3
  MinConcurrency = 1
  Enabled = TRUE
SPECIFICATION FairSpec
INVARIANTS
  TypeOK
  NoLostWakeup
  InFlightExact
PROPERTIES
  WaiterRechecks
  LimitRecovers
