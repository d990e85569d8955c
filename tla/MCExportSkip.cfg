CONSTANTS
  Callers = {"task"}
  Auths = {"static"}
  MaxAttempts = 2
  MaxFaults = 1
  Docs = {"a", "b", "c", "d"}
  Task = "task"
  Queries <- TheQueries
  Shared = {}
  Prefetch = 2
  MaxPart = 3
  SilentOnce = {"fetching"}
SPECIFICATION Spec
CHECK_DEADLOCK FALSE
INVARIANT
  ExportFaithful
