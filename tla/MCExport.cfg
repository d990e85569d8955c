CONSTANTS
  Callers = {"task", "other"}
  Auths = {"static", "login"}
  MaxAttempts = 2
  MaxFaults = 2
  Docs = {"a", "b", "c", "d"}
  Task = "task"
  Queries <- TheQueries
  Shared <- TheShared
  Prefetch = 2
  MaxPart = 3
  SilentOnce = {"opening", "deleting"}
SPECIFICATION Spec
CHECK_DEADLOCK FALSE
INVARIANTS
  TypeOK
  ExportFaithful
  CursorReleased
  RefusalExcused
PROPERTY
  ExportEnds
