SPECIFICATION RdfSpec
CONSTANTS
  Documents <- MCDocuments
  Statements <- MCStatements
  AllOptions <- MCOptions
  Capacity = 1
  MaxRefused = 1
  MaxRuns = 2
INVARIANTS
  TypeOK
  RdfComplete
\* The command ends, whether the import succeeds or not.
CHECK_DEADLOCK FALSE
