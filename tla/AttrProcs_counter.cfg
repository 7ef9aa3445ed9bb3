SPECIFICATION Spec
CONSTANTS
  NULL = NULL
  Unknown = Unknown
  Procs <- TwoProcs
  Programs <- CounterPrograms
  MaxInodes = 6
CHECK_DEADLOCK FALSE
INVARIANTS
  NumberPutIsRead
