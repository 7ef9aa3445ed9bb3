SPECIFICATION Spec
CONSTANTS
  NULL = NULL
  Unknown = Unknown
  Procs <- TwoProcs
  Programs <- AnyPrograms
  MaxInodes = 6
CHECK_DEADLOCK FALSE
INVARIANTS
  TypeOK
  QuietAnswers
  XattrProvenance
  CounterNeverAhead
  RewrittenCounterCounts
