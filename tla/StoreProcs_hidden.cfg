SPECIFICATION Spec
CONSTANTS
  Char <- MCChar
  NoDir = NoDir
  NoValue = NoValue
  Several = Several
  Unknown = Unknown
  Procs <- ThreeProcs
  Keys <- AllKeys
  Values <- AllValues
  IDBMaxPageCount = 1
  Programs <- LongPrograms
  MaxInodes = 6
CHECK_DEADLOCK FALSE
INVARIANTS
  AckedIsReadable
