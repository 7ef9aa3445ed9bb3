SPECIFICATION Spec
CONSTANTS
  Char <- MCChar
  NoDir = NoDir
  NoValue = NoValue
  Several = Several
  Unknown = Unknown
  Procs <- ThreeProcs
  Keys <- AllKeys
  Values <- AllValues
  IDBMaxPageCount = 1
  Programs <- SafetyPrograms
  MaxInodes = 6
VIEW ButPuts
CHECK_DEADLOCK FALSE
INVARIANTS
  TypeOK
  PageBound
  ReadProvenance
  ReadsPrefix
  QuietGets
  QuietDeletes
  AckedStaysReadable
