SPECIFICATION Spec
CONSTANTS
  Char <- MCChar
  NoDir = NoDir
  NoFile = NoFile
  Keys <- AnyKeys
  Values <- MarkedValues
  ValuesOf <- MarkedValuesOf
  PageCounts = {0, 1, 2}
  FullProcesses = {"dkIgnored", "dkStopped"}
VIEW Tree
INVARIANTS
  TypeOK
  TreeClosed
  NoForeignValue
PROPERTIES
  ReadYourWrites
  PutFrame
  DeleteFrame
  PageBound
