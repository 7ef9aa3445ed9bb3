SPECIFICATION Spec
CONSTANTS
  Char <- MCChar
  NoDir = NoDir
  NoFile = NoFile
  Keys <- AnyKeys
  Values <- MarkedValues
  ValuesOf <- OneValueOf
  PageCounts = {1}
  FullProcesses = {"dkIgnored"}
PROPERTIES
  DeleteOnlySubkeys
