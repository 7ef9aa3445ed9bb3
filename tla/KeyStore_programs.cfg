SPECIFICATION CarefulSpec
CONSTANTS
  Char <- MCChar
  NoDir = NoDir
  NoFile = NoFile
  Keys <- CleanKeys
  Values <- MarkedValues
  ValuesOf <- MarkedValuesOf
  PageCounts = {0, 1, 2}
  FullProcesses = {"dkIgnored", "dkStopped"}
VIEW Tree
INVARIANTS
  NoDuplicateKey
PROPERTIES
  ImplementsKVStore
