SPECIFICATION ListSpec
CONSTANTS
  Char <- MCChar
  NoDir = NoDir
  NoFile = NoFile
  NoPattern = NoPattern
  NoList = NoList
  Keys <- MCKeys
  Values <- OneValue
  ValuesOf <- OneValueOf
  PageCounts = {1, 2}
  FullProcesses = {"dkIgnored"}
  Calls <- MCCalls
  DupProcesses = {"dkIgnored", "dkFixed", "dkStopped"}
  Orders <- MCOrders
  SizeBits = 5
VIEW ListTree
INVARIANTS
  TreeClosed
PROPERTIES
  ListAgreesWithLookup
  PagesAreSlices
  StoppedFindsDuplicates
  TotalCountsCopies
