SPECIFICATION ListSpec
CONSTANTS
  Char <- MCChar
  NoDir = NoDir
  NoFile = NoFile
  NoPattern = NoPattern
  NoList = NoList
  Keys <- MCKeys
  Values <- OneValue
  ValuesOf <- OneValueOf
  PageCounts = {1}
  FullProcesses = {"dkIgnored"}
  Calls <- MCCalls
  DupProcesses = {"dkFixed"}
  Orders <- MCOrders
  SizeBits = 5
PROPERTIES
  ListingKeepsKeys
