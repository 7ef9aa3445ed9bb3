SPECIFICATION Spec
CONSTANTS
  NULL = NULL
  Hidden <- DotNames
  Handles <- TwoHandles
  CharIsSigned = TRUE
  Programs <- AnyPrograms
VIEW ButLast
CHECK_DEADLOCK FALSE
INVARIANTS
  TypeOK
  ListAgrees
  FtsAgrees
  UrlRoundTrip
  ComparisonsAgree
PROPERTIES
  AliasReturns
  ForceMakes
  DeleteStaysBelow
  AliasReachesKey
  AnswersFromLastOpened
  CodingBounds
