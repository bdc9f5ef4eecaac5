SPECIFICATION Drawn
CONSTANTS
  Id <- MCId
  Kind <- MCKind
  Space <- MCSpace
  Level <- MCLevel
  Label <- MCLabel
  Value <- MCValue
  Live <- MCLive
  Spaces <- MCSpaces
  Titles <- MCTitles
  Cards <- MCCards
  Queries <- MCQueries
  Order <- MCOrder
INVARIANTS SearchesFollowPaths QueriesMean LogicAgreesWithSearch FiltersKeepPaths
CHECK_DEADLOCK FALSE
