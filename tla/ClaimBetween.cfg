SPECIFICATION Drawn
CONSTANTS
  Id <- MCId
  Kind <- MCKind
  Space <- MCSpace
  Level <- MCLevel
  Label <- MCLabel
  Value <- MCValue
  Live <- MCLive
  Spaces <- MCSpaces
  Titles <- MCTitles
  Cards <- MCCards
  Queries <- MCQueries
  Order <- MCOrder
INVARIANT BetweenEitherWay
CHECK_DEADLOCK FALSE
