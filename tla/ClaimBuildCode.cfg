SPECIFICATION ClientSpec
CONSTANTS
  s1 = s1  s2 = s2  va = va  vb = vb  num = num  blank = blank
  Session <- MCSession
  Card <- MCCard
  Value <- MCValue
  Text <- MCText
  Source <- MCSource
  NoSession = NoSession
  Nothing = Nothing
  NoLink = NoLink
  Deltas <- CanvasDeltas
  InitialMaps <- Maps
  Own <- OneOwner
  Clients = {"careful"}
  Anything = {}
  MaxRequests = 5
PROPERTY BuildSeesCode
CHECK_DEADLOCK FALSE
