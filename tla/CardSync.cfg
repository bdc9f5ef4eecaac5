SPECIFICATION ClientSpec
CONSTANTS
  s1 = s1  s2 = s2  va = va  vb = vb  num = num  blank = blank
  Session <- MCSession
  Card <- MCCard
  Value <- MCValue
  Text <- MCText
  Source <- MCSource
  NoSession = NoSession
  Nothing = Nothing
  NoLink = NoLink
  Deltas <- AllDeltas
  InitialMaps <- Maps
  Own <- TwoOwners
  Clients = {"any", "careful", "patient"}
  Anything <- AnyDeltas
  MaxRequests = 5
INVARIANTS TypeOK LinksStayReachable Mirror NoRequestThrows CardsShowTheirCode
PROPERTY PatientBuilds
CHECK_DEADLOCK FALSE
