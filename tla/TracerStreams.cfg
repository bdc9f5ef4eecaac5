SPECIFICATION BothSpec
CONSTANTS
  r = r  m = m  g = g  p = p  q = q  s = s
  Cell <- TheCells
  Prop <- TheProps
  Passing <- JustP
  Ins <- TheIns
  Out <- TheOut
  Root = r
  Gatherer = g
  Self = T
  Named <- JustS
  Kinds <- AllKinds
  MaxNodes = 20
  MaxRebuilds = 20
  MaxWrite = 1
  MaxClock <- Clocks
  a1 = a1  a2 = a2  A = A  e1 = e1  e2 = e2
  NoStream = NoStream
  Stream <- TwoStreams
  Sid <- OneSid
  SidOf <- TabOf
  Event <- Events
  MayShare = TRUE
  MaxEvents = 2
  MaxStates = 3
INVARIANTS CutIsReported WaiterSleeps
PROPERTIES NoGhosts ComesToRest TapIsAnswered AbortEndsStream QueueDrains
CHECK_DEADLOCK FALSE
