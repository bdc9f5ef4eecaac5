SPECIFICATION Spec
CONSTANTS
  a1 = a1  a2 = a2  b1 = b1  A = A  B = B  e1 = e1  e2 = e2
  NoStream = NoStream
  Stream <- ThreeStreams
  Sid <- BothSids
  SidOf <- TabsOf
  Event <- Events
  MayShare = FALSE
  MaxEvents = 2
  MaxStates = 4
INVARIANTS TypeOK NoLostWakeup StreamServesItsSession
PROPERTY DeliversWhatIsPublished
CHECK_DEADLOCK FALSE
