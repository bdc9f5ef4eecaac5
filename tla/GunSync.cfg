SPECIFICATION FairSpec
CONSTANTS
  a = a  b = b  H = H  P = P  near = near  here = here
  Host = H
  Item <- Two
  Peer <- OnePeer
  Prop <- Both
  Home <- BothHomes
  ReadsMore <- OnHere
  Unusable <- JustNothing
  MaxDisposed = 1
INVARIANTS TypeOK PeersAgree AnnouncedOnce
PROPERTIES ReachesPeers
CHECK_DEADLOCK FALSE
