SPECIFICATION Spec
CONSTANTS
  a = a  b = b  H = H  P = P  near = near  here = here
  Host = H
  Item <- Two
  Peer <- OnePeer
  Prop <- OneProp
  Home <- NearHome
  ReadsMore <- None
  Unusable <- JustNothing
  MaxDisposed = 1
PROPERTY PropagatorsAlerted
CHECK_DEADLOCK FALSE
