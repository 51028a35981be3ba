SPECIFICATION FairSpec
CONSTANTS
  p1 = p1
  p2 = p2
  Nodes = {p1, p2}
  Channels = {0}
  Callers = {p1}
  EarlyOps = FALSE
  FragmentPieces = 2
  Sessions <- AnySession
  OpKinds <- TwoKinds
  MaxOps = 2
PROPERTY EverythingArrives
PROPERTY SomeoneConnects
CHECK_DEADLOCK FALSE
