SPECIFICATION Spec
CONSTANTS
  p1 = p1
  p2 = p2
  Nodes = {p1, p2}
  Channels = {0, 1}
  Callers = {p1, p2}
  EarlyOps = TRUE
  FragmentPieces = 2
  Sessions <- MixedSessions
  OpKinds <- TwoKinds
  MaxOps = 2
INVARIANT TypeOK
INVARIANT DeliveredInOrder
INVARIANT ConnectedIsKnown
INVARIANT SessionsMatch
CHECK_DEADLOCK FALSE
