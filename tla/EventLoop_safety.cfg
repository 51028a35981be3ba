SPECIFICATION Spec
CONSTANTS
  Ctx = {c1, c2}
  Writers = {w1}
  None = None
  MaxPosts = 4
  MaxInc = 1
  RemoteDestroy = FALSE
  DestroySleeping = FALSE
INVARIANT TypeOK
INVARIANT NoLostExit
PROPERTY ImplementsMailbox
PROPERTY DeadNeverResumed
CHECK_DEADLOCK FALSE
SYMMETRY CtxWriterSymmetry
