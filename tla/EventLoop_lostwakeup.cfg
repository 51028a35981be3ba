SPECIFICATION Spec
CONSTANTS
  Ctx = {c1, c2}
  Writers = {w1}
  None = None
  MaxPosts = 3
  MaxInc = 0
  RemoteDestroy = FALSE
  DestroySleeping = FALSE
INVARIANT NoLostWakeUp
CHECK_DEADLOCK FALSE
