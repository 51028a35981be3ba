SPECIFICATION FairSpec
CONSTANTS
  Ctx = {c1}
  Writers = {w1, w2}
  None = None
  MaxPosts = 2
  MaxInc = 1
  RemoteDestroy = TRUE
  DestroySleeping = TRUE
PROPERTY ExitStops
PROPERTY PostedIsTaken
CHECK_DEADLOCK FALSE
