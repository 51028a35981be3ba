SPECIFICATION FairSpec
CONSTANTS
  e1 = e1
  e2 = e2
  Endpoints <- MCEndpoints
  Owners <- MCEndpoints
  Writers <- MCWriters
  Nobody = Nobody
  Horizon = 1
  Interval = 1
  Near = 1
  BaseTime = 50
  MaxQueue = 1
  MaxUnacked = 2
  MaxCallbacks = 1
  MaxFreed = 2
  MaxInstants = 1
INVARIANT TypeOK
INVARIANT OneTimer
INVARIANT ReadyIsQueued
INVARIANT NeverStranded
PROPERTY LingerEnds
CHECK_DEADLOCK FALSE
