SPECIFICATION FairSpec
CONSTANTS
  Workers = {w1, w2, w3}
  Owner = Owner
  None = None
  MaxTasks = 3
  MaxSpurious = 1
INVARIANT TypeOK
INVARIANT RunsAtMostOnce
INVARIANT DrainedOnReturn
PROPERTY PushedIsRun
CHECK_DEADLOCK FALSE
