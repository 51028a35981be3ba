SPECIFICATION FairContextSpec
CONSTANTS
  Threads = {main, t1, t2}
  Main = main
INVARIANT ReturnTogether
PROPERTY RegisteredReturn
CHECK_DEADLOCK FALSE
