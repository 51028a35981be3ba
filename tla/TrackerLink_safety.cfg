SPECIFICATION FairSpec
CONSTANTS
  p1 = p1
  p2 = p2
  Addrs <- MCAddrs
  NoAddr = NoAddr
  HeadSize = 2
  ContentSize = 2
  Sizes <- MCSizes
  StaleSizes <- MCSizes
  Tick = 2
  MaxLinks = 2
  MaxSplits = 1
  MaxFaults = 1
INVARIANT TypeOK
INVARIANT ListedIsServed
INVARIANT LinkedIsListed
PROPERTY LinkEnds
PROPERTY QuietIsClosed
CHECK_DEADLOCK FALSE
