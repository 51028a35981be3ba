SPECIFICATION FairSpec
CONSTANTS
  c1 = c1
  c2 = c2
  Clients = {c1, c2}
  Askers = {c2}
  Addrs = {a1, a2}
  NoAddr = NoAddr
  Profiles <- MCProfiles
  NodeRequests <- MCRequests
  Tick = 2
  RetryDelay = 1
  MaxRequests = 1
  MaxBreaks = 1
INVARIANT TypeOK
INVARIANT OneRecordPerAddress
INVARIANT ListedWasThere
INVARIANT QuietIsListed
CHECK_DEADLOCK FALSE
PROPERTY ConnectsAndSends
