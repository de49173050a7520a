SPECIFICATION FairSpec
CONSTANTS
  Clients = {c1, c2}
  Symbols = {s1, s2, s3}
  NoSymbol = NoSymbol
  MaxConnections = 2
  MaxSymbols = 2
  SourceLimit = 2
  MaxFaults = 2
  MaxQueued = 1
INVARIANTS TypeOK IntentAgrees
PROPERTIES SubscribedReachesUpstream ReleasedLeavesUpstream
CHECK_DEADLOCK FALSE
