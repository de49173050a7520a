SPECIFICATION Spec
CONSTANTS
  Clients = {c1, c2, c3}
  Symbols = {s1, s2, s3}
  NoSymbol = NoSymbol
  MaxConnections = 3
  MaxSymbols = 2
  SourceLimit = 2
  MaxFaults = 2
  MaxQueued = 1
SYMMETRY Symmetry
INVARIANT WaitersAreSubscribed
CHECK_DEADLOCK FALSE
