SPECIFICATION ProviderSpec
CONSTANTS
  t1 = t1
  t2 = t2
  t3 = t3
  p1 = p1
  p2 = p2
  Nobody = Nobody
  Orphan = Orphan
  Threads = {t1, t2, t3}
  Processes = {p1, p2}
  ProcessOf <- TwoWorkers
  MaxRetries = 1
  MaxTokens = 4
  MaxEnded = 2
  MaxFaults = 0
  Senders = {t1, t2}
  Ticks = 2
  Scale = 2
  Initial = 6
  Opening = 4
  ServerLimits = {1, 8}
  Remaining = {0, 2}
  MaxTicks = 3
SYMMETRY Symmetry
INVARIANTS CacheIsCurrent NoBurst
PROPERTY NeverSupersedes
