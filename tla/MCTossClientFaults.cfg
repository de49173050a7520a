SPECIFICATION Spec
CONSTANTS
  t1 = t1
  t2 = t2
  t3 = t3
  p1 = p1
  p2 = p2
  Nobody = Nobody
  Orphan = Orphan
  Threads = {t1, t2, t3}
  Processes = {p1, p2}
  ProcessOf <- TwoWorkers
  MaxRetries = 0
  MaxTokens = 3
  MaxEnded = 1
  MaxFaults = 1
SYMMETRY Symmetry
INVARIANTS TypeOK SingleIssuer HoldersGoOn
