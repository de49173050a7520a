SPECIFICATION Spec
CONSTANTS
  t1 = t1
  t2 = t2
  t3 = t3
  p1 = p1
  p2 = p2
  Nobody = Nobody
  Orphan = Orphan
  Threads = {t1, t2}
  Processes = {p1}
  ProcessOf <- OneWorker
  MaxRetries = 1
  MaxTokens = 3
  MaxEnded = 1
  MaxFaults = 0
INVARIANT RetryOnceSuffices
