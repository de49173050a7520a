SPECIFICATION Spec
CONSTANTS
  v1 = v1
  v2 = v2
  v3 = v3
  s1 = s1
  s2 = s2
  None = None
  Versions = {v1, v2}
  Scopes = {s1}
  ScopeOf <- OneScopeOf
  Promoters = {p1, p2}
  Trainers = {t1}
  MaxFaults = 0
SYMMETRY Symmetry
INVARIANT ServesChampion
CHECK_DEADLOCK FALSE
