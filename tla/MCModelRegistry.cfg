SPECIFICATION Spec
CONSTANTS
  v1 = v1
  v2 = v2
  v3 = v3
  s1 = s1
  s2 = s2
  None = None
  Versions <- MCVersions
  Scopes = {s1, s2}
  ScopeOf <- MCScopeOf
  Promoters = {p1, p2}
  Trainers = {t1, t2}
  MaxFaults = 1
SYMMETRY Symmetry
INVARIANTS TypeOK OneChampion PointerIsComplete PointerIsChampion NoCircularWait
PROPERTY TrainingIsRegistered
CHECK_DEADLOCK FALSE
