SPECIFICATION Spec
CONSTANTS
  a1 = a1
  a2 = a2
  i1 = i1
  i2 = i2
  bonus = bonus
  split = split
  Nobody = Nobody
  Events = {bonus, split}
  MaxTime = 2
  Approvers = {a1, a2}
  Importers = {i1, i2}
  Evidence <- Candidates
  Feed <- Feeds
  MaxBatch = 2
SYMMETRY Symmetry
INVARIANT CorrectionsFailClosed
