SPECIFICATION ActionSpec
CONSTANTS
  a1 = a1
  a2 = a2
  i1 = i1
  i2 = i2
  bonus = bonus
  split = split
  Nobody = Nobody
  Events = {bonus, split}
  MaxTime = 2
  Approvers = {a1, a2}
  Importers = {i1, i2}
  Evidence <- Candidates
  Feed <- Feeds
  MaxBatch = 2
  Reviewers = {r1}
  Reports <- Filed
  NoName = NoName
  NoGroup = NoGroup
  PageSize = 2
  PreviewLimit = 2
  ApprovalLimit = 4
  MaxFilings = 3
SYMMETRY Symmetry
INVARIANTS TypeOK ApprovalsNeverCollide BacktestsAreCausal ViewsAgree GroupsOnlyGrow
PROPERTIES KeepsALedger NoLookAhead PastIsFinal
