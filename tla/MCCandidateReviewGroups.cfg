SPECIFICATION ReviewSpec
CONSTANTS
  Reviewers = {r1}
  Reports <- Filed
  NoName = NoName
  NoGroup = NoGroup
  PageSize = 2
  PreviewLimit = 2
  ApprovalLimit = 4
  MaxFilings = 2
INVARIANT ChangedGroupsAreRejected
CHECK_DEADLOCK FALSE
