SPECIFICATION Spec
CONSTANTS
  Shells = {s1, s2}
  Approvals <- MCApprovals
  Imports = {"ann", "bob"}
  Audience = "db"
  None = None
  Absent = Absent
  Empty = Empty
  Torn = Torn
  MaxRuns = 4
  MaxMs = 1
CHECK_DEADLOCK FALSE
INVARIANT WriteWithinGrant
PROPERTIES SuccessIsStored ConfirmedIsMine
