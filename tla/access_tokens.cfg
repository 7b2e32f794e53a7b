SPECIFICATION Spec
CONSTANTS
  Roles = {"APPROVER", "USER"}
  Nothing = Nothing
  Services <- MCServices
  Skew <- MCSkew
  MaxSkew = 1
  AccessTTL = 2
  Slack = 1
  Period = 2
  Requests = {q1}
  Latency = 1
  MaxTime = 6
  MaxChanges = 2
INVARIANT RightsFresh
INVARIANT DirectoryDecides
INVARIANT CodeShortLived
CHECK_DEADLOCK FALSE
