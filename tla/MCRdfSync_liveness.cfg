SPECIFICATION FairSyncSpec
CONSTANTS
  q1 = q1
  q2 = q2
  p1 = p1
  w1 = w1
  w2 = w2
  None = None
  Entities = {q1, p1}
  Properties = {p1}
  Workers = {w1}
  PageSize = 2
  WikiOps = {"edit", "delete", "undelete", "expire"}
  MaxRows = 3
  MaxFaults = 1
PROPERTIES
  FollowsOrReportsStale
CHECK_DEADLOCK FALSE
