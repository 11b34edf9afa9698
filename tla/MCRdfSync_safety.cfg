SPECIFICATION SyncSpec
CONSTANTS
  q1 = q1
  q2 = q2
  p1 = p1
  w1 = w1
  w2 = w2
  None = None
  Entities = {q1, q2, p1}
  Properties = {p1}
  Workers = {w1}
  PageSize = 2
  WikiOps = {"edit", "delete", "undelete", "merge", "protect", "other", "expire"}
  MaxRows = 3
  MaxFaults = 1
INVARIANTS
  TypeOK
  FenceBackedByGraph
  NothingIsLost
PROPERTIES
  FenceCommitsVerifiedGraph
  GapFreezesGraph
CHECK_DEADLOCK FALSE
