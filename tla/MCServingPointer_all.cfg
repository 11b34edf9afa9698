SPECIFICATION FairSpec
CONSTANTS
  None = None
  ga = ga
  gb = gb
  gc = gc
  o1 = o1
  o2 = o2
  r1 = r1
  bx = bx
  by = by
  First = ga
  Generations = {ga, gb, gc}
  Operators = {o1, o2}
  Requests = {r1}
  Backends = {bx, by}
  FirstBackend = bx
  MaxMoves = 3
  MaxFaults = 1
INVARIANTS
  TypeOK
  ProtectionFollowsPointer
  JournalExplainsPointer
  LatestPromotionRevertible
  RoutedWherePointerSays
PROPERTIES
  CleanupSparesTheLiving
  RetiredIsDeleted
