SPECIFICATION FairAbSpec
CONSTANTS
  k1 = k1
  k2 = k2
  A = A
  B = B
  Partial = Partial
  None = None
  Coordinators = {k1, k2}
  Operations = {1}
  Generations = {A, B}
  InitialServing = A
  MaxFence = 11
  MaxFaults = 1
INVARIANTS
  PromotedOnceCaughtUp
PROPERTIES
  QueriesNeverGoBack
  RebuildEnds
CHECK_DEADLOCK FALSE
