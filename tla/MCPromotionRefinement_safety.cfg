SPECIFICATION PromotionSpec
CONSTANTS
  c1 = c1
  c2 = c2
  g0 = g0
  g1 = g1
  g2 = g2
  None = None
  Coordinators <- TwoCoordinators
  Operations = {1, 2}
  Generations = {g0, g1, g2}
  InitialServing = g0
  MaxFence = 5
  MaxFaults = 2
SYMMETRY Symmetry
INVARIANTS
  TypeOK
  CutoverOnce
  OneServing
  RegistryFollowsPointer
  FinalizedInPointerOrder
  PromotedMeansFinalized
  PointerTargetRoutable
  FenceNamesOneClaim
PROPERTIES
  ImplementsCutover
CHECK_DEADLOCK FALSE
