SPECIFICATION PromotionSpec
CONSTANTS
  c1 = c1
  c2 = c2
  g0 = g0
  g1 = g1
  g2 = g2
  None = None
  Coordinators <- TwoCoordinators
  Operations = {1}
  Generations = {g0, g1}
  InitialServing = g0
  MaxFence = 5
  MaxFaults = 2
SYMMETRY Symmetry
INVARIANTS
  RestartResumesCutover
CHECK_DEADLOCK FALSE
