SPECIFICATION RetirementSpec
CONSTANTS
  c1 = c1
  c2 = c2
  g0 = g0
  g1 = g1
  g2 = g2
  None = None
  Coordinators <- TwoCoordinators
  Operations = {1, 2}
  Generations = {g0, g1, g2}
  InitialServing = g0
  MaxFence = 4
  MaxFaults = 1
SYMMETRY Symmetry
PROPERTIES
  OwnDeletionsAreAccepted
CHECK_DEADLOCK FALSE
