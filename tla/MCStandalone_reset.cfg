SPECIFICATION Spec
CONSTANTS
  None = None
  c1 = c1
  c2 = c2
  Commands = {c1}
  Modes = {"PROMOTE"}
  Plans <- CarefulPlan
  MaxRows = 1
  MaxFaults = 2
PROPERTIES
  PromotesOnlyEligible
CHECK_DEADLOCK FALSE
