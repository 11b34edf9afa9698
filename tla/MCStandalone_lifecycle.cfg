SPECIFICATION FairSpec
CONSTANTS
  None = None
  c1 = c1
  c2 = c2
  Commands = {c1, c2}
  Modes = {"PROMOTE", "ROLLBACK", "RESTORE"}
  Plans <- AllPlans
  MaxRows = 2
  MaxFaults = 1
INVARIANTS
  TypeOK
  CutoverOnce
  RegistryFollowsPointer
  ServedSlotUntouched
PROPERTIES
  ResetSparesTheServed
  PromotionFinishes
  StoppedWorkerReturns
CHECK_DEADLOCK FALSE
