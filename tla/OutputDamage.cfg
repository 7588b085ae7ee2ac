CONSTANTS
  UsesWork = TRUE
  MaxHead = 2
  MaxCrashes = 2
  MaxInterrupts = 1
  MaxDamages = 1
SPECIFICATION Spec
INVARIANTS SuccessIsCurrent RecoveryLeavesNothing
PROPERTIES NothingValidDestroyed OnlyValidatedArrives
