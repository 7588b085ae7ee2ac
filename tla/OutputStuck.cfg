CONSTANTS
  UsesWork = TRUE
  MaxHead = 2
  MaxCrashes = 2
  MaxInterrupts = 0
  MaxDamages = 0
SPECIFICATION Spec
INVARIANTS RecoverySucceeds
