CONSTANTS
  UsesWork = FALSE
  MaxHead = 2
  MaxCrashes = 1
  MaxInterrupts = 0
  MaxDamages = 0
SPECIFICATION FairSpec
INVARIANTS RecoverySucceeds
PROPERTIES OutputBecomesCurrent
