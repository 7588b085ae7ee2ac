CONSTANTS
  UsesWork = TRUE
  MaxHead = 2
  MaxCrashes = 1
  MaxInterrupts = 1
  MaxDamages = 0
SPECIFICATION Spec
PROPERTIES PublishesAtomically
