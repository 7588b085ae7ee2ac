CONSTANTS
  UsesWork = TRUE
  MaxHead = 2
  MaxCrashes = 3
  MaxInterrupts = 0
  MaxDamages = 0
SPECIFICATION Spec
INVARIANTS DestinationWhole
PROPERTIES PublishesAtomically
