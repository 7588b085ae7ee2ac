CONSTANTS
  Proc = {p}
  Content = {a, b}
  PageCount = 2
  RecoveryLimit = 7
  MaxFailures = 1
  MaxCrashes = 2
  MaxDamages = 1
  Absent = Absent
  Partial = Partial
  NoOwner = NoOwner
SPECIFICATION Spec
SYMMETRY Symmetry
INVARIANTS MemoryIsReplay NextSlotFree
PROPERTIES AcceptedKept
