CONSTANTS
  Proc = {p, q}
  Content = {a, b}
  PageCount = 3
  RecoveryLimit = 6
  MaxFailures = 1
  MaxCrashes = 2
  MaxDamages = 0
  Absent = Absent
  Partial = Partial
  NoOwner = NoOwner
SPECIFICATION Spec
SYMMETRY Symmetry
INVARIANTS TypeOK PointersHold AcceptedWhole CacheIsReplay
PROPERTIES IsCommitLog
