CONSTANTS
  b1 = b1
  r1 = r1
  p1 = p1
  w1 = w1
  Book = {b1, b2}
  Weights = {w1, w2}
  Path = {p1, p2}
  Release = {r1, r2}
  PageCount = 2
  Interpreters = {"vlm", "noop"}
  Boxes <- MCBoxes
  Width = 10
  Height = 10
  ReadWidth = 7
  ReadHeight = 7
  Nothing = Nothing
  MaxChanges = 2
  MaxCrashes = 1
CHECK_DEADLOCK FALSE
SPECIFICATION Spec
CONSTRAINT MCStart
INVARIANTS TypeOK OneSource OneModel OnlySlivers
