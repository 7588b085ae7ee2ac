CONSTANTS
  b1 = b1
  r1 = r1
  p1 = p1
  w1 = w1
  Book = {b1}
  Weights = {w1, w2}
  Path = {p1, p2}
  Release = {r1}
  PageCount = 2
  Interpreters = {"vlm"}
  Boxes = {}
  Width = 10
  Height = 10
  ReadWidth = 10
  ReadHeight = 10
  Nothing = Nothing
  MaxChanges = 2
  MaxCrashes = 1
CHECK_DEADLOCK FALSE
SPECIFICATION LiveSpec
CONSTRAINT MCStart
PROPERTIES BookCompletes
