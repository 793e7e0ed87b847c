CONSTANTS
  c1 = c1
  c2 = c2
  c3 = c3
  p1 = p1
  Coroutine = {c1, c2, c3}
  Thread = {p1}
  Capacity = 1
  SizeMax = 100
  Reader = {h1, h2}
  Number = {1, 2}
  MaxFile = 2
  MaxData = 1
  MaxSentry = 2
  EtAllowed = TRUE
  Scenes = {"readers"}
SPECIFICATION MCSpec
SYMMETRY Symmetry
INVARIANTS FlagsCorrected
CHECK_DEADLOCK FALSE
