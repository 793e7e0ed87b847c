CONSTANTS
  MaxConn = 1
  MaxRequest = 1
  Bodies <- TwoLines
  Methods = {"GET"}
  w1 = w1
  w2 = w2
  Scenes = {"http"}
SPECIFICATION MCSpec
INVARIANTS ContentKept
CHECK_DEADLOCK FALSE
