CONSTANTS
  Worker = {w1}
  PoolSize = 1
  MaxRequests = 2
  Answers = {"ok", "err", "ask"}
  MaxCmd = 3
  Elements <- Lengths
  Scenes = {"pool"}
SPECIFICATION MCSpec
PROPERTIES DisconnectEnds
CHECK_DEADLOCK FALSE
