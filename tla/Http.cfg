CONSTANTS
  MaxConn = 2
  MaxRequest = 2
  Bodies <- OneLine
  Methods = {"GET", "PUT"}
  w1 = w1
  w2 = w2
  Scenes = {"http", "flow"}
SPECIFICATION MCSpec
INVARIANTS AnswerMatches TimerFollowsPhase
PROPERTIES ConnectionEnds RequestReturns RequestEnds
CHECK_DEADLOCK FALSE
