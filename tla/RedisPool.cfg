CONSTANTS
  Worker = {w1, w2}
  PoolSize = 1
  MaxRequests = 3
  Answers = {"ok", "err", "ask", "moved", "down", "none"}
  MaxCmd = 3
  Elements <- Lengths
  Scenes = {"pool", "pipeline"}
SPECIFICATION MCSpec
INVARIANTS Exclusive NoForgottenWaiter FlowNumberFresh AnswersMatch NoVainWait
CHECK_DEADLOCK FALSE
