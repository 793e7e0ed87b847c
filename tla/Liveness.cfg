CONSTANTS
  t1 = t1
  w1 = w1
  w2 = w2
  h1 = h1
  h2 = h2
  Main = Main
  c1 = c1
  f1 = f1
  k1 = k1
  k2 = k2
  None = None
  Coroutine = {x1, x2, x3}
SPECIFICATION MCSpec
INVARIANTS Exclusion CountsExact
PROPERTIES WriterEnters WokenTaskRuns TimedWaitReturns TasksFinish LoopEnds TimedPollReturns PopLoopEnds
CHECK_DEADLOCK FALSE
