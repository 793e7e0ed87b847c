CONSTANTS
  Task = {t1}
  Waker = {w1}
  Thread = {}
  InitWakeup = 0
  MaxWakeup = 1
  TimeoutValues = {0}
  MaxSeq = 2
  NoTask = NoTask
SPECIFICATION FairSpec
PROPERTIES  TimedWaitReturns
