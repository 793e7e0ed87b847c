CONSTANTS
  Task = {t1, t2}
  Waker = {w1, w2}
  Thread = {p1}
  InitWakeup = 0
  MaxWakeup = 1
  TimeoutValues = {1}
  MaxSeq = 2
  NoTask = NoTask
SPECIFICATION Spec
INVARIANTS NoStrandedWaiter WokenOnce TimerDiesWithWait RefExact
PROPERTIES ImplementsSemaphore
SYMMETRY Symmetry
