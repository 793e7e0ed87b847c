CONSTANTS
  Task = {t1, t2, t3}
  Thread = {h1, h2}
  Looper = {h1}
  Main = Main
  MaxProc = 2
  Dispatch = {"robin", "local", "index"}
  EnableSteal = TRUE
  MaxSwitch = 1
  NoTask = NoTask
  Timer = {t1, t2, t3}
  Idler = {i1, i2}
  Delays = {1, 3}
  MaxSleep = 1
  Batch = 1
  EveryCycle = 2
  MaxTime = 5
  MaxBusy = 1
SPECIFICATION MCSpec
INVARIANTS OnePlace CountExact Punctual
PROPERTIES ReturnMeansNoTask CancelTruthful
SYMMETRY Symmetry
CHECK_DEADLOCK FALSE
