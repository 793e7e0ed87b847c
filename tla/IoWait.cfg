CONSTANTS
  t1 = t1
  f1 = f1
  f2 = f2
  Task = {t1, t2}
  Fd = {f1, f2}
  Closer = {c1}
  PollArgs <- AllArgs
  EtFd = {f1}
  Reports <- InOutErr
  MaxPoll = 2
  NoSentry = NoSentry
SPECIFICATION MCSpec
INVARIANTS WokenOnce NoStrandedTrigger NoUseAfterFree UntimedPollSeesEvent InterestKept
CHECK_DEADLOCK FALSE
