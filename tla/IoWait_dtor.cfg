CONSTANTS
  t1 = t1
  f1 = f1
  f2 = f2
  Task = {t1}
  Fd = {f1}
  Closer = {}
  PollArgs <- JustRead
  EtFd = {}
  Reports <- InErr
  MaxPoll = 2
  NoSentry = NoSentry
SPECIFICATION MCSpec
PROPERTIES OwnEntryOnly
CHECK_DEADLOCK FALSE
