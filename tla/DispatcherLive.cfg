SPECIFICATION FairSpec
CONSTANTS
  t1 = t1
  t2 = t2
  edge = edge
  level = level
  shot = shot
  k1 = k1
  k2 = k2
  f1 = f1
  f2 = f2
  None = None
  Threads = {t1, t2}
  FdHandlers = {edge}
  Tasks = {}
  Fds = {f1}
  FdOf <- MCFdOf
  Edge = {edge}
  OneShot = {}
  Concurrent = {edge}
  MinThread = 1
  MaxNow = 2
  Delays = {0, 1}
  Setups <- MCLiveSetups
  MaxIntr = 1
PROPERTIES PostedIsRun KernelNotStarved CancelEnds
CHECK_DEADLOCK FALSE
