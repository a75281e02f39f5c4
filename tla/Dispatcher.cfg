SPECIFICATION Spec
CONSTANTS
  t1 = t1
  t2 = t2
  edge = edge
  level = level
  shot = shot
  k1 = k1
  k2 = k2
  f1 = f1
  f2 = f2
  None = None
  Threads = {t1, t2}
  FdHandlers = {edge, level, shot}
  Tasks = {k1, k2}
  Fds = {f1, f2}
  FdOf <- MCFdOf
  Edge = {edge}
  OneShot = {shot}
  Concurrent = {edge}
  MinThread = 1
  MaxNow = 3
  Delays = {0, 1}
  Setups <- MCSetups
  MaxIntr = 1
SYMMETRY MCSymmetry
INVARIANTS TypeOK RefsMatch Serialised NoEventLost NoEdgeLost LeaderAwake NeverDeserted
CHECK_DEADLOCK FALSE
