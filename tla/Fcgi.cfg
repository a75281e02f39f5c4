SPECIFICATION Spec
CONSTANTS
  q1 = q1
  q2 = q2
  c1 = c1
  c2 = c2
  c3 = c3
  c4 = c4
  None = None
  Quests = {q1, q2}
  Conns = {c1, c2, c3, c4}
  ConMax = 2
  ReqMax = 2
  AutoRetry = TRUE
SYMMETRY MCSymmetry
INVARIANTS TypeOK FinishedOnce QueueServed
CHECK_DEADLOCK FALSE
