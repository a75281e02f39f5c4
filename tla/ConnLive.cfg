SPECIFICATION FairSpec
CONSTANTS
  Quests = {q1, q2}
  Conns = {c1}
  Readers = {r1}
  None = None
  LB = "normal"
  MsgTimeout = TRUE
  Env = {"timeout"}
PROPERTIES
  EventuallyCompleted
CHECK_DEADLOCK FALSE
