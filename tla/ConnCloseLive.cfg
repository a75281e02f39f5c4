SPECIFICATION FairSpec
CONSTANTS
  Quests = {q1}
  Conns = {c1}
  Readers = {r1}
  None = None
  LB = "normal"
  MsgTimeout = TRUE
  Env = {"close", "sclose", "force", "sforce", "reset", "timeout"}
PROPERTIES
  GracefulCloseEnds
CHECK_DEADLOCK FALSE
