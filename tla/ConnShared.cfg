SPECIFICATION Spec
CONSTANTS
  Quests = {q1, q2}
  Conns = {c1}
  Readers = {r1}
  None = None
  LB = "normal"
  MsgTimeout = TRUE
  Env = {"close", "sclose", "timeout", "reset"}
SYMMETRY Symmetry
INVARIANTS
  QueuedHasResult
  CloseWaitsForSomething
  AnswersOwnQuest
  ByeDrained
  OutstandingWatched
CHECK_DEADLOCK FALSE
