SPECIFICATION Spec
CONSTANTS
  Quests = {q1}
  Conns = {c1, c2}
  Readers = {r1}
  None = None
  LB = "random"
  MsgTimeout = FALSE
  Env = {"reset"}
INVARIANTS
  QuestSentAssertion
CHECK_DEADLOCK FALSE
