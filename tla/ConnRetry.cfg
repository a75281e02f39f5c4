SPECIFICATION Spec
CONSTANTS
  Quests = {q1}
  Conns = {c1, c2}
  Readers = {r1}
  None = None
  LB = "random"
  MsgTimeout = FALSE
  Env = {"close", "sclose", "sforce", "huge", "refuse"}
SYMMETRY Symmetry
INVARIANTS
  TypeOK
  OneOwner
  GracefulRetrySafe
PROPERTIES
  NoExecutionAfterGracefulClose
  KeepsRpcPromise
CHECK_DEADLOCK FALSE
