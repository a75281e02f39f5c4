SPECIFICATION Spec
CONSTANTS
  q1 = q1
  q2 = q2
  s1 = s1
  s2 = s2
  v1 = v1
  None = None
  Quests = {q1, q2}
  Services = {s1, s2}
  Servants = {v1}
  MaxResponses = 2
INVARIANTS TypeOK AnsweredOnce HintValid
CHECK_DEADLOCK FALSE
