SPECIFICATION FairSpec
CONSTANTS
  Tasks = {t1, t2}
  Users = {u1, u2}
  Timeouts = {1, 2}
  MAX_TIMEOUT = 2
  MaxTime = 2
  MaxCalls = 3
  Quiet = TRUE
  None = None
INVARIANTS
  TypeOK
  NoOversleep
PROPERTIES
  DueTaskRuns
CHECK_DEADLOCK FALSE
