SPECIFICATION Spec
CONSTANTS
  Runners = {a, b}
  NoRunner = none
  MaxTasks = 2
  Legacy = {}
  TTL = 1
  MaxStall = 1
  Timely = TRUE
  DbErrors = {}
CHECK_DEADLOCK FALSE
PROPERTIES AbandonedRunFails PendingIsClaimed
INVARIANT SerialExecution
