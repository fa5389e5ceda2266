SPECIFICATION Spec
CONSTANTS
  Runners = {a, b}
  NoRunner = none
  MaxTasks = 2
  Legacy = {1}
  TTL = 1
  MaxStall = 0
  Timely = FALSE
  DbErrors = {"runner", "handler"}
CHECK_DEADLOCK FALSE
SYMMETRY RunnerSymmetry
INVARIANT NoOrphanedRun
PROPERTIES TerminalIsFinal ExecutedOnce
