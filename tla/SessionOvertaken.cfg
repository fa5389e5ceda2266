SPECIFICATION SessionSpec
CONSTANTS
  Callers = {a, b, c}
  TTL = 2
  MaxVersion = 2
  MaxGen = 3
  SessionFaults = {}
SYMMETRY CallerSymmetry
CHECK_DEADLOCK FALSE
INVARIANT CannotReactivate
