SPECIFICATION Spec
CONSTANTS
  Pollers = {p}
  Fetchers = {}
  Prices = {1, 3}
  Reserved = 2
  Kinds = {"tiered", "per_call", "usage"}
  Origins = {FALSE, TRUE}
  MaxFailures = 2
  TimedOut = TRUE
  MaxFetches = 0
  Faults = {}
CHECK_DEADLOCK FALSE
PROPERTIES EveryTaskEnds FailureIsRefunded
INVARIANT ChargeMatchesRow
