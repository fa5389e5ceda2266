SPECIFICATION Spec
CONSTANTS
  Pollers = {p}
  Fetchers = {f}
  Prices = {1, 3}
  Reserved = 2
  Kinds = {"tiered", "per_call", "usage"}
  Origins = {FALSE}
  MaxFailures = 2
  TimedOut = TRUE
  MaxFetches = 2
  Faults = {}
CHECK_DEADLOCK FALSE
INVARIANT NeverOverRefunded
