SPECIFICATION Spec
CONSTANTS
  Pollers = {p, q}
  Fetchers = {}
  Prices = {1, 3}
  Reserved = 2
  Kinds = {"tiered", "per_call", "usage"}
  Origins = {FALSE, TRUE}
  MaxFailures = 2
  TimedOut = TRUE
  MaxFetches = 0
  Faults = {"settle", "funding", "clamp", "token", "quota", "crash", "progress", "channel"}
CHECK_DEADLOCK FALSE
SYMMETRY PollerSymmetry
INVARIANT NeverOverRefunded
PROPERTY OutcomeIsFinal
