SPECIFICATION AccountsSpec
CONSTANTS
  Pollers = {p}
  Fetchers = {f}
  Prices = {3}
  Reserved = 2
  Kinds = {"tiered", "per_call", "usage"}
  Origins = {FALSE}
  MaxFailures = 2
  TimedOut = TRUE
  MaxFetches = 2
  Faults = {"channel"}
  Plan <- ExplicitPlans
  OrderPlan <- GoldOrder
  SubCalls = {c, d}
  HomeGroup = "default"
  Purse = 1
  MaxSubs = 2
  MaxClock = 1
  Running = {1, 2}
  TotalOf <- TotalsOfTwo
  EndOf <- EndsOfTwo
  Period = 2
  SubRequests = {r1, r2}
  SubAmounts = {1, 2}
  MaxNow = 4
  MaxAdminResets = 1
  Callers = {x, y}
  TTL = 2
  MaxVersion = 2
  MaxGen = 3
  SessionFaults = {"redis", "crash"}
  GroupCalls = {g1, g2}
  GroupFills = {f}
  Groups = {"default", "vip"}
  MaxGrants = 4
  MaxGroupErrors = 1
  Trials = {s1, s2}
  Flows = {"login"}
  BackupCodes = {"spare1"}
  MaxFailAttempts = 2
  MaxTries = 2
  LockTicks = 1
  FlowTicks = 2
  SessionLimit = 2
  MaxTrials = 4
  MaxLoginErrors = 1
  QuotaCalls = {k1, k2}
  BatchModes = {TRUE, FALSE}
  Amounts = {1}
  InitialQuota = 1
  WalletCap = 2
  Vouchers = {"code", "order"}
  VoucherQuota = 1
  MaxCalls = 3
  MaxErrors = 1
SYMMETRY SubCallSymmetry
CHECK_DEADLOCK FALSE
INVARIANTS LedgersAgree GrantedAsSold RaisedGroupKept PeriodBounded OneResetPerPeriod StaleIsBounded RevokedIsDenied
           GroupRepaired UsedOnce LockComesInTime Conserved CopyExact NoOverdraft PaidOnce
PROPERTIES RowIsSession
