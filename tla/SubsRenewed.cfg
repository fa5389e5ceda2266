SPECIFICATION SubsSpec
CONSTANTS
  Plan <- LegacyPlan
  OrderPlan <- GoldOrder
  SubCalls = {c}
  HomeGroup = "default"
  Purse = 0
  MaxSubs = 2
  MaxClock = 2
CHECK_DEADLOCK FALSE
INVARIANT GroupReverts
