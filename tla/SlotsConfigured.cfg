SPECIFICATION SlotsSpec
CONSTANTS
  SlotRequests = {q1, q2}
  Channels = {"c1", "c2"}
  Models = {"m1", "m2"}
  SlotSettings <- ChannelLimit
  MaxRetries = 1
  MaxChanges = 0
CHECK_DEADLOCK FALSE
INVARIANT ConfiguredLimitHolds
