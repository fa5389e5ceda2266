SPECIFICATION SharedSpec
CONSTANTS
  Workers = {a, b}
  Uses = {"sync", "balance", "warm"}
  LeaseTTL = 3
  Interval = 1
  MaxWork = 2
  MaxStall = 1
  MaxFail = 2
  Cooldown = 2
  MaxFaults = 1
  SlotRequests = {q1, q2}
  Channels = {"c1", "c2"}
  Models = {"m1", "m2"}
  SlotSettings <- MixedLimits
  MaxRetries = 1
  MaxChanges = 1
  Readers = {u1}
  Bumpers = {t1, t2}
  RowLocks = FALSE
  HashTTL = 2
  FenceTTL = 3
  MaxDelay = 1
  MaxAuthVersion = 2
  MaxTroubles = 1
  ChannelNodes = {"n1", "n2"}
  CachingNodes = {"n1"}
  ChannelKeys = {"key1", "key2"}
  StatusCalls = {c3, c4}
  MaxStatusChanges = 3
CHECK_DEADLOCK FALSE
INVARIANTS Exclusive SlotsAccounted VersionFenced NoKeyLost CopiesInOrder
PROPERTIES LeaseWorkGoesOn UserDenialEnds MemoryCatchesUp
