SPECIFICATION Spec
CONSTANTS
  Requests = {r1}
  Quotas = {0, 1, 2}
  Profiles <- ImageProfiles
  InitialWallet = 3
  InitialToken = 3
  SubTotal = 3
  InitialUsed = 1
  TrustQuota = 2
  WalletCap = 4
  TopUps = {}
  Faults = {}
CHECK_DEADLOCK FALSE
INVARIANT RefundReturnsAllPreConsumed
