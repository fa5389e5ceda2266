SPECIFICATION Spec
CONSTANTS
  Requests = {r1, r2}
  Quotas = {0, 2}
  Profiles <- RivalProfiles
  InitialWallet = 3
  InitialToken = 3
  SubTotal = 3
  InitialUsed = 1
  TrustQuota = 2
  WalletCap = 4
  TopUps = {2}
  Faults = {"walletReserve", "walletDec", "walletInc", "token", "subReserve", "subDelta", "subRefund", "subRefundAck"}
INVARIANTS ReservationReconciled SettledExactly RefundReturnsAllPreConsumed NeverOverRefunded RejectedPaysNothing
PROPERTIES RefundCompletes
CHECK_DEADLOCK FALSE
