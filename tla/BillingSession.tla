--------------------------- MODULE BillingSession ---------------------------
(***************************************************************************)
(* The billing life cycle of relay requests: service/billing_session.go,   *)
(* service/funding_source.go and the retry loop of controller/relay.go     *)
(* that drives them.  Each request reserves an estimate on its API token   *)
(* and on a funding source (the user's wallet or a subscription), may      *)
(* raise the reservation before an attempt, and ends by settling the real  *)
(* cost or by an asynchronous refund.                                      *)
(*                                                                         *)
(* All requests below belong to ONE user and ONE token, so they share the  *)
(* wallet balance, the token balance and the subscription.  Every call to  *)
(* package model is one step: between two of them other requests move.    *)
(* The session mutex protects one request only and is not modelled.        *)
(***************************************************************************)
EXTENDS Integers

CONSTANTS
  Requests,       \* in-flight relay requests of the user
  Quotas,         \* amounts a price computation may return
  Profiles,       \* request kinds that occur, a subset of Profile
  InitialWallet,  \* users.quota
  InitialToken,   \* tokens.remain_quota
  SubTotal,       \* user_subscriptions.amount_total, 0 = unlimited
  InitialUsed,    \* user_subscriptions.amount_used by earlier requests
  TrustQuota,     \* GetQuotaSetting().TrustQuotaUSD * QuotaPerUnit
  WalletCap,      \* common.MaxWalletQuota
  TopUps,         \* amounts the user may pay in while requests run
  Faults          \* storage operations that may return an error

Preferences == {"subscription_only", "wallet_only", "wallet_first", "subscription_first"}

Sources == {"wallet", "subscription"}

\* The attributes of RelayInfo that the billing code looks at.
Profile == [pref: Preferences, playground: BOOLEAN, image: BOOLEAN,
            unlimited: BOOLEAN, force: BOOLEAN]

\* An operation named here fails without effect; "clamp" is the second
\* statement of a wallet debit, so its failure leaves the debit applied, and
\* "subRefundAck" loses the answer of a refund that was committed.
FaultKinds == {"walletReserve", "walletDec", "walletInc", "clamp", "token",
               "subReserve", "subDelta", "subRefund", "subRefundAck"}

\* const maxAttempts of refundWithRetry.
MaxAttempts == 3

ASSUME BillingAssumption ==
  /\ Quotas \subseteq Nat
  /\ TopUps \subseteq Nat
  /\ Profiles \subseteq Profile
  /\ InitialWallet \in Nat
  /\ InitialToken \in Nat
  /\ SubTotal \in Nat
  /\ InitialUsed \in Nat
  /\ TrustQuota \in Nat
  /\ WalletCap \in Nat
  /\ Faults \subseteq FaultKinds

VARIABLES
  wallet,   \* users.quota; may go negative (debt)
  token,    \* tokens.remain_quota; may go negative
  subUsed,  \* user_subscriptions.amount_used
  record,   \* subscription_pre_consume_records: status and amount by request
  topups,   \* payments still to come
  session,  \* the BillingSession of each request, and where its request is
  net       \* history: what each request has taken from each ledger so far

vars == <<wallet, token, subUsed, record, topups, session, net>>

-----------------------------------------------------------------------------
(* Control points of a request goroutine, and of its refund goroutine. *)

PC == {"new", "try", "preToken", "preFunding", "rollbackFallback",
       "rollbackReject", "open", "reserveFunding", "reserveToken", "rollbackReserve", "settleFunding",
       "settleToken", "returned", "fail", "done", "rejected"}

RefundStage == {"none", "funding", "extra", "token", "done"}

Session == [
  pc: PC, refund: RefundStage, info: Profile, source: Sources,
  quota: Nat,             \* the estimate NewBillingSession was called with
  tokenTrusted: BOOLEAN,  \* by the "token_quota" read at authentication
  delta: Int,             \* argument of the funding operation in progress
  actual: Nat,            \* argument of the Settle that counts
  tries: 0..MaxAttempts,  \* failed attempts of refundWithRetry
  preConsumed: Nat, tokenConsumed: Nat, extraReserved: Nat,
  trusted: BOOLEAN, fundingSettled: BOOLEAN, settled: BOOLEAN, refunded: BOOLEAN,
  consumed: Nat,          \* WalletFunding.consumed
  subPre: Nat,            \* SubscriptionFunding.preConsumed
  lostFunding: BOOLEAN, lostToken: BOOLEAN] \* history: an error was only logged

Record == [status: {"none", "consumed", "refunded"}, amount: Nat]

Net == [wallet: Int, subscription: Int, token: Int]

TypeOK ==
  /\ wallet \in Int
  /\ token \in Int
  /\ subUsed \in Nat
  /\ record \in [Requests -> Record]
  /\ topups \subseteq TopUps
  /\ session \in [Requests -> Session]
  /\ net \in [Requests -> Net]

\* A session object as NewBillingSession allocates it: nothing reserved yet.
NothingReserved(s) ==
  [s EXCEPT !.preConsumed = 0, !.tokenConsumed = 0, !.extraReserved = 0,
            !.consumed = 0, !.subPre = 0]

Fresh(s, source, pc) ==
  [NothingReserved(s) EXCEPT !.pc = pc, !.source = source, !.trusted = FALSE]

Goto(r, pc) == session' = [session EXCEPT ![r].pc = pc]

Max2(a, b) == IF a >= b THEN a ELSE b

-----------------------------------------------------------------------------
(* Ledger operations of package model.  Each moves the shared balance and  *)
(* the history of what request r holds; an error leaves both alone.        *)

MayFail(op) == op \in Faults

NoMove == UNCHANGED <<wallet, token, subUsed, record, net>>

MoveWallet(r, d) ==
  /\ wallet' = wallet - d
  /\ net' = [net EXCEPT ![r].wallet = @ + d]
  /\ UNCHANGED <<token, subUsed, record>>

MoveToken(r, d) ==
  /\ token' = token - d
  /\ net' = [net EXCEPT ![r].token = @ + d]
  /\ UNCHANGED <<wallet, subUsed, record>>

\* TryReserveUserQuota: the check and the debit are one atomic operation.
WalletReserveOK(q) == q = 0 \/ wallet >= q

\* increaseUserQuota refuses a credit that would pass MaxWalletQuota.
WalletIncreaseOK(q) == wallet <= WalletCap - q

\* TryReserveTokenQuota: unlimited tokens skip the balance check.
TokenReserveOK(r, q) == q = 0 \/ session[r].info.unlimited \/ token >= q

\* postConsumeUserSubscriptionDeltaTx: floor at zero, refuse above the total.
NewUsed(d) == Max2(subUsed + d, 0)

SubDeltaOK(d) == SubTotal = 0 \/ NewUsed(d) <= SubTotal

MoveSub(r, d) ==
  /\ subUsed' = NewUsed(d)
  /\ net' = [net EXCEPT ![r].subscription = @ + (NewUsed(d) - subUsed)]

-----------------------------------------------------------------------------
(* NewBillingSession: choose the funding source, falling back as the user  *)
(* prefers, and pre-consume.                                               *)

\* Where an "insufficient user quota" error of one source leads.
Fallback(pref, source) ==
  CASE pref = "wallet_first" /\ source = "wallet" -> {"subscription"}
    [] pref = "subscription_first" /\ source = "subscription" -> {"wallet", "none"}
    [] OTHER -> {"none"}

\* The source tried first; subscription_first asks HasActiveUserSubscription.
FirstSource(pref) ==
  CASE pref = "subscription_only" -> {"subscription"}
    [] pref \in {"wallet_only", "wallet_first"} -> {"wallet"}
    [] OTHER -> Sources

NewBillingSession(r) ==
  /\ session[r].pc = "new"
  /\ \E source \in FirstSource(session[r].info.pref), q \in Quotas :
       session' = [session EXCEPT ![r] =
         [Fresh(@, source, "try") EXCEPT !.quota = q,
            !.tokenTrusted = session[r].info.unlimited \/ token > TrustQuota]]
  /\ NoMove
  /\ UNCHANGED topups

FallenBack(s, next, lost) ==
  [(IF next = "none" THEN [s EXCEPT !.pc = "rejected"] ELSE Fresh(s, next, "try"))
     EXCEPT !.lostToken = s.lostToken \/ lost]

\* UserActiveSubscriptionsAllowWalletOverflow answers either way.
GoFallback(r, lost) ==
  \E next \in Fallback(session[r].info.pref, session[r].source) :
    session' = [session EXCEPT ![r] = FallenBack(session[r], next, lost)]

\* shouldTrust on the balances the request has read, not the current ones.
ShouldTrust(s, userQuota) ==
  /\ ~s.info.force
  /\ TrustQuota > 0
  /\ s.tokenTrusted
  /\ s.source = "wallet"
  /\ userQuota > TrustQuota

\* tryWallet up to the first reservation.
TryWallet(r) ==
  LET s == session[r]
      trust == ShouldTrust(s, wallet)
  IN /\ s.pc = "try" /\ s.source = "wallet"
     /\ IF wallet <= 0 \/ wallet < s.quota
        THEN GoFallback(r, FALSE)
        ELSE session' = [session EXCEPT ![r] =
               [@ EXCEPT !.pc = "preToken", !.trusted = trust,
                         !.delta = IF trust THEN 0 ELSE s.quota]]
     /\ NoMove
     /\ UNCHANGED topups

\* trySubscription reserves at least one unit, so that a record exists.
TrySubscription(r) ==
  LET s == session[r]
  IN /\ s.pc = "try" /\ s.source = "subscription"
     /\ session' = [session EXCEPT ![r] =
          [@ EXCEPT !.pc = "preToken", !.delta = Max2(s.quota, 1)]]
     /\ NoMove
     /\ UNCHANGED topups

\* preConsume, part 1: the token.  A failure here is final, without fallback.
PreConsumeToken(r) ==
  LET s == session[r]
      charge == IF s.info.playground THEN 0 ELSE s.delta
  IN /\ s.pc = "preToken"
     /\ \/ /\ TokenReserveOK(r, charge)
           /\ MoveToken(r, charge)
           /\ session' = [session EXCEPT ![r] =
                [@ EXCEPT !.pc = "preFunding", !.tokenConsumed = s.delta]]
        \/ /\ charge > 0
           /\ ~TokenReserveOK(r, charge) \/ MayFail("token")
           /\ NoMove
           /\ Goto(r, "rejected")
     /\ UNCHANGED topups

\* Mutant: a failed funding reservation rejects without returning the token's.
PreConsumeWallet_NoRollback(r) ==
  LET s == session[r]
  IN /\ s.pc = "preFunding" /\ s.source = "wallet"
     /\ \/ /\ WalletReserveOK(s.delta)
           /\ MoveWallet(r, s.delta)
           /\ session' = [session EXCEPT ![r] =
                [@ EXCEPT !.pc = "open", !.preConsumed = s.delta, !.consumed = s.delta]]
        \/ /\ s.delta > 0
           /\ ~WalletReserveOK(s.delta) \/ MayFail("walletReserve")
           /\ NoMove
           /\ Goto(r, "rejected")
     /\ UNCHANGED topups

\* preConsume, part 2: the funding source.
PreConsumeWallet(r) ==
  LET s == session[r]
  IN /\ s.pc = "preFunding" /\ s.source = "wallet"
     /\ \/ /\ WalletReserveOK(s.delta)
           /\ MoveWallet(r, s.delta)
           /\ session' = [session EXCEPT ![r] =
                [@ EXCEPT !.pc = "open", !.preConsumed = s.delta, !.consumed = s.delta]]
        \/ /\ s.delta > 0
           /\ NoMove
           /\ \/ ~WalletReserveOK(s.delta) /\ Goto(r, "rollbackFallback")
              \/ MayFail("walletReserve") /\ Goto(r, "rollbackReject")
     /\ UNCHANGED topups

\* "no active subscription" and "quota insufficient" allow the fallback; the
\* subscription may have ended since it was looked up.
PreConsumeSubscription(r) ==
  LET s == session[r]
  IN /\ s.pc = "preFunding" /\ s.source = "subscription"
     /\ \/ /\ SubTotal = 0 \/ SubTotal - subUsed >= s.delta
           /\ MoveSub(r, s.delta)
           /\ record' = [record EXCEPT ![r] = [status |-> "consumed", amount |-> s.delta]]
           /\ session' = [session EXCEPT ![r] =
                [@ EXCEPT !.pc = "open", !.preConsumed = s.delta, !.subPre = s.delta]]
           /\ UNCHANGED <<wallet, token>>
        \/ NoMove /\ Goto(r, "rollbackFallback")
        \/ MayFail("subReserve") /\ NoMove /\ Goto(r, "rollbackReject")
     /\ UNCHANGED topups

\* Mutant: the fallback starts without returning the token reservation.
RollbackToken_Forgotten(r) ==
  /\ session[r].pc \in {"rollbackFallback", "rollbackReject"}
  /\ IF session[r].pc = "rollbackFallback" THEN GoFallback(r, FALSE) ELSE Goto(r, "rejected")
  /\ NoMove
  /\ UNCHANGED topups

\* The token reservation is returned, then the error decides: another source
\* or rejection.  A return that fails is only logged.
RollbackToken(r) ==
  LET s == session[r]
      back == IF s.info.playground THEN 0 ELSE s.tokenConsumed
      After(lost) ==
        IF s.pc = "rollbackFallback"
        THEN GoFallback(r, lost)
        ELSE session' = [session EXCEPT ![r] = FallenBack(s, "none", lost)]
  IN /\ s.pc \in {"rollbackFallback", "rollbackReject"}
     /\ \/ MoveToken(r, -back) /\ After(FALSE)
        \/ MayFail("token") /\ back > 0 /\ NoMove /\ After(TRUE)
     /\ UNCHANGED topups

-----------------------------------------------------------------------------
(* Reserve: raise the reservation to a target before an attempt.  A call   *)
(* that changes nothing is a stuttering step.                              *)

Reserve(r, target) ==
  LET s == session[r]
  IN /\ s.pc = "open"
     /\ ~s.settled /\ ~s.refunded
     /\ ~s.trusted \/ s.info.image
     /\ target > s.preConsumed
     /\ session' = [session EXCEPT ![r] =
          [@ EXCEPT !.pc = "reserveFunding", !.delta = target - s.preConsumed]]
     /\ NoMove
     /\ UNCHANGED topups

\* An image request reserves what the wallet holds, through PreConsume.
ReserveImageWallet(r) ==
  LET s == session[r]
  IN /\ s.pc = "reserveFunding" /\ s.source = "wallet" /\ s.info.image
     /\ \/ /\ WalletReserveOK(s.delta)
           /\ MoveWallet(r, s.delta)
           /\ session' = [session EXCEPT ![r] =
                [@ EXCEPT !.pc = "reserveToken", !.consumed = s.delta]]
        \/ /\ ~WalletReserveOK(s.delta) \/ MayFail("walletReserve")
           /\ NoMove
           /\ Goto(r, "fail")
     /\ UNCHANGED topups

\* Any other request debits the wallet without a check: the balance may become
\* a debt, but never differs from what the session recorded.
ReserveWallet(r) ==
  LET s == session[r]
  IN /\ s.pc = "reserveFunding" /\ s.source = "wallet" /\ ~s.info.image
     /\ \/ /\ MoveWallet(r, s.delta)
           /\ session' = [session EXCEPT ![r] =
                [@ EXCEPT !.pc = "reserveToken", !.consumed = s.consumed + s.delta]]
        \/ MayFail("walletDec") /\ NoMove /\ Goto(r, "fail")
        \/ MayFail("clamp") /\ MoveWallet(r, s.delta) /\ Goto(r, "fail")
     /\ UNCHANGED topups

ReserveSubscription(r) ==
  LET s == session[r]
  IN /\ s.pc = "reserveFunding" /\ s.source = "subscription"
     /\ \/ /\ SubDeltaOK(s.delta)
           /\ MoveSub(r, s.delta)
           /\ Goto(r, "reserveToken")
           /\ UNCHANGED <<wallet, token, record>>
        \/ /\ ~SubDeltaOK(s.delta) \/ MayFail("subDelta")
           /\ NoMove
           /\ Goto(r, "fail")
     /\ UNCHANGED topups

ReserveToken(r) ==
  LET s == session[r]
      charge == IF s.info.playground THEN 0 ELSE s.delta
  IN /\ s.pc = "reserveToken"
     /\ \/ /\ TokenReserveOK(r, charge)
           /\ MoveToken(r, charge)
           /\ session' = [session EXCEPT ![r] =
                [@ EXCEPT !.pc = "open",
                          !.preConsumed = s.preConsumed + s.delta,
                          !.tokenConsumed = s.tokenConsumed + s.delta,
                          !.extraReserved = s.extraReserved + s.delta,
                          !.trusted = s.trusted /\ ~s.info.image]]
        \/ /\ charge > 0
           /\ ~TokenReserveOK(r, charge) \/ MayFail("token")
           /\ NoMove
           /\ Goto(r, "rollbackReserve")
     /\ UNCHANGED topups

\* rollbackFundingReserve; every Reserve error ends the request.
RollbackReserve(r) ==
  LET s == session[r]
      fail == [s EXCEPT !.pc = "fail"]
  IN /\ s.pc = "rollbackReserve"
     /\ \/ /\ s.source = "wallet" /\ WalletIncreaseOK(s.delta)
           /\ MoveWallet(r, -s.delta)
           /\ session' = [session EXCEPT ![r] = [fail EXCEPT !.consumed = s.consumed - s.delta]]
        \/ /\ s.source = "wallet" /\ (~WalletIncreaseOK(s.delta) \/ MayFail("walletInc"))
           /\ NoMove
           /\ session' = [session EXCEPT ![r] = fail]
        \/ /\ s.source = "subscription"
           /\ MoveSub(r, -s.delta)
           /\ session' = [session EXCEPT ![r] = fail]
           /\ UNCHANGED <<wallet, token, record>>
        \/ /\ s.source = "subscription" /\ MayFail("subDelta")
           /\ NoMove
           /\ session' = [session EXCEPT ![r] = [fail EXCEPT !.lostFunding = TRUE]]
     /\ UNCHANGED topups

-----------------------------------------------------------------------------
(* Settle: charge the real cost, then let the relay loop decide.  A later  *)
(* error (a response interception) may retry or fail a request whose       *)
(* session is already settled.                                             *)

\* Mutant: Settle without its "already settled" return.
Settle_Again(r, actual) ==
  LET s == session[r]
      delta == actual - s.preConsumed
  IN /\ s.pc = "open"
     /\ session' = [session EXCEPT ![r] =
          [@ EXCEPT !.pc = IF s.fundingSettled THEN "settleToken" ELSE "settleFunding",
                    !.delta = delta, !.actual = actual]]
     /\ NoMove
     /\ UNCHANGED topups

Settle(r, actual) ==
  LET s == session[r]
      delta == actual - s.preConsumed
  IN /\ s.pc = "open"
     /\ session' = [session EXCEPT ![r] =
          IF s.settled THEN [@ EXCEPT !.pc = "returned"]
          ELSE IF delta = 0
            THEN [@ EXCEPT !.pc = "returned", !.settled = TRUE, !.actual = actual]
            ELSE [@ EXCEPT !.pc = IF s.fundingSettled THEN "settleToken" ELSE "settleFunding",
                           !.delta = delta, !.actual = actual]]
     /\ NoMove
     /\ UNCHANGED topups

\* WalletFunding.Settle: the debit or credit, then ClampUserChargedQuota.
SettleWallet(r) ==
  LET s == session[r]
      ok == s.delta > 0 \/ WalletIncreaseOK(-s.delta)
      op == IF s.delta > 0 THEN "walletDec" ELSE "walletInc"
  IN /\ s.pc = "settleFunding" /\ s.source = "wallet"
     /\ \/ /\ ok
           /\ MoveWallet(r, s.delta)
           /\ session' = [session EXCEPT ![r] =
                [@ EXCEPT !.pc = "settleToken", !.fundingSettled = TRUE]]
        \/ /\ ~ok \/ MayFail(op)
           /\ NoMove
           /\ Goto(r, "returned")
        \/ /\ ok /\ MayFail("clamp")
           /\ MoveWallet(r, s.delta)
           /\ Goto(r, "returned")
     /\ UNCHANGED topups

SettleSubscription(r) ==
  LET s == session[r]
  IN /\ s.pc = "settleFunding" /\ s.source = "subscription"
     /\ \/ /\ SubDeltaOK(s.delta)
           /\ MoveSub(r, s.delta)
           /\ session' = [session EXCEPT ![r] =
                [@ EXCEPT !.pc = "settleToken", !.fundingSettled = TRUE]]
           /\ UNCHANGED <<wallet, token, record>>
        \/ /\ ~SubDeltaOK(s.delta) \/ MayFail("subDelta")
           /\ NoMove
           /\ Goto(r, "returned")
     /\ UNCHANGED topups

\* The funding is committed, so an error on the token still settles.
SettleToken(r) ==
  LET s == session[r]
      settled == [s EXCEPT !.pc = "returned", !.settled = TRUE]
  IN /\ s.pc = "settleToken"
     /\ \/ /\ MoveToken(r, IF s.info.playground THEN 0 ELSE s.delta)
           /\ session' = [session EXCEPT ![r] = settled]
        \/ /\ MayFail("token") /\ ~s.info.playground
           /\ NoMove
           /\ session' = [session EXCEPT ![r] = [settled EXCEPT !.lostToken = TRUE]]
     /\ UNCHANGED topups

\* The handler returned: the response stands, or the interception rejects it
\* and the loop retries on another channel or gives up.  A task (force) was
\* stored before it settled and is never refunded here.
Finish(r) ==
  /\ session[r].pc = "returned"
  /\ \E next \in IF session[r].info.force THEN {"done"} ELSE {"done", "open", "fail"} :
       Goto(r, next)
  /\ NoMove
  /\ UNCHANGED topups

\* The last attempt failed upstream before anything was settled by it.
AttemptsFailed(r) ==
  /\ session[r].pc = "open"
  /\ Goto(r, "fail")
  /\ NoMove
  /\ UNCHANGED topups

-----------------------------------------------------------------------------
(* Refund: decided once under the session lock, executed by a goroutine    *)
(* that runs after the request has returned to its client.                 *)

NeedsRefund(s) ==
  /\ ~s.settled /\ ~s.refunded /\ ~s.fundingSettled
  /\ s.tokenConsumed > 0 \/ (s.source = "subscription" /\ s.subPre > 0)

Refund(r) ==
  /\ session[r].pc = "fail"
  /\ session' = [session EXCEPT ![r] =
       IF NeedsRefund(@)
       THEN [@ EXCEPT !.pc = "done", !.refunded = TRUE, !.refund = "funding"]
       ELSE [@ EXCEPT !.pc = "done"]]
  /\ NoMove
  /\ UNCHANGED topups

\* WalletFunding.Refund: a credit is not idempotent and is tried once.
RefundWallet(r) ==
  LET s == session[r]
      next == [s EXCEPT !.refund = "token"]
  IN /\ s.refund = "funding" /\ s.source = "wallet"
     /\ \/ /\ s.consumed <= 0
           /\ NoMove
           /\ session' = [session EXCEPT ![r] = next]
        \/ /\ s.consumed > 0 /\ WalletIncreaseOK(s.consumed)
           /\ MoveWallet(r, -s.consumed)
           /\ session' = [session EXCEPT ![r] = next]
        \/ /\ s.consumed > 0
           /\ ~WalletIncreaseOK(s.consumed) \/ MayFail("walletInc")
           /\ NoMove
           /\ session' = [session EXCEPT ![r] = [next EXCEPT !.lostFunding = TRUE]]
     /\ UNCHANGED topups

\* Mutant: the refund does not look at the status of its record.
RefundRecord_Unguarded(r) ==
  /\ MoveSub(r, -record[r].amount)
  /\ record' = [record EXCEPT ![r].status = "refunded"]

\* RefundSubscriptionPreConsume: the record makes a repeated call harmless.
RefundRecord(r) ==
  IF record[r].status = "refunded"
  THEN UNCHANGED <<subUsed, record, net>>
  ELSE /\ MoveSub(r, -record[r].amount)
       /\ record' = [record EXCEPT ![r].status = "refunded"]

\* Mutant: refundWithRetry without a limit on its attempts.
RefundSubscription_Forever(r) ==
  LET s == session[r]
  IN /\ s.refund = "funding" /\ s.source = "subscription"
     /\ \/ /\ RefundRecord(r)
           /\ session' = [session EXCEPT ![r] = [@ EXCEPT !.refund = "extra"]]
        \/ /\ MayFail("subRefund")
           /\ session' = [session EXCEPT ![r] = [@ EXCEPT !.tries = 1 - @]]
           /\ UNCHANGED <<subUsed, record, net>>
     /\ UNCHANGED <<wallet, token, topups>>

\* SubscriptionFunding.Refund through refundWithRetry.
RefundSubscription(r) ==
  LET s == session[r]
      again == [s EXCEPT !.tries = @ + 1]
      Retry(lost) ==
        IF s.tries + 1 < MaxAttempts THEN again
        ELSE [again EXCEPT !.refund = "extra", !.lostFunding = lost]
  IN /\ s.refund = "funding" /\ s.source = "subscription"
     /\ \/ /\ RefundRecord(r)
           /\ session' = [session EXCEPT ![r] = [@ EXCEPT !.refund = "extra"]]
        \/ /\ MayFail("subRefundAck")
           /\ RefundRecord(r)
           /\ session' = [session EXCEPT ![r] = Retry(s.lostFunding)]
        \/ /\ MayFail("subRefund")
           /\ UNCHANGED <<subUsed, record, net>>
           /\ session' = [session EXCEPT ![r] =
                Retry(s.lostFunding \/ record[r].status # "refunded")]
     /\ UNCHANGED <<wallet, token, topups>>

\* Mutant: only the recorded pre-consumption is refunded.
RefundExtra_Skipped(r) ==
  /\ session[r].refund = "extra"
  /\ session' = [session EXCEPT ![r].refund = "token"]
  /\ NoMove
  /\ UNCHANGED topups

\* What Reserve added to a subscription is not in the record.
RefundExtra(r) ==
  LET s == session[r]
      next == [s EXCEPT !.refund = "token"]
  IN /\ s.refund = "extra"
     /\ \/ /\ s.extraReserved = 0
           /\ NoMove
           /\ session' = [session EXCEPT ![r] = next]
        \/ /\ s.extraReserved > 0
           /\ MoveSub(r, -s.extraReserved)
           /\ session' = [session EXCEPT ![r] = next]
           /\ UNCHANGED <<wallet, token, record>>
        \/ /\ s.extraReserved > 0 /\ MayFail("subDelta")
           /\ NoMove
           /\ session' = [session EXCEPT ![r] = [next EXCEPT !.lostFunding = TRUE]]
     /\ UNCHANGED topups

RefundToken(r) ==
  LET s == session[r]
      back == IF s.info.playground THEN 0 ELSE s.tokenConsumed
      next == [s EXCEPT !.refund = "done"]
  IN /\ s.refund = "token"
     /\ \/ /\ MoveToken(r, -back)
           /\ session' = [session EXCEPT ![r] = next]
        \/ /\ back > 0 /\ MayFail("token")
           /\ NoMove
           /\ session' = [session EXCEPT ![r] = [next EXCEPT !.lostToken = TRUE]]
     /\ UNCHANGED topups

-----------------------------------------------------------------------------
\* A payment credited while requests run; it obeys the same wallet cap.
TopUp(q) ==
  /\ q \in topups
  /\ WalletIncreaseOK(q)
  /\ wallet' = wallet + q
  /\ topups' = topups \ {q}
  /\ UNCHANGED <<token, subUsed, record, session, net>>

Init ==
  /\ wallet = InitialWallet
  /\ token = InitialToken
  /\ subUsed = InitialUsed
  /\ record = [r \in Requests |-> [status |-> "none", amount |-> 0]]
  /\ topups = TopUps
  /\ \E info \in [Requests -> Profiles] :
       session = [r \in Requests |->
         [pc |-> "new", refund |-> "none", info |-> info[r], source |-> "wallet", quota |-> 0,
          tokenTrusted |-> FALSE, delta |-> 0, actual |-> 0, tries |-> 0, preConsumed |-> 0,
          tokenConsumed |-> 0, extraReserved |-> 0, trusted |-> FALSE,
          fundingSettled |-> FALSE, settled |-> FALSE, refunded |-> FALSE,
          consumed |-> 0, subPre |-> 0, lostFunding |-> FALSE, lostToken |-> FALSE]]
  /\ net = [r \in Requests |-> [wallet |-> 0, subscription |-> 0, token |-> 0]]

\* One step of the request goroutine of r.
RequestStep(r) ==
  \/ NewBillingSession(r) \/ TryWallet(r) \/ TrySubscription(r)
  \/ PreConsumeToken(r) \/ PreConsumeWallet(r) \/ PreConsumeSubscription(r)
  \/ RollbackToken(r)
  \/ \E q \in Quotas : Reserve(r, q) \/ Settle(r, q)
  \/ ReserveImageWallet(r) \/ ReserveWallet(r) \/ ReserveSubscription(r)
  \/ ReserveToken(r) \/ RollbackReserve(r)
  \/ SettleWallet(r) \/ SettleSubscription(r) \/ SettleToken(r)
  \/ Finish(r) \/ AttemptsFailed(r) \/ Refund(r)

\* One step of its refund goroutine.
RefundStep(r) ==
  RefundWallet(r) \/ RefundSubscription(r) \/ RefundExtra(r) \/ RefundToken(r)

Next ==
  \/ \E r \in Requests : RequestStep(r) \/ RefundStep(r)
  \/ \E q \in TopUps : TopUp(q)

\* A scheduled goroutine keeps running; requests may hang on their upstream.
Fairness == \A r \in Requests : WF_vars(RefundStep(r))

Spec == Init /\ [][Next]_vars /\ Fairness

-----------------------------------------------------------------------------
(* Properties *)

\* What request r has taken from the source that funds it, and from its token.
Funded(r) == IF session[r].source = "wallet" THEN net[r].wallet ELSE net[r].subscription

\* What the token should carry when the funding carries q.
TokenShare(r, q) == IF session[r].info.playground THEN 0 ELSE q

\* While a request waits for its upstream, the reservation recorded in the
\* session is exactly what wallet, subscription and token were charged, after
\* any fallback, raise or retry (billing_session.go:268-270, 430-431).
ReservationReconciled ==
  \A r \in Requests :
    LET s == session[r]
    IN s.pc = "open" /\ ~s.settled =>
         /\ net[r].wallet = IF s.source = "wallet" THEN s.preConsumed ELSE 0
         /\ net[r].subscription = IF s.source = "subscription" THEN s.preConsumed ELSE 0
         /\ ~s.lostToken => net[r].token = TokenShare(r, s.preConsumed)

\* A settled request has paid exactly its real cost, once, whatever was
\* reserved and however often Settle ran (BillingSession.Settle).
SettledExactly ==
  \A r \in Requests :
    LET s == session[r]
    IN s.settled => /\ Funded(r) = s.actual
                    /\ ~s.lostToken => net[r].token = TokenShare(r, s.actual)

\* A refund that met no storage error returns all that was taken
\* (FundingSource.Refund: "退还所有预扣费").
RefundReturnsAllPreConsumed ==
  \A r \in Requests :
    LET s == session[r]
    IN s.refund = "done" => /\ s.lostFunding \/ Funded(r) = 0
                            /\ s.lostToken \/ net[r].token = 0

\* No order of settlements, rollbacks, retries and refunds, with any storage
\* error in between, gives a request back more than it paid.
NeverOverRefunded ==
  \A r \in Requests :
    net[r].wallet >= 0 /\ net[r].subscription >= 0 /\ net[r].token >= 0

\* A rejected request keeps nothing on any ledger: each failed pre-consumption
\* was rolled back before the fallback (billing_session.go:196-197).
RejectedPaysNothing ==
  \A r \in Requests :
    LET s == session[r]
    IN s.pc = "rejected" => /\ net[r].wallet = 0 /\ net[r].subscription = 0
                            /\ s.lostToken \/ net[r].token = 0

\* A refund that was decided completes although its request is gone.
RefundCompletes ==
  \A r \in Requests : session[r].refunded ~> session[r].refund = "done"

-----------------------------------------------------------------------------
(* The inductive invariant behind the properties, one request at a time.   *)

\* Nothing has been taken from a funding source yet.
Unfunded == {"new", "try", "preToken", "preFunding", "rollbackFallback",
             "rollbackReject", "rejected"}

\* The amount the token is charged at a control point before settlement.
TokenDue(s) ==
  IF s.pc \in {"preFunding", "rollbackFallback", "rollbackReject"} THEN s.tokenConsumed
  ELSE IF s.pc \in Unfunded THEN 0 ELSE s.preConsumed

\* The amount its funding source is charged before settlement, from below.
FundingDue(s) ==
  IF s.pc \in Unfunded THEN 0
  ELSE IF s.pc \in {"reserveToken", "rollbackReserve"} THEN s.preConsumed + s.delta
  ELSE s.preConsumed

\* What the goroutines of request r know and hold, for its session s, its
\* history n and its subscription record c.
Share(s, q) == IF s.info.playground THEN 0 ELSE q

FundedBy(s, n) == IF s.source = "wallet" THEN n.wallet ELSE n.subscription

Unused(s, n) == IF s.source = "wallet" THEN n.subscription ELSE n.wallet

StageInv(s) ==
  /\ s.pc \in Unfunded => /\ s.preConsumed = 0 /\ s.extraReserved = 0
                          /\ s.consumed = 0 /\ s.subPre = 0
  /\ s.pc \in {"preToken", "preFunding", "rollbackFallback", "rollbackReject",
               "reserveFunding", "reserveToken", "rollbackReserve"} => s.delta >= 0
  /\ s.pc \in {"preFunding", "rollbackFallback", "rollbackReject"} => s.tokenConsumed = s.delta
  /\ s.settled => s.pc \in {"open", "returned", "fail", "done"}
  /\ s.fundingSettled => s.pc = "settleToken" \/ s.settled
  /\ s.pc = "settleToken" => s.fundingSettled
  /\ s.pc \in {"settleFunding", "settleToken"} => s.delta = s.actual - s.preConsumed
  /\ s.refunded => s.pc = "done" /\ ~s.settled
  /\ (s.refund # "none") <=> s.refunded
  /\ s.refund = "none" => s.tries = 0
  /\ s.refund = "funding" => s.tries < MaxAttempts
  /\ s.refund = "extra" => s.source = "subscription"

\* Before settlement and refund the ledgers carry what the session recorded.
HoldInv(s, n) ==
  ~s.settled /\ s.pc # "settleToken" /\ s.refund = "none" =>
    /\ FundedBy(s, n) >= FundingDue(s)
    /\ s.pc \notin {"fail", "done"} => FundedBy(s, n) = FundingDue(s)
    /\ n.token >= Share(s, TokenDue(s))
    /\ ~s.lostToken => n.token = Share(s, TokenDue(s))

\* What a refund will subtract is covered by what was taken.
CoverInv(s, n, c) ==
  ~s.settled /\ s.pc # "settleToken" /\ s.pc \notin Unfunded =>
    /\ s.source = "wallet" /\ s.refund \in {"none", "funding"} => FundedBy(s, n) >= s.consumed
    /\ s.source = "subscription" =>
         /\ c.amount = s.subPre
         /\ s.refund = "none" => c.status = "consumed" /\ s.preConsumed = s.subPre + s.extraReserved
         /\ s.refund \in {"none", "funding"} /\ c.status # "refunded" =>
              FundedBy(s, n) >= s.subPre + s.extraReserved
         /\ s.refund \in {"funding", "extra"} => FundedBy(s, n) >= s.extraReserved
    /\ s.refund \notin {"none", "done"} => n.token >= Share(s, s.tokenConsumed)
    /\ s.tokenConsumed = s.preConsumed
    /\ s.pc \in {"reserveToken", "rollbackReserve"} /\ s.source = "wallet" => s.consumed >= s.delta

RequestInv(s, n, c) ==
  /\ n.wallet >= 0 /\ n.subscription >= 0 /\ n.token >= 0
  /\ Unused(s, n) = 0
  /\ s.pc = "settleToken" => n.token >= Share(s, s.preConsumed)
  /\ StageInv(s) /\ HoldInv(s, n) /\ CoverInv(s, n, c)

\* Inductive unless "clamp" is among the faults: a settlement whose clamp fails
\* has moved the wallet without recording it.
IInv == TypeOK /\ \A r \in Requests : RequestInv(session[r], net[r], record[r])

-----------------------------------------------------------------------------
(* What makes settlement and refund exact, beyond IInv.                    *)

\* The funding carries the real cost from the moment it is settled, the token
\* once its step was made.
SettledInv(s, n) ==
  /\ (s.settled \/ s.pc = "settleToken") => FundedBy(s, n) = s.actual
  /\ s.pc = "settleToken" /\ ~s.lostToken => n.token = Share(s, s.preConsumed)
  /\ s.settled /\ ~s.lostToken => n.token = Share(s, s.actual)

\* What a refund has still to return to the funding source.
Owed(s, c) ==
  IF s.refund \in {"token", "done"} THEN 0
  ELSE IF s.source = "wallet" THEN s.consumed
  ELSE (IF s.refund = "extra" \/ c.status = "refunded" THEN 0 ELSE s.subPre)
         + s.extraReserved
         + (IF s.pc \in {"reserveToken", "rollbackReserve"} THEN s.delta ELSE 0)

\* An unsettled request holds what its refund will return: not an image request
\* on the wallet, whose second raise forgets the first.
ReturnInv(s, n, c) ==
  ~s.settled /\ s.pc # "settleToken" /\ s.pc \notin Unfunded =>
    /\ \/ s.source = "wallet" /\ s.info.image
       \/ s.lostFunding
       \/ FundedBy(s, n) = Owed(s, c)
    /\ s.refund # "none" =>
         \/ s.lostToken
         \/ n.token = IF s.refund = "done" THEN 0 ELSE Share(s, s.tokenConsumed)

\* No request holds more of the subscription than is used, so the floor of a
\* subscription delta never cuts a return short.
SubCovers == \A r \in Requests : net[r].subscription <= subUsed

ExactInv ==
  /\ SubCovers
  /\ \A r \in Requests : /\ session[r].info \in Profiles
                         /\ SettledInv(session[r], net[r])
                         /\ ReturnInv(session[r], net[r], record[r])

=============================================================================
