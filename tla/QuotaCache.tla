----------------------------- MODULE QuotaCache -----------------------------
(***************************************************************************)
(* One user's wallet: the users row, the quota field of the Redis hash     *)
(* (model/quota_reserve.go, model/user_cache.go), the batch updater's      *)
(* store (model/utils.go) and the calls that change them: reservations,    *)
(* debits and credits of settlements, redemption codes and paid orders.    *)
(* One step per statement or Redis script.  The version fence of the same  *)
(* hash is UserAuthCache.                                                  *)
(***************************************************************************)
EXTENDS Integers, FiniteSetsExt

CONSTANTS
  QuotaCalls,     \* goroutines that change the wallet
  BatchModes,     \* values of BatchUpdateEnabled to consider
  Amounts,        \* quota one call moves
  InitialQuota,
  WalletCap,      \* MaxWalletQuota
  Vouchers,       \* redemption codes and orders: "code", "order"
  VoucherQuota,   \* what a voucher is worth
  MaxCalls,       \* bound on the calls of a behaviour
  MaxErrors       \* bound on the errors and crashes of a behaviour

ASSUME QuotaCacheAssumption ==
  /\ IsFiniteSet(QuotaCalls)
  /\ BatchModes \subseteq BOOLEAN
  /\ Amounts \subseteq Nat \ {0}
  /\ InitialQuota \in Nat /\ WalletCap \in Nat /\ VoucherQuota \in Nat \ {0}
  /\ Vouchers \subseteq {"code", "order"}
  /\ MaxCalls \in Nat /\ MaxErrors \in Nat

VARIABLES
  batch,     \* BatchUpdateEnabled
  dbQuota,   \* users.quota
  store,     \* batchUpdateStores: what is still to be added to the row
  flushing,  \* what batchUpdate has taken out of the store
  copy,      \* the hash's quota field
  moving,    \* the calls
  voucher,   \* each voucher's row
  owed,      \* history: the balance the callers have been told of
  spent,     \* history: debits of settlements, which need no balance
  lost,      \* history: what failed flushes and crashes have lost, and what was debited
             \* although the caller was told that the debit had failed
  doubtful,  \* history: a wrong copy, a fallback beside it or a loss has occurred
  calls,     \* calls so far
  errors     \* errors so far

quotaVars == <<batch, dbQuota, store, flushing, copy, moving, voucher, owed, spent, lost,
               doubtful, calls, errors>>

\* exact: the copy was filled with the balance, while no change was under way,
\* and no error has touched it since.
NoCopy == [present |-> FALSE, quota |-> 0, exact |-> TRUE]

Copy == [present: BOOLEAN, quota: Int, exact: BOOLEAN]

MovingPC == {"idle", "reserve", "hydrate", "fill", "retry", "fallback", "persist",
             "compensate", "credit", "debit", "redeem", "redeemTx", "order", "orderTx"}

\* seen: the row's quota as read by a fill.  delta: what the call, or the
\* goroutine it started, has still to add to the copy.
Moving == [pc: MovingPC, amount: Nat, seen: Int, delta: Int]

QuotaTypeOK ==
  /\ batch \in BOOLEAN
  /\ dbQuota \in Int /\ store \in Int /\ flushing \in Int
  /\ copy \in Copy
  /\ moving \in [QuotaCalls -> Moving]
  /\ voucher \in [Vouchers -> [used: BOOLEAN, locked: BOOLEAN, paid: Nat]]
  /\ owed \in Int /\ spent \in Nat /\ lost \in Int /\ doubtful \in BOOLEAN
  /\ calls \in 0..MaxCalls /\ errors \in 0..MaxErrors

NotMoving == [pc |-> "idle", amount |-> 0, seen |-> 0, delta |-> 0]

-----------------------------------------------------------------------------
(* The ledger, and what the copy should say about it.                      *)

Ledger == dbQuota + store + flushing

\* What a call has done to the copy and not to the ledger, or the other way.
Due(c) ==
  -moving[c].delta
    - (IF moving[c].pc \in {"persist", "compensate", "debit"} THEN moving[c].amount ELSE 0)

Expected == Ledger + MapThenSumSet(Due, QuotaCalls)

\* No change is under way: the row is the balance.
AtRest == Ledger = dbQuota /\ \A c \in QuotaCalls : Due(c) = 0

-----------------------------------------------------------------------------
Erring == errors < MaxErrors /\ errors' = errors + 1

Smooth == errors' = errors

QuotaGo(c, m) == moving' = [moving EXCEPT ![c] = m]

GoTo(c, pc) == QuotaGo(c, [moving[c] EXCEPT !.pc = pc])

\* The call is over, but for a goroutine that updates the copy.
MoveDone(c) == QuotaGo(c, [NotMoving EXCEPT !.delta = moving[c].delta])

\* The caller learns that its change of d was made.
Told(d) == owed' = owed + d

\* An error that loses n of the ledger, or leaves the copy wrong.
Spoil(n) == /\ copy' = [copy EXCEPT !.exact = ~copy.present]
            /\ doubtful' = (doubtful \/ copy.present \/ n # 0)

-----------------------------------------------------------------------------
(* TryReserveUserQuota *)

StartCall(c, kind, a) ==
  /\ moving[c] = NotMoving /\ calls < MaxCalls
  /\ kind \in {"redeem", "order"} => a = VoucherQuota
  /\ QuotaGo(c, [NotMoving EXCEPT !.pc = kind, !.amount = a,
                             !.delta = IF kind = "debit" THEN -a ELSE 0])
  /\ calls' = calls + 1
  /\ Smooth
  /\ UNCHANGED <<batch, dbQuota, store, flushing, copy, voucher, owed, spent, lost, doubtful>>

\* Mutant: one unit more than the copy holds may be reserved.
Covers_OffByOne(a) == copy.quota >= a - 1

Covers(a) == copy.quota >= a

\* The reservation script; a miss is followed by one fill and one more try.
ReserveCopy(c) ==
  LET m == moving[c]
  IN /\ m.pc \in {"reserve", "retry"}
     /\ \/ /\ copy.present /\ Covers(m.amount) /\ Smooth
           /\ copy' = [copy EXCEPT !.quota = @ - m.amount]
           /\ GoTo(c, "persist")
        \/ /\ copy.present /\ ~Covers(m.amount) /\ Smooth
           /\ MoveDone(c) /\ UNCHANGED copy
        \/ /\ ~copy.present /\ Smooth
           /\ GoTo(c, IF m.pc = "reserve" THEN "hydrate" ELSE "fallback")
           /\ UNCHANGED copy
        \/ Erring /\ GoTo(c, "fallback") /\ UNCHANGED copy
     /\ UNCHANGED <<batch, dbQuota, store, flushing, voucher, owed, spent, lost, doubtful, calls>>

\* GetUserCache after a miss: the row is read, then the copy is filled.
Hydrate(c) ==
  /\ moving[c].pc = "hydrate"
  /\ \/ Smooth /\ QuotaGo(c, [moving[c] EXCEPT !.pc = "fill", !.seen = dbQuota])
     \/ Erring /\ GoTo(c, "fallback")
  /\ UNCHANGED <<batch, dbQuota, store, flushing, copy, voucher, owed, spent, lost, doubtful, calls>>

\* Mutant: a fill overwrites the quota of a copy that is there.
FilledCopy_Overwrites(n) == [present |-> TRUE, quota |-> n, exact |-> copy.exact]

\* writeUserCache sets the quota only when the hash has none.
FilledCopy(n) ==
  IF copy.present THEN copy ELSE [present |-> TRUE, quota |-> n, exact |-> n = dbQuota /\ AtRest]

QuotaFill(c) ==
  /\ moving[c].pc = "fill"
  /\ \/ /\ Smooth
        /\ copy' = FilledCopy(moving[c].seen)
        /\ doubtful' = (doubtful \/ ~FilledCopy(moving[c].seen).exact)
     \/ Erring /\ UNCHANGED <<copy, doubtful>>
  /\ QuotaGo(c, [moving[c] EXCEPT !.pc = "retry", !.seen = 0])
  /\ UNCHANGED <<batch, dbQuota, store, flushing, voucher, owed, spent, lost, calls>>

\* reserveUserQuotaDB: the copy, if there is one again, is not reduced.
ReserveRow(c) ==
  LET a == moving[c].amount
  IN /\ moving[c].pc = "fallback" /\ MoveDone(c)
     /\ \/ /\ dbQuota >= a /\ Smooth
           /\ dbQuota' = dbQuota - a
           /\ Told(-a)
           /\ copy' = [copy EXCEPT !.exact = ~copy.present]
           /\ doubtful' = (doubtful \/ copy.present \/ ~AtRest)
        \/ /\ (dbQuota < a /\ Smooth) \/ Erring
           /\ UNCHANGED <<dbQuota, owed, copy, doubtful>>
     /\ UNCHANGED <<batch, store, flushing, voucher, spent, lost, calls>>

\* addNewRecord, or the row at once.
Change(d) ==
  IF batch THEN store' = store + d /\ UNCHANGED dbQuota ELSE dbQuota' = dbQuota + d /\ UNCHANGED store

\* persistUserQuotaDelta
Persist(c) ==
  LET a == moving[c].amount
  IN /\ moving[c].pc = "persist"
     /\ \/ Change(-a) /\ Told(-a) /\ MoveDone(c) /\ Smooth
        \/ ~batch /\ Erring /\ GoTo(c, "compensate") /\ UNCHANGED <<dbQuota, store, owed>>
     /\ UNCHANGED <<batch, flushing, copy, voucher, spent, lost, doubtful, calls>>

\* The copy gets the amount back, unless it is gone or Redis fails.
Compensate(c) ==
  /\ moving[c].pc = "compensate" /\ MoveDone(c)
  /\ \/ /\ Smooth /\ UNCHANGED doubtful
        /\ copy' = IF copy.present THEN [copy EXCEPT !.quota = @ + moving[c].amount] ELSE copy
     \/ Erring /\ Spoil(0)
  /\ UNCHANGED <<batch, dbQuota, store, flushing, voucher, owed, spent, lost, calls>>

-----------------------------------------------------------------------------
(* IncreaseUserQuota, DecreaseUserQuota, Redeem, RechargeEpay.             *)

\* The row is credited below the cap; the store knows no cap.  A goroutine
\* then updates the copy.
Credit(c) ==
  LET a == moving[c].amount
  IN /\ moving[c].pc = "credit"
     /\ \/ /\ batch \/ dbQuota <= WalletCap - a
           /\ Smooth
           /\ Change(a) /\ Told(a)
           /\ QuotaGo(c, [NotMoving EXCEPT !.delta = a])
        \/ /\ ~batch
           /\ (dbQuota > WalletCap - a /\ Smooth) \/ Erring
           /\ MoveDone(c) /\ UNCHANGED <<dbQuota, store, owed>>
     /\ UNCHANGED <<batch, flushing, copy, voucher, spent, lost, doubtful, calls>>

\* The goroutine that lowers the copy has been started before.  On the row,
\* clampChargedQuota is a second statement: when it fails the debit has been
\* made and the caller is told that it has not.
Debit(c) ==
  LET a == moving[c].amount
  IN /\ moving[c].pc = "debit" /\ MoveDone(c)
     /\ \/ /\ Change(-a) /\ Told(-a) /\ spent' = spent + a /\ Smooth
           /\ UNCHANGED <<copy, doubtful, lost>>
        \/ /\ ~batch /\ Erring /\ Spoil(0)
           /\ UNCHANGED <<dbQuota, store, owed, spent, lost>>
        \/ /\ ~batch /\ Erring
           /\ Change(-a) /\ spent' = spent + a /\ lost' = lost + a
           /\ UNCHANGED <<copy, doubtful, owed>>
     /\ UNCHANGED <<batch, flushing, voucher, calls>>

\* cacheApplyUserQuotaDelta: nothing happens without a copy.
ApplyDelta(c) ==
  /\ moving[c].delta # 0
  /\ QuotaGo(c, [moving[c] EXCEPT !.delta = 0])
  /\ \/ /\ Smooth /\ UNCHANGED doubtful
        /\ copy' = IF copy.present THEN [copy EXCEPT !.quota = @ + moving[c].delta] ELSE copy
     \/ Erring /\ Spoil(0)
  /\ UNCHANGED <<batch, dbQuota, store, flushing, voucher, owed, spent, lost, calls>>

\* The transaction reads the code, without a lock on SQLite, or locks the order.
OpenVoucher(c) ==
  \E v \in Vouchers :
    /\ moving[c].pc = (IF v = "code" THEN "redeem" ELSE "order")
    /\ ~voucher[v].locked
    /\ \/ /\ ~voucher[v].used
          /\ voucher' = [voucher EXCEPT ![v].locked = v = "order"]
          /\ GoTo(c, IF v = "code" THEN "redeemTx" ELSE "orderTx")
       \/ voucher[v].used /\ MoveDone(c) /\ UNCHANGED voucher
    /\ Smooth
    /\ UNCHANGED <<batch, dbQuota, store, flushing, copy, owed, spent, lost, doubtful, calls>>

\* Mutant: the code's status is not compared again.
StillUnused_Unchecked(v) == TRUE

\* The code's update compares its status; the order's row is locked.
StillUnused(v) == v = "code" => ~voucher[v].used

\* The voucher is used and the row credited in one transaction, or neither.
CommitVoucher(c) ==
  \E v \in Vouchers :
    /\ moving[c].pc = (IF v = "code" THEN "redeemTx" ELSE "orderTx")
    /\ \/ /\ StillUnused(v) /\ dbQuota <= WalletCap - moving[c].amount
          /\ Smooth
          /\ voucher' = [voucher EXCEPT ![v] =
                           [used |-> TRUE, locked |-> FALSE, paid |-> @.paid + moving[c].amount]]
          /\ dbQuota' = dbQuota + moving[c].amount
          /\ Told(moving[c].amount)
          /\ QuotaGo(c, [NotMoving EXCEPT !.delta = moving[c].amount])
       \/ /\ (~(StillUnused(v) /\ dbQuota <= WalletCap - moving[c].amount) /\ Smooth) \/ Erring
          /\ voucher' = [voucher EXCEPT ![v].locked = FALSE]
          /\ MoveDone(c) /\ UNCHANGED <<dbQuota, owed>>
    /\ UNCHANGED <<batch, store, flushing, copy, spent, lost, doubtful, calls>>

-----------------------------------------------------------------------------
(* The batch updater, expiry and crashes.                                  *)

\* Mutant: the store is emptied after the update instead of before.
FlushTake_KeepsStore ==
  /\ batch /\ flushing = 0 /\ store # 0
  /\ flushing' = store
  /\ Smooth
  /\ UNCHANGED <<batch, dbQuota, store, copy, moving, voucher, owed, spent, lost, doubtful, calls>>

\* batchUpdate swaps the store under its lock.
FlushTake ==
  /\ batch /\ flushing = 0 /\ store # 0
  /\ flushing' = store /\ store' = 0
  /\ Smooth
  /\ UNCHANGED <<batch, dbQuota, copy, moving, voucher, owed, spent, lost, doubtful, calls>>

\* An update that fails is logged and what it should have added is gone.
FlushApply ==
  /\ flushing # 0 /\ flushing' = 0
  /\ \/ dbQuota' = dbQuota + flushing /\ Smooth /\ UNCHANGED <<lost, copy, doubtful>>
     \/ Erring /\ lost' = lost + flushing /\ Spoil(flushing) /\ UNCHANGED dbQuota
  /\ UNCHANGED <<batch, store, moving, voucher, owed, spent, calls>>

\* The hash's TTL ends, or it is invalidated.
ExpireCopy ==
  /\ copy.present
  /\ copy' = NoCopy
  /\ Smooth
  /\ UNCHANGED <<batch, dbQuota, store, flushing, moving, voucher, owed, spent, lost, doubtful, calls>>

\* The node stops: calls, goroutines and the store are gone, open transactions
\* are rolled back.
NodeCrash ==
  /\ Erring
  /\ moving' = [c \in QuotaCalls |-> NotMoving]
  /\ voucher' = [v \in Vouchers |-> [voucher[v] EXCEPT !.locked = FALSE]]
  /\ store' = 0 /\ flushing' = 0
  /\ lost' = lost + store + flushing
  /\ Spoil(store + flushing)
  /\ UNCHANGED <<batch, dbQuota, owed, spent, calls>>

QuotaInit ==
  /\ batch \in BatchModes
  /\ dbQuota = InitialQuota /\ store = 0 /\ flushing = 0
  /\ copy = NoCopy
  /\ moving = [c \in QuotaCalls |-> NotMoving]
  /\ voucher = [v \in Vouchers |-> [used |-> FALSE, locked |-> FALSE, paid |-> 0]]
  /\ owed = InitialQuota /\ spent = 0 /\ lost = 0 /\ doubtful = FALSE
  /\ calls = 0 /\ errors = 0

MoveStep(c) ==
  \/ ReserveCopy(c) \/ Hydrate(c) \/ QuotaFill(c) \/ ReserveRow(c) \/ Persist(c) \/ Compensate(c)
  \/ Credit(c) \/ Debit(c) \/ ApplyDelta(c) \/ OpenVoucher(c) \/ CommitVoucher(c)

QuotaNext ==
  \/ \E c \in QuotaCalls :
       \/ \E kind \in {"reserve", "credit", "debit"} \cup
                      (IF "code" \in Vouchers THEN {"redeem"} ELSE {}) \cup
                      (IF "order" \in Vouchers THEN {"order"} ELSE {}),
             a \in Amounts \cup {VoucherQuota} : StartCall(c, kind, a)
       \/ MoveStep(c)
  \/ FlushTake \/ FlushApply \/ ExpireCopy \/ NodeCrash

QuotaSpec == QuotaInit /\ [][QuotaNext]_quotaVars

-----------------------------------------------------------------------------
(* Properties *)

\* Nothing is lost or counted twice on the way to the row: what the row, the
\* store and a flush hold is what the callers were told, less what a failed
\* flush or a crash has lost and what was debited although the caller was told
\* otherwise (decreaseUserQuota returns the error of clampChargedQuota after its
\* update), however calls and flushes interleave.
Conserved == owed = Ledger + lost

\* A copy that was right when it was filled stays right under reservations,
\* settlements, redemptions and flushes in any order, up to what calls under
\* way have still to do.
CopyExact == copy.present /\ copy.exact => copy.quota = Expected

\* Reservations never spend what the user does not have ("TryReserveUserQuota
\* atomically checks and deducts"), as long as no copy was wrong, no fallback to
\* the row overtook a change under way and no flush was lost; debits of
\* settlements may.
NoOverdraft == ~doubtful => Ledger + spent >= 0

\* A code or an order pays once, however many calls present it ("the same
\* order is credited at most once").
PaidOnce == \A v \in Vouchers : voucher[v].paid <= VoucherQuota

=============================================================================
