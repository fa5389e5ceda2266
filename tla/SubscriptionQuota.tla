-------------------------- MODULE SubscriptionQuota --------------------------
(***************************************************************************)
(* The quota of a user's running subscriptions over their reset periods    *)
(* (model/subscription.go): requests reserve, settle and refund while the  *)
(* maintenance pass, the requests themselves and an administrator reset    *)
(* the used amount.  Each transaction locks the rows it writes and is one  *)
(* step; the clock is read before it, so it may be old.                    *)
(***************************************************************************)
EXTENDS Integers

CONSTANTS
  Running,       \* the user's subscriptions, numbered by their end
  TotalOf,       \* subscription -> amount_total
  EndOf,         \* subscription -> end_time
  Period,        \* quota_reset_custom_seconds
  SubRequests,   \* requests paid by a subscription
  SubAmounts,    \* what a request may reserve, and settle at
  MaxNow,        \* bound on time
  MaxAdminResets \* bound on an administrator's resets

ASSUME SubscriptionQuotaAssumption ==
  /\ Running \subseteq Nat /\ Period \in Nat \ {0}
  /\ TotalOf \in [Running -> Nat \ {0}] /\ EndOf \in [Running -> Nat]
  /\ SubAmounts \subseteq Nat \ {0} /\ MaxNow \in Nat /\ MaxAdminResets \in Nat

VARIABLES
  now,        \* the database's clock; every subscription began at StartTime
  quotaRow,   \* amount_used, last_reset_time and next_reset_time of each row
  request,    \* each request, and what it has reserved
  resetPass,  \* ResetDueSubscriptions
  adminReset, \* an administrator's reset: how many were begun, and since when
  resets,     \* history: resets of each row, by a boundary or not
  taken,      \* history: net amount that requests of this period have taken
  late        \* history: amount returned in this period by earlier requests

subQuotaVars == <<now, quotaRow, request, resetPass, adminReset, resets, taken, late>>

StartTime == 1

NotYet == [pc |-> "new"]

NoPass == [pc |-> "idle"]

SubQuotaTypeOK ==
  /\ now \in StartTime..MaxNow
  /\ quotaRow \in [Running -> [used: Nat, last: 0..MaxNow, next: Nat]]
  /\ resets \in [Running -> [auto: Nat, all: Nat, setBack: BOOLEAN]]
  /\ taken \in [Running -> Int] /\ late \in [Running -> Nat]

\* calcNextResetTime: no reset after the end.
NextReset(s, base) == IF base + Period > EndOf[s] THEN 0 ELSE base + Period

IsActive(s, at) == EndOf[s] > at

\* How many boundaries after base have passed.
Passed(s, base, at) ==
  LET last == IF at < EndOf[s] THEN at ELSE EndOf[s]
  IN IF last < base THEN 0 ELSE (last - base) \div Period

\* Mutant: a reset keeps the boundary it was due at.
Advanced_Stays(s, row, base, at) == [row EXCEPT !.used = 0]

\* The row after a reset: the last boundary that has passed, and the next one.
Advanced(s, row, base, at) ==
  LET last == base + Period * Passed(s, base, at)
  IN [used |-> 0, last |-> last, next |-> NextReset(s, last)]

\* maybeResetUserSubscriptionWithPlanTx.
MaybeReset(s, at) ==
  LET row == quotaRow[s]
      base == IF row.last > 0 THEN row.last ELSE StartTime
  IN IF row.next > 0 /\ row.next > at THEN row
     ELSE IF Passed(s, base, at) > 0 THEN Advanced(s, row, base, at)
     ELSE IF row.next = 0 /\ NextReset(s, base) > 0
     THEN [row EXCEPT !.next = NextReset(s, base), !.last = base]
     ELSE row

\* Whether that was a reset.
Resets(s, at) ==
  LET row == quotaRow[s]
      base == IF row.last > 0 THEN row.last ELSE StartTime
  IN (row.next = 0 \/ row.next <= at) /\ Passed(s, base, at) > 0

\* The rows of S are reset at a boundary.
CountResets(S) ==
  resets' = [s \in Running |-> IF s \in S THEN [resets[s] EXCEPT !.auto = @ + 1, !.all = @ + 1]
                                          ELSE resets[s]]

-----------------------------------------------------------------------------
(* Requests *)

\* PreConsumeUserSubscription reads the clock, then begins its transaction.
PreConsumeStart(r, a) ==
  /\ request[r].pc = "new"
  /\ request' = [request EXCEPT ![r] = [pc |-> "pre", amount |-> a, at |-> now]]
  /\ UNCHANGED <<now, quotaRow, resetPass, adminReset, resets, taken, late>>

\* Mutant: any rest is enough.
Enough_AnyRest(s, amount, at) == TotalOf[s] > MaybeReset(s, at).used

Enough(s, amount, at) == TotalOf[s] - MaybeReset(s, at).used >= amount

\* The first subscription to end that has enough left; those before it are reset
\* as well.  Without one the transaction, resets included, is rolled back.
PreConsume(r) ==
  LET amount == request[r].amount
      at == request[r].at
      fit == {s \in Running : IsActive(s, at) /\ Enough(s, amount, at)}
  IN /\ request[r].pc = "pre"
     /\ \/ /\ fit = {}
           /\ request' = [request EXCEPT ![r] = [pc |-> "done"]]
           /\ UNCHANGED <<quotaRow, resets, taken, late>>
        \/ \E s \in fit :
             LET tried == {t \in Running : IsActive(t, at) /\ t <= s}
                 reset == {t \in tried : Resets(t, at)}
             IN /\ \A t \in fit : s <= t
                /\ quotaRow' = [t \in Running |->
                     LET row == IF t \in tried THEN MaybeReset(t, at) ELSE quotaRow[t]
                     IN IF t = s THEN [row EXCEPT !.used = @ + amount] ELSE row]
                /\ CountResets(reset)
                /\ request' = [request EXCEPT ![r] =
                     [pc |-> "held", amount |-> amount, sub |-> s,
                      period |-> resets'[s].all]]
                /\ taken' = [t \in Running |-> (IF t \in reset THEN 0 ELSE taken[t])
                                               + (IF t = s THEN amount ELSE 0)]
                /\ late' = [t \in Running |-> IF t \in reset THEN 0 ELSE late[t]]
     /\ UNCHANGED <<now, resetPass, adminReset>>

Fits(s, used) == used <= TotalOf[s]

\* What is left of the used amount: a reset may have cleared it before a refund.
Floored(n) == IF n < 0 THEN 0 ELSE n

\* postConsumeUserSubscriptionDeltaTx settles a request, or refunds all of it;
\* what would exceed the total is an error and changes nothing.
PostConsumeDelta(r, delta) ==
  LET s == request[r].sub
      used == Floored(quotaRow[s].used + delta)
      same == request[r].period = resets[s].all
  IN /\ request[r].pc = "held"
     /\ request' = [request EXCEPT ![r] = [pc |-> "done"]]
     /\ \/ /\ Fits(s, used)
           /\ quotaRow' = [quotaRow EXCEPT ![s].used = used]
           /\ taken' = IF same THEN [taken EXCEPT ![s] = @ + delta] ELSE taken
           /\ late' = IF ~same /\ delta < 0 THEN [late EXCEPT ![s] = @ - delta] ELSE late
        \/ ~Fits(s, used) /\ UNCHANGED <<quotaRow, taken, late>>
     /\ UNCHANGED <<now, resetPass, adminReset, resets>>

SettleRequest(r) == \E actual \in SubAmounts : PostConsumeDelta(r, actual - request[r].amount)

RefundRequest(r) == PostConsumeDelta(r, -request[r].amount)

-----------------------------------------------------------------------------
(* Resets *)

Forget(S) ==
  /\ taken' = [s \in Running |-> IF s \in S THEN 0 ELSE taken[s]]
  /\ late' = [s \in Running |-> IF s \in S THEN 0 ELSE late[s]]

\* ResetDueSubscriptions lists the rows that are due.
ResetStart ==
  LET due == {s \in Running : quotaRow[s].next > 0 /\ quotaRow[s].next <= now}
  IN /\ resetPass.pc = "idle" /\ due # {}
     /\ resetPass' = [pc |-> "reset", at |-> now, due |-> due]
     /\ UNCHANGED <<now, quotaRow, request, adminReset, resets, taken, late>>

\* Each row is locked and looked at again before it is reset.
ResetOne(s) ==
  /\ resetPass.pc = "reset" /\ s \in resetPass.due
  /\ resetPass' = IF resetPass.due = {s} THEN NoPass
                  ELSE [resetPass EXCEPT !.due = @ \ {s}]
  /\ \/ /\ quotaRow[s].next > 0 /\ quotaRow[s].next <= resetPass.at
        /\ quotaRow' = [quotaRow EXCEPT ![s] = MaybeReset(s, resetPass.at)]
        /\ LET reset == {t \in {s} : Resets(t, resetPass.at)}
           IN CountResets(reset) /\ Forget(reset)
     \/ /\ quotaRow[s].next = 0 \/ quotaRow[s].next > resetPass.at
        /\ UNCHANGED <<quotaRow, resets, taken, late>>
  /\ UNCHANGED <<now, request, adminReset>>

\* AdminResetUserSubscriptionsByPlan reads the clock, then begins its transaction.
AdminResetStart ==
  /\ adminReset.at = 0 /\ adminReset.begun < MaxAdminResets
  /\ adminReset' = [begun |-> adminReset.begun + 1, at |-> now]
  /\ UNCHANGED <<now, quotaRow, request, resetPass, resets, taken, late>>

\* adminResetUserSubscriptionsByPlanTx: an advancing reset begins a period at the
\* time read, and clears both times when no boundary is left before the end.
AdminReset(advance) ==
  LET at == adminReset.at
      S == {s \in Running : IsActive(s, at)}
      Row(s) == IF ~advance THEN [quotaRow[s] EXCEPT !.used = 0]
                ELSE [used |-> 0, next |-> NextReset(s, at),
                      last |-> IF NextReset(s, at) > 0 THEN at ELSE 0]
  IN /\ at > 0
     /\ adminReset' = [adminReset EXCEPT !.at = 0]
     /\ quotaRow' = [s \in Running |-> IF s \in S THEN Row(s) ELSE quotaRow[s]]
     /\ resets' = [s \in Running |-> IF s \notin S THEN resets[s]
          ELSE [resets[s] EXCEPT !.all = @ + 1,
                                 !.setBack = @ \/ Row(s).last < quotaRow[s].last]]
     /\ Forget(S)
     /\ UNCHANGED <<now, request, resetPass>>

SubQuotaTick ==
  /\ now < MaxNow /\ now' = now + 1
  /\ UNCHANGED <<quotaRow, request, resetPass, adminReset, resets, taken, late>>

SubQuotaInit ==
  /\ now = StartTime
  /\ quotaRow = [s \in Running |->
       [used |-> 0, next |-> NextReset(s, StartTime),
        last |-> IF NextReset(s, StartTime) > 0 THEN StartTime ELSE 0]]
  /\ request = [r \in SubRequests |-> NotYet]
  /\ resetPass = NoPass /\ adminReset = [begun |-> 0, at |-> 0]
  /\ resets = [s \in Running |-> [auto |-> 0, all |-> 0, setBack |-> FALSE]]
  /\ taken = [s \in Running |-> 0] /\ late = [s \in Running |-> 0]

SubQuotaNext ==
  \/ \E r \in SubRequests :
       \/ \E a \in SubAmounts : PreConsumeStart(r, a)
       \/ PreConsume(r) \/ SettleRequest(r) \/ RefundRequest(r)
  \/ ResetStart \/ \E s \in Running : ResetOne(s)
  \/ AdminResetStart \/ \E advance \in BOOLEAN : AdminReset(advance)
  \/ SubQuotaTick

SubQuotaSpec == SubQuotaInit /\ [][SubQuotaNext]_subQuotaVars

-----------------------------------------------------------------------------
(* Properties *)

\* Requests of one period never take more than the subscription's total from it,
\* but for what requests of an earlier period have given back in this one: the
\* reset has already forgotten what they had taken
\* (postConsumeUserSubscriptionDeltaTx).
PeriodBounded == \A s \in Running : taken[s] <= TotalOf[s] + late[s]

\* A subscription is reset at most once for each boundary that has passed,
\* whoever notices it first and however old the clock reading is, unless an
\* administrator's reset has set the times back: those it clears are taken from
\* the start of the subscription again, and a late one can undo a newer reset.
OneResetPerPeriod ==
  \A s \in Running : ~resets[s].setBack => resets[s].auto <= (now - StartTime) \div Period

=============================================================================
