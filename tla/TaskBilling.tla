---------------------------- MODULE TaskBilling ----------------------------
(***************************************************************************)
(* The life of one asynchronous task (video, music) and of the quota       *)
(* charged for it: the submission of controller/relay.go, the polling and  *)
(* sweeping passes of service/task_polling.go, which may overlap when a    *)
(* pass outlives its lease, the real-time fetch of relay/relay_task.go and *)
(* the settlements and refunds of service/task_billing.go.  Rows of        *)
(* different tasks are independent, so one is enough.                      *)
(*                                                                         *)
(* Every actor works on a COPY of the row it read, and writes the whole    *)
(* copy back if the row still has the status it read (UpdateWithStatus).   *)
(***************************************************************************)
EXTENDS Integers

CONSTANTS
  Pollers,      \* polling passes that may overlap
  Fetchers,     \* users' real-time fetches
  Prices,       \* quotas a task may cost
  Reserved,     \* what the request had reserved when upstream accepted it
  Kinds,        \* how the task is billed, a subset of BillingKind
  Origins,      \* whether the task predates timeout refunds, a subset of BOOLEAN
  MaxFailures,  \* TaskPollMaxFailures; 0 means no limit
  TimedOut,     \* whether the task is older than TaskTimeoutMinutes
  MaxFetches,   \* bound on the real-time fetches
  Faults        \* what may go wrong, a subset of FaultKind

BillingKind == {"tiered", "per_call", "usage"}

FaultKind == {"settle", "funding", "clamp", "token", "quota", "crash", "channel", "progress"}

ASSUME TaskBillingAssumption ==
  /\ Pollers \cap Fetchers = {}
  /\ Prices \subseteq Nat
  /\ Reserved \in Nat
  /\ Kinds \subseteq BillingKind
  /\ Origins \subseteq BOOLEAN
  /\ MaxFailures \in Nat
  /\ TimedOut \in BOOLEAN
  /\ MaxFetches \in Nat
  /\ Faults \subseteq FaultKind

VARIABLES
  row,      \* the tasks row
  charge,   \* quota taken for this task: funding, token, usage statistics
  submit,   \* the submitting request
  actor,    \* each pass and each fetch at work on this task
  fetches   \* real-time fetches so far

vars == <<row, charge, submit, actor, fetches>>

Unfinished == {"NOT_START", "IN_PROGRESS"}

Terminal == {"SUCCESS", "FAILURE"}

Row == [status: {"none"} \cup Unfinished \cup Terminal,
        full: BOOLEAN,      \* progress = "100%"
        quota: Nat, failures: Nat, kind: BillingKind, legacy: BOOLEAN]

\* "poll" and "sweep": the row was read and upstream is asked; "bill" and
\* "refund": the outcome is stored; "token" and "quota": the funding was moved
\* by delta.
ActorPC == {"idle", "sweep", "poll", "fetch", "bill", "refund", "token", "quota"}

Actor == [pc: ActorPC, copy: Row, from: Unfinished \cup Terminal, delta: Int]

TypeOK ==
  /\ row \in Row
  /\ charge \in [funding: Int, token: Int, used: Int]
  /\ submit \in [pc: {"reserved", "settle", "over"}, quota: Nat, surplus: Nat]
  /\ actor \in [Pollers \cup Fetchers -> Actor]
  /\ fetches \in 0..MaxFetches

Max2(a, b) == IF a >= b THEN a ELSE b

-----------------------------------------------------------------------------
(* executeTaskSubmissionWith, from the reservation on.                     *)

\* Reserve raises the reservation to the task's quota, then the row is inserted;
\* upstream may already have finished the task, and a failed one costs nothing.
Insert(status, full, quota, kind, legacy) ==
  /\ submit.pc = "reserved"
  /\ status = "FAILURE" => quota = 0
  /\ full /\ status \in Unfinished => "progress" \in Faults
  /\ row' = [status |-> status, full |-> full, quota |-> quota,
             failures |-> 0, kind |-> kind, legacy |-> legacy]
  /\ charge' = [funding |-> Max2(Reserved, quota), token |-> Max2(Reserved, quota), used |-> 0]
  /\ submit' = [pc |-> "settle", quota |-> quota, surplus |-> Max2(Reserved, quota) - quota]
  /\ UNCHANGED <<actor, fetches>>

\* Upstream, the reservation or the insertion failed, or the client went away:
\* the deferred refund returns the whole reservation and no row is left.
GiveUp ==
  /\ submit.pc = "reserved"
  /\ charge' = [charge EXCEPT !.funding = 0, !.token = 0]
  /\ submit' = [submit EXCEPT !.pc = "over"]
  /\ UNCHANGED <<row, actor, fetches>>

\* SettleBilling returns what was reserved beyond the quota; the consumption is
\* added to the statistics only when that succeeded.  When it fails the funding
\* may have been moved: the clamp or the token comes after it.
Settle ==
  /\ submit.pc = "settle"
  /\ \/ charge' = [charge EXCEPT !.funding = @ - submit.surplus, !.token = @ - submit.surplus,
                                 !.used = @ + submit.quota]
     \/ "settle" \in Faults /\ UNCHANGED charge
     \/ "settle" \in Faults /\ charge' = [charge EXCEPT !.funding = @ - submit.surplus]
  /\ submit' = [pc |-> "over", quota |-> 0, surplus |-> 0]
  /\ UNCHANGED <<row, actor, fetches>>

-----------------------------------------------------------------------------
(* The passes: sweepTimedOutTasks and RunTaskPollingOnce.                  *)

\* The queries of both select rows that are neither terminal nor at 100%.
Selected == row.status \in Unfinished /\ ~row.full

Load(a, pc) ==
  /\ actor[a].pc = "idle"
  /\ actor' = [actor EXCEPT ![a] = [pc |-> pc, copy |-> row, from |-> row.status, delta |-> 0]]
  /\ UNCHANGED <<row, charge, submit>>

LoadTimedOut(a) == TimedOut /\ Selected /\ Load(a, "sweep") /\ UNCHANGED fetches

LoadUnfinished(a) == Selected /\ Load(a, "poll") /\ UNCHANGED fetches

Done(a) == [actor[a] EXCEPT !.pc = "idle"]

\* Mutant: the copy is saved whatever the row has become.
UpdateWithStatus_NoCAS(a, copy, pc) ==
  /\ row' = copy
  /\ actor' = [actor EXCEPT ![a] = [Done(a) EXCEPT !.pc = pc, !.copy = copy]]

\* UpdateWithStatus: the whole copy is written if the status is the one read.
UpdateWithStatus(a, copy, pc) ==
  IF row.status = actor[a].from
  THEN /\ row' = copy
       /\ actor' = [actor EXCEPT ![a] = [Done(a) EXCEPT !.pc = pc, !.copy = copy]]
  ELSE /\ row' = row
       /\ actor' = [actor EXCEPT ![a] = Done(a)]

Failed(copy) == [copy EXCEPT !.status = "FAILURE", !.full = TRUE]

\* Mutant: the status to compare with is taken after it was overwritten.
Sweep_LateStatus(a) ==
  /\ actor[a].pc = "sweep"
  /\ actor' = [actor EXCEPT ![a] = Done(a)]
  /\ UNCHANGED <<row, charge, submit, fetches>>

\* Mutant: a timed-out task is failed and not refunded.
Sweep_NoRefund(a) ==
  /\ actor[a].pc = "sweep"
  /\ UpdateWithStatus(a, Failed(actor[a].copy), "idle")
  /\ UNCHANGED <<charge, submit, fetches>>

\* A task from before timeout refunds loses its quota with the failure.
Sweep(a) ==
  LET copy == Failed(actor[a].copy)
  IN /\ actor[a].pc = "sweep"
     /\ IF copy.legacy
        THEN UpdateWithStatus(a, [copy EXCEPT !.quota = 0], "idle")
        ELSE UpdateWithStatus(a, copy, "refund")
     /\ UNCHANGED <<charge, submit, fetches>>

\* recordPollFailure: one more failed poll, of which MaxFailures fail the task.
\* Without a limit nobody reads the counter, and it is left at 0.
PollFails(a) ==
  LET n == actor[a].copy.failures + 1
      copy == [actor[a].copy EXCEPT !.failures = IF MaxFailures = 0 THEN 0 ELSE n]
  IN /\ actor[a].pc = "poll"
     /\ IF MaxFailures > 0 /\ n >= MaxFailures
        THEN UpdateWithStatus(a, Failed(copy), "bill")
        ELSE UpdateWithStatus(a, copy, "idle")
     /\ UNCHANGED <<charge, submit, fetches>>

\* failTaskFromPoll: upstream does not know the task any more.
PollGone(a) ==
  /\ actor[a].pc = "poll"
  /\ UpdateWithStatus(a, Failed(actor[a].copy), "bill")
  /\ UNCHANGED <<charge, submit, fetches>>

\* The channel is gone: TaskBulkUpdateByID fails the row without looking at it.
PollNoChannel(a) ==
  /\ "channel" \in Faults /\ actor[a].pc = "poll"
  /\ row' = Failed(row)
  /\ actor' = [actor EXCEPT ![a] = Done(a)]
  /\ UNCHANGED <<charge, submit, fetches>>

\* Upstream says the task is still running, perhaps with a progress of 100%.
PollRunning(a, status, full) ==
  /\ actor[a].pc = "poll"
  /\ full => "progress" \in Faults
  /\ UpdateWithStatus(a, [actor[a].copy EXCEPT !.status = status, !.full = full, !.failures = 0],
                      "idle")
  /\ UNCHANGED <<charge, submit, fetches>>

\* Upstream says it is finished; only the winner of the update bills it.
PollFinished(a, status) ==
  /\ actor[a].pc = "poll"
  /\ UpdateWithStatus(a, [actor[a].copy EXCEPT !.status = status, !.full = TRUE], "bill")
  /\ UNCHANGED <<charge, submit, fetches>>

-----------------------------------------------------------------------------
(* finalizeTerminalTask, RecalculateTaskQuota and RefundTaskQuota.         *)

\* The quotas the billing may settle on.  The sweep refunds.  After a poll a
\* failed task is refunded unless its usage is billed, and a successful one
\* keeps its quota or, unless it is billed per call, pays what it used.
Targets(a) ==
  LET task == actor[a].copy
  IN CASE actor[a].pc = "refund" -> {0}
       [] actor[a].pc # "refund" /\ task.status = "FAILURE" ->
            {0} \cup (IF task.kind = "usage" THEN Prices ELSE {})
       [] OTHER -> {task.quota} \cup (IF task.kind = "per_call" THEN {} ELSE Prices)

\* taskAdjustFunding; when it fails nothing else happens and the quota stays.  A
\* debit whose clamp fails is made and reported as failed.
Bill(a, target) ==
  LET delta == target - actor[a].copy.quota
  IN /\ actor[a].pc \in {"bill", "refund"}
     /\ \/ /\ delta = 0 \/ "funding" \in Faults
           /\ actor' = [actor EXCEPT ![a] = Done(a)]
           /\ UNCHANGED charge
        \/ /\ delta > 0 /\ "clamp" \in Faults
           /\ actor' = [actor EXCEPT ![a] = Done(a)]
           /\ charge' = [charge EXCEPT !.funding = @ + delta]
        \/ /\ delta # 0
           /\ charge' = [charge EXCEPT !.funding = @ + delta]
           /\ actor' = [actor EXCEPT ![a].pc = "token", ![a].delta = delta,
                                     ![a].copy.quota = target]
     /\ UNCHANGED <<row, submit, fetches>>

\* Mutant: only refunds reach the token, not additional charges.
BillToken_RefundOnly(a) ==
  /\ actor[a].pc = "token"
  /\ charge' = IF actor[a].delta < 0 THEN [charge EXCEPT !.token = @ + actor[a].delta] ELSE charge
  /\ actor' = [actor EXCEPT ![a].pc = "quota"]
  /\ UNCHANGED <<row, submit, fetches>>

\* taskAdjustTokenQuota: a deleted token or an error is only logged.
BillToken(a) ==
  /\ actor[a].pc = "token"
  /\ \/ charge' = [charge EXCEPT !.token = @ + actor[a].delta]
     \/ "token" \in Faults /\ UNCHANGED charge
  /\ actor' = [actor EXCEPT ![a].pc = "quota"]
  /\ UNCHANGED <<row, submit, fetches>>

\* Mutant: the settled quota is not written back to the row.
BillQuota_NotStored(a) ==
  /\ actor[a].pc = "quota"
  /\ charge' = [charge EXCEPT !.used = @ + actor[a].delta]
  /\ actor' = [actor EXCEPT ![a] = Done(a)]
  /\ UNCHANGED <<row, submit, fetches>>

\* UpdateQuota writes that one column; the usage statistics are corrected.
BillQuota(a) ==
  /\ actor[a].pc = "quota"
  /\ charge' = [charge EXCEPT !.used = @ + actor[a].delta]
  /\ \/ row' = [row EXCEPT !.quota = actor[a].copy.quota]
     \/ "quota" \in Faults /\ UNCHANGED row
  /\ actor' = [actor EXCEPT ![a] = Done(a)]
  /\ UNCHANGED <<submit, fetches>>

\* A pass ends early: its node stops, its context is cancelled or its update
\* returns an error; nobody takes up where it stopped.
Crash(a) ==
  /\ "crash" \in Faults /\ actor[a].pc # "idle"
  /\ actor' = [actor EXCEPT ![a] = Done(a)]
  /\ UNCHANGED <<row, charge, submit, fetches>>

-----------------------------------------------------------------------------
(* tryRealtimeFetch: a user's query asks upstream and stores its answer.   *)

FetchLoad(f) ==
  /\ row.status # "none" /\ fetches < MaxFetches
  /\ Load(f, "fetch")
  /\ fetches' = fetches + 1

\* Whatever upstream says replaces status and progress; nobody is billed.  When
\* the answer changes nothing, the URL of the result included, nothing is written.
FetchAnswer(f, status, full) ==
  LET copy == [actor[f].copy EXCEPT !.status = status, !.full = full]
  IN /\ actor[f].pc = "fetch"
     /\ \/ UpdateWithStatus(f, copy, "idle")
        \/ copy = actor[f].copy /\ actor' = [actor EXCEPT ![f] = Done(f)] /\ UNCHANGED row
     /\ UNCHANGED <<charge, submit, fetches>>

-----------------------------------------------------------------------------
NoRow == [status |-> "none", full |-> FALSE, quota |-> 0, failures |-> 0,
          kind |-> "usage", legacy |-> FALSE]

Init ==
  /\ row = NoRow
  /\ charge = [funding |-> Reserved, token |-> Reserved, used |-> 0]
  /\ submit = [pc |-> "reserved", quota |-> 0, surplus |-> 0]
  /\ actor = [a \in Pollers \cup Fetchers |->
       [pc |-> "idle", copy |-> NoRow, from |-> "NOT_START", delta |-> 0]]
  /\ fetches = 0

SubmitStep ==
  \/ \E quota \in Prices \cup {0}, kind \in Kinds, legacy \in Origins :
       \E status \in Unfinished \cup Terminal, full \in BOOLEAN :
         Insert(status, full, quota, kind, legacy)
  \/ GiveUp \/ Settle

\* A step of a pass that has read the row.
PollStep(a) ==
  \/ Sweep(a) \/ PollFails(a) \/ PollGone(a) \/ PollNoChannel(a)
  \/ \E status \in Unfinished, full \in BOOLEAN : PollRunning(a, status, full)
  \/ \E status \in Terminal : PollFinished(a, status)

BillStep(a) ==
  \/ \E target \in Targets(a) : Bill(a, target)
  \/ BillToken(a) \/ BillQuota(a)

FetchStep(f) ==
  \/ FetchLoad(f)
  \/ \E status \in Unfinished \cup Terminal, full \in BOOLEAN : FetchAnswer(f, status, full)

Next ==
  \/ SubmitStep
  \/ \E a \in Pollers : \/ LoadTimedOut(a) \/ LoadUnfinished(a)
                        \/ PollStep(a) \/ BillStep(a) \/ Crash(a)
  \/ \E f \in Fetchers : FetchStep(f)

\* The request goes on; a pass that has begun goes on; the scheduler starts a
\* pass again and again, each of which sweeps first; nothing makes upstream
\* finish.
Fairness ==
  /\ WF_vars(SubmitStep)
  /\ \A a \in Pollers : /\ WF_vars(PollStep(a)) /\ WF_vars(BillStep(a))
                        /\ SF_vars(LoadTimedOut(a))

Spec == Init /\ [][Next]_vars /\ Fairness

-----------------------------------------------------------------------------
(* Properties *)

\* No user gets back more than was charged for the task, on any ledger,
\* however many passes see it fail (finalizeTerminalTask: "exactly once").
NeverOverRefunded == charge.funding >= 0 /\ charge.token >= 0

Billing(a) == actor[a].pc \in {"token", "quota"}

\* While nobody is in the middle of a settlement, the row's quota is what the
\* user pays for the task: what a retry or an audit of the refund relies on.
ChargeMatchesRow ==
  row.status # "none" /\ ~row.legacy /\ (\A a \in Pollers : ~Billing(a)) =>
    charge.funding = row.quota + submit.surplus

\* A settlement moves funding, token and usage statistics by the same amount.
LedgersAgree ==
  submit.pc = "over" /\ (\A a \in Pollers : ~Billing(a)) =>
    charge.token = charge.funding /\ charge.used = charge.funding

\* A pass that read the row earlier never changes an outcome (UpdateWithStatus
\* "防止覆盖被正常轮询已推进的任务"); the one write that can is the bulk update for a
\* channel that cannot be read, which compares nothing.
OutcomeIsFinal ==
  [][row.status \in Terminal =>
       row'.status = row.status \/ \E a \in Pollers : PollNoChannel(a)]_vars

\* Every accepted task ends: the sweep is "the only backstop" for an upstream
\* that never finishes.
EveryTaskEnds == row.status \in Unfinished ~> row.status \in Terminal

\* The user of a failed task gets the quota back (RefundTaskQuota), unless the
\* task is billed by usage or predates refunds.
FailureIsRefunded ==
  (row.status = "FAILURE" /\ row.kind # "usage" /\ ~row.legacy) ~> charge.funding = 0

=============================================================================
