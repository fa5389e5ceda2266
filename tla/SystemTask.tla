----------------------------- MODULE SystemTask -----------------------------
(***************************************************************************)
(* Background tasks shared by the nodes of a deployment: model/            *)
(* system_task.go and service/system_task.go, for one task type (types     *)
(* have rows and locks of their own).  A node's runner repeats a pass:     *)
(* expire stale locks, schedule a due task, claim a pending one; a claimed *)
(* task gets a handler goroutine and a heartbeat that renews the lock.     *)
(*                                                                         *)
(* Every database statement is one step.  A function reads the clock       *)
(* before its statements, so the time it compares with is old when they    *)
(* run: "age" counts the ticks since then, and the lock keeps the ticks    *)
(* LEFT until locked_until.  MaxStall bounds how long a function that has  *)
(* read the clock may take; nodes share one clock.                         *)
(***************************************************************************)
EXTENDS Integers

CONSTANTS
  Runners,   \* runner ids; a restarted node takes a new one
  NoRunner,  \* the empty locked_by
  MaxTasks,  \* bound on the rows of system_tasks
  Legacy,    \* rows pending at the start without an active_key
  TTL,       \* systemTaskLockTTL in ticks
  MaxStall,  \* ticks a function may take after reading the clock
  Timely,    \* whether a live node always renews before the lease ends
  DbErrors   \* whose statements may fail, a subset of {"runner", "handler"}

Tasks == 1..MaxTasks

ASSUME SystemTaskAssumption ==
  /\ NoRunner \notin Runners
  /\ MaxTasks \in Nat
  /\ Legacy \subseteq Tasks
  /\ TTL \in Nat
  /\ MaxStall \in Nat
  /\ Timely \in BOOLEAN
  /\ DbErrors \subseteq {"runner", "handler"}

VARIABLES
  tasks,  \* system_tasks: status, active_key set, locked_by
  lock,   \* the row of system_task_locks; task 0 when there is none
  pass,   \* where each runner is in its pass, and what it has read
  job,    \* the handler of each task
  beat,   \* the heartbeat of each task
  alive   \* runners whose process is up

vars == <<tasks, lock, pass, job, beat, alive>>

Terminal == {"succeeded", "failed"}

Status == {"none", "pending", "running"} \cup Terminal

\* Steps of ExpireStaleSystemTaskLocks, runSystemTaskScheduler, ClaimSystemTask.
Expiring == {"expireMark", "expireDelete"}

Acquiring == {"read", "insert", "lookup", "takeover"}

Acquired == {"mark", "update"}

PassPC == {"idle", "schedule", "create", "claim", "dropLock"} \cup Expiring \cup Acquiring \cup Acquired

JobPC == {"none", "run", "finish", "release", "done"}

Ages == 0..MaxStall

TaskRow == [status: Status, key: BOOLEAN, by: Runners \cup {NoRunner}]

LockRow == [task: Tasks \cup {0}, by: Runners \cup {NoRunner}, left: Int]

PassState == [pc: PassPC, age: Ages, cand: Tasks \cup {0},
              seen: Tasks \cup {0}, seenBy: Runners \cup {NoRunner}]

JobState == [pc: JobPC, age: Ages, result: Terminal, cancelled: BOOLEAN]

BeatState == [pc: {"off", "wait", "write"}, age: Ages]

TypeOK ==
  /\ tasks \in [Tasks -> TaskRow]
  /\ lock \in LockRow
  /\ pass \in [Runners -> PassState]
  /\ job \in [Tasks -> JobState]
  /\ beat \in [Tasks -> BeatState]
  /\ alive \subseteq Runners

NoLock == [task |-> 0, by |-> NoRunner, left |-> 0]

Idle == [pc |-> "idle", age |-> 0, cand |-> 0, seen |-> 0, seenBy |-> NoRunner]

\* Below this the lock has expired for every clock reading still in use.
Floor == -(MaxStall + 1)

\* The lock row a function that read the clock "age" ticks ago writes.
LockFor(t, r, age) == [task |-> t, by |-> r, left |-> TTL - age]

\* Mutant: a lease counts as expired in the second in which it ends.
ExpiredAt_Inclusive(age) == lock.left + age <= 0

\* Mutant: locked_until is compared with a clock in smaller units.
ExpiredAt_Never(age) == lock.left + age < Floor

\* locked_until < now, for the now read "age" ticks ago.
ExpiredAt(age) == lock.left + age < 0

HasLock(t, r) == lock.task = t /\ lock.by = r

At(r, pc) == r \in alive /\ pass[r].pc = pc

Goto(r, pc) == pass' = [pass EXCEPT ![r].pc = pc]

EndPass(r) == pass' = [pass EXCEPT ![r] = Idle]

\* The statement of runner r's pass fails and changes nothing.
Fails(r) == "runner" \in DbErrors /\ r \in alive /\ UNCHANGED <<tasks, lock, job, beat, alive>>

-----------------------------------------------------------------------------
(* ExpireStaleSystemTaskLocks, run by some passes only (it is throttled).  *)

SkipExpire(r) ==
  /\ At(r, "idle")
  /\ Goto(r, "schedule")
  /\ UNCHANGED <<tasks, lock, job, beat, alive>>

ExpireRead(r) ==
  /\ At(r, "idle")
  /\ IF lock.task # 0 /\ ExpiredAt(0)
     THEN pass' = [pass EXCEPT ![r] = [Idle EXCEPT !.pc = "expireMark", !.seen = lock.task,
                                                   !.seenBy = lock.by]]
     ELSE Goto(r, "schedule")
  /\ UNCHANGED <<tasks, lock, job, beat, alive>>

\* Mutant: the row is failed whatever its status.
MarkSystemTaskLeaseExpired_Always(t) ==
  tasks' = [tasks EXCEPT ![t].status = "failed", ![t].key = FALSE]

\* UPDATE ... WHERE task_id = ? AND status = 'running'.
MarkSystemTaskLeaseExpired(t) ==
  tasks' = IF tasks[t].status = "running"
           THEN [tasks EXCEPT ![t].status = "failed", ![t].key = FALSE]
           ELSE tasks

\* Mutant: the lock goes without its task being failed.
ExpireMark_Forgotten(r) ==
  /\ At(r, "expireMark")
  /\ Goto(r, "expireDelete")
  /\ UNCHANGED <<tasks, lock, job, beat, alive>>

ExpireMark(r) ==
  /\ At(r, "expireMark")
  /\ MarkSystemTaskLeaseExpired(pass[r].seen)
  /\ Goto(r, "expireDelete")
  /\ UNCHANGED <<lock, job, beat, alive>>

\* Mutant: the lock row is deleted although it may have been renewed.
ExpireDelete_Unfenced(r) ==
  /\ At(r, "expireDelete")
  /\ lock' = NoLock
  /\ pass' = [pass EXCEPT ![r] = [Idle EXCEPT !.pc = "schedule"]]
  /\ UNCHANGED <<tasks, job, beat, alive>>

\* An error ends the cleanup; the pass goes on.
ExpireError(r) ==
  /\ Fails(r)
  /\ pass[r].pc \in Expiring
  /\ pass' = [pass EXCEPT ![r] = [Idle EXCEPT !.pc = "schedule"]]

\* The row is deleted only if it is still the one that was read.
ExpireDelete(r) ==
  /\ At(r, "expireDelete")
  /\ lock' = IF HasLock(pass[r].seen, pass[r].seenBy) /\ ExpiredAt(pass[r].age)
             THEN NoLock ELSE lock
  /\ pass' = [pass EXCEPT ![r] = [Idle EXCEPT !.pc = "schedule"]]
  /\ UNCHANGED <<tasks, job, beat, alive>>

-----------------------------------------------------------------------------
(* runSystemTaskScheduler and EnqueueSystemTask: look for an active row,   *)
(* then insert; the unique active_key refuses a second one.                *)

Unused == {t \in Tasks : tasks[t].status = "none"}

\* Not scheduled this time, not due yet, or the newest row is active.
SkipSchedule(r) ==
  /\ At(r, "schedule")
  /\ Goto(r, "claim")
  /\ UNCHANGED <<tasks, lock, job, beat, alive>>

ScheduleRead(r) ==
  /\ At(r, "schedule")
  /\ \A t \in Tasks : tasks[t].status # "none" /\ t + 1 \in Unused \cup {MaxTasks + 1} =>
       tasks[t].status \in Terminal
  /\ Goto(r, "create")
  /\ UNCHANGED <<tasks, lock, job, beat, alive>>

CreateSystemTask(r) ==
  /\ At(r, "create")
  /\ \/ /\ \A t \in Tasks : ~tasks[t].key
        /\ \E t \in Unused :
             /\ \A u \in Unused : t <= u
             /\ tasks' = [tasks EXCEPT ![t] = [status |-> "pending", key |-> TRUE, by |-> NoRunner]]
     \/ /\ Unused = {} \/ (\E t \in Tasks : tasks[t].key) \/ "runner" \in DbErrors
        /\ UNCHANGED tasks
  /\ Goto(r, "claim")
  /\ UNCHANGED <<lock, job, beat, alive>>

-----------------------------------------------------------------------------
(* ClaimSystemTask: the earliest pending row, the lock of its type, then   *)
(* the row's status.                                                       *)

Pending == {t \in Tasks : tasks[t].status = "pending"}

\* FindEarliestPendingSystemTasks; the lease end is computed for the call.
ClaimFind(r) ==
  /\ At(r, "claim")
  /\ IF Pending = {}
     THEN EndPass(r)
     ELSE \E t \in Pending :
            /\ \A u \in Pending : t <= u
            /\ pass' = [pass EXCEPT ![r] = [Idle EXCEPT !.pc = "read", !.cand = t]]
  /\ UNCHANGED <<tasks, lock, job, beat, alive>>

ClaimRead(r) ==
  /\ At(r, "read")
  /\ IF pass[r].cand \in Pending THEN Goto(r, "insert") ELSE EndPass(r)
  /\ UNCHANGED <<tasks, lock, job, beat, alive>>

\* acquireSystemTaskLock: insert, else look at the row, else take it over.
LockInsert(r) ==
  /\ At(r, "insert")
  /\ \/ /\ lock.task = 0
        /\ lock' = LockFor(pass[r].cand, r, pass[r].age)
        /\ Goto(r, "update")
     \/ /\ lock.task # 0 \/ "runner" \in DbErrors
        /\ Goto(r, "lookup") /\ UNCHANGED lock
  /\ UNCHANGED <<tasks, job, beat, alive>>

LockLookup(r) ==
  /\ At(r, "lookup")
  /\ IF lock.task # 0 /\ ExpiredAt(pass[r].age)
     THEN pass' = [pass EXCEPT ![r].pc = "takeover", ![r].seen = lock.task]
     ELSE EndPass(r)
  /\ UNCHANGED <<tasks, lock, job, beat, alive>>

LockTakeover(r) ==
  LET p == pass[r]
  IN /\ At(r, "takeover")
     /\ IF lock.task # 0 /\ ExpiredAt(p.age)
        THEN /\ lock' = LockFor(p.cand, r, p.age)
             /\ Goto(r, IF p.seen = p.cand THEN "update" ELSE "mark")
        ELSE EndPass(r) /\ UNCHANGED lock
     /\ UNCHANGED <<tasks, job, beat, alive>>

\* A failed read or takeover ends the claim.
ClaimError(r) ==
  /\ Fails(r)
  /\ pass[r].pc \in {"claim", "read", "lookup", "takeover"}
  /\ EndPass(r)

\* The task whose lock was taken over is failed; on an error the lock goes.
ClaimMark(r) ==
  /\ At(r, "mark")
  /\ \/ MarkSystemTaskLeaseExpired(pass[r].seen) /\ Goto(r, "update")
     \/ "runner" \in DbErrors /\ Goto(r, "dropLock") /\ UNCHANGED tasks
  /\ UNCHANGED <<lock, job, beat, alive>>

NewJob == [pc |-> "run", age |-> 0, result |-> "succeeded", cancelled |-> FALSE]

\* Mutant: the update does not require status = 'pending'.
ClaimUpdate_AnyStatus(r) ==
  LET t == pass[r].cand
  IN /\ At(r, "update")
     /\ tasks' = [tasks EXCEPT ![t].status = "running", ![t].by = r]
     /\ job' = [job EXCEPT ![t] = NewJob]
     /\ beat' = [beat EXCEPT ![t] = [pc |-> "wait", age |-> 0]]
     /\ EndPass(r)
     /\ UNCHANGED <<lock, alive>>

\* The row becomes running and its handler is dispatched; if the row cannot be
\* read back there is no handler, only the lock.
ClaimUpdate(r) ==
  LET t == pass[r].cand
  IN /\ At(r, "update")
     /\ \/ /\ t \in Pending
           /\ tasks' = [tasks EXCEPT ![t].status = "running", ![t].by = r]
           /\ \/ /\ job' = [job EXCEPT ![t] = NewJob]
                 /\ beat' = [beat EXCEPT ![t] = [pc |-> "wait", age |-> 0]]
              \/ /\ "runner" \in DbErrors
                 /\ job' = [job EXCEPT ![t] = [NewJob EXCEPT !.pc = "done"]]
                 /\ UNCHANGED beat
           /\ EndPass(r)
        \/ /\ t \notin Pending \/ "runner" \in DbErrors
           /\ Goto(r, "dropLock")
           /\ UNCHANGED <<tasks, job, beat>>
     /\ UNCHANGED <<lock, alive>>

\* ReleaseSystemTaskLock after a claim that did not succeed; its error is ignored.
ClaimRelease(r) ==
  /\ At(r, "dropLock")
  /\ \/ lock' = IF HasLock(pass[r].cand, r) THEN NoLock ELSE lock
     \/ "runner" \in DbErrors /\ UNCHANGED lock
  /\ EndPass(r)
  /\ UNCHANGED <<tasks, job, beat, alive>>

-----------------------------------------------------------------------------
(* runWithLeaseHeartbeat, and the handler it runs.                         *)

Executing(t) == job[t].pc \in {"run", "finish", "release"} /\ tasks[t].by \in alive

\* RenewSystemTaskLock: the clock is read, then the row is updated.
HeartbeatRead(t) ==
  /\ Executing(t) /\ beat[t].pc = "wait"
  /\ beat' = [beat EXCEPT ![t] = [pc |-> "write", age |-> 0]]
  /\ UNCHANGED <<tasks, lock, pass, job, alive>>

\* Losing the lock cancels the handler's context and ends the heartbeat.  A
\* call in flight when the handler returns still writes.
HeartbeatWrite(t) ==
  LET b == beat[t]
      ok == HasLock(t, tasks[t].by) /\ ~ExpiredAt(b.age)
      more == ok /\ job[t].pc # "done"
  IN /\ b.pc = "write" /\ tasks[t].by \in alive
     /\ lock' = IF ok THEN LockFor(t, tasks[t].by, b.age) ELSE lock
     /\ job' = [job EXCEPT ![t].cancelled = @ \/ ~ok]
     /\ beat' = [beat EXCEPT ![t] = [pc |-> IF more THEN "wait" ELSE "off", age |-> 0]]
     /\ UNCHANGED <<tasks, pass, alive>>

BeatAfter(t) == IF beat[t].pc = "write" THEN beat ELSE [beat EXCEPT ![t].pc = "off"]

\* FinishSystemTask: the handler has its result and reads the clock.
FinishRead(t, result) ==
  /\ Executing(t) /\ job[t].pc = "run"
  /\ job' = [job EXCEPT ![t].pc = "finish", ![t].age = 0, ![t].result = result]
  /\ UNCHANGED <<tasks, lock, pass, beat, alive>>

\* The row is updated while it is running under this lock; else the handler
\* gives up without releasing anything.
FinishWrite(t) ==
  LET j == job[t]
      ok == /\ tasks[t].status = "running"
            /\ HasLock(t, tasks[t].by) /\ ~ExpiredAt(j.age)
  IN /\ Executing(t) /\ j.pc = "finish"
     /\ \/ /\ ok
           /\ tasks' = [tasks EXCEPT ![t].status = j.result, ![t].key = FALSE]
           /\ job' = [job EXCEPT ![t].pc = "release", ![t].age = 0]
           /\ UNCHANGED beat
        \/ /\ ~ok \/ "handler" \in DbErrors
           /\ job' = [job EXCEPT ![t].pc = "done", ![t].age = 0]
           /\ beat' = BeatAfter(t)
           /\ UNCHANGED tasks
     /\ UNCHANGED <<lock, pass, alive>>

ReleaseSystemTaskLock(t) ==
  /\ Executing(t) /\ job[t].pc = "release"
  /\ \/ lock' = IF HasLock(t, tasks[t].by) THEN NoLock ELSE lock
     \/ "handler" \in DbErrors /\ UNCHANGED lock
  /\ job' = [job EXCEPT ![t].pc = "done"]
  /\ beat' = BeatAfter(t)
  /\ UNCHANGED <<tasks, pass, alive>>

\* The handler returns without finishing: its context was cancelled, a state
\* update found the lock lost or failed, or it panicked.
Abandon(t) ==
  /\ Executing(t) /\ job[t].pc = "run"
  /\ \/ job[t].cancelled
     \/ tasks[t].status # "running" \/ ~HasLock(t, tasks[t].by) \/ ExpiredAt(0)
     \/ "handler" \in DbErrors
  /\ job' = [job EXCEPT ![t].pc = "done"]
  /\ beat' = BeatAfter(t)
  /\ UNCHANGED <<tasks, lock, pass, alive>>

-----------------------------------------------------------------------------
\* A node stops with all its goroutines; some other node stays up.
Crash(r) ==
  /\ r \in alive /\ alive # {r}
  /\ alive' = alive \ {r}
  /\ EndPass(r)
  /\ UNCHANGED <<tasks, lock, job, beat>>

Timed(r) == pass[r].pc \in Expiring \cup Acquiring \cup Acquired

Older(timed, age) == IF timed THEN age + 1 ELSE age

\* One tick passes unless a stalled function must first go on, or (Timely) a
\* live handler must first renew its lease.
Tick ==
  /\ \A r \in Runners : Timed(r) => pass[r].age < MaxStall
  /\ \A t \in Tasks :
       /\ job[t].pc = "finish" /\ Executing(t) => job[t].age < MaxStall
       /\ beat[t].pc = "write" /\ tasks[t].by \in alive => beat[t].age < MaxStall
       /\ Timely /\ Executing(t) /\ HasLock(t, tasks[t].by) => lock.left > 0
  /\ lock' = IF lock.task # 0 /\ lock.left > Floor THEN [lock EXCEPT !.left = @ - 1] ELSE lock
  /\ pass' = [r \in Runners |-> [pass[r] EXCEPT !.age = Older(Timed(r), @)]]
  /\ job' = [t \in Tasks |-> [job[t] EXCEPT !.age =
               Older(job[t].pc = "finish" /\ Executing(t), @)]]
  /\ beat' = [t \in Tasks |-> [beat[t] EXCEPT !.age =
               Older(beat[t].pc = "write" /\ tasks[t].by \in alive, @)]]
  /\ UNCHANGED <<tasks, alive>>

Init ==
  /\ tasks = [t \in Tasks |->
       [status |-> IF t \in Legacy THEN "pending" ELSE "none", key |-> FALSE, by |-> NoRunner]]
  /\ lock = NoLock
  /\ pass = [r \in Runners |-> Idle]
  /\ job = [t \in Tasks |-> [pc |-> "none", age |-> 0, result |-> "succeeded", cancelled |-> FALSE]]
  /\ beat = [t \in Tasks |-> [pc |-> "off", age |-> 0]]
  /\ alive = Runners

\* A runner's pass after it has decided what to do.
PassStep(r) ==
  \/ ExpireMark(r) \/ ExpireDelete(r) \/ ExpireError(r)
  \/ CreateSystemTask(r)
  \/ ClaimFind(r) \/ ClaimRead(r) \/ LockInsert(r) \/ LockLookup(r) \/ LockTakeover(r)
  \/ ClaimMark(r) \/ ClaimUpdate(r) \/ ClaimRelease(r) \/ ClaimError(r)

JobStep(t) ==
  \/ HeartbeatRead(t) \/ HeartbeatWrite(t)
  \/ \E result \in Terminal : FinishRead(t, result)
  \/ FinishWrite(t) \/ ReleaseSystemTaskLock(t) \/ Abandon(t)

Next ==
  \/ \E r \in Runners : \/ SkipExpire(r) \/ ExpireRead(r)
                        \/ SkipSchedule(r) \/ ScheduleRead(r)
                        \/ PassStep(r) \/ Crash(r)
  \/ \E t \in Tasks : JobStep(t)
  \/ Tick

\* Time passes, every runner keeps passing (its ticker never stops) and runs
\* the throttled expiry again and again, and handlers that finish get to it.
\* Nothing makes a handler finish or a heartbeat arrive.
Fairness ==
  /\ SF_vars(Tick)
  /\ \A r \in Runners : /\ WF_vars(PassStep(r))
                        /\ SF_vars(ExpireRead(r))
                        /\ WF_vars(SkipSchedule(r) \/ ScheduleRead(r))
  /\ \A t \in Tasks : /\ WF_vars(FinishWrite(t) \/ ReleaseSystemTaskLock(t))
                      /\ WF_vars(HeartbeatWrite(t))

Spec == Init /\ [][Next]_vars /\ Fairness

-----------------------------------------------------------------------------
(* Properties *)

\* A row that succeeded or failed keeps that outcome, however late an expiry,
\* a takeover or a handler of a lost lease writes (MarkSystemTaskLeaseExpired,
\* FinishSystemTaskTx).
TerminalIsFinal ==
  [][\A t \in Tasks : tasks[t].status \in Terminal => tasks'[t].status = tasks[t].status]_vars

\* Each row is executed by one handler only, whoever held or lost the lock in
\* between ("the per-type lock guarantees only one runner executes the task").
ExecutedOnce ==
  [][\A t \in Tasks : job[t].pc # "none" =>
       /\ job'[t].pc = "run" => job[t].pc = "run"
       /\ tasks'[t].by = tasks[t].by]_vars

\* A running row always has the lock row that names its runner: the only thing
\* by which ExpireStaleSystemTaskLocks finds it once its runner is gone.
NoOrphanedRun ==
  \A t \in Tasks : tasks[t].status = "running" => HasLock(t, tasks[t].by)

\* A handler that works on its row.
AtWork(t) == Executing(t) /\ job[t].pc # "release"

\* While nodes renew in time, a handler at work holds the lock on a lease that
\* has not ended, so no other handler of the type works, even after the row was
\* failed by a node that had read the lock of an earlier claimer.
SerialExecution ==
  \A t \in Tasks : AtWork(t) =>
    /\ HasLock(t, tasks[t].by) /\ lock.left >= 0
    /\ \A u \in Tasks \ {t} : ~AtWork(u)

\* A run whose handler is gone is failed in the end, so that the type can run
\* again (systemTaskRunnerIdleInterval: "mark expired leases failed").
AbandonedRunFails ==
  \A t \in Tasks : tasks[t].status = "running" /\ ~Executing(t) ~> tasks[t].status \in Terminal

\* A pending row is picked up, whatever locks crashed nodes left behind.
PendingIsClaimed ==
  \A t \in Tasks : tasks[t].status = "pending" ~> tasks[t].status # "pending"

-----------------------------------------------------------------------------
(* The inductive invariant behind NoOrphanedRun, for MaxStall <= TTL.      *)

\* The unique index on active_key: one active row, not yet anybody's while it
\* is pending.
KeyInv ==
  /\ \A t \in Tasks : tasks[t].status \in {"pending", "running"} => tasks[t].key
  /\ \A t, u \in Tasks : tasks[t].key /\ tasks[u].key => t = u
  /\ \A t \in Tasks : tasks[t].status = "pending" => tasks[t].by = NoRunner

\* A claimer that may still take the lock sees it expired only while no row is
\* running; one that has taken it holds a lease that has not ended.
ClaimInv(r) ==
  LET p == pass[r]
  IN /\ p.pc \in Acquiring \cup Acquired \cup {"dropLock"} =>
          p.cand \in Tasks /\ tasks[p.cand].by # r
     /\ p.pc \in Acquiring =>
          \/ tasks[p.cand].status = "pending"
          \/ \A t \in Tasks : tasks[t].status = "running" => lock.left + p.age >= 0
     /\ p.pc \in Acquired => HasLock(p.cand, r) /\ lock.left = TTL - p.age
     /\ p.pc \in {"takeover", "mark"} => p.seen \in Tasks

\* A lock about to be deleted as stale is not that of a running row.
ExpireInv(r) ==
  LET p == pass[r]
  IN /\ p.pc \in Expiring => p.seen \in Tasks
     /\ p.pc = "expireDelete" /\ HasLock(p.seen, p.seenBy) /\ lock.left + p.age < 0 =>
          tasks[p.seen].status # "running"

ReleaseInv == \A t \in Tasks : job[t].pc = "release" => tasks[t].status \in Terminal

IInv ==
  /\ TypeOK /\ NoOrphanedRun /\ KeyInv /\ ReleaseInv
  /\ \A r \in Runners : ClaimInv(r) /\ ExpireInv(r)

=============================================================================
