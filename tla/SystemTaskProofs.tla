-------------------------- MODULE SystemTaskProofs --------------------------
(***************************************************************************)
(* Proofs that IInv is inductive, and that no running row is ever without  *)
(* the lock that lets another node fail it, for any number of nodes and    *)
(* tasks and any database errors, provided that no function is delayed for *)
(* longer than a lease (MaxStall <= TTL) and every row has an active_key.  *)
(* Outcomes are final and handlers begin once without those provisos; and  *)
(* handlers that renew in time work alone.                                 *)
(***************************************************************************)
EXTENDS SystemTask, TLAPS

\* What the proofs assume of the deployment.
Punctual == MaxStall <= TTL /\ Legacy = {}

\* The small operators are always expanded.
USE SystemTaskAssumption DEF Tasks, Terminal, Status, Expiring, Acquiring, Acquired, PassPC,
    JobPC, Ages, HasLock

\* What IInv says of one runner.
PassInv(r) == ClaimInv(r) /\ ExpireInv(r)

\* The parts of IInv that no pass occurs in.
RowsInv == NoOrphanedRun /\ KeyInv /\ ReleaseInv

\* A step that only moves one runner on to a good point of its pass.
LEMMA PassFrame ==
  ASSUME IInv, NEW r \in Runners, NEW p \in PassState,
         pass' = [pass EXCEPT ![r] = p], PassInv(r)',
         UNCHANGED <<tasks, lock, job, beat, alive>>
  PROVE  IInv'
<1>1. TypeOK'
  BY DEF IInv, TypeOK
<1>2. RowsInv'
  BY DEF IInv, RowsInv, NoOrphanedRun, KeyInv, ReleaseInv
<1>3. ASSUME NEW q \in Runners PROVE PassInv(q)'
  <2>1. CASE q = r
    BY <2>1
  <2>2. CASE q # r
    <3>1. pass'[q] = pass[q]
      BY <2>2 DEF IInv, TypeOK
    <3> QED BY <3>1 DEF IInv, PassInv, ClaimInv, ExpireInv
  <2> QED BY <2>1, <2>2
<1> QED BY <1>1, <1>2, <1>3 DEF IInv, RowsInv, PassInv

\* Being idle, scheduling or creating, a runner promises nothing.
LEMMA FreePass ==
  ASSUME NEW r \in Runners, pass'[r].pc \in {"idle", "schedule", "create", "claim"}
  PROVE  PassInv(r)'
  BY DEF PassInv, ClaimInv, ExpireInv

\* The steps of a pass that write nothing to the database.
LEMMA ReadStepsInv ==
  ASSUME Punctual, IInv, NEW r \in Runners,
         \/ SkipExpire(r) \/ ExpireRead(r) \/ SkipSchedule(r) \/ ScheduleRead(r)
         \/ ClaimFind(r) \/ ClaimRead(r) \/ LockLookup(r) \/ ExpireError(r) \/ ClaimError(r)
  PROVE  IInv'
<1>0. pass[r] \in PassState /\ pass \in [Runners -> PassState] /\ lock \in LockRow
  BY DEF IInv, TypeOK
<1>idle. Idle \in PassState
  BY DEF Idle, PassState
<1>1. CASE SkipExpire(r) \/ SkipSchedule(r) \/ ScheduleRead(r)
  <2>1. PICK pc \in {"schedule", "claim", "create"} : pass' = [pass EXCEPT ![r].pc = pc]
    BY <1>1 DEF SkipExpire, SkipSchedule, ScheduleRead, Goto
  <2> DEFINE p == [pass[r] EXCEPT !.pc = pc]
  <2>2. pass' = [pass EXCEPT ![r] = p] /\ p \in PassState /\ pass'[r].pc = pc
    BY <2>1, <1>0 DEF PassState
  <2> HIDE DEF p
  <2> QED BY <2>2, <1>1, FreePass, PassFrame DEF SkipExpire, SkipSchedule, ScheduleRead
<1>2. CASE ExpireRead(r)
  <2>1. CASE lock.task # 0 /\ ExpiredAt(0)
    <3> DEFINE p == [Idle EXCEPT !.pc = "expireMark", !.seen = lock.task, !.seenBy = lock.by]
    <3>4. p \in PassState /\ p.pc = "expireMark" /\ p.seen = lock.task
      BY <1>0, <1>idle DEF PassState, LockRow
    <3>2. pass' = [pass EXCEPT ![r] = p] /\ pass'[r] = p
      BY <1>2, <2>1, <1>0 DEF ExpireRead
    <3> HIDE DEF p
    <3>3. PassInv(r)'
      BY <3>4, <3>2, <2>1, <1>0 DEF PassInv, ClaimInv, ExpireInv, LockRow
    <3> QED BY <3>4, <3>2, <3>3, <1>2, PassFrame DEF ExpireRead
  <2>2. CASE ~(lock.task # 0 /\ ExpiredAt(0))
    <3> DEFINE p == [pass[r] EXCEPT !.pc = "schedule"]
    <3>1. pass' = [pass EXCEPT ![r] = p] /\ p \in PassState /\ pass'[r].pc = "schedule"
      BY <1>2, <2>2, <1>0 DEF ExpireRead, Goto, PassState
    <3> HIDE DEF p
    <3> QED BY <3>1, <1>2, FreePass, PassFrame DEF ExpireRead
  <2> QED BY <2>1, <2>2
<1>3. CASE EndPass(r) /\ UNCHANGED <<tasks, lock, job, beat, alive>>
  <2>1. pass'[r].pc = "idle"
    BY <1>0, <1>3 DEF EndPass, Idle
  <2> QED BY <2>1, <1>idle, <1>3, FreePass, PassFrame DEF EndPass
<1>4. CASE ClaimFind(r) /\ ~EndPass(r)
  <2>1. PICK t \in Pending : pass' = [pass EXCEPT ![r] = [Idle EXCEPT !.pc = "read", !.cand = t]]
    BY <1>4 DEF ClaimFind
  <2> DEFINE p == [Idle EXCEPT !.pc = "read", !.cand = t]
  <2>2. t \in Tasks /\ tasks[t].status = "pending" /\ tasks[t].by = NoRunner
    BY <2>1 DEF Pending, IInv, KeyInv
  <2>3. p \in PassState /\ p.pc = "read" /\ p.cand = t
    BY <2>2, <1>idle DEF PassState
  <2>4. pass'[r] = p
    BY <2>1, <1>0
  <2>5. UNCHANGED <<tasks, lock, job, beat, alive>>
    BY <1>4 DEF ClaimFind
  <2> HIDE DEF p
  <2>6. PassInv(r)'
    BY <2>2, <2>3, <2>4, <2>5 DEF PassInv, ClaimInv, ExpireInv
  <2> QED BY <2>1, <2>3, <2>5, <2>6, PassFrame DEF p
<1>5. CASE ClaimRead(r) /\ ~EndPass(r)
  <2> DEFINE p == [pass[r] EXCEPT !.pc = "insert"]
  <2>1. /\ pass' = [pass EXCEPT ![r] = p] /\ pass'[r] = p /\ p \in PassState
        /\ p.pc = "insert" /\ p.cand = pass[r].cand /\ p.age = pass[r].age
        /\ pass[r].pc = "read"
    BY <1>5, <1>0 DEF ClaimRead, Goto, PassState, At
  <2>2. UNCHANGED <<tasks, lock, job, beat, alive>>
    BY <1>5 DEF ClaimRead
  <2> HIDE DEF p
  <2>3. PassInv(r)'
    BY <2>1, <2>2 DEF IInv, PassInv, ClaimInv, ExpireInv
  <2> QED BY <2>1, <2>2, <2>3, PassFrame
<1>6. CASE LockLookup(r) /\ ~EndPass(r)
  <2> DEFINE p == [pass[r] EXCEPT !.pc = "takeover", !.seen = lock.task]
  <2>1. /\ pass' = [pass EXCEPT ![r] = p] /\ pass'[r] = p /\ p \in PassState
        /\ p.pc = "takeover" /\ p.cand = pass[r].cand /\ p.age = pass[r].age
        /\ p.seen = lock.task /\ lock.task \in Tasks /\ pass[r].pc = "lookup"
    BY <1>6, <1>0 DEF LockLookup, PassState, At, LockRow
  <2>2. UNCHANGED <<tasks, lock, job, beat, alive>>
    BY <1>6 DEF LockLookup
  <2> HIDE DEF p
  <2>3. PassInv(r)'
    BY <2>1, <2>2 DEF IInv, PassInv, ClaimInv, ExpireInv
  <2> QED BY <2>1, <2>2, <2>3, PassFrame
<1>7. CASE ExpireError(r)
  <2> DEFINE p == [Idle EXCEPT !.pc = "schedule"]
  <2>1. p \in PassState /\ p.pc = "schedule"
    BY <1>idle DEF PassState
  <2>2. pass' = [pass EXCEPT ![r] = p] /\ pass'[r] = p
    BY <1>0, <1>7 DEF ExpireError
  <2> HIDE DEF p
  <2> QED BY <1>7, <2>1, <2>2, FreePass, PassFrame DEF ExpireError, Fails
<1> QED BY <1>1, <1>2, <1>3, <1>4, <1>5, <1>6, <1>7
        DEF ClaimFind, ClaimRead, LockLookup, ClaimError, Fails


\* A lease that was just taken has not ended for any clock reading in use.
LEMMA LeaseFor ==
  ASSUME Punctual, NEW t, NEW r, NEW age \in Ages
  PROVE  /\ LockFor(t, r, age).task = t /\ LockFor(t, r, age).by = r
         /\ LockFor(t, r, age).left = TTL - age /\ TTL - age \in Nat
  BY DEF Punctual, LockFor

\* The lock is taken when no row is running and nobody else has just taken it.
LEMMA TakeLock ==
  ASSUME Punctual, IInv, NEW r \in Runners, NEW p \in PassState,
         pass' = [pass EXCEPT ![r] = p], lock' = LockFor(p.cand, r, p.age),
         p.pc \in Acquired, p.cand \in Tasks, tasks[p.cand].by # r,
         p.pc = "mark" => p.seen \in Tasks,
         \A t \in Tasks : tasks[t].status # "running",
         \A q \in Runners \ {r} : pass[q].pc \notin Acquired,
         UNCHANGED <<tasks, job, beat, alive>>
  PROVE  IInv'
<1>0. p.age \in Ages /\ pass'[r] = p /\ \A q \in Runners : pass[q].age \in Nat
  BY DEF IInv, TypeOK, PassState
<1>1. lock'.task = p.cand /\ lock'.by = r /\ lock'.left = TTL - p.age /\ lock'.left \in Nat
  BY <1>0, LeaseFor
<1>2. lock' \in LockRow
  BY <1>0 DEF LockFor, LockRow
<1>3. TypeOK'
  BY <1>2 DEF IInv, TypeOK
<1>4. RowsInv'
  BY DEF IInv, RowsInv, NoOrphanedRun, KeyInv, ReleaseInv
<1>5. ASSUME NEW q \in Runners PROVE PassInv(q)'
  <2>1. CASE q = r
    BY <2>1, <1>0, <1>1 DEF PassInv, ClaimInv, ExpireInv
  <2>2. CASE q # r
    <3>1. pass'[q] = pass[q] /\ ClaimInv(q) /\ ExpireInv(q)
      BY <2>2 DEF IInv, TypeOK
    <3>2. ClaimInv(q)'
      BY <3>1, <2>2 DEF ClaimInv
    <3>3. ExpireInv(q)'
      BY <3>1 DEF ExpireInv
    <3> QED BY <3>2, <3>3 DEF PassInv
  <2> QED BY <2>1, <2>2
<1> QED BY <1>3, <1>4, <1>5 DEF IInv, RowsInv, PassInv

\* The lock is inserted: without a lock row no row is running.
LEMMA LockInsertInv ==
  ASSUME Punctual, IInv, NEW r \in Runners, LockInsert(r)
  PROVE  IInv'
<1>0. /\ pass[r] \in PassState /\ pass \in [Runners -> PassState] /\ pass[r].pc = "insert"
      /\ ClaimInv(r) /\ UNCHANGED <<tasks, job, beat, alive>>
  BY DEF LockInsert, At, IInv, TypeOK
<1>1. CASE lock.task = 0 /\ lock' = LockFor(pass[r].cand, r, pass[r].age) /\ Goto(r, "update")
  <2> DEFINE p == [pass[r] EXCEPT !.pc = "update"]
  <2>1. /\ pass' = [pass EXCEPT ![r] = p] /\ p \in PassState /\ p.pc = "update"
        /\ p.cand = pass[r].cand /\ p.age = pass[r].age
    BY <1>0, <1>1 DEF Goto, PassState
  <2>2. lock' = LockFor(p.cand, r, p.age)
    BY <1>1, <2>1
  <2>3. \A t \in Tasks : tasks[t].status # "running"
    BY <1>1 DEF IInv, NoOrphanedRun
  <2>4. \A q \in Runners : pass[q].pc \notin Acquired
    BY <1>1 DEF IInv, ClaimInv
  <2>5. p.cand \in Tasks /\ tasks[p.cand].by # r
    BY <1>0, <2>1 DEF ClaimInv
  <2> HIDE DEF p
  <2> QED BY <1>0, <2>1, <2>2, <2>3, <2>4, <2>5, TakeLock
<1>2. CASE Goto(r, "lookup") /\ UNCHANGED lock
  <2> DEFINE p == [pass[r] EXCEPT !.pc = "lookup"]
  <2>1. /\ pass' = [pass EXCEPT ![r] = p] /\ p \in PassState /\ p.pc = "lookup" /\ pass'[r] = p
        /\ p.cand = pass[r].cand /\ p.age = pass[r].age /\ UNCHANGED lock
    BY <1>0, <1>2 DEF Goto, PassState
  <2> HIDE DEF p
  <2>2. PassInv(r)'
    BY <1>0, <2>1 DEF PassInv, ClaimInv, ExpireInv
  <2> QED BY <1>0, <2>1, <2>2, PassFrame
<1> QED BY <1>1, <1>2 DEF LockInsert

\* The lock is taken over: for the clock reading in use it has expired, so it
\* is neither that of a running row nor that of another claimer.
LEMMA LockTakeoverInv ==
  ASSUME Punctual, IInv, NEW r \in Runners, LockTakeover(r)
  PROVE  IInv'
<1>0. /\ pass[r] \in PassState /\ pass \in [Runners -> PassState] /\ pass[r].pc = "takeover"
      /\ ClaimInv(r) /\ UNCHANGED <<tasks, job, beat, alive>>
      /\ lock.left \in Int /\ pass[r].age \in Ages
  BY DEF LockTakeover, At, IInv, TypeOK, LockRow, PassState
<1>1. CASE lock.task # 0 /\ ExpiredAt(pass[r].age)
  <2>1. PICK pc \in {"update", "mark"} : pass' = [pass EXCEPT ![r].pc = pc]
    BY <1>1 DEF LockTakeover, Goto
  <2> DEFINE p == [pass[r] EXCEPT !.pc = pc]
  <2>2. /\ pass' = [pass EXCEPT ![r] = p] /\ p \in PassState /\ p.pc = pc
        /\ p.cand = pass[r].cand /\ p.age = pass[r].age /\ p.seen = pass[r].seen
    BY <1>0, <2>1 DEF PassState
  <2>3. lock' = LockFor(p.cand, r, p.age)
    BY <1>1, <2>2 DEF LockTakeover
  <2>4. lock.left + pass[r].age < 0
    BY <1>1 DEF ExpiredAt
  <2>5. ASSUME NEW t \in Tasks, tasks[t].status = "running" PROVE FALSE
    <3>1. tasks[pass[r].cand].status = "pending" /\ pass[r].cand \in Tasks
      BY <1>0, <2>4, <2>5 DEF ClaimInv
    <3>2. tasks[pass[r].cand].key /\ tasks[t].key
      BY <3>1, <2>5 DEF IInv, KeyInv
    <3> QED BY <3>1, <3>2, <2>5 DEF IInv, KeyInv
  <2>6. ASSUME NEW q \in Runners, pass[q].pc \in Acquired PROVE FALSE
    <3>1. lock.left = TTL - pass[q].age /\ pass[q].age \in Ages
      BY <2>6 DEF IInv, ClaimInv, TypeOK, PassState
    <3> QED BY <3>1, <2>4, <1>0 DEF Punctual
  <2>7. p.cand \in Tasks /\ tasks[p.cand].by # r /\ p.seen \in Tasks
    BY <1>0, <2>2 DEF ClaimInv
  <2> HIDE DEF p
  <2> QED BY <1>0, <2>2, <2>3, <2>5, <2>6, <2>7, TakeLock
<1>2. CASE ~(lock.task # 0 /\ ExpiredAt(pass[r].age))
  <2>1. pass' = [pass EXCEPT ![r] = Idle] /\ Idle \in PassState /\ pass'[r].pc = "idle" /\ UNCHANGED lock
    BY <1>0, <1>2 DEF LockTakeover, EndPass, Idle, PassState
  <2> QED BY <1>0, <2>1, FreePass, PassFrame
<1> QED BY <1>1, <1>2

\* A runner whose pass does not move keeps its promises while rows only leave
\* "running" and the lock stays.
LEMMA PassUnmoved ==
  ASSUME IInv, NEW q \in Runners, pass'[q] = pass[q], UNCHANGED lock,
         \A t \in Tasks : /\ tasks'[t].by = tasks[t].by
                          /\ tasks[t].status = "pending" => tasks'[t].status = "pending"
                          /\ tasks'[t].status = "running" => tasks[t].status = "running"
  PROVE  PassInv(q)'
<1>0. ClaimInv(q) /\ ExpireInv(q)
  BY DEF IInv
<1>1. ClaimInv(q)'
  BY <1>0 DEF ClaimInv
<1>2. ExpireInv(q)'
  BY <1>0 DEF ExpireInv
<1> QED BY <1>1, <1>2 DEF PassInv

\* A running row reaches an outcome and gives its active_key back.
LEMMA RowEnds ==
  ASSUME IInv, NEW t \in Tasks, NEW s \in Terminal, tasks[t].status = "running",
         tasks' = [tasks EXCEPT ![t].status = s, ![t].key = FALSE], UNCHANGED lock
  PROVE  /\ tasks' \in [Tasks -> TaskRow]
         /\ NoOrphanedRun' /\ KeyInv'
         /\ tasks'[t].status = s
         /\ \A u \in Tasks : /\ tasks'[u].by = tasks[u].by
                             /\ tasks[u].status = "pending" => tasks'[u].status = "pending"
                             /\ tasks'[u].status = "running" => tasks[u].status = "running"
                             /\ tasks[u].status \in Terminal => tasks'[u].status \in Terminal
<1>1. tasks \in [Tasks -> TaskRow] /\ NoOrphanedRun /\ KeyInv
  BY DEF IInv, TypeOK
<1>2. tasks' \in [Tasks -> TaskRow]
  BY <1>1 DEF TaskRow
<1>3. /\ tasks'[t].status = s /\ tasks'[t].key = FALSE /\ tasks'[t].by = tasks[t].by
      /\ \A u \in Tasks \ {t} : tasks'[u] = tasks[u]
  BY <1>1 DEF TaskRow
<1>4. NoOrphanedRun'
  BY <1>1, <1>3 DEF NoOrphanedRun
<1>5. KeyInv'
  BY <1>1, <1>3 DEF KeyInv
<1> QED BY <1>2, <1>3, <1>4, <1>5

\* Failing the row of an expired lease, alone.
LEMMA MarkInv ==
  ASSUME IInv, NEW t \in Tasks, MarkSystemTaskLeaseExpired(t), UNCHANGED <<lock, job>>
  PROVE  /\ tasks' \in [Tasks -> TaskRow] /\ RowsInv'
         /\ tasks'[t].status # "running"
         /\ \A u \in Tasks : /\ tasks'[u].by = tasks[u].by
                             /\ tasks[u].status = "pending" => tasks'[u].status = "pending"
                             /\ tasks'[u].status = "running" => tasks[u].status = "running"
<1>1. CASE tasks[t].status = "running"
  BY <1>1, RowEnds DEF MarkSystemTaskLeaseExpired, RowsInv, ReleaseInv, IInv
<1>2. CASE tasks[t].status # "running"
  <2>1. tasks' = tasks
    BY <1>2 DEF MarkSystemTaskLeaseExpired
  <2> QED BY <2>1, <1>2 DEF IInv, TypeOK, RowsInv, NoOrphanedRun, KeyInv, ReleaseInv
<1> QED BY <1>1, <1>2

\* Marking the row of a stale lock, and of a lock that was taken over.
LEMMA MarkStepsInv ==
  ASSUME Punctual, IInv, NEW r \in Runners, ExpireMark(r) \/ ClaimMark(r)
  PROVE  IInv'
<1>0. /\ pass[r] \in PassState /\ pass \in [Runners -> PassState]
      /\ ClaimInv(r) /\ ExpireInv(r) /\ UNCHANGED <<lock, job, beat, alive>>
  BY DEF ExpireMark, ClaimMark, IInv, TypeOK
<1>1. PICK pc \in {"expireDelete", "update", "dropLock"} :
        /\ pass' = [pass EXCEPT ![r].pc = pc]
        /\ pc = "expireDelete" => pass[r].pc = "expireMark"
        /\ pc # "expireDelete" => pass[r].pc = "mark"
  BY DEF ExpireMark, ClaimMark, Goto, At
<1> DEFINE p == [pass[r] EXCEPT !.pc = pc]
<1>2. /\ pass' = [pass EXCEPT ![r] = p] /\ p \in PassState /\ p.pc = pc /\ pass'[r] = p
      /\ p.cand = pass[r].cand /\ p.age = pass[r].age /\ p.seen = pass[r].seen
      /\ p.seenBy = pass[r].seenBy
  BY <1>0, <1>1 DEF PassState
<1> HIDE DEF p
<1>3. pass[r].seen \in Tasks
  BY <1>0, <1>1 DEF ClaimInv, ExpireInv
<1>4. CASE MarkSystemTaskLeaseExpired(pass[r].seen)
  <2>1. TypeOK'
    BY <1>0, <1>2, <1>3, <1>4, MarkInv DEF IInv, TypeOK
  <2>2. PassInv(r)'
    <3>1. ClaimInv(r)'
      BY <1>0, <1>1, <1>2, <1>3, <1>4, MarkInv DEF ClaimInv
    <3>2. ExpireInv(r)'
      BY <1>0, <1>1, <1>2, <1>3, <1>4, MarkInv DEF ExpireInv
    <3> QED BY <3>1, <3>2 DEF PassInv
  <2>3. ASSUME NEW q \in Runners \ {r} PROVE PassInv(q)'
    <3>1. pass'[q] = pass[q]
      BY <1>0, <1>2
    <3> QED BY <3>1, <1>0, <1>3, <1>4, MarkInv, PassUnmoved
  <2> QED BY <2>1, <2>2, <2>3, <1>0, <1>3, <1>4, MarkInv DEF IInv, RowsInv, PassInv
<1>5. CASE ~MarkSystemTaskLeaseExpired(pass[r].seen)
  <2>1. UNCHANGED tasks /\ pass[r].pc = "mark"
    BY <1>5 DEF ExpireMark, ClaimMark, At
  <2>2. pc # "expireDelete"
    BY <2>1, <1>1
  <2>3. PassInv(r)'
    BY <1>0, <1>2, <2>1, <2>2 DEF PassInv, ClaimInv, ExpireInv
  <2> QED BY <1>0, <1>2, <2>1, <2>3, PassFrame
<1> QED BY <1>4, <1>5

\* The lock goes while it is neither that of a running row nor a claimer's.
LEMMA DropLock ==
  ASSUME IInv, lock' = NoLock, tasks' = tasks,
         \A t \in Tasks : tasks[t].status # "running",
         NEW q \in Runners, pass'[q] = pass[q], pass[q].pc \notin Acquired
  PROVE  PassInv(q)'
<1>0. ClaimInv(q) /\ ExpireInv(q) /\ lock'.task = 0 /\ lock'.left = 0
  BY DEF IInv, NoLock
<1>1. ClaimInv(q)'
  BY <1>0 DEF ClaimInv
<1>2. ExpireInv(q)'
  BY <1>0 DEF ExpireInv
<1> QED BY <1>1, <1>2 DEF PassInv

\* A stale lock is deleted.
LEMMA ExpireDeleteInv ==
  ASSUME Punctual, IInv, NEW r \in Runners, ExpireDelete(r)
  PROVE  IInv'
<1>0. /\ pass \in [Runners -> PassState] /\ pass[r] \in PassState /\ pass[r].pc = "expireDelete"
      /\ ExpireInv(r) /\ UNCHANGED <<tasks, job, beat, alive>> /\ lock.left \in Int
      /\ pass[r].age \in Ages
  BY DEF ExpireDelete, At, IInv, TypeOK, LockRow, PassState
<1> DEFINE p == [Idle EXCEPT !.pc = "schedule"]
<1>1. Idle \in PassState
  BY DEF Idle, PassState
<1>2. p \in PassState /\ p.pc = "schedule"
  BY <1>1 DEF PassState
<1>3. pass' = [pass EXCEPT ![r] = p] /\ pass'[r] = p
  BY <1>0 DEF ExpireDelete
<1> HIDE DEF p
<1>4. PassInv(r)'
  BY <1>2, <1>3, FreePass
<1>5. CASE UNCHANGED lock
  BY <1>0, <1>2, <1>3, <1>4, <1>5, PassFrame
<1>6. CASE HasLock(pass[r].seen, pass[r].seenBy) /\ ExpiredAt(pass[r].age) /\ lock' = NoLock
  <2>1. \A t \in Tasks : tasks[t].status # "running"
    BY <1>0, <1>6 DEF ExpireInv, ExpiredAt, IInv, NoOrphanedRun
  <2>2. ASSUME NEW q \in Runners, pass[q].pc \in Acquired PROVE FALSE
    <3>1. lock.left = TTL - pass[q].age /\ pass[q].age \in Ages
      BY <2>2 DEF IInv, ClaimInv, TypeOK, PassState
    <3> QED BY <3>1, <1>0, <1>6 DEF Punctual, ExpiredAt
  <2>3. TypeOK'
    BY <1>0, <1>2, <1>3, <1>6 DEF IInv, TypeOK, NoLock, LockRow
  <2>4. RowsInv'
    BY <1>0, <2>1 DEF IInv, RowsInv, NoOrphanedRun, KeyInv, ReleaseInv
  <2>5. ASSUME NEW q \in Runners \ {r} PROVE PassInv(q)'
    <3>1. pass'[q] = pass[q]
      BY <1>0, <1>3
    <3> QED BY <3>1, <1>0, <1>6, <2>1, <2>2, DropLock
  <2> QED BY <1>4, <2>3, <2>4, <2>5 DEF IInv, RowsInv, PassInv
<1> QED BY <1>5, <1>6 DEF ExpireDelete

\* A claimer that lost gives its lock back; a running row has another runner's.
LEMMA ClaimReleaseInv ==
  ASSUME Punctual, IInv, NEW r \in Runners, ClaimRelease(r)
  PROVE  IInv'
<1>0. /\ pass \in [Runners -> PassState] /\ pass[r].pc = "dropLock"
      /\ ClaimInv(r) /\ UNCHANGED <<tasks, job, beat, alive>>
  BY DEF ClaimRelease, At, IInv, TypeOK
<1>1. Idle \in PassState /\ Idle.pc = "idle"
  BY DEF Idle, PassState
<1>2. pass' = [pass EXCEPT ![r] = Idle] /\ pass'[r] = Idle
  BY <1>0 DEF ClaimRelease, EndPass
<1>4. PassInv(r)'
  BY <1>1, <1>2, FreePass
<1>5. CASE UNCHANGED lock
  BY <1>0, <1>1, <1>2, <1>4, <1>5, PassFrame
<1>6. CASE HasLock(pass[r].cand, r) /\ lock' = NoLock
  <2>1. \A t \in Tasks : tasks[t].status # "running"
    BY <1>0, <1>6 DEF ClaimInv, IInv, NoOrphanedRun
  <2>2. \A q \in Runners : pass[q].pc \notin Acquired
    BY <1>0, <1>6 DEF IInv, ClaimInv
  <2>3. TypeOK'
    BY <1>0, <1>1, <1>2, <1>6 DEF IInv, TypeOK, NoLock, LockRow
  <2>4. RowsInv'
    BY <1>0, <2>1 DEF IInv, RowsInv, NoOrphanedRun, KeyInv, ReleaseInv
  <2>5. ASSUME NEW q \in Runners \ {r} PROVE PassInv(q)'
    <3>1. pass'[q] = pass[q]
      BY <1>0, <1>2
    <3> QED BY <3>1, <1>0, <1>6, <2>1, <2>2, DropLock
  <2> QED BY <1>4, <2>3, <2>4, <2>5 DEF IInv, RowsInv, PassInv
<1> QED BY <1>5, <1>6 DEF ClaimRelease

\* The unique index lets a row in only while no row is active.
LEMMA CreateSystemTaskInv ==
  ASSUME Punctual, IInv, NEW r \in Runners, CreateSystemTask(r)
  PROVE  IInv'
<1>0. /\ pass \in [Runners -> PassState] /\ pass[r] \in PassState
      /\ UNCHANGED <<lock, job, beat, alive>> /\ tasks \in [Tasks -> TaskRow]
  BY DEF CreateSystemTask, IInv, TypeOK
<1> DEFINE p == [pass[r] EXCEPT !.pc = "claim"]
<1>1. pass' = [pass EXCEPT ![r] = p] /\ p \in PassState /\ pass'[r].pc = "claim"
  BY <1>0 DEF CreateSystemTask, Goto, PassState
<1> HIDE DEF p
<1>2. PassInv(r)'
  BY <1>1, FreePass
<1>3. CASE UNCHANGED tasks
  BY <1>0, <1>1, <1>2, <1>3, PassFrame
<1>4. CASE ~UNCHANGED tasks
  <2> DEFINE row == [status |-> "pending", key |-> TRUE, by |-> NoRunner]
  <2>0. PICK t \in Unused : tasks' = [tasks EXCEPT ![t] = row] /\ \A u \in Tasks : ~tasks[u].key
    BY <1>4 DEF CreateSystemTask
  <2>1. tasks' = [tasks EXCEPT ![t] = row] /\ \A u \in Tasks : ~tasks[u].key
    BY <2>0
  <2>2. row \in TaskRow /\ row.status = "pending" /\ row.key = TRUE /\ row.by = NoRunner
    BY DEF TaskRow
  <2> HIDE DEF row
  <2>3. t \in Tasks
    BY <2>0 DEF Unused
  <2>4. tasks'[t] = row /\ \A u \in Tasks \ {t} : tasks'[u] = tasks[u]
    BY <1>0, <2>1, <2>3
  <2>5. TypeOK'
    BY <1>0, <1>1, <2>1, <2>2 DEF IInv, TypeOK
  <2>6. \A u \in Tasks : tasks[u].status \notin {"pending", "running"}
    BY <2>1 DEF IInv, KeyInv
  <2>7. NoOrphanedRun' /\ KeyInv'
    BY <2>1, <2>2, <2>4, <2>6 DEF IInv, NoOrphanedRun, KeyInv
  <2>8. ReleaseInv'
    <3>1. tasks[t].status = "none"
      BY <2>0 DEF Unused
    <3> QED BY <3>1, <1>0, <2>3, <2>4 DEF IInv, ReleaseInv
  <2>9. ASSUME NEW q \in Runners \ {r} PROVE PassInv(q)'
    <3>1. pass'[q] = pass[q]
      BY <1>0, <1>1
    <3>2. \A u \in Tasks : /\ tasks'[u].status # "running"
                           /\ tasks'[u].by \in {tasks[u].by, NoRunner}
      BY <2>2, <2>4, <2>6
    <3>3. ClaimInv(q) /\ ExpireInv(q) /\ NoRunner # q
      BY DEF IInv
    <3>4. ClaimInv(q)'
      BY <1>0, <3>1, <3>2, <3>3 DEF ClaimInv
    <3>5. ExpireInv(q)'
      BY <1>0, <3>1, <3>2, <3>3 DEF ExpireInv
    <3> QED BY <3>4, <3>5 DEF PassInv
  <2> QED BY <1>2, <2>5, <2>7, <2>8, <2>9 DEF IInv, PassInv
<1> QED BY <1>3, <1>4

\* The row becomes running under the claimer's own lock, which has not ended.
LEMMA ClaimUpdateInv ==
  ASSUME Punctual, IInv, NEW r \in Runners, ClaimUpdate(r)
  PROVE  IInv'
<1>0. /\ pass \in [Runners -> PassState] /\ pass[r] \in PassState /\ pass[r].pc = "update"
      /\ UNCHANGED <<lock, alive>> /\ tasks \in [Tasks -> TaskRow] /\ ClaimInv(r)
      /\ job \in [Tasks -> JobState] /\ beat \in [Tasks -> BeatState] /\ lock \in LockRow
  BY DEF ClaimUpdate, At, IInv, TypeOK
<1>3. PICK t : t = pass[r].cand
  OBVIOUS
<1>1. CASE Goto(r, "dropLock") /\ UNCHANGED <<tasks, job, beat>>
  <2> DEFINE p == [pass[r] EXCEPT !.pc = "dropLock"]
  <2>1. /\ pass' = [pass EXCEPT ![r] = p] /\ p \in PassState /\ pass'[r] = p
        /\ p.pc = "dropLock" /\ p.cand = pass[r].cand
    BY <1>0, <1>1 DEF Goto, PassState
  <2> HIDE DEF p
  <2>2. PassInv(r)'
    BY <1>0, <1>1, <2>1 DEF PassInv, ClaimInv, ExpireInv
  <2> QED BY <1>0, <1>1, <2>1, <2>2, PassFrame
<1>2. CASE /\ t \in Pending
           /\ tasks' = [tasks EXCEPT ![t].status = "running", ![t].by = r]
           /\ \/ /\ job' = [job EXCEPT ![t] = NewJob]
                 /\ beat' = [beat EXCEPT ![t] = [pc |-> "wait", age |-> 0]]
              \/ /\ job' = [job EXCEPT ![t] = [NewJob EXCEPT !.pc = "done"]]
                 /\ UNCHANGED beat
           /\ EndPass(r)
  <2>1. t \in Tasks /\ tasks[t].status = "pending" /\ tasks[t].key
    BY <1>2 DEF Pending, IInv, KeyInv
  <2>2. /\ tasks' \in [Tasks -> TaskRow]
        /\ tasks'[t].status = "running" /\ tasks'[t].by = r /\ tasks'[t].key = tasks[t].key
        /\ \A u \in Tasks \ {t} : tasks'[u] = tasks[u]
    BY <1>0, <1>2, <2>1 DEF TaskRow
  <2>3. NewJob \in JobState /\ NewJob.pc = "run"
    BY DEF NewJob, JobState
  <2>4. [NewJob EXCEPT !.pc = "done"] \in JobState /\ [NewJob EXCEPT !.pc = "done"].pc = "done"
    BY <2>3 DEF JobState
  <2>5. /\ job' \in [Tasks -> JobState] /\ job'[t].pc # "release"
        /\ \A u \in Tasks \ {t} : job'[u] = job[u]
    BY <1>0, <1>2, <2>1, <2>3, <2>4
  <2>6. beat' \in [Tasks -> BeatState]
    <3>1. [pc |-> "wait", age |-> 0] \in BeatState
      BY DEF BeatState
    <3> QED BY <1>0, <1>2, <2>1, <3>1
  <2>7. Idle \in PassState /\ Idle.pc = "idle"
    BY DEF Idle, PassState
  <2>8. pass' = [pass EXCEPT ![r] = Idle]
    BY <1>2 DEF EndPass
  <2>9. TypeOK'
    BY <1>0, <2>2, <2>5, <2>6, <2>7, <2>8 DEF IInv, TypeOK
  <2>10. HasLock(t, r) /\ lock.left \in Nat
    BY <1>0, <1>3 DEF ClaimInv, PassState, Punctual
  <2>11. \A u \in Tasks \ {t} : tasks[u].status # "running"
    BY <2>1 DEF IInv, KeyInv
  <2>12. NoOrphanedRun'
    BY <1>0, <2>2, <2>10, <2>11 DEF NoOrphanedRun
  <2>13. KeyInv'
    BY <2>1, <2>2 DEF IInv, KeyInv
  <2>14. ReleaseInv'
    BY <2>2, <2>5 DEF IInv, ReleaseInv
  <2>15. ASSUME NEW q \in Runners PROVE PassInv(q)'
    <3>1. CASE q = r
      BY <1>0, <2>7, <2>8, <3>1, FreePass
    <3>2. CASE q # r
      <4>1. pass'[q] = pass[q] /\ ClaimInv(q) /\ ExpireInv(q) /\ pass[q].age \in Nat
        BY <1>0, <2>8, <3>2 DEF IInv, PassState
      <4>2. ClaimInv(q)'
        BY <1>0, <2>2, <2>10, <3>2, <4>1 DEF ClaimInv
      <4>3. ExpireInv(q)'
        BY <1>0, <2>10, <4>1 DEF ExpireInv
      <4> QED BY <4>2, <4>3 DEF PassInv
    <3> QED BY <3>1, <3>2
  <2> QED BY <2>9, <2>12, <2>13, <2>14, <2>15 DEF IInv, PassInv
<1> QED BY <1>1, <1>2, <1>3 DEF ClaimUpdate

\* A step of a handler or heartbeat that writes neither rows nor lock.
LEMMA JobFrame ==
  ASSUME IInv, job' \in [Tasks -> JobState], beat' \in [Tasks -> BeatState],
         UNCHANGED <<tasks, lock, pass, alive>>,
         \A u \in Tasks : job'[u].pc = "release" => job[u].pc = "release"
  PROVE  IInv'
<1>1. TypeOK'
  BY DEF IInv, TypeOK
<1>2. RowsInv'
  BY DEF IInv, RowsInv, NoOrphanedRun, KeyInv, ReleaseInv
<1>3. \A q \in Runners : ClaimInv(q)' /\ ExpireInv(q)'
  BY DEF IInv, ClaimInv, ExpireInv
<1> QED BY <1>1, <1>2, <1>3 DEF IInv, RowsInv

\* The heartbeat left behind by a handler that returns.
LEMMA BeatAfterType ==
  ASSUME NEW t \in Tasks, beat \in [Tasks -> BeatState]
  PROVE  BeatAfter(t) \in [Tasks -> BeatState]
  BY DEF BeatAfter, BeatState

\* Handler steps that write nothing to the database.
LEMMA JobReadStepsInv ==
  ASSUME Punctual, IInv, NEW t \in Tasks,
         HeartbeatRead(t) \/ (\E result \in Terminal : FinishRead(t, result)) \/ Abandon(t)
  PROVE  IInv'
<1>0. job \in [Tasks -> JobState] /\ beat \in [Tasks -> BeatState]
  BY DEF IInv, TypeOK
<1>1. CASE HeartbeatRead(t)
  <2>1. [pc |-> "write", age |-> 0] \in BeatState
    BY DEF BeatState
  <2> QED BY <1>0, <1>1, <2>1, JobFrame DEF HeartbeatRead
<1>2. CASE \E result \in Terminal : FinishRead(t, result)
  <2>1. PICK result \in Terminal : FinishRead(t, result)
    BY <1>2
  <2>2. /\ job' \in [Tasks -> JobState]
        /\ job'[t].pc = "finish" /\ \A u \in Tasks \ {t} : job'[u] = job[u]
    BY <1>0, <2>1 DEF FinishRead, JobState
  <2> QED BY <1>0, <2>1, <2>2, JobFrame DEF FinishRead
<1>3. CASE Abandon(t)
  <2>1. /\ job' \in [Tasks -> JobState]
        /\ job'[t].pc = "done" /\ \A u \in Tasks \ {t} : job'[u] = job[u]
    BY <1>0, <1>3 DEF Abandon, JobState
  <2> QED BY <1>0, <1>3, <2>1, JobFrame, BeatAfterType DEF Abandon
<1> QED BY <1>1, <1>2, <1>3

\* A renewal: the lock is that of a handler, so it is no claimer's.
LEMMA HeartbeatWriteInv ==
  ASSUME Punctual, IInv, NEW t \in Tasks, HeartbeatWrite(t)
  PROVE  IInv'
<1> DEFINE b == beat[t]
           ok == HasLock(t, tasks[t].by) /\ ~ExpiredAt(b.age)
           more == ok /\ job[t].pc # "done"
<1>0. /\ job \in [Tasks -> JobState] /\ beat \in [Tasks -> BeatState] /\ b.age \in Ages
      /\ tasks[t].by \in alive /\ alive \subseteq Runners /\ lock \in LockRow
      /\ UNCHANGED <<tasks, pass, alive>>
  BY DEF HeartbeatWrite, IInv, TypeOK, BeatState
<1>1. /\ job' \in [Tasks -> JobState] /\ \A u \in Tasks : job'[u].pc = job[u].pc
  <2>1. job' = [job EXCEPT ![t].cancelled = @ \/ ~ok]
    BY DEF HeartbeatWrite
  <2>2. (job[t].cancelled \/ ~ok) \in BOOLEAN
    BY DEF ExpiredAt
  <2> HIDE DEF ok
  <2> QED BY <1>0, <2>1, <2>2 DEF JobState
<1>2. beat' \in [Tasks -> BeatState]
  <2>1. PICK pc \in {"wait", "off"} : beat' = [beat EXCEPT ![t] = [pc |-> pc, age |-> 0]]
    BY DEF HeartbeatWrite
  <2>2. [pc |-> pc, age |-> 0] \in BeatState
    BY DEF BeatState
  <2> QED BY <1>0, <2>1, <2>2
<1>3. CASE ~ok
  <2>1. UNCHANGED lock
    BY <1>3 DEF HeartbeatWrite
  <2> QED BY <1>0, <1>1, <1>2, <2>1, JobFrame
<1>4. CASE ok
  <2>1. lock' = LockFor(t, tasks[t].by, b.age) /\ lock.task = t /\ lock.by = tasks[t].by
    BY <1>4 DEF HeartbeatWrite
  <2>2. lock'.task = t /\ lock'.by = tasks[t].by /\ lock'.left \in Nat
    BY <1>0, <2>1, LeaseFor
  <2>3. lock' \in LockRow
    BY <1>0, <2>1 DEF LockFor, LockRow
  <2>4. TypeOK'
    BY <1>0, <1>1, <1>2, <2>3 DEF IInv, TypeOK
  <2>5. RowsInv'
    BY <1>0, <1>1, <2>1, <2>2 DEF IInv, RowsInv, NoOrphanedRun, KeyInv, ReleaseInv
  <2>6. ASSUME NEW q \in Runners PROVE PassInv(q)'
    <3>1. pass'[q] = pass[q] /\ ClaimInv(q) /\ ExpireInv(q) /\ pass[q].age \in Nat
      BY <1>0 DEF IInv, TypeOK, PassState
    <3>2. pass[q].pc \notin Acquired
      BY <2>1, <3>1 DEF ClaimInv
    <3>3. ClaimInv(q)'
      BY <1>0, <2>2, <3>1, <3>2 DEF ClaimInv
    <3>4. ExpireInv(q)'
      BY <2>2, <3>1 DEF ExpireInv
    <3> QED BY <3>3, <3>4 DEF PassInv
  <2> QED BY <2>4, <2>5, <2>6 DEF IInv, RowsInv, PassInv
<1> QED BY <1>3, <1>4

\* The handler's outcome is written, or it gives up.
LEMMA FinishWriteInv ==
  ASSUME Punctual, IInv, NEW t \in Tasks, FinishWrite(t)
  PROVE  IInv'
<1>0. /\ job \in [Tasks -> JobState] /\ beat \in [Tasks -> BeatState]
      /\ UNCHANGED <<lock, pass, alive>> /\ job[t].result \in Terminal
  BY DEF FinishWrite, IInv, TypeOK, JobState
<1>1. CASE UNCHANGED tasks /\ job' = [job EXCEPT ![t].pc = "done", ![t].age = 0]
           /\ beat' = BeatAfter(t)
  <2> DEFINE j == [job[t] EXCEPT !.pc = "done", !.age = 0]
  <2>2. j \in JobState /\ j.pc = "done"
    <3>1. job[t] \in JobState /\ 0 \in Ages
      BY <1>0
    <3> QED BY <3>1 DEF JobState
  <2>3. job' = [job EXCEPT ![t] = j]
    BY <1>0, <1>1
  <2> HIDE DEF j
  <2>1. /\ job' \in [Tasks -> JobState]
        /\ job'[t].pc = "done" /\ \A u \in Tasks \ {t} : job'[u] = job[u]
    BY <1>0, <2>2, <2>3
  <2> QED BY <1>0, <1>1, <2>1, JobFrame, BeatAfterType
<1>2. CASE /\ tasks[t].status = "running"
           /\ tasks' = [tasks EXCEPT ![t].status = job[t].result, ![t].key = FALSE]
           /\ job' = [job EXCEPT ![t].pc = "release", ![t].age = 0]
           /\ UNCHANGED beat
  <2> DEFINE j == [job[t] EXCEPT !.pc = "release", !.age = 0]
  <2>7. j \in JobState
    <3>1. job[t] \in JobState /\ 0 \in Ages
      BY <1>0
    <3> QED BY <3>1 DEF JobState
  <2>8. job' = [job EXCEPT ![t] = j]
    BY <1>0, <1>2
  <2> HIDE DEF j
  <2>1. /\ job' \in [Tasks -> JobState]
        /\ \A u \in Tasks \ {t} : job'[u] = job[u]
    BY <1>0, <2>7, <2>8
  <2>2. PICK s \in Terminal : s = job[t].result
    BY <1>0
  <2>3. /\ tasks' \in [Tasks -> TaskRow]
        /\ NoOrphanedRun' /\ KeyInv'
        /\ tasks'[t].status = s
        /\ \A u \in Tasks : /\ tasks'[u].by = tasks[u].by
                            /\ tasks[u].status = "pending" => tasks'[u].status = "pending"
                            /\ tasks'[u].status = "running" => tasks[u].status = "running"
                            /\ tasks[u].status \in Terminal => tasks'[u].status \in Terminal
    BY <1>0, <1>2, <2>2, RowEnds
  <2>4. TypeOK'
    BY <1>0, <1>2, <2>1, <2>3 DEF IInv, TypeOK
  <2>5. ReleaseInv'
    BY <2>1, <2>2, <2>3 DEF IInv, ReleaseInv
  <2>6. \A q \in Runners : PassInv(q)'
    BY <1>0, <2>3, PassUnmoved
  <2> QED BY <2>3, <2>4, <2>5, <2>6 DEF IInv, PassInv
<1> QED BY <1>1, <1>2 DEF FinishWrite

\* A finished handler releases the lock, which is no running row's.
LEMMA ReleaseSystemTaskLockInv ==
  ASSUME Punctual, IInv, NEW t \in Tasks, ReleaseSystemTaskLock(t)
  PROVE  IInv'
<1>0. /\ job \in [Tasks -> JobState] /\ beat \in [Tasks -> BeatState]
      /\ UNCHANGED <<tasks, pass, alive>> /\ tasks[t].status \in Terminal
  BY DEF ReleaseSystemTaskLock, IInv, TypeOK, ReleaseInv
<1>1. /\ job' \in [Tasks -> JobState] /\ beat' \in [Tasks -> BeatState]
      /\ job'[t].pc = "done" /\ \A u \in Tasks \ {t} : job'[u] = job[u]
  BY <1>0, BeatAfterType DEF ReleaseSystemTaskLock, JobState
<1>2. CASE UNCHANGED lock
  BY <1>0, <1>1, <1>2, JobFrame
<1>3. CASE HasLock(t, tasks[t].by) /\ lock' = NoLock
  <2>1. \A u \in Tasks : tasks[u].status # "running"
    BY <1>0, <1>3 DEF IInv, NoOrphanedRun
  <2>2. \A q \in Runners : pass[q].pc \notin Acquired
    BY <1>3 DEF IInv, ClaimInv
  <2>3. TypeOK'
    BY <1>0, <1>1, <1>3 DEF IInv, TypeOK, NoLock, LockRow
  <2>4. RowsInv'
    BY <1>0, <1>1, <2>1 DEF IInv, RowsInv, NoOrphanedRun, KeyInv, ReleaseInv
  <2>5. \A q \in Runners : PassInv(q)'
    BY <1>0, <1>3, <2>1, <2>2, DropLock
  <2> QED BY <2>3, <2>4, <2>5 DEF IInv, RowsInv, PassInv
<1> QED BY <1>2, <1>3 DEF ReleaseSystemTaskLock

\* A crash ends a pass; rows and lock stay behind.
LEMMA CrashInv ==
  ASSUME Punctual, IInv, NEW r \in Runners, Crash(r)
  PROVE  IInv'
<1>0. pass \in [Runners -> PassState] /\ UNCHANGED <<tasks, lock, job, beat>>
  BY DEF Crash, IInv, TypeOK
<1>1. Idle \in PassState /\ Idle.pc = "idle"
  BY DEF Idle, PassState
<1>2. pass' = [pass EXCEPT ![r] = Idle]
  BY DEF Crash, EndPass
<1>3. TypeOK'
  BY <1>0, <1>1, <1>2 DEF Crash, IInv, TypeOK
<1>4. RowsInv'
  BY <1>0 DEF IInv, RowsInv, NoOrphanedRun, KeyInv, ReleaseInv
<1>5. ASSUME NEW q \in Runners PROVE PassInv(q)'
  <2>1. CASE q = r
    BY <1>0, <1>1, <1>2, <2>1, FreePass
  <2>2. CASE q # r
    <3>1. pass'[q] = pass[q]
      BY <1>0, <1>2, <2>2
    <3> QED BY <3>1, <1>0, PassUnmoved
  <2> QED BY <2>1, <2>2
<1> QED BY <1>3, <1>4, <1>5 DEF IInv, RowsInv, PassInv

\* A tick: what a clock reading says of the lock never turns from "valid" to
\* "expired", for the lock and the reading grow old together.
LEMMA TickInv ==
  ASSUME Punctual, IInv, Tick
  PROVE  IInv'
<1>0. /\ pass \in [Runners -> PassState] /\ job \in [Tasks -> JobState]
      /\ beat \in [Tasks -> BeatState] /\ lock \in LockRow /\ UNCHANGED <<tasks, alive>>
  BY DEF Tick, IInv, TypeOK
<1>1. /\ lock' \in LockRow /\ lock'.task = lock.task /\ lock'.by = lock.by
      /\ lock.left \in Int
      /\ lock'.left \in {lock.left, lock.left - 1}
      /\ lock.task # 0 /\ lock.left >= 0 => lock'.left = lock.left - 1
  <2>1. CASE lock.task # 0 /\ lock.left > Floor
    <3>1. lock' = [lock EXCEPT !.left = lock.left - 1]
      BY <2>1 DEF Tick
    <3> QED BY <1>0, <3>1 DEF LockRow
  <2>2. CASE ~(lock.task # 0 /\ lock.left > Floor)
    <3>1. lock' = lock
      BY <2>2 DEF Tick
    <3> QED BY <1>0, <2>2, <3>1 DEF LockRow, Floor
  <2> QED BY <2>1, <2>2
<1>2. ASSUME NEW q \in Runners
      PROVE  /\ pass'[q] \in PassState
             /\ pass'[q].pc = pass[q].pc /\ pass'[q].cand = pass[q].cand
             /\ pass'[q].seen = pass[q].seen /\ pass'[q].seenBy = pass[q].seenBy
             /\ pass[q].age \in Ages
             /\ Timed(q) => pass'[q].age = pass[q].age + 1 /\ pass'[q].age \in Ages
  <2>1. pass[q] \in PassState /\ (Timed(q) => pass[q].age < MaxStall)
    BY <1>0 DEF Tick
  <2>2. pass'[q] = [pass[q] EXCEPT !.age = Older(Timed(q), @)]
    BY DEF Tick
  <2>3. CASE Timed(q)
    <3>1. pass'[q] = [pass[q] EXCEPT !.age = pass[q].age + 1]
      BY <2>2, <2>3 DEF Older
    <3> QED BY <2>1, <2>3, <3>1 DEF PassState
  <2>4. CASE ~Timed(q)
    <3>1. pass'[q] = [pass[q] EXCEPT !.age = pass[q].age]
      BY <2>2, <2>4 DEF Older
    <3> QED BY <2>1, <2>4, <3>1 DEF PassState
  <2> QED BY <2>3, <2>4
<1>3. pass' \in [Runners -> PassState]
  BY <1>2 DEF Tick
<1>4. job' \in [Tasks -> JobState] /\ \A u \in Tasks : job'[u].pc = job[u].pc
  <2>1. ASSUME NEW u \in Tasks PROVE job'[u] \in JobState /\ job'[u].pc = job[u].pc
    <3>1. job'[u] = [job[u] EXCEPT !.age = Older(job[u].pc = "finish" /\ Executing(u), @)]
      BY DEF Tick
    <3> DEFINE a == Older(job[u].pc = "finish" /\ Executing(u), job[u].age)
    <3>2. job[u] \in JobState /\ job'[u] = [job[u] EXCEPT !.age = a]
      BY <1>0, <3>1
    <3>3. job[u].age \in Ages /\ (job[u].pc = "finish" /\ Executing(u) => job[u].age < MaxStall)
      BY <3>2 DEF Tick, JobState
    <3>4. a \in Ages
      BY <3>3 DEF Older
    <3> HIDE DEF a
    <3> QED BY <3>2, <3>4 DEF JobState
  <2> QED BY <2>1 DEF Tick
<1>5. beat' \in [Tasks -> BeatState]
  <2>1. ASSUME NEW u \in Tasks PROVE beat'[u] \in BeatState
    <3>1. beat'[u] = [beat[u] EXCEPT !.age = Older(beat[u].pc = "write" /\ tasks[u].by \in alive, @)]
      BY DEF Tick
    <3> DEFINE a == Older(beat[u].pc = "write" /\ tasks[u].by \in alive, beat[u].age)
    <3>2. beat[u] \in BeatState /\ beat'[u] = [beat[u] EXCEPT !.age = a]
      BY <1>0, <3>1
    <3>3. /\ beat[u].age \in Ages
          /\ beat[u].pc = "write" /\ tasks[u].by \in alive => beat[u].age < MaxStall
      BY <3>2 DEF Tick, BeatState
    <3>4. a \in Ages
      BY <3>3 DEF Older
    <3> HIDE DEF a
    <3> QED BY <3>2, <3>4 DEF BeatState
  <2> QED BY <2>1 DEF Tick
<1>6. TypeOK'
  BY <1>0, <1>1, <1>3, <1>4, <1>5 DEF IInv, TypeOK
<1>7. RowsInv'
  BY <1>0, <1>1, <1>4 DEF IInv, RowsInv, NoOrphanedRun, KeyInv, ReleaseInv
<1>8. ASSUME NEW q \in Runners PROVE ClaimInv(q)'
  <2>1. ClaimInv(q)
    BY DEF IInv
  <2>2. pass[q].pc \in Acquired => lock'.left = TTL - pass'[q].age
    <3> SUFFICES ASSUME pass[q].pc \in Acquired PROVE lock'.left = TTL - pass'[q].age
      OBVIOUS
    <3>1. lock.left = TTL - pass[q].age /\ lock.task # 0 /\ Timed(q)
      BY <2>1 DEF ClaimInv, Timed
    <3> QED BY <3>1, <1>1, <1>2 DEF Punctual
  <2>3. pass[q].pc \in Acquiring => lock'.left + pass'[q].age >= lock.left + pass[q].age
    BY <1>1, <1>2 DEF Timed
  <2>4. /\ pass'[q].pc = pass[q].pc /\ pass'[q].cand = pass[q].cand /\ pass'[q].seen = pass[q].seen
        /\ pass[q].age \in Int /\ (pass[q].pc \in Acquiring => pass'[q].age \in Int)
    BY <1>2 DEF Timed
  <2>5. pass[q].pc \in Acquiring =>
          \/ tasks[pass[q].cand].status = "pending"
          \/ \A t \in Tasks : tasks[t].status = "running" => lock'.left + pass'[q].age >= 0
    BY <2>1, <2>3, <2>4, <1>1 DEF ClaimInv
  <2> QED BY <2>1, <2>2, <2>4, <2>5, <1>0, <1>1 DEF ClaimInv
<1>9. ASSUME NEW q \in Runners PROVE ExpireInv(q)'
  <2>1. ExpireInv(q)
    BY DEF IInv
  <2>2. pass[q].pc \in Expiring => lock'.left + pass'[q].age >= lock.left + pass[q].age
    BY <1>1, <1>2 DEF Timed
  <2>3. /\ pass'[q].pc = pass[q].pc /\ pass'[q].seen = pass[q].seen /\ pass'[q].seenBy = pass[q].seenBy
        /\ pass[q].age \in Int /\ (pass[q].pc \in Expiring => pass'[q].age \in Int)
    BY <1>2 DEF Timed
  <2>4. pass[q].pc = "expireDelete" /\ lock'.left + pass'[q].age < 0 => lock.left + pass[q].age < 0
    BY <2>2, <2>3, <1>1
  <2> QED BY <2>1, <2>3, <2>4, <1>0, <1>1 DEF ExpireInv
<1> QED BY <1>6, <1>7, <1>8, <1>9 DEF IInv, RowsInv

-----------------------------------------------------------------------------
\* The empty table satisfies the invariant.
LEMMA InitInv ==
  ASSUME Punctual, Init
  PROVE  IInv
<1>0. Idle \in PassState /\ Idle.pc = "idle"
  BY DEF Idle, PassState
<1>1. TypeOK
  <2>1. [pc |-> "none", age |-> 0, result |-> "succeeded", cancelled |-> FALSE] \in JobState
    BY DEF JobState
  <2>2. [pc |-> "off", age |-> 0] \in BeatState
    BY DEF BeatState
  <2>3. tasks \in [Tasks -> TaskRow]
    BY DEF Init, TaskRow, Punctual
  <2> QED BY <1>0, <2>1, <2>2, <2>3 DEF Init, TypeOK, NoLock, LockRow
<1>2. \A t \in Tasks : tasks[t].status = "none" /\ tasks[t].key = FALSE /\ job[t].pc = "none"
  BY DEF Init, Punctual
<1>3. RowsInv
  BY <1>2 DEF RowsInv, NoOrphanedRun, KeyInv, ReleaseInv
<1>4. \A r \in Runners : ClaimInv(r) /\ ExpireInv(r)
  BY <1>0 DEF Init, ClaimInv, ExpireInv
<1> QED BY <1>1, <1>3, <1>4 DEF IInv, RowsInv

\* Every step, and every stuttering step, preserves the invariant.
LEMMA NextInv ==
  ASSUME Punctual, IInv, [Next]_vars
  PROVE  IInv'
<1>1. CASE UNCHANGED vars
  BY <1>1 DEF vars, IInv, TypeOK, NoOrphanedRun, KeyInv, ReleaseInv, ClaimInv, ExpireInv
<1>2. ASSUME NEW r \in Runners,
             \/ SkipExpire(r) \/ ExpireRead(r) \/ SkipSchedule(r) \/ ScheduleRead(r)
             \/ PassStep(r) \/ Crash(r)
      PROVE  IInv'
  BY <1>2, ReadStepsInv, LockInsertInv, LockTakeoverInv, MarkStepsInv, ExpireDeleteInv,
     CreateSystemTaskInv, ClaimUpdateInv, ClaimReleaseInv, CrashInv DEF PassStep
<1>3. ASSUME NEW t \in Tasks, JobStep(t)
      PROVE  IInv'
  BY <1>3, JobReadStepsInv, HeartbeatWriteInv, FinishWriteInv, ReleaseSystemTaskLockInv DEF JobStep
<1> QED BY <1>1, <1>2, <1>3, TickInv DEF Next

\* The inductive invariant holds of every behaviour of a punctual deployment.
THEOREM Invariance == Punctual => (Spec => []IInv)
<1>1. Punctual /\ Init => IInv
  BY InitInv
<1>2. Punctual /\ IInv /\ [Next]_vars => IInv'
  BY NextInv
<1>3. SUFFICES ASSUME Punctual PROVE Spec => []IInv
  OBVIOUS
<1> QED BY <1>1, <1>2, <1>3, PTL DEF Spec

\* Rows, lock, passes, handlers and heartbeats keep their types.
THEOREM TypeCorrect == Punctual => (Spec => []TypeOK)
<1>1. IInv => TypeOK
  BY DEF IInv
<1> QED BY <1>1, Invariance, PTL

\* A row that is running always has the lock row by which another node can
\* find and fail it, whatever nodes crash and whatever statements fail.
THEOREM RunsAreFound == Punctual => (Spec => []NoOrphanedRun)
<1>1. IInv => NoOrphanedRun
  BY DEF IInv
<1> QED BY <1>1, Invariance, PTL

-----------------------------------------------------------------------------
(* What a step does to one row and its handler, for any constants.         *)

JobRow == [pc: JobPC, age: Int, result: Terminal, cancelled: BOOLEAN]

\* A row that nobody has claimed has no handler.
RowFine(a, j) ==
  /\ a \in TaskRow /\ j \in JobRow
  /\ a.status \in {"none", "pending"} => j.pc = "none"

\* A step leaves the row fine, an outcome as it is, and a handler that has begun
\* neither begins again nor gets another runner; one begins only as its row does.
RowStep(a, j, a2, j2) ==
  /\ RowFine(a2, j2)
  /\ a.status \in Terminal => a2.status = a.status
  /\ j.pc # "none" => (j2.pc = "run" => j.pc = "run") /\ a2.by = a.by
  /\ j2.pc \in {"run", "finish"} =>
       j.pc \in {"run", "finish"} \/ (a.status = "pending" /\ a2.status = "running")

RowsFine ==
  /\ tasks = [t \in Tasks |-> tasks[t]] /\ job = [t \in Tasks |-> job[t]]
  /\ \A t \in Tasks : RowFine(tasks[t], job[t])

RowsStep ==
  /\ tasks' = [t \in Tasks |-> tasks'[t]] /\ job' = [t \in Tasks |-> job'[t]]
  /\ \A t \in Tasks : RowStep(tasks[t], job[t], tasks'[t], job'[t])

\* Nothing happens to the row.
LEMMA RowStays ==
  ASSUME NEW a, NEW j, RowFine(a, j)
  PROVE  RowStep(a, j, a, j)
BY DEF RowStep

\* A step of one row.
LEMMA OneRow ==
  ASSUME RowsFine, NEW t \in Tasks, NEW a, NEW j,
         tasks' = [tasks EXCEPT ![t] = a], job' = [job EXCEPT ![t] = j],
         RowStep(tasks[t], job[t], a, j)
  PROVE  RowsStep
<1>1. /\ \A u \in Tasks : tasks'[u] = IF u = t THEN a ELSE tasks[u]
      /\ \A u \in Tasks : job'[u] = IF u = t THEN j ELSE job[u]
      /\ tasks' = [u \in Tasks |-> tasks'[u]] /\ job' = [u \in Tasks |-> job'[u]]
  BY DEF RowsFine
<1>2. ASSUME NEW u \in Tasks PROVE RowStep(tasks[u], job[u], tasks'[u], job'[u])
  <2>1. RowStep(tasks[u], job[u], tasks[u], job[u])
    BY RowStays DEF RowsFine
  <2> QED BY <1>1, <2>1
<1> QED BY <1>1, <1>2 DEF RowsStep

\* A step that changes neither rows nor handlers.
LEMMA NoRow ==
  ASSUME RowsFine, UNCHANGED <<tasks, job>>
  PROVE  RowsStep
BY RowStays DEF RowsFine, RowsStep

\* A step of one row's handler.
LEMMA OneJob ==
  ASSUME RowsFine, NEW t \in Tasks, NEW j, UNCHANGED tasks, job' = [job EXCEPT ![t] = j],
         RowStep(tasks[t], job[t], tasks[t], j)
  PROVE  RowsStep
<1>1. tasks' = [tasks EXCEPT ![t] = tasks[t]]
  BY DEF RowsFine
<1> QED BY <1>1, OneRow

\* The row is running and its lease counts as expired.
LEMMA MarkRow ==
  ASSUME RowsFine, NEW x, MarkSystemTaskLeaseExpired(x), UNCHANGED job
  PROVE  RowsStep
<1>1. CASE tasks[x].status # "running" \/ x \notin Tasks
  <2>1. UNCHANGED tasks
    BY <1>1 DEF MarkSystemTaskLeaseExpired, RowsFine
  <2> QED BY <2>1, NoRow
<1>2. CASE tasks[x].status = "running" /\ x \in Tasks
  <2>1. PICK a : a = [tasks[x] EXCEPT !.status = "failed", !.key = FALSE]
    OBVIOUS
  <2>2. tasks' = [tasks EXCEPT ![x] = a]
    BY <1>2, <2>1 DEF MarkSystemTaskLeaseExpired, RowsFine
  <2>3. tasks[x] \in TaskRow /\ RowFine(tasks[x], job[x])
    BY <1>2 DEF RowsFine, RowFine
  <2>4. a \in TaskRow /\ a.status = "failed" /\ a.by = tasks[x].by
    BY <2>1, <2>3 DEF TaskRow
  <2>5. RowStep(tasks[x], job[x], a, job[x])
    BY <1>2, <2>3, <2>4 DEF RowStep, RowFine
  <2>6. job' = [job EXCEPT ![x] = job[x]]
    BY DEF RowsFine
  <2> QED BY <1>2, <2>2, <2>5, <2>6, OneRow
<1> QED BY <1>1, <1>2

\* A row is created.
LEMMA CreateRow ==
  ASSUME RowsFine, NEW r \in Runners, CreateSystemTask(r)
  PROVE  RowsStep
<1>1. UNCHANGED job
  BY DEF CreateSystemTask
<1>2. CASE UNCHANGED tasks
  BY <1>1, <1>2, NoRow
<1>3. CASE \E t \in Unused :
             tasks' = [tasks EXCEPT ![t] = [status |-> "pending", key |-> TRUE, by |-> NoRunner]]
  <2>1. PICK t \in Tasks :
          /\ tasks[t].status = "none"
          /\ tasks' = [tasks EXCEPT ![t] = [status |-> "pending", key |-> TRUE, by |-> NoRunner]]
    BY <1>3 DEF Unused
  <2>2. PICK a : a = [status |-> "pending", key |-> TRUE, by |-> NoRunner]
    OBVIOUS
  <2>3. a \in TaskRow /\ a.status = "pending"
    BY <2>2 DEF TaskRow
  <2>4. RowFine(tasks[t], job[t]) /\ job[t].pc = "none"
    BY <2>1 DEF RowsFine, RowFine
  <2>5. RowStep(tasks[t], job[t], a, job[t])
    BY <2>1, <2>3, <2>4 DEF RowStep, RowFine
  <2>6. job' = [job EXCEPT ![t] = job[t]] /\ tasks' = [tasks EXCEPT ![t] = a]
    BY <1>1, <2>1, <2>2 DEF RowsFine
  <2> QED BY <2>5, <2>6, OneRow
<1> QED BY <1>2, <1>3 DEF CreateSystemTask

\* A row is claimed.
LEMMA ClaimRow ==
  ASSUME RowsFine, NEW r \in Runners, ClaimUpdate(r)
  PROVE  RowsStep
<1>1. CASE UNCHANGED <<tasks, job>>
  BY <1>1, NoRow
<1>2. CASE ~UNCHANGED <<tasks, job>>
  <2>1. PICK t : t = pass[r].cand
    OBVIOUS
  <2>2. /\ t \in Tasks /\ tasks[t].status = "pending"
        /\ tasks' = [tasks EXCEPT ![t].status = "running", ![t].by = r]
        /\ \/ job' = [job EXCEPT ![t] = NewJob]
           \/ job' = [job EXCEPT ![t] = [NewJob EXCEPT !.pc = "done"]]
    BY <1>2, <2>1 DEF ClaimUpdate, Pending
  <2>3. PICK a : a = [tasks[t] EXCEPT !.status = "running", !.by = r]
    OBVIOUS
  <2>4. PICK j : job' = [job EXCEPT ![t] = j] /\ (j = NewJob \/ j = [NewJob EXCEPT !.pc = "done"])
    BY <2>2
  <2>5. RowFine(tasks[t], job[t]) /\ tasks[t] \in TaskRow /\ job[t].pc = "none"
    BY <2>2 DEF RowsFine, RowFine
  <2>6. a \in TaskRow /\ a.status = "running"
    BY <2>3, <2>5 DEF TaskRow
  <2>7. j \in JobRow /\ j.pc \in {"run", "done"}
    <3>1. NewJob \in JobRow /\ NewJob.pc = "run"
      BY DEF NewJob, JobRow
    <3>2. CASE j = [NewJob EXCEPT !.pc = "done"]
      BY <3>1, <3>2 DEF JobRow
    <3> QED BY <2>4, <3>1, <3>2
  <2>8. RowStep(tasks[t], job[t], a, j)
    BY <2>2, <2>5, <2>6, <2>7 DEF RowStep, RowFine
  <2>9. tasks' = [tasks EXCEPT ![t] = a]
    BY <2>2, <2>3 DEF RowsFine
  <2> QED BY <2>2, <2>4, <2>8, <2>9, OneRow
<1> QED BY <1>1, <1>2

\* A handler's own step.
LEMMA JobMoves ==
  ASSUME RowsFine, NEW t \in Tasks, NEW j, UNCHANGED tasks, job' = [job EXCEPT ![t] = j],
         j \in JobRow, j.pc = job[t].pc \/ (job[t].pc = "run" /\ j.pc = "finish")
                       \/ (job[t].pc \in {"run", "finish", "release"} /\ j.pc = "done")
  PROVE  RowsStep
<1>1. RowFine(tasks[t], job[t])
  BY DEF RowsFine
<1>2. RowStep(tasks[t], job[t], tasks[t], j)
  BY <1>1 DEF RowStep, RowFine
<1> QED BY <1>2, OneJob

\* The steps of a handler and its heartbeat.
LEMMA JobRowStep ==
  ASSUME RowsFine, NEW t \in Tasks, JobStep(t)
  PROVE  RowsStep
<1>0. PICK y : y = job[t]
  OBVIOUS
<1>zero. PICK z \in Int : z = 0
  OBVIOUS
<1>00. y \in JobRow /\ RowFine(tasks[t], job[t])
  BY <1>0 DEF RowsFine, RowFine
<1>1. CASE HeartbeatRead(t)
  BY <1>1, NoRow DEF HeartbeatRead
<1>2. CASE HeartbeatWrite(t)
  <2>1. PICK ok \in BOOLEAN : job' = [job EXCEPT ![t].cancelled = @ \/ ~ok]
    <3>1. (HasLock(t, tasks[t].by) /\ ~ExpiredAt(beat[t].age)) \in BOOLEAN
      OBVIOUS
    <3> QED BY <1>2, <3>1 DEF HeartbeatWrite
  <2>2. PICK b \in BOOLEAN : b = (y.cancelled \/ ~ok)
    BY <1>00, <2>1
  <2>3. PICK j : j = [y EXCEPT !.cancelled = b]
    OBVIOUS
  <2>4. j \in JobRow /\ j.pc = y.pc
    BY <1>00, <2>3 DEF JobRow
  <2>5. job' = [job EXCEPT ![t] = j]
    BY <1>0, <2>1, <2>2, <2>3 DEF RowsFine
  <2> QED BY <1>0, <1>2, <2>4, <2>5, JobMoves DEF HeartbeatWrite
<1>3. CASE \E result \in Terminal : FinishRead(t, result)
  <2>1. PICK result \in Terminal : FinishRead(t, result)
    BY <1>3
  <2>2. PICK j : j = [y EXCEPT !.pc = "finish", !.age = z, !.result = result]
    OBVIOUS
  <2>3. j \in JobRow /\ j.pc = "finish"
    BY <1>00, <2>2 DEF JobRow
  <2>4. job' = [job EXCEPT ![t] = j] /\ y.pc = "run" /\ UNCHANGED tasks
    BY <1>0, <1>zero, <2>1, <2>2 DEF FinishRead, RowsFine
  <2> QED BY <1>0, <2>3, <2>4, JobMoves
<1>4. CASE FinishWrite(t)
  <2>0. y.pc = "finish"
    BY <1>0, <1>4 DEF FinishWrite
  <2>1. CASE UNCHANGED tasks /\ job' = [job EXCEPT ![t].pc = "done", ![t].age = 0]
    <3>1. PICK j : j = [y EXCEPT !.pc = "done", !.age = z]
      OBVIOUS
    <3>2. j \in JobRow /\ j.pc = "done"
      BY <1>00, <3>1 DEF JobRow
    <3>3. job' = [job EXCEPT ![t] = j]
      BY <1>0, <1>zero, <2>1, <3>1 DEF RowsFine
    <3> QED BY <1>0, <2>0, <2>1, <3>2, <3>3, JobMoves
  <2>2. CASE /\ tasks[t].status = "running"
             /\ tasks' = [tasks EXCEPT ![t].status = job[t].result, ![t].key = FALSE]
             /\ job' = [job EXCEPT ![t].pc = "release", ![t].age = 0]
    <3>1. PICK j : j = [y EXCEPT !.pc = "release", !.age = z]
      OBVIOUS
    <3>2. j \in JobRow /\ j.pc = "release"
      BY <1>00, <3>1 DEF JobRow
    <3>3. job' = [job EXCEPT ![t] = j]
      BY <1>0, <1>zero, <2>2, <3>1 DEF RowsFine
    <3>4. PICK s \in Terminal : s = y.result
      BY <1>00 DEF JobRow
    <3>5. PICK a : a = [tasks[t] EXCEPT !.status = s, !.key = FALSE]
      OBVIOUS
    <3>6. tasks' = [tasks EXCEPT ![t] = a]
      BY <1>0, <2>2, <3>4, <3>5 DEF RowsFine
    <3>7. tasks[t] \in TaskRow
      BY <1>00 DEF RowFine
    <3>8. a \in TaskRow /\ a.status = s /\ a.by = tasks[t].by
      BY <3>5, <3>7 DEF TaskRow
    <3>9. RowStep(tasks[t], job[t], a, j)
      BY <1>0, <2>0, <2>2, <3>2, <3>4, <3>8 DEF RowStep, RowFine
    <3> QED BY <3>3, <3>6, <3>9, OneRow
  <2> QED BY <1>4, <2>1, <2>2 DEF FinishWrite
<1>5. CASE ReleaseSystemTaskLock(t) \/ Abandon(t)
  <2>1. PICK j : j = [y EXCEPT !.pc = "done"]
    OBVIOUS
  <2>2. j \in JobRow /\ j.pc = "done"
    BY <1>00, <2>1 DEF JobRow
  <2>3. /\ job' = [job EXCEPT ![t] = j] /\ UNCHANGED tasks
        /\ y.pc \in {"run", "finish", "release"}
    BY <1>0, <1>5, <2>1 DEF ReleaseSystemTaskLock, Abandon, Executing, RowsFine
  <2> QED BY <1>0, <2>2, <2>3, JobMoves
<1> QED BY <1>1, <1>2, <1>3, <1>4, <1>5 DEF JobStep

\* A tick ages the handlers.
LEMMA TickRow ==
  ASSUME RowsFine, Tick
  PROVE  RowsStep
<1>1. job' = [t \in Tasks |-> job'[t]] /\ UNCHANGED tasks
  BY DEF Tick
<1>2. ASSUME NEW t \in Tasks PROVE RowStep(tasks[t], job[t], tasks'[t], job'[t])
  <2>1. PICK y : y = job[t]
    OBVIOUS
  <2>2. y \in JobRow /\ RowFine(tasks[t], y)
    BY <2>1 DEF RowsFine, RowFine
  <2>3. PICK n \in Int : n = Older(job[t].pc = "finish" /\ Executing(t), y.age)
    BY <2>2 DEF Older, JobRow
  <2>4. PICK j : j = [y EXCEPT !.age = n]
    OBVIOUS
  <2>5. j \in JobRow /\ j.pc = y.pc
    BY <2>2, <2>4 DEF JobRow
  <2>6. job'[t] = j
    BY <2>1, <2>3, <2>4 DEF Tick
  <2>7. RowStep(tasks[t], y, tasks[t], j)
    BY <2>2, <2>5 DEF RowStep, RowFine
  <2> QED BY <1>1, <2>1, <2>6, <2>7
<1> QED BY <1>1, <1>2 DEF RowsFine, RowsStep

\* Every step.
LEMMA NextRow ==
  ASSUME RowsFine, [Next]_vars
  PROVE  RowsStep
<1>1. CASE UNCHANGED vars
  BY <1>1, NoRow DEF vars
<1>2. ASSUME NEW r \in Runners,
             \/ SkipExpire(r) \/ ExpireRead(r) \/ SkipSchedule(r) \/ ScheduleRead(r)
             \/ ExpireDelete(r) \/ ClaimFind(r) \/ ClaimRead(r) \/ LockInsert(r)
             \/ LockLookup(r) \/ LockTakeover(r) \/ ClaimRelease(r) \/ Crash(r)
             \/ ExpireError(r) \/ ClaimError(r)
      PROVE  RowsStep
  <2>1. UNCHANGED <<tasks, job>>
    BY <1>2 DEF SkipExpire, ExpireRead, SkipSchedule, ScheduleRead, ExpireDelete, ClaimFind,
                ClaimRead, LockInsert, LockLookup, LockTakeover, ClaimRelease, Crash,
                ExpireError, ClaimError, Fails
  <2> QED BY <2>1, NoRow
<1>3. ASSUME NEW r \in Runners, ExpireMark(r) \/ ClaimMark(r) PROVE RowsStep
  BY <1>3, MarkRow, NoRow DEF ExpireMark, ClaimMark
<1>4. ASSUME NEW r \in Runners, CreateSystemTask(r) \/ ClaimUpdate(r) PROVE RowsStep
  BY <1>4, CreateRow, ClaimRow
<1>5. ASSUME NEW t \in Tasks, JobStep(t) PROVE RowsStep
  BY <1>5, JobRowStep
<1> QED BY <1>1, <1>2, <1>3, <1>4, <1>5, TickRow DEF Next, PassStep

\* Rows stay fine.
LEMMA RowsStepFine == RowsStep => RowsFine'
BY DEF RowsStep, RowStep, RowsFine

\* At the start nothing is claimed.
LEMMA InitRow == Init => RowsFine
<1> SUFFICES ASSUME Init PROVE RowsFine
  OBVIOUS
<1>1. ASSUME NEW t \in Tasks PROVE RowFine(tasks[t], job[t])
  <2>1. PICK s \in {"pending", "none"} :
          tasks[t] = [status |-> s, key |-> FALSE, by |-> NoRunner]
    BY DEF Init
  <2>2. tasks[t] \in TaskRow
    BY <2>1 DEF TaskRow
  <2>3. job[t] = [pc |-> "none", age |-> 0, result |-> "succeeded", cancelled |-> FALSE]
    BY DEF Init
  <2>4. job[t] \in JobRow /\ job[t].pc = "none"
    BY <2>3 DEF JobRow
  <2> QED BY <2>2, <2>4 DEF RowFine
<1> QED BY <1>1 DEF Init, RowsFine

\* Rows stay fine, with any delays and any rows at the start.
LEMMA RowsInvariance == Spec => []RowsFine
<1>1. RowsFine /\ [Next]_vars => RowsFine'
  BY NextRow, RowsStepFine
<1> QED BY <1>1, InitRow, PTL DEF Spec

\* An outcome is final, however late a handler or an expiry writes, with any
\* delays and any rows at the start (MarkSystemTaskLeaseExpired,
\* FinishSystemTaskTx).
THEOREM OutcomeFinal == Spec => TerminalIsFinal
<1>1. RowsFine /\ [Next]_vars =>
        [\A t \in Tasks : tasks[t].status \in Terminal => tasks'[t].status = tasks[t].status]_vars
  BY NextRow DEF RowsStep, RowStep
<1> QED BY <1>1, RowsInvariance, PTL DEF Spec, TerminalIsFinal

\* A row is executed by one handler of one runner only, however the lock moves
\* in between ("only one runner executes the task"), with any delays, errors and
\* rows at the start.
THEOREM RunsOnce == Spec => ExecutedOnce
<1>1. RowsFine /\ [Next]_vars =>
        [\A t \in Tasks : job[t].pc # "none" =>
           /\ job'[t].pc = "run" => job[t].pc = "run"
           /\ tasks'[t].by = tasks[t].by]_vars
  BY NextRow DEF RowsStep, RowStep
<1> QED BY <1>1, RowsInvariance, PTL DEF Spec, ExecutedOnce

-----------------------------------------------------------------------------
(* Nodes that renew in time: a handler at work holds the lock.             *)

Holds(t, l, a) == l.task = t /\ l.by = a.by /\ l.left >= 0

Held == \A t \in Tasks : AtWork(t) => Holds(t, lock, tasks[t])

\* A handler at work was at work before, or its row is just being claimed.
LEMMA WorkedBefore ==
  ASSUME RowsFine, RowsStep, alive' \subseteq alive, NEW t \in Tasks, AtWork(t)'
  PROVE  \/ AtWork(t) /\ tasks'[t].by = tasks[t].by
         \/ tasks[t].status = "pending" /\ tasks'[t].status = "running"
<1>1. job'[t].pc \in {"run", "finish"} /\ tasks'[t].by \in alive
  BY DEF AtWork, Executing
<1>2. RowStep(tasks[t], job[t], tasks'[t], job'[t])
  BY DEF RowsStep
<1>3. CASE job[t].pc \in {"run", "finish"}
  BY <1>1, <1>2, <1>3 DEF RowStep, AtWork, Executing
<1>4. CASE job[t].pc \notin {"run", "finish"}
  BY <1>1, <1>2, <1>4 DEF RowStep
<1> QED BY <1>3, <1>4

\* A step that leaves the lock to whoever works under it.
LEMMA HeldFrame ==
  ASSUME RowsFine, RowsStep, Held, alive' \subseteq alive, UNCHANGED tasks,
         \A t \in Tasks : AtWork(t) /\ Holds(t, lock, tasks[t]) /\ AtWork(t)' => Holds(t, lock', tasks[t])
  PROVE  Held'
<1>1. ASSUME NEW t \in Tasks, AtWork(t)' PROVE Holds(t, lock', tasks'[t])
  <2>1. AtWork(t)
    BY <1>1, WorkedBefore
  <2>2. Holds(t, lock, tasks[t])
    BY <2>1 DEF Held
  <2>3. Holds(t, lock', tasks[t])
    BY <1>1, <2>1, <2>2
  <2> QED BY <2>3
<1> QED BY <1>1 DEF Held

\* Steps of a pass that take or drop the lock: it has expired, there is none, or
\* it is the runner's own for a row it does not run.
LEMMA HeldPass ==
  ASSUME IInv, RowsFine, RowsStep, Held, NEW r \in Runners,
         ExpireDelete(r) \/ LockInsert(r) \/ LockTakeover(r) \/ ClaimRelease(r)
  PROVE  Held'
<1>1. UNCHANGED tasks /\ alive' \subseteq alive
  BY DEF ExpireDelete, LockInsert, LockTakeover, ClaimRelease
<1>2. lock.left \in Int /\ pass[r].age \in Nat
  BY DEF IInv, TypeOK, LockRow, PassState
<1>3. ASSUME NEW t \in Tasks, Holds(t, lock, tasks[t])
      PROVE  lock' = lock
  <2>1. lock.task = t /\ lock.by = tasks[t].by /\ lock.left >= 0 /\ t # 0
    BY <1>3 DEF Holds
  <2>2. PICK n \in Int, k \in Nat : n = lock.left /\ k = pass[r].age
    BY <1>2
  <2>3. ~(n + k < 0)
    BY <2>1, <2>2
  <2>4. ~ExpiredAt(pass[r].age)
    BY <2>2, <2>3 DEF ExpiredAt
  <2>5. CASE ExpireDelete(r) \/ LockTakeover(r)
    BY <2>4, <2>5 DEF ExpireDelete, LockTakeover
  <2>6. CASE LockInsert(r)
    BY <2>1, <2>6 DEF LockInsert
  <2>7. CASE ClaimRelease(r)
    <3>1. pass[r].cand \in Tasks /\ tasks[pass[r].cand].by # r
      BY <2>7 DEF ClaimRelease, At, IInv, ClaimInv
    <3> QED BY <2>1, <2>7, <3>1 DEF ClaimRelease
  <2> QED BY <2>5, <2>6, <2>7
<1> QED BY <1>1, <1>3, HeldFrame

\* A renewal, and a release by a handler whose row has its outcome.
LEMMA HeldJob ==
  ASSUME Punctual, IInv, RowsFine, RowsStep, Held, NEW u \in Tasks,
         HeartbeatWrite(u) \/ ReleaseSystemTaskLock(u)
  PROVE  Held'
<1>1. UNCHANGED tasks /\ alive' \subseteq alive
  BY DEF HeartbeatWrite, ReleaseSystemTaskLock
<1>2. ASSUME NEW t \in Tasks, AtWork(t), Holds(t, lock, tasks[t])
      PROVE  Holds(t, lock', tasks[t])
  <2>1. CASE UNCHANGED lock
    BY <1>2, <2>1
  <2>2. CASE HeartbeatWrite(u) /\ ~UNCHANGED lock
    <3>1. lock.task = u /\ lock' = LockFor(u, tasks[u].by, beat[u].age)
      BY <2>2 DEF HeartbeatWrite
    <3>2. u = t /\ beat[u].age \in Ages
      BY <1>2, <3>1 DEF Holds, IInv, TypeOK, BeatState
    <3>3. /\ lock'.task = u /\ lock'.by = tasks[u].by
          /\ lock'.left = TTL - beat[u].age /\ TTL - beat[u].age \in Nat
      BY <3>1, <3>2, LeaseFor
    <3>4. lock'.left >= 0
      BY <3>3
    <3> QED BY <3>2, <3>3, <3>4 DEF Holds
  <2>3. CASE ReleaseSystemTaskLock(u) /\ ~UNCHANGED lock
    <3>1. lock.task = u /\ job[u].pc = "release"
      BY <2>3 DEF ReleaseSystemTaskLock
    <3> QED BY <1>2, <3>1 DEF Holds, AtWork
  <2> QED BY <2>1, <2>2, <2>3
<1> QED BY <1>1, <1>2, HeldFrame

\* A tick: a handler at work renews first.
LEMMA HeldTick ==
  ASSUME Timely, IInv, RowsFine, RowsStep, Held, Tick
  PROVE  Held'
<1>1. UNCHANGED tasks /\ alive' \subseteq alive
  BY DEF Tick
<1>2. ASSUME NEW t \in Tasks, AtWork(t), Holds(t, lock, tasks[t])
      PROVE  Holds(t, lock', tasks[t])
  <2>1. lock.left > 0 /\ lock \in LockRow /\ lock.left \in Int
    BY <1>2 DEF Tick, AtWork, Holds, IInv, TypeOK, LockRow
  <2>2. CASE UNCHANGED lock
    BY <1>2, <2>2
  <2>3. CASE lock' = [lock EXCEPT !.left = @ - 1]
    <3>1. PICK n \in Int : n = lock.left
      BY <2>1
    <3>2. n - 1 \in Int /\ n - 1 >= 0
      BY <2>1, <3>1
    <3>3. lock' = [lock EXCEPT !.left = n - 1]
      BY <2>3, <3>1
    <3>4. lock'.task = lock.task /\ lock'.by = lock.by /\ lock'.left = n - 1
      BY <2>1, <3>3 DEF LockRow
    <3> QED BY <1>2, <3>2, <3>4 DEF Holds
  <2> QED BY <2>2, <2>3 DEF Tick
<1> QED BY <1>1, <1>2, HeldFrame

\* A claim: the runner has the lock, and has just taken it.
LEMMA HeldClaim ==
  ASSUME Punctual, IInv, RowsFine, RowsStep, Held, NEW r \in Runners, ClaimUpdate(r)
  PROVE  Held'
<1>1. UNCHANGED <<lock, alive>> /\ pass[r].pc = "update"
  BY DEF ClaimUpdate, At
<1>2. PICK c \in Tasks : c = pass[r].cand
  BY <1>1 DEF IInv, ClaimInv
<1>3. lock.task = c /\ lock.by = r /\ lock.left = TTL - pass[r].age /\ pass[r].age \in Ages
  BY <1>1, <1>2 DEF IInv, ClaimInv, TypeOK, PassState
<1>4. lock.left >= 0
  <2>1. PICK n \in Nat : n = pass[r].age /\ n <= MaxStall
    BY <1>3
  <2>2. TTL - n >= 0
    BY <2>1 DEF Punctual
  <2> QED BY <1>3, <2>1, <2>2
<1>5. ASSUME NEW t \in Tasks, AtWork(t)' PROVE Holds(t, lock', tasks'[t])
  <2>1. CASE AtWork(t) /\ tasks'[t].by = tasks[t].by
    BY <1>1, <2>1 DEF Held, Holds
  <2>2. CASE tasks[t].status = "pending" /\ tasks'[t].status = "running"
    <3>1. tasks' = [tasks EXCEPT ![c].status = "running", ![c].by = r]
      BY <1>2, <2>2 DEF ClaimUpdate
    <3>2. tasks[t] \in TaskRow
      BY DEF RowsFine, RowFine
    <3>3. t = c
      BY <1>2, <2>2, <3>1 DEF RowsFine
    <3>4. tasks'[t].by = r
      BY <3>1, <3>2, <3>3 DEF RowsFine, TaskRow
    <3> QED BY <1>1, <1>3, <1>4, <3>3, <3>4 DEF Holds
  <2> QED BY <1>1, <1>5, <2>1, <2>2, WorkedBefore
<1> QED BY <1>5 DEF Held

\* A step that leaves the lock alone and claims nothing.
LEMMA HeldQuiet ==
  ASSUME RowsFine, RowsStep, Held, alive' \subseteq alive, UNCHANGED lock,
         \A t \in Tasks : ~(tasks[t].status = "pending" /\ tasks'[t].status = "running")
  PROVE  Held'
<1>1. ASSUME NEW t \in Tasks, AtWork(t)' PROVE Holds(t, lock', tasks'[t])
  <2>1. AtWork(t) /\ tasks'[t].by = tasks[t].by
    BY <1>1, WorkedBefore
  <2> QED BY <2>1 DEF Held, Holds
<1> QED BY <1>1 DEF Held

\* Every step.
LEMMA HeldNext ==
  ASSUME Punctual, Timely, IInv, RowsFine, Held, [Next]_vars
  PROVE  Held'
<1>0. RowsStep
  BY NextRow
<1>1. CASE UNCHANGED vars
  BY <1>0, <1>1, HeldQuiet DEF vars
<1>2. ASSUME NEW r \in Runners,
             \/ SkipExpire(r) \/ ExpireRead(r) \/ SkipSchedule(r) \/ ScheduleRead(r)
             \/ ClaimFind(r) \/ ClaimRead(r) \/ LockLookup(r) \/ Crash(r)
             \/ ExpireError(r) \/ ClaimError(r)
      PROVE  Held'
  <2>1. UNCHANGED <<tasks, lock>> /\ alive' \subseteq alive
    BY <1>2 DEF SkipExpire, ExpireRead, SkipSchedule, ScheduleRead, ClaimFind,
                ClaimRead, LockLookup, Crash, ExpireError, ClaimError, Fails
  <2> QED BY <1>0, <2>1, HeldQuiet
<1>3. ASSUME NEW r \in Runners, ExpireMark(r) \/ ClaimMark(r) PROVE Held'
  <2>1. UNCHANGED <<lock, alive>> /\ (MarkSystemTaskLeaseExpired(pass[r].seen) \/ UNCHANGED tasks)
    BY <1>3 DEF ExpireMark, ClaimMark
  <2>2. \A t \in Tasks : tasks[t] \in TaskRow
    BY DEF RowsFine, RowFine
  <2>3. \A t \in Tasks : ~(tasks[t].status = "pending" /\ tasks'[t].status = "running")
    BY <2>1, <2>2 DEF MarkSystemTaskLeaseExpired, RowsFine, TaskRow
  <2> QED BY <1>0, <2>1, <2>3, HeldQuiet
<1>4. ASSUME NEW r \in Runners, CreateSystemTask(r) PROVE Held'
  <2>1. UNCHANGED <<lock, alive>>
    BY <1>4 DEF CreateSystemTask
  <2>2. \A t \in Tasks : ~(tasks[t].status = "pending" /\ tasks'[t].status = "running")
    BY <1>4 DEF CreateSystemTask, RowsFine
  <2> QED BY <1>0, <2>1, <2>2, HeldQuiet
<1>5. ASSUME NEW r \in Runners,
             ExpireDelete(r) \/ LockInsert(r) \/ LockTakeover(r) \/ ClaimRelease(r)
      PROVE  Held'
  BY <1>0, <1>5, HeldPass
<1>6. ASSUME NEW r \in Runners, ClaimUpdate(r) PROVE Held'
  BY <1>0, <1>6, HeldClaim
<1>7. ASSUME NEW t \in Tasks, HeartbeatWrite(t) \/ ReleaseSystemTaskLock(t) PROVE Held'
  BY <1>0, <1>7, HeldJob
<1>8. ASSUME NEW t \in Tasks,
             \/ HeartbeatRead(t) \/ Abandon(t) \/ \E result \in Terminal : FinishRead(t, result)
      PROVE  Held'
  <2>1. UNCHANGED <<tasks, lock, alive>>
    BY <1>8 DEF HeartbeatRead, Abandon, FinishRead
  <2> QED BY <1>0, <2>1, HeldQuiet
<1>9. ASSUME NEW u \in Tasks, FinishWrite(u) PROVE Held'
  <2>1. UNCHANGED <<lock, alive>>
    BY <1>9 DEF FinishWrite
  <2>2. job[u] \in JobRow /\ tasks[u] \in TaskRow
    BY DEF RowsFine, RowFine
  <2>3. PICK s \in Terminal : s = job[u].result
    BY <2>2 DEF JobRow
  <2>4. UNCHANGED tasks \/ tasks' = [tasks EXCEPT ![u].status = s, ![u].key = FALSE]
    BY <1>9, <2>3 DEF FinishWrite
  <2>5. \A t \in Tasks : ~(tasks[t].status = "pending" /\ tasks'[t].status = "running")
    BY <2>2, <2>3, <2>4 DEF RowsFine, TaskRow
  <2> QED BY <1>0, <2>1, <2>5, HeldQuiet
<1>10. CASE Tick
  BY <1>0, <1>10, HeldTick
<1> QED BY <1>1, <1>2, <1>3, <1>4, <1>5, <1>6, <1>7, <1>8, <1>9, <1>10
        DEF Next, PassStep, JobStep

\* When nodes renew in time and no function is delayed for longer than a lease,
\* a handler at work holds the lock and no other handler of the type works, for
\* any number of nodes, crashes and database errors (runWithLeaseHeartbeat:
\* "the per-type lock guarantees only one runner executes the task").
THEOREM RunsAlone == Punctual /\ Timely => (Spec => []SerialExecution)
<1>1. SUFFICES ASSUME Punctual, Timely PROVE Spec => []SerialExecution
  OBVIOUS
<1>2. Init => Held
  BY DEF Init, Held, AtWork, Executing
<1>3. IInv /\ RowsFine /\ Held /\ [Next]_vars => Held'
  BY <1>1, HeldNext
<1>4. Held => SerialExecution
  BY DEF Held, Holds, SerialExecution
<1>5. Spec => []IInv
  BY <1>1, Invariance
<1> QED BY <1>2, <1>3, <1>4, <1>5, RowsInvariance, PTL DEF Spec

=============================================================================
