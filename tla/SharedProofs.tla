---------------------------- MODULE SharedProofs ----------------------------
(***************************************************************************)
(* Proofs about what the nodes and requests share: two calls never work    *)
(* under one lease (NamedLease), no request gets a user older than itself  *)
(* (UserAuthCache), and the counters of a channel are its requests         *)
(* (RelaySlots).  The first two depend on time: their invariants compare   *)
(* what is left of a lease or a fence with the age of the call that relies *)
(* on it, under the bounds on a call's delay that the modules assume.      *)
(***************************************************************************)
EXTENDS NamedLease, UserAuthCache, RelaySlots, Sums, TLAPS

-----------------------------------------------------------------------------
(* NamedLease: two calls never work under the lease at once.               *)

\* A call c that works under a row of its own has time left: without a
\* heartbeat until the longest work is over, with one until the next renewal
\* has been written.
InTime(u, row, c) ==
  /\ row.left >= 0
  /\ u # "sync" => c.beat = "off" /\ row.left + c.age >= MaxWork
  /\ u = "sync" =>
       \/ c.beat = "wait" /\ row.left >= MaxStall /\ row.left + c.since >= Interval + MaxStall
       \/ c.beat = "write" /\ c.since <= MaxStall /\ row.left + c.since >= MaxStall

Works(c) == c.pc = "work" /\ ~c.cancelled

HolderInTime == \A w \in Workers : Works(call[w]) => lease.holder = w /\ InTime(use, lease, call[w])

\* A statement follows its clock reading in time.
Prompt(c) == c.pc \in {"insert", "takeover"} => c.age <= MaxStall

LeaseInv ==
  /\ LeaseTypeOK /\ HolderInTime
  /\ \A w \in Workers : Prompt(call[w])

\* The constants, and what the types say of a call.
LEMMA LeaseParts ==
  ASSUME LeaseTypeOK, NEW w \in Workers
  PROVE  /\ LeaseTTL \in Nat /\ Interval \in Nat /\ MaxWork \in Nat /\ MaxStall \in Nat
         /\ call \in [Workers -> Call] /\ call[w] \in Call /\ call[w].age \in Nat
         /\ call[w].since \in Nat /\ call[w].pc \in CallPC /\ call[w].beat \in {"off", "wait", "write"}
         /\ lease \in Lease /\ lease.left \in Int /\ w # "free" /\ w # "past"
BY NamedLeaseAssumption DEF LeaseTypeOK, Call, Lease

\* One call goes on as n: the others keep what they have.
LEMMA CallInv ==
  ASSUME LeaseInv, NEW w \in Workers, NEW n, n \in Call, call' = [call EXCEPT ![w] = n],
         lease' \in Lease, use' = use,
         breaker' \in [Workers -> [fails: Nat, open: Nat]], faults' \in 0..MaxFaults,
         Prompt(n), Works(n) => lease'.holder = w /\ InTime(use, lease', n),
         lease.holder # w /\ lease.holder # "free" /\ lease.left >= 0 => lease' = lease
  PROVE  LeaseInv'
<1>1. call \in [Workers -> Call] /\ use \in LeaseUse
  BY DEF LeaseInv, LeaseTypeOK
<1>2. call'[w] = n /\ \A v \in Workers \ {w} : call'[v] = call[v]
  BY <1>1
<1>3. LeaseTypeOK'
  BY <1>1 DEF LeaseTypeOK
<1>4. ASSUME NEW v \in Workers PROVE Prompt(call'[v])
  BY <1>2 DEF LeaseInv
<1>5. ASSUME NEW v \in Workers, Works(call'[v])
      PROVE  lease'.holder = v /\ InTime(use', lease', call'[v])
  <2>1. CASE v = w
    BY <1>2, <1>5, <2>1
  <2>2. CASE v # w
    <3>1. call'[v] = call[v] /\ lease.holder = v /\ InTime(use, lease, call[v])
      BY <1>2, <1>5, <2>2 DEF LeaseInv, HolderInTime
    <3>2. v # "free" /\ lease.left >= 0
      BY <3>1, NamedLeaseAssumption DEF InTime
    <3>3. lease' = lease
      BY <2>2, <3>1, <3>2
    <3> QED BY <3>1, <3>3
  <2> QED BY <2>1, <2>2
<1> QED BY <1>3, <1>4, <1>5 DEF LeaseInv, HolderInTime

\* Faults are counted within their bound.
LEMMA LeaseFaults ==
  ASSUME faults \in 0..MaxFaults, Fault \/ NoFault
  PROVE  faults' \in 0..MaxFaults
BY NamedLeaseAssumption DEF Fault, NoFault

\* What is left of a lease that its holder's call leaves behind.
LEMMA Orphaned ==
  ASSUME NEW w \in Workers, NEW row \in Lease
  PROVE  /\ Orphan(w, row) \in Lease
         /\ row.holder # w => Orphan(w, row) = row
BY DEF Orphan, Lease

\* A call that has ended.
LEMMA EndedCall == NoCall \in Call /\ Prompt(NoCall) /\ ~Works(NoCall)
BY DEF NoCall, Call, CallPC, Prompt, Works

\* A call ends and leaves its row, or none.
LEMMA EndCallInv ==
  ASSUME LeaseInv, NEW w \in Workers, NEW row \in Lease, EndCall(w, row), use' = use,
         row = lease \/ lease.holder = w \/ lease.holder = "free",
         breaker' \in [Workers -> [fails: Nat, open: Nat]], faults' \in 0..MaxFaults
  PROVE  LeaseInv'
<1>1. call' = [call EXCEPT ![w] = NoCall] /\ lease' = Orphan(w, row)
  BY DEF EndCall
<1>2. lease' \in Lease /\ (row.holder # w => lease' = row)
  BY <1>1, Orphaned
<1> QED BY <1>1, <1>2, EndedCall, CallInv

\* A call gets the lease, which nobody can be working under.
LEMMA AcquireInv ==
  ASSUME LeaseInv, NEW w \in Workers, Acquire(w), call[w].pc \in {"insert", "takeover"},
         lease.holder = "free" \/ lease.left < 0, UNCHANGED <<use, breaker>>,
         faults' \in 0..MaxFaults
  PROVE  LeaseInv'
<1>0. /\ LeaseTTL \in Nat /\ Interval \in Nat /\ MaxWork \in Nat /\ MaxStall \in Nat
      /\ call[w].age \in Nat /\ call[w].age <= MaxStall
  BY LeaseParts DEF LeaseInv, Prompt
<1>1. PICK b \in {"off", "wait"} : b = IF use = "sync" THEN "wait" ELSE "off"
  OBVIOUS
<1>2. PICK n : n = [NoCall EXCEPT !.pc = "work", !.beat = b]
  OBVIOUS
<1>3. n \in Call /\ n.pc = "work" /\ n.age = 0 /\ n.since = 0 /\ n.beat = b
  BY <1>2 DEF NoCall, Call, CallPC
<1>4. call' = [call EXCEPT ![w] = n]
  BY <1>1, <1>2 DEF Acquire
<1>5. lease' = [holder |-> w, left |-> LeaseTTL - call[w].age]
  BY DEF Acquire
<1>6. lease' \in Lease /\ lease'.holder = w /\ lease'.left = LeaseTTL - call[w].age
  BY <1>0, <1>5 DEF Lease
<1>7. InTime(use, lease', n)
  <2>1. lease'.left >= MaxWork /\ lease'.left >= Interval + MaxStall /\ lease'.left >= MaxStall
        /\ lease'.left \in Int /\ lease'.left >= 0
    BY <1>0, <1>6, TimelyAssumption
  <2> QED BY <1>0, <1>1, <1>3, <2>1 DEF InTime
<1>8. Prompt(n)
  BY <1>3 DEF Prompt
<1>9. breaker' \in [Workers -> [fails: Nat, open: Nat]]
  BY DEF LeaseInv, LeaseTypeOK
<1>10. lease.left \in Int
  BY LeaseParts DEF LeaseInv
<1>11. lease.holder # w /\ lease.holder # "free" /\ lease.left >= 0 => lease' = lease
  BY <1>10
<1> QED BY <1>3, <1>4, <1>6, <1>7, <1>8, <1>9, <1>11, CallInv

\* Acquisition: the call reads the clock, inserts the row or takes it over.
LEMMA AcquiringInv ==
  ASSUME LeaseInv, NEW w \in Workers, Start(w) \/ Insert(w) \/ Takeover(w)
  PROVE  LeaseInv'
<1>0. /\ call[w] \in Call /\ call[w].age \in Nat /\ lease \in Lease /\ lease.left \in Int
      /\ LeaseTTL \in Nat /\ MaxStall \in Nat /\ Prompt(call[w]) /\ w # "free" /\ w # "past"
  BY LeaseParts DEF LeaseInv
<1>1. /\ use' = use /\ breaker' = breaker /\ faults' \in 0..MaxFaults
      /\ breaker' \in [Workers -> [fails: Nat, open: Nat]]
  BY LeaseFaults DEF LeaseInv, LeaseTypeOK, Start, Insert, Takeover
<1>2. CASE Start(w)
  <2>1. PICK n : n = [NoCall EXCEPT !.pc = "insert"]
    OBVIOUS
  <2>2. n \in Call /\ n.pc = "insert" /\ n.age = 0
    BY <2>1 DEF NoCall, Call, CallPC
  <2>3. call' = [call EXCEPT ![w] = n] /\ lease' = lease
    BY <1>2, <2>1 DEF Start
  <2>4. Prompt(n) /\ ~Works(n)
    BY <1>0, <2>2 DEF Prompt, Works
  <2> QED BY <1>0, <1>1, <2>2, <2>3, <2>4, CallInv
<1>3. CASE Insert(w)
  <2>1. CASE lease.holder = "free" /\ Acquire(w)
    BY <1>1, <1>3, <2>1, AcquireInv DEF Insert
  <2>2. CASE call' = [call EXCEPT ![w].pc = "takeover"] /\ UNCHANGED lease
    <3>1. PICK n : n = [call[w] EXCEPT !.pc = "takeover"]
      OBVIOUS
    <3>2. n \in Call /\ n.pc = "takeover" /\ n.age = call[w].age
      BY <1>0, <3>1 DEF Call, CallPC
    <3>3. call' = [call EXCEPT ![w] = n]
      BY <2>2, <3>1
    <3>4. Prompt(n) /\ ~Works(n)
      BY <1>0, <1>3, <3>2 DEF Prompt, Works, Insert
    <3> QED BY <1>0, <1>1, <2>2, <3>2, <3>3, <3>4, CallInv
  <2>3. CASE EndCall(w, lease)
    BY <1>0, <1>1, <2>3, EndCallInv
  <2>4. CASE lease.holder = "free" /\ EndCall(w, [holder |-> w, left |-> LeaseTTL - call[w].age])
    <3>1. [holder |-> w, left |-> LeaseTTL - call[w].age] \in Lease
      BY <1>0 DEF Lease
    <3> QED BY <1>1, <2>4, <3>1, EndCallInv
  <2> QED BY <1>3, <2>1, <2>2, <2>3, <2>4 DEF Insert
<1>4. CASE Takeover(w)
  <2>1. CASE Expired(call[w].age) /\ Acquire(w)
    <3>1. lease.left < 0
      BY <1>0, <2>1 DEF Expired
    <3> QED BY <1>1, <1>4, <2>1, <3>1, AcquireInv DEF Takeover
  <2>2. CASE EndCall(w, lease)
    BY <1>0, <1>1, <2>2, EndCallInv
  <2> QED BY <1>4, <2>1, <2>2 DEF Takeover
<1> QED BY <1>2, <1>3, <1>4

\* The heartbeat renews in time, or cancels the work.
LEMMA BeatInv ==
  ASSUME LeaseInv, NEW w \in Workers, BeatStep(w)
  PROVE  LeaseInv'
<1>0. /\ call[w] \in Call /\ call[w].since \in Nat /\ lease \in Lease /\ lease.left \in Int
      /\ LeaseTTL \in Nat /\ MaxStall \in Nat /\ Interval \in Nat /\ MaxWork \in Nat
      /\ Prompt(call[w]) /\ call[w].age \in Nat
      /\ Works(call[w]) => lease.holder = w /\ InTime(use, lease, call[w])
  BY LeaseParts DEF LeaseInv, HolderInTime
<1>1. /\ use' = use /\ breaker' = breaker /\ faults' \in 0..MaxFaults
      /\ breaker' \in [Workers -> [fails: Nat, open: Nat]]
  BY LeaseFaults DEF LeaseInv, LeaseTypeOK, BeatStep, BeatRead, BeatWrite, BeatStop
<1>2. CASE BeatRead(w)
  <2>0. call[w].beat = "wait" /\ call[w].since >= Interval /\ lease' = lease
    BY <1>2 DEF BeatRead
  <2>1. PICK n : n = [call[w] EXCEPT !.beat = "write", !.since = 0]
    OBVIOUS
  <2>2. n \in Call /\ n.pc = call[w].pc /\ n.age = call[w].age /\ n.beat = "write" /\ n.since = 0
    BY <1>0, <2>1 DEF Call
  <2>c. n.cancelled = call[w].cancelled
    BY <1>0, <2>1, Zenon DEF Call
  <2>3. call' = [call EXCEPT ![w] = n]
    BY <1>2, <2>1 DEF BeatRead
  <2>4. Prompt(n) /\ (Works(n) => Works(call[w]))
    BY <1>0, <2>2, <2>c DEF Prompt, Works
  <2>5. Works(n) => InTime(use, lease', n)
    BY <1>0, <2>0, <2>2, <2>4 DEF InTime
  <2> QED BY <1>0, <1>1, <2>0, <2>2, <2>3, <2>4, <2>5, CallInv
<1>3. CASE BeatWrite(w)
  <2>1. CASE /\ lease.holder = w /\ lease' = [lease EXCEPT !.left = LeaseTTL - call[w].since]
             /\ call' = [call EXCEPT ![w].beat = "wait"]
    <3>1. PICK n : n = [call[w] EXCEPT !.beat = "wait"]
      OBVIOUS
    <3>2. n \in Call /\ n.pc = call[w].pc /\ n.age = call[w].age /\ n.beat = "wait" /\ n.since = call[w].since
      BY <1>0, <3>1 DEF Call
    <3>c. n.cancelled = call[w].cancelled
      BY <1>0, <3>1, Zenon DEF Call
    <3>3. call' = [call EXCEPT ![w] = n]
      BY <2>1, <3>1
    <3>4. Prompt(n) /\ (Works(n) => Works(call[w]))
      BY <1>0, <3>2, <3>c DEF Prompt, Works
    <3>5. lease' \in Lease /\ lease'.holder = w /\ lease'.left = LeaseTTL - call[w].since
      BY <1>0, <2>1 DEF Lease
    <3>6. Works(n) => InTime(use, lease', n)
      <4> SUFFICES ASSUME Works(n) PROVE InTime(use, lease', n)
        OBVIOUS
      <4>1. call[w].beat = "write" /\ InTime(use, lease, call[w])
        BY <1>0, <1>3, <3>4 DEF BeatWrite
      <4>2. use = "sync" /\ call[w].since <= MaxStall
        BY <4>1 DEF InTime
      <4>3. /\ lease'.left >= 0 /\ lease'.left >= MaxStall
            /\ lease'.left + call[w].since >= Interval + MaxStall
        BY <1>0, <3>5, <4>2, TimelyAssumption
      <4> QED BY <3>2, <4>2, <4>3 DEF InTime
    <3> QED BY <1>0, <1>1, <2>1, <3>2, <3>3, <3>4, <3>5, <3>6, CallInv
  <2>2. CASE call' = [call EXCEPT ![w].beat = "off", ![w].cancelled = TRUE] /\ UNCHANGED lease
    <3>1. PICK n : n = [call[w] EXCEPT !.beat = "off", !.cancelled = TRUE]
      OBVIOUS
    <3>2. n \in Call /\ n.pc = call[w].pc /\ n.age = call[w].age /\ n.cancelled
      BY <1>0, <3>1 DEF Call
    <3>3. call' = [call EXCEPT ![w] = n]
      BY <2>2, <3>1
    <3>4. Prompt(n) /\ ~Works(n)
      BY <1>0, <3>2 DEF Prompt, Works
    <3> QED BY <1>0, <1>1, <2>2, <3>2, <3>3, <3>4, CallInv
  <2> QED BY <1>3, <2>1, <2>2 DEF BeatWrite
<1>4. CASE BeatStop(w)
  <2>1. PICK n : n = [call[w] EXCEPT !.beat = "off"]
    OBVIOUS
  <2>2. n \in Call /\ n.pc = call[w].pc /\ call[w].pc = "drain"
    BY <1>0, <1>4, <2>1 DEF Call, BeatStop
  <2>3. call' = [call EXCEPT ![w] = n] /\ lease' = lease
    BY <1>4, <2>1 DEF BeatStop
  <2>4. Prompt(n) /\ ~Works(n)
    BY <2>2 DEF Prompt, Works
  <2> QED BY <1>0, <1>1, <2>2, <2>3, <2>4, CallInv
<1> QED BY <1>2, <1>3, <1>4 DEF BeatStep

\* The work ends, and with it the lease or not.
LEMMA LeavingInv ==
  ASSUME LeaseInv, NEW w \in Workers,
         \/ Return(w) \/ Release(w) \/ LeaseCrash(w)
         \/ \E outcome \in {"success", "busy", "timeout", "failure"} : WarmEnd(w, outcome)
  PROVE  LeaseInv'
<1>0. /\ call[w] \in Call /\ lease \in Lease /\ Prompt(call[w]) /\ NoLeaseRow \in Lease
      /\ breaker \in [Workers -> [fails: Nat, open: Nat]] /\ faults \in 0..MaxFaults
      /\ MaxFail \in Nat /\ Cooldown \in Nat
  BY LeaseParts, NamedLeaseAssumption DEF LeaseInv, LeaseTypeOK, NoLeaseRow, Lease
<1>1. CASE Return(w)
  <2>1. PICK n : n = [call[w] EXCEPT !.pc = IF use = "sync" THEN "drain" ELSE "release",
                                     !.cancelled = TRUE]
    OBVIOUS
  <2>2. n \in Call /\ n.pc \in {"drain", "release"}
    BY <1>0, <2>1 DEF Call, CallPC
  <2>3. /\ call' = [call EXCEPT ![w] = n] /\ lease' = lease /\ use' = use /\ breaker' = breaker
        /\ faults' = faults
    BY <1>1, <2>1 DEF Return, NoFault
  <2>4. Prompt(n) /\ ~Works(n)
    BY <2>2 DEF Prompt, Works
  <2> QED BY <1>0, <2>2, <2>3, <2>4, CallInv
<1>2. CASE Release(w)
  <2>1. use' = use /\ breaker' = breaker /\ faults' \in 0..MaxFaults
    BY <1>0, <1>2, LeaseFaults DEF Release
  <2>2. CASE EndCall(w, IF lease.holder = w THEN NoLeaseRow ELSE lease)
    BY <1>0, <2>1, <2>2, EndCallInv
  <2>3. CASE EndCall(w, lease)
    BY <1>0, <2>1, <2>3, EndCallInv
  <2> QED BY <1>2, <2>2, <2>3 DEF Release
<1>3. CASE LeaseCrash(w)
  <2>1. use' = use /\ faults' \in 0..MaxFaults /\ EndCall(w, lease)
    BY <1>0, <1>3, LeaseFaults DEF LeaseCrash
  <2>2. breaker' \in [Workers -> [fails: Nat, open: Nat]]
    BY <1>0, <1>3 DEF LeaseCrash, ClosedBreaker
  <2> QED BY <1>0, <2>1, <2>2, EndCallInv
<1>4. ASSUME NEW outcome, WarmEnd(w, outcome) PROVE LeaseInv'
  <2>1. use' = use /\ faults' \in 0..MaxFaults /\ EndCall(w, lease)
    BY <1>0, <1>4, LeaseFaults DEF WarmEnd
  <2>2. breaker[w] \in [fails: Nat, open: Nat] /\ breaker[w].fails \in Nat /\ breaker[w].open \in Nat
    BY <1>0
  <2>3. PICK f \in Nat : f = Failures(w, outcome)
    BY <1>0, <2>2 DEF Failures
  <2>4. PICK o \in Nat : o = CASE outcome = "failure" /\ f >= MaxFail -> Cooldown
                               [] outcome = "success" -> 0
                               [] OTHER -> breaker[w].open
    BY <1>0, <2>2
  <2>5. breaker' = [breaker EXCEPT ![w] = [fails |-> f, open |-> o]]
    BY <1>0, <1>4, <2>3, <2>4 DEF WarmEnd
  <2>6. breaker' \in [Workers -> [fails: Nat, open: Nat]]
    BY <1>0, <2>5
  <2> QED BY <1>0, <2>1, <2>6, EndCallInv
<1> QED BY <1>1, <1>2, <1>3, <1>4

\* A tick takes time from the lease, which its holder still has.
LEMMA TickInv ==
  ASSUME LeaseInv, LeaseTick
  PROVE  LeaseInv'
<1>0. /\ call \in [Workers -> Call] /\ lease \in Lease /\ lease.left \in Int
      /\ breaker \in [Workers -> [fails: Nat, open: Nat]] /\ faults \in 0..MaxFaults
      /\ LeaseTTL \in Nat /\ MaxStall \in Nat /\ Interval \in Nat /\ MaxWork \in Nat
      /\ use \in LeaseUse
  BY NamedLeaseAssumption DEF LeaseInv, LeaseTypeOK, Lease
<1>1. /\ \A w \in Workers : MayWait(call[w])
      /\ lease' = IF lease.holder # "free" /\ lease.left > LeaseFloor
                  THEN [lease EXCEPT !.left = @ - 1] ELSE lease
      /\ call' = [w \in Workers |-> Aged(call[w])]
      /\ breaker' = [w \in Workers |-> [breaker[w] EXCEPT !.open = Cooled(@)]]
      /\ faults' = faults /\ use' = use
  BY DEF LeaseTick, NoFault
<1>2. lease' \in Lease /\ lease'.holder = lease.holder
  BY <1>0, <1>1 DEF Lease
<1>3. ASSUME NEW w \in Workers PROVE breaker'[w] \in [fails: Nat, open: Nat]
  <2>1. breaker[w] \in [fails: Nat, open: Nat] /\ breaker[w].open \in Nat
    BY <1>0
  <2>2. Cooled(breaker[w].open) \in Nat
    BY <2>1 DEF Cooled
  <2> QED BY <1>1, <2>1, <2>2
<1>4. breaker' \in [Workers -> [fails: Nat, open: Nat]]
  <2>1. breaker' = [w \in Workers |-> breaker'[w]]
    BY <1>1
  <2> QED BY <1>3, <2>1
<1>5. ASSUME NEW w \in Workers
      PROVE  /\ call'[w] \in Call /\ call'[w].pc = call[w].pc /\ call'[w].beat = call[w].beat
             /\ call'[w].age = (IF Timed(call[w]) THEN call[w].age + 1 ELSE call[w].age)
             /\ call'[w].since = (IF call[w].beat = "off" THEN call[w].since ELSE call[w].since + 1)
             /\ call'[w].cancelled = call[w].cancelled
  <2>0. call[w] \in Call /\ call[w].age \in Nat /\ call[w].since \in Nat
    BY <1>0 DEF Call
  <2>1. PICK a \in Nat : a = IF Timed(call[w]) THEN call[w].age + 1 ELSE call[w].age
    BY <2>0
  <2>2. PICK s \in Nat : s = IF call[w].beat = "off" THEN call[w].since ELSE call[w].since + 1
    BY <2>0
  <2>3. call'[w] = [call[w] EXCEPT !.age = a, !.since = s]
    BY <1>1, <2>1, <2>2 DEF Aged
  <2>4. /\ call'[w] \in Call /\ call'[w].pc = call[w].pc /\ call'[w].beat = call[w].beat
        /\ call'[w].age = a /\ call'[w].since = s
    BY <2>0, <2>3 DEF Call
  <2>5. call'[w].cancelled = call[w].cancelled
    BY <2>0, <2>3, Zenon DEF Call
  <2> QED BY <2>1, <2>2, <2>4, <2>5
<1>6. call' \in [Workers -> Call]
  <2>1. call' = [w \in Workers |-> call'[w]]
    BY <1>1
  <2> QED BY <1>5, <2>1
<1>7. LeaseTypeOK'
  BY <1>0, <1>1, <1>2, <1>4, <1>6 DEF LeaseTypeOK
<1>8. ASSUME NEW w \in Workers PROVE Prompt(call'[w])
  <2> SUFFICES ASSUME call'[w].pc \in {"insert", "takeover"} PROVE call'[w].age <= MaxStall
    BY DEF Prompt
  <2>1. Timed(call[w]) /\ call[w].pc # "work" /\ call[w].age \in Nat
    BY <1>0, <1>5 DEF Timed, Call
  <2>2. call[w].age < MaxStall
    BY <1>1, <2>1 DEF MayWait
  <2> QED BY <1>0, <1>5, <2>1, <2>2
<1>9. ASSUME NEW w \in Workers, Works(call'[w])
      PROVE  lease'.holder = w /\ InTime(use', lease', call'[w])
  <2>1. Works(call[w]) /\ call[w].pc = "work"
    BY <1>5, <1>9 DEF Works
  <2>2. lease.holder = w /\ InTime(use, lease, call[w]) /\ w # "free"
    BY <2>1, NamedLeaseAssumption DEF LeaseInv, HolderInTime
  <2>3. lease.left >= 0 /\ lease.left > LeaseFloor
    BY <1>0, <2>2 DEF InTime, LeaseFloor
  <2>4. lease'.left = lease.left - 1
    BY <1>0, <1>1, <2>2, <2>3 DEF Lease
  <2>5. call[w].age \in Nat /\ call[w].since \in Nat /\ MayWait(call[w])
    BY <1>0, <1>1 DEF Call
  <2>6. CASE use # "sync"
    <3>1. Timed(call[w]) /\ call[w].beat = "off" /\ lease.left + call[w].age >= MaxWork
      BY <2>1, <2>2, <2>6 DEF Timed, InTime
    <3>2. call[w].age < MaxWork
      BY <2>1, <2>5, <3>1 DEF MayWait
    <3>3. lease'.left >= 0 /\ lease'.left + call'[w].age >= MaxWork
      BY <1>0, <1>5, <2>4, <2>5, <3>1, <3>2
    <3> QED BY <1>1, <1>2, <1>5, <2>2, <2>6, <3>1, <3>3 DEF InTime
  <2>7. CASE use = "sync" /\ call[w].beat = "wait"
    <3>1. call[w].since < Interval /\ lease.left + call[w].since >= Interval + MaxStall
      BY <2>2, <2>5, <2>7 DEF MayWait, InTime
    <3>2. call'[w].since = call[w].since + 1 /\ call'[w].beat = "wait"
      BY <1>5, <2>7
    <3>3. /\ lease'.left >= 0 /\ lease'.left >= MaxStall
          /\ lease'.left + call'[w].since >= Interval + MaxStall
      BY <1>0, <2>4, <2>5, <3>1, <3>2
    <3> QED BY <1>1, <1>2, <2>2, <2>7, <3>2, <3>3 DEF InTime
  <2>8. CASE use = "sync" /\ call[w].beat = "write"
    <3>1. call[w].since < MaxStall /\ lease.left + call[w].since >= MaxStall
      BY <2>2, <2>5, <2>8 DEF MayWait, InTime
    <3>2. call'[w].since = call[w].since + 1 /\ call'[w].beat = "write"
      BY <1>5, <2>8
    <3>3. lease'.left >= 0 /\ lease'.left + call'[w].since >= MaxStall /\ call'[w].since <= MaxStall
      BY <1>0, <2>4, <2>5, <3>1, <3>2
    <3> QED BY <1>1, <1>2, <2>2, <2>8, <3>2, <3>3 DEF InTime
  <2> QED BY <2>2, <2>6, <2>7, <2>8 DEF InTime
<1> QED BY <1>7, <1>8, <1>9 DEF LeaseInv, HolderInTime

\* The lease starts free.
LEMMA LeaseStart ==
  ASSUME LeaseInit
  PROVE  LeaseInv
<1>1. /\ use \in LeaseUse /\ lease \in Lease /\ faults \in 0..MaxFaults
      /\ breaker \in [Workers -> [fails: Nat, open: Nat]]
  BY NamedLeaseAssumption DEF LeaseInit, NoLeaseRow, Lease, ClosedBreaker
<1>2. call \in [Workers -> Call] /\ \A w \in Workers : Prompt(call[w]) /\ ~Works(call[w])
  BY EndedCall DEF LeaseInit
<1> QED BY <1>1, <1>2 DEF LeaseInv, LeaseTypeOK, HolderInTime

\* Exclusive: as long as heartbeats and bounded work keep within the lease's
\* length, two calls never work under a named lease at once: whatever the number
\* of nodes, whichever statements fail, are delayed or are applied unknown to
\* their caller, and wherever nodes crash.
THEOREM LeaseExclusive == LeaseSpec => []Exclusive
<1>1. LeaseInit => LeaseInv
  BY LeaseStart
<1>2. LeaseInv /\ [LeaseNext]_leaseVars => LeaseInv'
  <2> SUFFICES ASSUME LeaseInv, [LeaseNext]_leaseVars PROVE LeaseInv'
    OBVIOUS
  <2>1. ASSUME NEW w \in Workers, Start(w) \/ CallStep(w) \/ BeatStep(w) \/ LeaseCrash(w)
        PROVE  LeaseInv'
    <3>1. CASE Start(w) \/ Insert(w) \/ Takeover(w)
      BY <3>1, AcquiringInv
    <3>2. CASE BeatStep(w)
      BY <3>2, BeatInv
    <3>3. CASE \/ Return(w) \/ Release(w) \/ LeaseCrash(w)
               \/ \E outcome \in {"success", "busy", "timeout", "failure"} : WarmEnd(w, outcome)
      BY <3>3, LeavingInv
    <3> QED BY <2>1, <3>1, <3>2, <3>3 DEF CallStep
  <2>2. CASE LeaseTick
    BY <2>2, TickInv
  <2>3. CASE UNCHANGED leaseVars
    BY <2>3 DEF leaseVars, LeaseInv, LeaseTypeOK, HolderInTime
  <2> QED BY <2>1, <2>2, <2>3 DEF LeaseNext
<1>3. LeaseInv => Exclusive
  BY DEF LeaseInv, HolderInTime, Exclusive, Entitled, Works
<1> QED BY <1>1, <1>2, <1>3, PTL DEF LeaseSpec

-----------------------------------------------------------------------------
(* UserAuthCache: no request gets the user as it was before the request.   *)

\* x, a call that carries a version, is held back: by the committed floor, or
\* by a fence that outlasts the call.
Barred(fl, fe, x) ==
  fl > x.version \/ (fe.version > x.version /\ fe.left + x.age > MaxDelay)

\* A reader, where v is the committed version: a hash older than the reader is
\* barred at the check, a row read before the last commit at the fill.
ReaderOK(v, fl, fe, x) ==
  /\ x.since <= v
  /\ ~Waiting(x.pc) => x.age <= MaxDelay
  /\ x.pc = "check" /\ x.version < x.since => Barred(fl, fe, x)
  /\ x.pc \in {"floor", "fill"} =>
       x.since <= x.version /\ x.version <= v /\ (x.version < v => Barred(fl, fe, x))
  /\ x.pc = "returned" => x.since <= x.version

\* A fence of the next version stands since a transaction that may commit it
\* passed it.
Fenced(v, fe, x) ==
  x.pc \in {"update", "commit"} /\ x.version = v + 1 =>
    fe.version = v + 1 /\ fe.left + x.age >= FenceTTL

\* A transaction and its publication.
BumpOK(v, fl, fe, x) ==
  /\ ~Waiting(x.pc) => x.age <= MaxDelay
  /\ x.pc \in {"fence", "update"} => x.version <= v + 1
  /\ x.pc = "commit" => x.version = v + 1
  /\ x.pc \in {"reread", "publish"} => x.version <= v
  /\ x.pc = "publish" /\ x.version < v => Barred(fl, fe, x)
  /\ Fenced(v, fe, x)

\* The keys: a hash older than the committed version is below the floor or a
\* fence, and a fence above a hash outlives it and a call that has read it.
KeysOK(v, h, fl, fe) ==
  /\ fe.version <= v + 1
  /\ h # NoEntry =>
       /\ 1 <= h.left /\ h.left <= HashTTL
       /\ fe.version > h.version => h.left + MaxDelay <= fe.left
       /\ h.version < v => fl > h.version \/ fe.version > h.version

ReadersOK == \A r \in Readers : ReaderOK(version, floor, fence, reader[r])

BumpsOK == \A b \in Bumpers : BumpOK(version, floor, fence, bump[b])

WriterOK == \A b \in Bumpers : bump[b].pc = "commit" => writer = b

FenceInv ==
  AuthTypeOK /\ KeysOK(version, hash, floor, fence) /\ ReadersOK /\ BumpsOK /\ WriterOK

\* The constants.
LEMMA AuthConstants ==
  /\ HashTTL \in Nat /\ HashTTL >= 1 /\ FenceTTL \in Nat /\ MaxDelay \in Nat
  /\ HashTTL + MaxDelay <= FenceTTL /\ 2 * MaxDelay < FenceTTL
  /\ MaxAuthVersion \in Nat /\ MaxTroubles \in Nat
BY UserAuthCacheAssumption, FenceAssumption

\* What the types say of the parts.
LEMMA AuthParts ==
  ASSUME AuthTypeOK
  PROVE  /\ version \in Nat /\ floor \in Nat /\ hash \in Key /\ fence \in Key
         /\ hash.version \in Nat /\ hash.left \in Nat /\ fence.version \in Nat /\ fence.left \in Nat
         /\ reader \in [Readers -> Reader] /\ bump \in [Bumpers -> Bump]
         /\ \A r \in Readers : /\ reader[r] \in Reader /\ reader[r].version \in Nat
                               /\ reader[r].since \in Nat /\ reader[r].age \in Nat
         /\ \A b \in Bumpers : /\ bump[b] \in Bump /\ bump[b].version \in Nat /\ bump[b].age \in Nat
BY DEF AuthTypeOK, Key, Reader, Bump

\* Troubles are counted within their bound.
LEMMA Troubles ==
  ASSUME troubles \in 0..MaxTroubles, AuthTrouble \/ Calm
  PROVE  troubles' \in 0..MaxTroubles
BY AuthConstants DEF AuthTrouble, Calm

\* What bars more keeps every call that stays as it is.
LEMMA StaysOK ==
  ASSUME NEW v, NEW fl, NEW fe, NEW fl2, NEW fe2, NEW x,
         Barred(fl, fe, x) => Barred(fl2, fe2, x)
  PROVE  /\ ReaderOK(v, fl, fe, x) => ReaderOK(v, fl2, fe2, x)
         /\ BumpOK(v, fl, fe, x) /\ Fenced(v, fe2, x) => BumpOK(v, fl2, fe2, x)
BY DEF ReaderOK, BumpOK

\* One reader goes on as n, and nothing else changes.
LEMMA ReaderInv ==
  ASSUME FenceInv, NEW r \in Readers, NEW n, n \in Reader, Read(r, n),
         ReaderOK(version, floor, fence, n),
         UNCHANGED <<version, writer, hash, fence, floor, bump>>, AuthTrouble \/ Calm
  PROVE  FenceInv'
<1>1. reader \in [Readers -> Reader] /\ troubles' \in 0..MaxTroubles
  BY Troubles DEF FenceInv, AuthTypeOK
<1>2. /\ reader' \in [Readers -> Reader] /\ reader'[r] = n
      /\ \A q \in Readers \ {r} : reader'[q] = reader[q]
  BY <1>1 DEF Read
<1>3. AuthTypeOK'
  BY <1>1, <1>2 DEF FenceInv, AuthTypeOK
<1>4. ReadersOK'
  BY <1>2 DEF FenceInv, ReadersOK
<1> QED BY <1>3, <1>4 DEF FenceInv, BumpsOK, WriterOK

\* One transaction goes on as n, and nothing but the writer changes.
LEMMA BumpInv ==
  ASSUME FenceInv, NEW b \in Bumpers, NEW n, n \in Bump, Proceed(b, n),
         BumpOK(version, floor, fence, n), n.pc = "commit" => writer' = b,
         writer' \in Bumpers \cup {"nobody"},
         \A d \in Bumpers \ {b} : writer = d => writer' = d,
         UNCHANGED <<version, hash, fence, floor, reader>>, AuthTrouble \/ Calm
  PROVE  FenceInv'
<1>1. bump \in [Bumpers -> Bump] /\ troubles' \in 0..MaxTroubles
  BY Troubles DEF FenceInv, AuthTypeOK
<1>2. /\ bump' \in [Bumpers -> Bump] /\ bump'[b] = n
      /\ \A d \in Bumpers \ {b} : bump'[d] = bump[d]
  BY <1>1 DEF Proceed
<1>3. AuthTypeOK'
  BY <1>1, <1>2 DEF FenceInv, AuthTypeOK
<1>4. BumpsOK'
  BY <1>2 DEF FenceInv, BumpsOK
<1>5. WriterOK'
  BY <1>2 DEF FenceInv, WriterOK
<1> QED BY <1>3, <1>4, <1>5 DEF FenceInv, ReadersOK

\* A call that is over.
LEMMA OverOK ==
  ASSUME NEW v \in Nat, NEW fl, NEW fe
  PROVE  /\ NoBump \in Bump /\ BumpOK(v, fl, fe, NoBump) /\ NoBump.pc = "idle"
         /\ NoReader \in Reader /\ NoReader.pc = "idle" /\ NoReader.since = 0
         /\ NoReader.version = 0 /\ NoReader.age = 0 /\ ReaderOK(v, fl, fe, NoReader)
BY DEF NoBump, NoReader, Bump, Reader, BumpOK, ReaderOK, Waiting, Fenced

ReaderPC == {"idle", "hash", "check", "row", "floor", "fill", "returned", "denied"}

\* A reader that goes on.
LEMMA ReaderGoesOn ==
  ASSUME NEW x \in Reader, NEW pc \in ReaderPC
  PROVE  \E n \in Reader : /\ n = [x EXCEPT !.pc = pc] /\ n.pc = pc
                           /\ n.version = x.version /\ n.since = x.since /\ n.age = x.age
<1>1. PICK n : n = [x EXCEPT !.pc = pc]
  OBVIOUS
<1>2. n \in Reader /\ n.pc = pc /\ n.version = x.version /\ n.since = x.since /\ n.age = x.age
  BY <1>1 DEF Reader, ReaderPC
<1> QED BY <1>1, <1>2

\* A reader that begins.
LEMMA ReaderBegins ==
  ASSUME NEW v \in Nat
  PROVE  \E n \in Reader : /\ n = [NoReader EXCEPT !.pc = "hash", !.since = v]
                           /\ n.pc = "hash" /\ n.since = v /\ n.age = 0
<1>1. PICK n : n = [NoReader EXCEPT !.pc = "hash", !.since = v]
  OBVIOUS
<1>2. n \in Reader /\ n.pc = "hash" /\ n.since = v /\ n.age = 0
  BY <1>1 DEF Reader, NoReader
<1> QED BY <1>1, <1>2

\* A reader that is denied.
LEMMA ReaderDenied ==
  \E n \in Reader : n = [NoReader EXCEPT !.pc = "denied"] /\ n.pc = "denied" /\ n.since = 0
<1>1. PICK n : n = [NoReader EXCEPT !.pc = "denied"]
  OBVIOUS
<1>2. n \in Reader /\ n.pc = "denied" /\ n.since = 0
  BY <1>1 DEF Reader, NoReader
<1> QED BY <1>1, <1>2

\* A reader on its way to the row, or at its end.
LEMMA PassingOK ==
  ASSUME NEW v \in Nat, NEW fl, NEW fe, NEW n \in Reader, n.since <= v
  PROVE  /\ n.pc \in {"hash", "row"} /\ n.age <= MaxDelay => ReaderOK(v, fl, fe, n)
         /\ n.pc = "denied" => ReaderOK(v, fl, fe, n)
         /\ n.pc = "returned" /\ n.since <= n.version => ReaderOK(v, fl, fe, n)
BY DEF ReaderOK, Waiting

\* The steps of a reader that do not write.
LEMMA ReadingInv ==
  ASSUME FenceInv, NEW r \in Readers,
         ReadStart(r) \/ ReadHash(r) \/ CheckFloor(r) \/ ReadRow(r) \/ RowFloor(r)
  PROVE  FenceInv'
<1>x. PICK x : x = reader[r]
  OBVIOUS
<1>0. /\ x \in Reader /\ x.version \in Nat /\ x.since \in Nat /\ x.age \in Nat
      /\ version \in Nat /\ hash.version \in Nat /\ hash.left \in Nat /\ fence.version \in Nat
      /\ fence.left \in Nat /\ floor \in Nat /\ ReaderOK(version, floor, fence, x)
      /\ KeysOK(version, hash, floor, fence)
  BY <1>x, AuthParts DEF FenceInv, ReadersOK
<1>c. MaxDelay \in Nat /\ HashTTL \in Nat
  BY AuthConstants
<1>p. /\ "check" \in ReaderPC /\ "row" \in ReaderPC /\ "floor" \in ReaderPC /\ "fill" \in ReaderPC
      /\ x.since <= version
  BY <1>0 DEF ReaderPC, ReaderOK
<1>1. /\ UNCHANGED <<version, writer, hash, fence, floor, bump>> /\ (AuthTrouble \/ Calm)
  BY DEF ReadStart, ReadHash, CheckFloor, ReadRow, RowFloor
<1>2. CASE ReadStart(r)
  <2>1. PICK n \in Reader : /\ n = [NoReader EXCEPT !.pc = "hash", !.since = version]
                            /\ n.pc = "hash" /\ n.since = version /\ n.age = 0
    BY <1>0, <1>p, ReaderBegins
  <2>2. Read(r, n)
    BY <1>x, <1>2, <2>1 DEF ReadStart
  <2>3. ReaderOK(version, floor, fence, n)
    <3>1. n.since <= version /\ n.age <= MaxDelay
      BY <1>0, <1>c, <2>1
    <3> QED BY <1>0, <2>1, <3>1, PassingOK
  <2> QED BY <1>1, <2>2, <2>3, ReaderInv
<1>3. ASSUME Read(r, [x EXCEPT !.pc = "row"]), ~Waiting(x.pc) PROVE FenceInv'
  <2>1. PICK n \in Reader : /\ n = [x EXCEPT !.pc = "row"] /\ n.pc = "row"
                            /\ n.since = x.since /\ n.age = x.age
    BY <1>0, <1>p, ReaderGoesOn
  <2>2. n.age <= MaxDelay
    BY <1>0, <1>3, <2>1 DEF ReaderOK
  <2>3. ReaderOK(version, floor, fence, n)
    BY <1>0, <1>p, <2>1, <2>2, PassingOK
  <2> QED BY <1>x, <1>1, <1>3, <2>1, <2>3, ReaderInv
<1>4. CASE ReadHash(r)
  <2>0. x.pc = "hash" /\ ~Waiting(x.pc) /\ x.age <= MaxDelay
    BY <1>x, <1>0, <1>4 DEF ReadHash, Waiting, ReaderOK
  <2>1. CASE hash # NoEntry /\ Read(r, [x EXCEPT !.pc = "check", !.version = hash.version])
    <3>n. PICK n : n = [x EXCEPT !.pc = "check", !.version = hash.version]
      OBVIOUS
    <3>1. /\ n = [x EXCEPT !.pc = "check", !.version = hash.version] /\ n \in Reader
          /\ n.pc = "check" /\ n.version = hash.version /\ n.since = x.since /\ n.age = x.age
      BY <1>0, <3>n DEF Reader
    <3>2. ASSUME n.version < n.since PROVE Barred(floor, fence, n)
      <4>1. /\ hash.version < version /\ 1 <= hash.left
            /\ floor > hash.version \/ fence.version > hash.version
            /\ fence.version > hash.version => hash.left + MaxDelay <= fence.left
        BY <1>0, <1>p, <2>1, <3>1, <3>2 DEF KeysOK
      <4> QED BY <1>0, <1>c, <3>1, <4>1 DEF Barred
    <3>3. ReaderOK(version, floor, fence, n)
      BY <1>0, <1>p, <2>0, <3>1, <3>2 DEF ReaderOK
    <3> QED BY <1>1, <2>1, <3>1, <3>3, ReaderInv
  <2> QED BY <1>x, <1>3, <1>4, <2>0, <2>1 DEF ReadHash
<1>5. CASE CheckFloor(r)
  <2>0. x.pc = "check" /\ ~Waiting(x.pc) /\ x.age <= MaxDelay
    BY <1>x, <1>0, <1>5 DEF CheckFloor, Waiting, ReaderOK
  <2>1. CASE Floor <= x.version /\ ReadEnd(r, x.version)
    <3>n. PICK n : n = [NoReader EXCEPT !.pc = "returned", !.version = x.version, !.since = x.since]
      OBVIOUS
    <3>1. /\ n = [NoReader EXCEPT !.pc = "returned", !.version = x.version, !.since = x.since] /\ n \in Reader
          /\ n.pc = "returned" /\ n.version = x.version /\ n.since = x.since
      BY <1>0, <3>n DEF Reader, NoReader
    <3>2. ~Barred(floor, fence, x)
      BY <1>0, <2>1 DEF Barred, Floor
    <3>3. x.since <= x.version
      BY <1>0, <2>0, <3>2 DEF ReaderOK
    <3>4. ReaderOK(version, floor, fence, n)
      BY <1>0, <1>p, <3>1, <3>3, PassingOK
    <3> QED BY <1>x, <1>1, <2>1, <3>1, <3>4, ReaderInv DEF ReadEnd
  <2>2. CASE Read(r, [x EXCEPT !.pc = "row", !.version = 0])
    <3>n. PICK n : n = [x EXCEPT !.pc = "row", !.version = 0]
      OBVIOUS
    <3>1. /\ n = [x EXCEPT !.pc = "row", !.version = 0] /\ n \in Reader
          /\ n.pc = "row" /\ n.since = x.since /\ n.age = x.age
      BY <1>0, <3>n DEF Reader
    <3>2. ReaderOK(version, floor, fence, n)
      BY <1>0, <1>p, <2>0, <3>1, PassingOK
    <3> QED BY <1>1, <2>2, <3>1, <3>2, ReaderInv
  <2> QED BY <1>x, <1>5, <2>1, <2>2 DEF CheckFloor
<1>6. CASE ReadRow(r)
  <2>0. x.pc = "row" /\ ~Waiting(x.pc) /\ x.age <= MaxDelay
    BY <1>x, <1>0, <1>6 DEF ReadRow, Waiting, ReaderOK
  <2>n. PICK n : n = [x EXCEPT !.pc = "floor", !.version = version]
    OBVIOUS
  <2>1. /\ n = [x EXCEPT !.pc = "floor", !.version = version] /\ n \in Reader
        /\ n.pc = "floor" /\ n.version = version /\ n.since = x.since /\ n.age = x.age
    BY <1>0, <2>n DEF Reader
  <2>2. ReaderOK(version, floor, fence, n)
    BY <1>0, <1>p, <2>0, <2>1 DEF ReaderOK
  <2> QED BY <1>x, <1>1, <1>6, <2>1, <2>2, ReaderInv DEF ReadRow
<1>7. CASE RowFloor(r)
  <2>0. x.pc = "floor" /\ ~Waiting(x.pc) /\ x.age <= MaxDelay
    BY <1>x, <1>0, <1>7 DEF RowFloor, Waiting, ReaderOK
  <2>1. CASE Denied(r)
    <3>1. PICK n \in Reader : n = [NoReader EXCEPT !.pc = "denied"] /\ n.pc = "denied" /\ n.since = 0
      BY <1>0, <1>p, ReaderDenied
    <3>2. ReaderOK(version, floor, fence, n)
      <4>1. n.since <= version
        BY <1>0, <3>1
      <4> QED BY <1>0, <3>1, <4>1, PassingOK
    <3> QED BY <1>1, <2>1, <3>1, <3>2, ReaderInv DEF Denied
  <2>2. CASE Read(r, [x EXCEPT !.pc = "fill"])
    <3>1. PICK n \in Reader : /\ n = [x EXCEPT !.pc = "fill"] /\ n.pc = "fill"
                              /\ n.version = x.version /\ n.since = x.since /\ n.age = x.age
      BY <1>0, <1>p, ReaderGoesOn
    <3>2. Barred(floor, fence, x) => Barred(floor, fence, n)
      BY <3>1 DEF Barred
    <3>3. ReaderOK(version, floor, fence, n)
      BY <1>0, <1>p, <2>0, <3>1, <3>2 DEF ReaderOK
    <3> QED BY <1>1, <2>2, <3>1, <3>3, ReaderInv
  <2> QED BY <1>x, <1>7, <2>1, <2>2 DEF RowFloor
<1> QED BY <1>2, <1>4, <1>5, <1>6, <1>7

\* The keys change: whoever was barred stays barred, and fences that a
\* transaction relies on stand.
BarsMore == \A x : x.version \in Nat /\ x.age \in Nat /\ Barred(floor, fence, x) => Barred(floor', fence', x)

ReaderKept(r) == reader'[r] = reader[r] \/ ReaderOK(version, floor', fence', reader'[r])

BumpKept(b) ==
  \/ bump'[b] = bump[b] /\ Fenced(version, fence', bump[b])
  \/ BumpOK(version, floor', fence', bump'[b])

\* Such a change keeps the invariant.
LEMMA KeysInv ==
  ASSUME FenceInv, version' = version, hash' \in Key, fence' \in Key, floor' \in Nat,
         KeysOK(version, hash', floor', fence'), BarsMore,
         reader' \in [Readers -> Reader], bump' \in [Bumpers -> Bump],
         writer' \in Bumpers \cup {"nobody"}, WriterOK', AuthTrouble \/ Calm,
         \A r \in Readers : ReaderKept(r), \A b \in Bumpers : BumpKept(b)
  PROVE  FenceInv'
<1>0. AuthTypeOK /\ ReadersOK /\ BumpsOK
  BY DEF FenceInv
<1>1. AuthTypeOK'
  BY <1>0, Troubles DEF AuthTypeOK
<1>2. ASSUME NEW r \in Readers PROVE ReaderOK(version, floor', fence', reader'[r])
  <2>1. CASE reader'[r] = reader[r]
    <3>1. ReaderOK(version, floor, fence, reader[r])
      BY <1>0 DEF ReadersOK
    <3>2. reader[r].version \in Nat /\ reader[r].age \in Nat
      BY <1>0, AuthParts
    <3>3. Barred(floor, fence, reader[r]) => Barred(floor', fence', reader[r])
      BY <3>2 DEF BarsMore
    <3> QED BY <2>1, <3>1, <3>3, StaysOK
  <2> QED BY <2>1 DEF ReaderKept
<1>3. ASSUME NEW b \in Bumpers PROVE BumpOK(version, floor', fence', bump'[b])
  <2>1. CASE bump'[b] = bump[b] /\ Fenced(version, fence', bump[b])
    <3>1. BumpOK(version, floor, fence, bump[b])
      BY <1>0 DEF BumpsOK
    <3>2. bump[b].version \in Nat /\ bump[b].age \in Nat
      BY <1>0, AuthParts
    <3>3. Barred(floor, fence, bump[b]) => Barred(floor', fence', bump[b])
      BY <3>2 DEF BarsMore
    <3> QED BY <2>1, <3>1, <3>3, StaysOK
  <2> QED BY <2>1 DEF BumpKept
<1> QED BY <1>1, <1>2, <1>3 DEF FenceInv, ReadersOK, BumpsOK

\* The script writes only the committed version, and the floor then bars what
\* the fence has barred.
LEMMA Written ==
  ASSUME FenceInv, NEW v \in Nat, v <= version, v < version => Refused(v), ~Refused(v),
         NEW q, WriteCache(v, q)
  PROVE  /\ hash' \in Key /\ fence' \in Key /\ floor' \in Nat
         /\ KeysOK(version, hash', floor', fence') /\ BarsMore
         /\ \A b \in Bumpers : Fenced(version, fence', bump[b])
<1>0. /\ version \in Nat /\ floor \in Nat /\ hash \in Key /\ fence \in Key /\ v = version
      /\ hash.version \in Nat /\ hash.left \in Nat /\ fence.version \in Nat /\ fence.left \in Nat
  BY AuthParts DEF FenceInv
<1>c. MaxDelay \in Nat /\ HashTTL \in Nat /\ HashTTL >= 1
  BY AuthConstants
<1>1. fence.version <= v /\ floor <= v /\ hash.version <= v
  BY <1>0 DEF Refused
<1>2. floor' = v /\ floor' \in Nat
  BY <1>0, <1>1 DEF WriteCache
<1>3. fence' \in Key /\ fence'.version = 0
  BY <1>0, <1>1 DEF WriteCache, NoEntry, Key
<1>4. hash' = [version |-> v, left |-> HashTTL] \/ (hash' = hash /\ hash = NoEntry)
  BY DEF WriteCache
<1>5. hash' \in Key
  BY <1>0, <1>c, <1>4 DEF Key
<1>6. KeysOK(version, hash', floor', fence')
  <2>1. CASE hash' = [version |-> v, left |-> HashTTL]
    <3>1. hash'.version = v /\ hash'.left = HashTTL
      BY <2>1
    <3> QED BY <1>0, <1>c, <1>3, <3>1 DEF KeysOK
  <2>2. CASE hash' = NoEntry
    BY <1>0, <1>3, <2>2 DEF KeysOK
  <2> QED BY <1>4, <2>1, <2>2
<1>7. BarsMore
  BY <1>0, <1>1, <1>2 DEF BarsMore, Barred
<1>8. ASSUME NEW b \in Bumpers PROVE Fenced(version, fence', bump[b])
  <2>1. Fenced(version, fence, bump[b])
    BY DEF FenceInv, BumpsOK, BumpOK
  <2>2. fence.version # version + 1
    BY <1>0, <1>1
  <2> QED BY <2>1, <2>2 DEF Fenced
<1> QED BY <1>2, <1>3, <1>5, <1>6, <1>7, <1>8

\* Who is barred is refused.
LEMMA BarredRefused ==
  ASSUME NEW x, Barred(floor, fence, x)
  PROVE  Refused(x.version)
BY DEF Barred, Refused

\* The fill.
LEMMA FillInv ==
  ASSUME FenceInv, NEW r \in Readers, FillHash(r)
  PROVE  FenceInv'
<1>x. PICK x : x = reader[r]
  OBVIOUS
<1>0. /\ x \in Reader /\ x.version \in Nat /\ x.since \in Nat /\ x.age \in Nat
      /\ version \in Nat /\ ReaderOK(version, floor, fence, x) /\ reader \in [Readers -> Reader]
  BY <1>x, AuthParts DEF FenceInv, ReadersOK
<1>1. /\ UNCHANGED <<version, writer, bump>> /\ (AuthTrouble \/ Calm) /\ x.pc = "fill"
  BY <1>x DEF FillHash
<1>2. /\ x.since <= x.version /\ x.version <= version /\ x.since <= version
      /\ x.version < version => Barred(floor, fence, x)
  BY <1>0, <1>1 DEF ReaderOK
<1>n. PICK n : n = [NoReader EXCEPT !.pc = "returned", !.version = x.version, !.since = x.since]
  OBVIOUS
<1>3. n \in Reader /\ n.pc = "returned" /\ n.version = x.version /\ n.since = x.since
  BY <1>0, <1>n DEF Reader, NoReader
<1>4. ASSUME NEW fl, NEW fe PROVE ReaderOK(version, fl, fe, n)
  BY <1>0, <1>2, <1>3, PassingOK
<1>5. CASE Denied(r) /\ UNCHANGED <<hash, fence, floor>>
  <2>1. PICK m \in Reader : m = [NoReader EXCEPT !.pc = "denied"] /\ m.pc = "denied" /\ m.since = 0
    BY ReaderDenied
  <2>2. ReaderOK(version, floor, fence, m)
    <3>1. m.since <= version
      BY <1>0, <2>1
    <3> QED BY <1>0, <2>1, <3>1, PassingOK
  <2> QED BY <1>1, <1>5, <2>1, <2>2, ReaderInv DEF Denied
<1>6. CASE ReadEnd(r, x.version) /\ UNCHANGED <<hash, fence, floor>>
  <2>1. Read(r, n)
    BY <1>x, <1>6, <1>n DEF ReadEnd
  <2> QED BY <1>1, <1>3, <1>4, <1>6, <2>1, ReaderInv
<1>7. CASE ~Refused(x.version) /\ WriteCache(x.version, TRUE) /\ ReadEnd(r, x.version)
  <2>1. /\ hash' \in Key /\ fence' \in Key /\ floor' \in Nat
        /\ KeysOK(version, hash', floor', fence') /\ BarsMore
        /\ \A b \in Bumpers : Fenced(version, fence', bump[b])
    <3>1. x.version < version => Refused(x.version)
      BY <1>2, BarredRefused
    <3> QED BY <1>0, <1>2, <1>7, <3>1, Written
  <2>2. reader' = [reader EXCEPT ![r] = n]
    BY <1>x, <1>7, <1>n DEF ReadEnd, Read
  <2>3. reader' \in [Readers -> Reader] /\ \A q \in Readers : ReaderKept(q)
    BY <1>0, <1>3, <1>4, <2>2 DEF ReaderKept
  <2>4. \A b \in Bumpers : BumpKept(b)
    BY <1>1, <2>1 DEF BumpKept
  <2>5. /\ writer' \in Bumpers \cup {"nobody"} /\ WriterOK' /\ bump' \in [Bumpers -> Bump]
    BY <1>1 DEF FenceInv, AuthTypeOK, WriterOK
  <2> QED BY <1>1, <2>1, <2>3, <2>4, <2>5, KeysInv
<1> QED BY <1>x, <1>5, <1>6, <1>7 DEF FillHash

\* The end of a transaction.
LEMMA RollbackInv ==
  ASSUME FenceInv, NEW b \in Bumpers, Rollback(b), AuthTrouble \/ Calm,
         UNCHANGED <<version, hash, fence, floor, reader>>
  PROVE  FenceInv'
<1>1. version \in Nat /\ writer \in Bumpers \cup {"nobody"}
  BY DEF FenceInv, AuthTypeOK
<1>2. NoBump \in Bump /\ BumpOK(version, floor, fence, NoBump) /\ NoBump.pc = "idle"
  BY <1>1, OverOK
<1>3. Proceed(b, NoBump) /\ writer' = IF writer = b THEN "nobody" ELSE writer
  BY DEF Rollback
<1> QED BY <1>1, <1>2, <1>3, BumpInv

\* A publication ends.
LEMMA UnpublishedInv ==
  ASSUME FenceInv, NEW b \in Bumpers, Proceed(b, NoBump), AuthTrouble \/ Calm,
         UNCHANGED <<version, writer, hash, fence, floor, reader>>
  PROVE  FenceInv'
<1>1. version \in Nat /\ writer \in Bumpers \cup {"nobody"}
  BY DEF FenceInv, AuthTypeOK
<1>2. NoBump \in Bump /\ BumpOK(version, floor, fence, NoBump) /\ NoBump.pc = "idle"
  BY <1>1, OverOK
<1> QED BY <1>1, <1>2, BumpInv

\* The steps of a transaction that change neither the row nor a key.
LEMMA BumpingInv ==
  ASSUME FenceInv, NEW b \in Bumpers,
         BumpRead(b) \/ BumpUpdate(b) \/ PublishRead(b) \/ BumpCrash(b)
  PROVE  FenceInv'
<1>x. PICK x : x = bump[b]
  OBVIOUS
<1>0. /\ x \in Bump /\ x.version \in Nat /\ x.age \in Nat /\ version \in Nat
      /\ BumpOK(version, floor, fence, x) /\ bump \in [Bumpers -> Bump]
      /\ writer \in Bumpers \cup {"nobody"} /\ MaxDelay \in Nat /\ "nobody" \notin Bumpers
  BY <1>x, AuthParts, AuthConstants, UserAuthCacheAssumption DEF FenceInv, BumpsOK, AuthTypeOK
<1>1. UNCHANGED <<version, hash, fence, floor, reader>> /\ (AuthTrouble \/ Calm)
  BY DEF BumpRead, BumpUpdate, PublishRead, BumpCrash, Rollback
<1>2. CASE BumpRead(b)
  <2>1. PICK n : n = [pc |-> "fence", version |-> version + 1, age |-> 0]
    OBVIOUS
  <2>2. n \in Bump /\ n.pc = "fence" /\ n.version = version + 1 /\ n.age = 0
    BY <1>0, <2>1 DEF Bump
  <2>3. Proceed(b, n) /\ (RowLocks => writer = "nobody") /\ writer' = IF RowLocks THEN b ELSE writer
    BY <1>2, <2>1 DEF BumpRead
  <2>4. BumpOK(version, floor, fence, n)
    BY <1>0, <2>2 DEF BumpOK, Fenced, Waiting
  <2> QED BY <1>0, <1>1, <2>2, <2>3, <2>4, BumpInv
<1>3. CASE BumpUpdate(b)
  <2>0. x.pc = "update" /\ writer \in {b, "nobody"} /\ x.age <= MaxDelay
    BY <1>x, <1>0, <1>3 DEF BumpUpdate, BumpOK, Waiting
  <2>1. CASE version = x.version - 1 /\ writer' = b /\ Proceed(b, [x EXCEPT !.pc = "commit"])
    <3>1. PICK n : n = [x EXCEPT !.pc = "commit"]
      OBVIOUS
    <3>2. n \in Bump /\ n.pc = "commit" /\ n.version = x.version /\ n.age = x.age
      BY <1>0, <3>1 DEF Bump
    <3>3. n.version = version + 1
      BY <1>0, <2>1, <3>2
    <3>4. BumpOK(version, floor, fence, n)
      BY <1>0, <2>0, <3>2, <3>3 DEF BumpOK, Fenced
    <3>5. Proceed(b, n)
      BY <2>1, <3>1
    <3> QED BY <1>0, <1>1, <2>0, <2>1, <3>2, <3>4, <3>5, BumpInv
  <2>2. CASE Proceed(b, [x EXCEPT !.pc = "fence", !.version = version + 1]) /\ UNCHANGED writer
    <3>k. PICK k \in Nat : k = version + 1
      BY <1>0
    <3>1. PICK n : n = [x EXCEPT !.pc = "fence", !.version = k]
      OBVIOUS
    <3>2. n \in Bump /\ n.pc = "fence" /\ n.version = k /\ n.age = x.age
      BY <1>0, <3>1 DEF Bump
    <3>3. BumpOK(version, floor, fence, n)
      BY <1>0, <2>0, <3>k, <3>2 DEF BumpOK, Fenced
    <3>4. Proceed(b, n)
      BY <2>2, <3>k, <3>1
    <3> QED BY <1>0, <1>1, <2>2, <3>2, <3>3, <3>4, BumpInv
  <2>3. CASE Rollback(b)
    BY <1>1, <2>3, RollbackInv
  <2> QED BY <1>x, <1>3, <2>1, <2>2, <2>3 DEF BumpUpdate
<1>4. CASE PublishRead(b)
  <2>0. x.pc = "reread" /\ writer' = writer /\ x.age <= MaxDelay
    BY <1>x, <1>0, <1>4 DEF PublishRead, BumpOK, Waiting
  <2>1. CASE Proceed(b, [x EXCEPT !.pc = "publish", !.version = version])
    <3>1. PICK n : n = [x EXCEPT !.pc = "publish", !.version = version]
      OBVIOUS
    <3>2. n \in Bump /\ n.pc = "publish" /\ n.version = version /\ n.age = x.age
      BY <1>0, <3>1 DEF Bump
    <3>3. BumpOK(version, floor, fence, n)
      BY <1>0, <2>0, <3>2 DEF BumpOK, Fenced
    <3>4. Proceed(b, n)
      BY <2>1, <3>1
    <3> QED BY <1>0, <1>1, <2>0, <3>2, <3>3, <3>4, BumpInv
  <2>2. CASE Proceed(b, NoBump)
    BY <1>1, <2>0, <2>2, UnpublishedInv
  <2> QED BY <1>x, <1>4, <2>1, <2>2 DEF PublishRead
<1>5. CASE BumpCrash(b)
  BY <1>1, <1>5, RollbackInv DEF BumpCrash
<1> QED BY <1>2, <1>3, <1>4, <1>5

\* The fence is set before the update.
LEMMA BumpFenceInv ==
  ASSUME FenceInv, NEW b \in Bumpers, BumpFence(b)
  PROVE  FenceInv'
<1>x. PICK x : x = bump[b]
  OBVIOUS
<1>0. /\ x \in Bump /\ x.version \in Nat /\ x.age \in Nat /\ version \in Nat
      /\ BumpOK(version, floor, fence, x) /\ bump \in [Bumpers -> Bump]
      /\ fence \in Key /\ fence.version \in Nat /\ fence.left \in Nat
      /\ hash \in Key /\ hash.left \in Nat /\ hash.version \in Nat /\ floor \in Nat
      /\ KeysOK(version, hash, floor, fence)
  BY <1>x, AuthParts DEF FenceInv, BumpsOK
<1>c. /\ MaxDelay \in Nat /\ FenceTTL \in Nat /\ HashTTL \in Nat
      /\ HashTTL + MaxDelay <= FenceTTL /\ 2 * MaxDelay < FenceTTL
  BY AuthConstants
<1>1. UNCHANGED <<version, hash, floor, reader>> /\ (AuthTrouble \/ Calm) /\ x.pc = "fence"
  BY <1>x DEF BumpFence
<1>2. CASE Rollback(b) /\ UNCHANGED fence
  BY <1>1, <1>2, RollbackInv
<1>3. CASE /\ fence' = FenceFor(x.version) /\ UNCHANGED writer
           /\ Proceed(b, [x EXCEPT !.pc = "update"])
  <2>n. PICK n : n = [x EXCEPT !.pc = "update"]
    OBVIOUS
  <2>1. n \in Bump /\ n.pc = "update" /\ n.version = x.version /\ n.age = x.age
    BY <1>0, <2>n DEF Bump
  <2>2. x.version <= version + 1 /\ fence.version <= version + 1 /\ x.age <= MaxDelay
    BY <1>0, <1>1 DEF BumpOK, KeysOK, Waiting
  <2>3. /\ fence' \in Key /\ fence'.version \in Nat /\ fence'.left \in Nat
        /\ \/ /\ fence.version <= x.version
              /\ fence'.version = x.version /\ fence'.left = FenceTTL
           \/ fence.version > x.version /\ fence' = fence
    BY <1>0, <1>c, <1>3 DEF FenceFor, Key
  <2>4. BarsMore
    BY <1>0, <1>c, <1>1, <2>3 DEF BarsMore, Barred
  <2>5. KeysOK(version, hash', floor', fence')
    BY <1>0, <1>c, <1>1, <2>2, <2>3 DEF KeysOK
  <2>6. ASSUME NEW d \in Bumpers PROVE Fenced(version, fence', bump[d])
    <3>1. Fenced(version, fence, bump[d]) /\ bump[d].age \in Nat
      BY AuthParts DEF FenceInv, BumpsOK, BumpOK
    <3> QED BY <1>0, <1>c, <2>2, <2>3, <3>1 DEF Fenced
  <2>7. BumpOK(version, floor', fence', n)
    <3>1. Fenced(version, fence', n)
      BY <1>0, <1>c, <2>1, <2>2, <2>3 DEF Fenced
    <3> QED BY <1>0, <2>1, <2>2, <3>1 DEF BumpOK
  <2>8. bump' = [bump EXCEPT ![b] = n]
    BY <1>3, <2>n DEF Proceed
  <2>9. bump' \in [Bumpers -> Bump] /\ \A d \in Bumpers : BumpKept(d)
    BY <1>0, <2>1, <2>6, <2>7, <2>8 DEF BumpKept
  <2>10. WriterOK' /\ writer' \in Bumpers \cup {"nobody"}
    <3>1. \A d \in Bumpers : bump'[d].pc = "commit" => bump[d].pc = "commit"
      BY <1>0, <2>1, <2>8
    <3> QED BY <1>3, <3>1 DEF FenceInv, WriterOK, AuthTypeOK
  <2>11. /\ version' = version /\ hash' \in Key /\ floor' \in Nat /\ reader' \in [Readers -> Reader]
         /\ \A r \in Readers : ReaderKept(r)
    BY <1>0, <1>1 DEF ReaderKept, FenceInv, AuthTypeOK
  <2> QED BY <1>1, <2>3, <2>4, <2>5, <2>9, <2>10, <2>11, KeysInv
<1> QED BY <1>x, <1>2, <1>3 DEF BumpFence

\* The publications.
LEMMA PublishingInv ==
  ASSUME FenceInv, NEW b \in Bumpers, Publish(b) \/ PublishCommitted(b)
  PROVE  FenceInv'
<1>x. PICK x : x = bump[b]
  OBVIOUS
<1>0. /\ x \in Bump /\ x.version \in Nat /\ x.age \in Nat /\ version \in Nat
      /\ BumpOK(version, floor, fence, x) /\ bump \in [Bumpers -> Bump]
      /\ fence \in Key /\ fence.version \in Nat /\ fence.left \in Nat
      /\ hash \in Key /\ hash.left \in Nat /\ hash.version \in Nat /\ floor \in Nat
      /\ KeysOK(version, hash, floor, fence)
  BY <1>x, AuthParts DEF FenceInv, BumpsOK
<1>1. /\ UNCHANGED <<version, writer, reader>> /\ (AuthTrouble \/ Calm)
      /\ Proceed(b, NoBump) /\ x.pc \in {"publish", "reread"}
  BY <1>x DEF Publish, PublishCommitted
<1>2. ASSUME UNCHANGED <<hash, fence, floor>> PROVE FenceInv'
  BY <1>1, <1>2, UnpublishedInv
<1>3. ASSUME hash' \in Key, fence' \in Key, floor' \in Nat,
             KeysOK(version, hash', floor', fence'), BarsMore,
             \A d \in Bumpers : Fenced(version, fence', bump[d])
      PROVE  FenceInv'
  <2>1. NoBump \in Bump /\ BumpOK(version, floor', fence', NoBump) /\ NoBump.pc = "idle"
    BY <1>0, OverOK
  <2>2. bump' = [bump EXCEPT ![b] = NoBump]
    BY <1>1 DEF Proceed
  <2>3. bump' \in [Bumpers -> Bump] /\ \A d \in Bumpers : BumpKept(d)
    BY <1>0, <1>3, <2>1, <2>2 DEF BumpKept
  <2>4. WriterOK' /\ writer' \in Bumpers \cup {"nobody"}
    <3>1. \A d \in Bumpers : bump'[d].pc = "commit" => bump[d].pc = "commit"
      BY <1>0, <2>1, <2>2
    <3> QED BY <1>1, <3>1 DEF FenceInv, WriterOK, AuthTypeOK
  <2>5. reader' \in [Readers -> Reader] /\ \A r \in Readers : ReaderKept(r)
    BY <1>1 DEF ReaderKept, FenceInv, AuthTypeOK
  <2> QED BY <1>1, <1>3, <2>3, <2>4, <2>5, KeysInv
<1>4. CASE Publish(b)
  <2>1. x.pc = "publish" /\ x.version <= version /\ (x.version < version => Refused(x.version))
    BY <1>x, <1>0, <1>4, BarredRefused DEF Publish, BumpOK
  <2>2. CASE ~Refused(x.version) /\ WriteCache(x.version, FALSE)
    BY <1>0, <1>3, <2>1, <2>2, Written
  <2> QED BY <1>x, <1>2, <1>4, <2>2 DEF Publish
<1>5. CASE PublishCommitted(b)
  <2>1. x.pc = "reread" /\ x.version <= version /\ hash' = hash
    BY <1>x, <1>0, <1>5 DEF PublishCommitted, BumpOK
  <2>2. CASE /\ floor' = IF floor < x.version THEN x.version ELSE floor
             /\ fence' = IF fence.version > 0 /\ fence.version <= x.version THEN NoEntry ELSE fence
    <3>1. floor' \in Nat /\ floor' >= floor /\ floor' >= x.version
      BY <1>0, <2>2
    <3>2. /\ fence' \in Key
          /\ fence' = fence \/ (fence'.version = 0 /\ fence.version <= x.version)
      BY <1>0, <2>2 DEF NoEntry, Key
    <3>3. BarsMore
      BY <1>0, <3>1, <3>2 DEF BarsMore, Barred
    <3>4. KeysOK(version, hash', floor', fence')
      BY <1>0, <2>1, <3>1, <3>2 DEF KeysOK
    <3>5. ASSUME NEW d \in Bumpers PROVE Fenced(version, fence', bump[d])
      <4>1. Fenced(version, fence, bump[d])
        BY DEF FenceInv, BumpsOK, BumpOK
      <4>2. fence.version = version + 1 => fence' = fence
        BY <1>0, <2>1, <3>2
      <4> QED BY <4>1, <4>2 DEF Fenced
    <3> QED BY <1>0, <1>3, <2>1, <3>1, <3>2, <3>3, <3>4, <3>5
  <2> QED BY <1>x, <1>2, <1>5, <2>1, <2>2 DEF PublishCommitted
<1> QED BY <1>4, <1>5

\* The commit: what was current becomes old, and the fence bars it.
LEMMA CommitInv ==
  ASSUME FenceInv, NEW b \in Bumpers, BumpCommit(b)
  PROVE  FenceInv'
<1>x. PICK x : x = bump[b]
  OBVIOUS
<1>0. /\ x \in Bump /\ x.version \in Nat /\ x.age \in Nat /\ version \in Nat
      /\ BumpOK(version, floor, fence, x) /\ bump \in [Bumpers -> Bump]
      /\ fence \in Key /\ fence.version \in Nat /\ fence.left \in Nat
      /\ hash \in Key /\ hash.left \in Nat /\ hash.version \in Nat /\ floor \in Nat
      /\ KeysOK(version, hash, floor, fence)
  BY <1>x, AuthParts DEF FenceInv, BumpsOK
<1>c. /\ MaxDelay \in Nat /\ FenceTTL \in Nat /\ HashTTL \in Nat /\ 2 * MaxDelay < FenceTTL
  BY AuthConstants
<1>1. UNCHANGED <<hash, fence, floor, reader>> /\ (AuthTrouble \/ Calm) /\ x.pc = "commit"
  BY <1>x DEF BumpCommit
<1>2. CASE Rollback(b) /\ UNCHANGED version
  BY <1>1, <1>2, RollbackInv
<1>3. CASE version' = x.version /\ writer' = "nobody" /\ Proceed(b, [x EXCEPT !.pc = "reread"])
  <2>1. /\ version' = version + 1 /\ version' \in Nat /\ x.version = version + 1 /\ x.age <= MaxDelay
        /\ fence.version = version + 1 /\ fence.left + x.age >= FenceTTL
    BY <1>0, <1>1, <1>3 DEF BumpOK, Fenced, Waiting
  <2>2. fence.left > MaxDelay
    BY <1>0, <1>c, <2>1
  <2>3. ASSUME NEW y, y.version \in Nat, y.age \in Nat, y.version <= version PROVE Barred(floor, fence, y)
    BY <1>0, <1>c, <2>1, <2>2, <2>3 DEF Barred
  <2>4. KeysOK(version', hash', floor', fence')
    BY <1>0, <1>1, <2>1 DEF KeysOK
  <2>5. ASSUME NEW r \in Readers PROVE ReaderOK(version', floor', fence', reader'[r])
    <3>1. /\ reader[r].version \in Nat /\ reader[r].age \in Nat /\ reader[r].since \in Nat
          /\ ReaderOK(version, floor, fence, reader[r])
      BY AuthParts DEF FenceInv, ReadersOK
    <3>2. reader[r].version <= version => Barred(floor, fence, reader[r])
      BY <2>3, <3>1
    <3> QED BY <1>0, <1>1, <2>1, <3>1, <3>2 DEF ReaderOK
  <2>n. PICK n : n = [x EXCEPT !.pc = "reread"]
    OBVIOUS
  <2>6. n \in Bump /\ n.pc = "reread" /\ n.version = x.version /\ n.age = x.age
    BY <1>0, <2>n DEF Bump
  <2>7. bump' = [bump EXCEPT ![b] = n]
    BY <1>3, <2>n DEF Proceed
  <2>8. /\ bump' \in [Bumpers -> Bump] /\ bump'[b] = n
        /\ \A d \in Bumpers \ {b} : bump'[d] = bump[d]
    BY <1>0, <2>6, <2>7
  <2>9. ASSUME NEW d \in Bumpers
        PROVE  BumpOK(version', floor', fence', bump'[d]) /\ bump'[d].pc # "commit"
    <3>1. CASE d = b
      BY <1>0, <2>1, <2>6, <2>8, <3>1 DEF BumpOK, Fenced
    <3>2. CASE d # b
      <4>1. /\ bump[d].version \in Nat /\ bump[d].age \in Nat /\ bump'[d] = bump[d]
            /\ BumpOK(version, floor, fence, bump[d])
        BY <2>8, <3>2, AuthParts DEF FenceInv, BumpsOK
      <4>2. bump[d].version <= version => Barred(floor, fence, bump[d])
        BY <2>3, <4>1
      <4>3. bump[d].pc # "commit"
        BY <1>x, <1>1, <3>2 DEF FenceInv, WriterOK
      <4> QED BY <1>0, <1>1, <2>1, <4>1, <4>2, <4>3 DEF BumpOK, Fenced
    <3> QED BY <3>1, <3>2
  <2>10. AuthTypeOK'
    BY <1>1, <1>3, <2>1, <2>8, Troubles DEF FenceInv, AuthTypeOK
  <2> QED BY <2>4, <2>5, <2>9, <2>10 DEF FenceInv, ReadersOK, BumpsOK, WriterOK
<1> QED BY <1>x, <1>2, <1>3 DEF BumpCommit

\* A key grows older.
LEMMA OlderKey ==
  ASSUME NEW k \in Key
  PROVE  /\ Older(k) \in Key
         /\ k.left > 1 => Older(k).version = k.version /\ Older(k).left = k.left - 1
         /\ k.left = 1 => Older(k) = NoEntry
         /\ k.left = 0 => Older(k) = k
         /\ k.version \in Nat /\ k.left \in Nat
BY DEF Older, Key, NoEntry

\* A tick: what bars a call lasts as long as the call.
LEMMA AuthTickInv ==
  ASSUME FenceInv, AuthTick
  PROVE  FenceInv'
<1>0. /\ version \in Nat /\ floor \in Nat /\ hash \in Key /\ fence \in Key
      /\ hash.version \in Nat /\ hash.left \in Nat /\ fence.version \in Nat /\ fence.left \in Nat
      /\ reader \in [Readers -> Reader] /\ bump \in [Bumpers -> Bump]
      /\ KeysOK(version, hash, floor, fence)
  BY AuthParts DEF FenceInv
<1>c. /\ MaxDelay \in Nat /\ FenceTTL \in Nat /\ HashTTL \in Nat /\ 2 * MaxDelay < FenceTTL
  BY AuthConstants
<1>1. /\ \A r \in Readers : Waiting(reader[r].pc) \/ reader[r].age < MaxDelay
      /\ \A b \in Bumpers : Waiting(bump[b].pc) \/ bump[b].age < MaxDelay
      /\ hash' = Older(hash) /\ fence' = Older(fence)
      /\ reader' = [r \in Readers |-> IF Waiting(reader[r].pc) THEN reader[r]
                                      ELSE [reader[r] EXCEPT !.age = @ + 1]]
      /\ bump' = [b \in Bumpers |-> IF Waiting(bump[b].pc) THEN bump[b]
                                    ELSE [bump[b] EXCEPT !.age = @ + 1]]
      /\ Calm /\ version' = version /\ writer' = writer /\ floor' = floor
  BY DEF AuthTick
<1>2. /\ hash' \in Key /\ fence' \in Key
      /\ hash'.version \in Nat /\ hash'.left \in Nat /\ fence'.version \in Nat /\ fence'.left \in Nat
      /\ fence'.version <= fence.version
  <2>1. fence.left > 1 => fence'.version = fence.version
    BY <1>0, <1>1, OlderKey
  <2>2. fence.left = 1 => fence'.version = 0
    BY <1>0, <1>1, OlderKey DEF NoEntry
  <2>3. fence.left = 0 => fence' = fence
    BY <1>0, <1>1, OlderKey
  <2>4. hash' \in Key /\ fence' \in Key
    BY <1>0, <1>1, OlderKey
  <2> QED BY <1>0, <2>1, <2>2, <2>3, <2>4 DEF Key
<1>3. fence.left > 1 => fence'.version = fence.version /\ fence'.left = fence.left - 1
  BY <1>0, <1>1, OlderKey
<1>4. KeysOK(version', hash', floor', fence')
  <2>1. fence'.version <= version + 1
    BY <1>0, <1>2 DEF KeysOK
  <2>2. ASSUME hash' # NoEntry
        PROVE  /\ 1 <= hash'.left /\ hash'.left <= HashTTL
               /\ fence'.version > hash'.version => hash'.left + MaxDelay <= fence'.left
               /\ hash'.version < version => floor > hash'.version \/ fence'.version > hash'.version
    <3>1. hash # NoEntry
      BY <1>0, <1>1, <2>2, OlderKey DEF NoEntry
    <3>2. /\ 1 <= hash.left /\ hash.left <= HashTTL
          /\ fence.version > hash.version => hash.left + MaxDelay <= fence.left
          /\ hash.version < version => floor > hash.version \/ fence.version > hash.version
      BY <1>0, <3>1 DEF KeysOK
    <3>3. hash.left > 1
      BY <1>0, <1>1, <2>2, <3>2, OlderKey
    <3>4. hash'.version = hash.version /\ hash'.left = hash.left - 1
      BY <1>0, <1>1, <3>3, OlderKey
    <3>5. fence.version > hash.version => fence.left > 1
      BY <1>0, <1>c, <3>2, <3>3
    <3>6. fence'.version > hash'.version => fence.version > hash.version
      BY <1>0, <1>2, <3>4
    <3> QED BY <1>0, <1>c, <1>2, <1>3, <3>2, <3>3, <3>4, <3>5, <3>6
  <2> QED BY <1>1, <2>1, <2>2 DEF KeysOK
<1>5. ASSUME NEW x, NEW y, x.version \in Nat, x.age \in Nat, y.version = x.version,
             y.age = x.age + 1, x.age < MaxDelay, Barred(floor, fence, x)
      PROVE  Barred(floor', fence', y)
  BY <1>0, <1>c, <1>1, <1>3, <1>5 DEF Barred
<1>6. ASSUME NEW r \in Readers
      PROVE  reader'[r] \in Reader /\ ReaderOK(version', floor', fence', reader'[r])
  <2>0. PICK x : x = reader[r]
    OBVIOUS
  <2>1. /\ x \in Reader /\ x.version \in Nat /\ x.since \in Nat /\ x.age \in Nat
        /\ ReaderOK(version, floor, fence, x)
    BY <2>0, AuthParts DEF FenceInv, ReadersOK
  <2>2. CASE Waiting(x.pc)
    <3>1. reader'[r] = x
      BY <1>1, <2>0, <2>2
    <3> QED BY <1>1, <2>1, <2>2, <3>1 DEF ReaderOK, Waiting
  <2>3. CASE ~Waiting(x.pc)
    <3>1. PICK a \in Nat : a = x.age + 1
      BY <2>1
    <3>2. reader'[r] = [x EXCEPT !.age = a]
      BY <1>1, <2>0, <2>3, <3>1
    <3>3. PICK y : y = reader'[r]
      OBVIOUS
    <3>4. y \in Reader /\ y.pc = x.pc /\ y.version = x.version /\ y.since = x.since /\ y.age = a
      BY <2>1, <3>2, <3>3 DEF Reader
    <3>5. x.age < MaxDelay
      BY <1>1, <2>0, <2>3
    <3>6. Barred(floor, fence, x) => Barred(floor', fence', y)
      BY <1>5, <2>1, <3>1, <3>4, <3>5
    <3>7. ReaderOK(version', floor', fence', y)
      BY <1>c, <1>1, <2>1, <3>1, <3>4, <3>5, <3>6 DEF ReaderOK
    <3> QED BY <3>3, <3>4, <3>7
  <2> QED BY <2>2, <2>3
<1>7. ASSUME NEW b \in Bumpers
      PROVE  /\ bump'[b] \in Bump /\ BumpOK(version', floor', fence', bump'[b])
             /\ bump'[b].pc = bump[b].pc
  <2>0. PICK x : x = bump[b]
    OBVIOUS
  <2>1. /\ x \in Bump /\ x.version \in Nat /\ x.age \in Nat /\ BumpOK(version, floor, fence, x)
    BY <2>0, AuthParts DEF FenceInv, BumpsOK
  <2>2. CASE Waiting(x.pc)
    <3>1. bump'[b] = x
      BY <1>1, <2>0, <2>2
    <3> QED BY <1>1, <2>0, <2>1, <2>2, <3>1 DEF BumpOK, Fenced, Waiting
  <2>3. CASE ~Waiting(x.pc)
    <3>1. PICK a \in Nat : a = x.age + 1
      BY <2>1
    <3>2. bump'[b] = [x EXCEPT !.age = a]
      BY <1>1, <2>0, <2>3, <3>1
    <3>3. PICK y : y = bump'[b]
      OBVIOUS
    <3>4. y \in Bump /\ y.pc = x.pc /\ y.version = x.version /\ y.age = a
      BY <2>1, <3>2, <3>3 DEF Bump
    <3>5. x.age < MaxDelay
      BY <1>1, <2>0, <2>3
    <3>6. Barred(floor, fence, x) => Barred(floor', fence', y)
      BY <1>5, <2>1, <3>1, <3>4, <3>5
    <3>7. Fenced(version, fence', y)
      <4> SUFFICES ASSUME y.pc \in {"update", "commit"}, y.version = version + 1
                   PROVE  fence'.version = version + 1 /\ fence'.left + y.age >= FenceTTL
        BY DEF Fenced
      <4>1. fence.version = version + 1 /\ fence.left + x.age >= FenceTTL
        BY <2>1, <3>4 DEF BumpOK, Fenced
      <4>2. fence.left > 1
        BY <1>0, <1>c, <2>1, <3>5, <4>1
      <4> QED BY <1>0, <1>c, <1>3, <2>1, <3>1, <3>4, <4>1, <4>2
    <3>8. BumpOK(version', floor', fence', y)
      BY <1>c, <1>1, <2>1, <3>1, <3>4, <3>5, <3>6, <3>7 DEF BumpOK
    <3> QED BY <2>0, <3>3, <3>4, <3>8
  <2> QED BY <2>2, <2>3
<1>8. reader' \in [Readers -> Reader] /\ bump' \in [Bumpers -> Bump]
  <2>1. reader' = [r \in Readers |-> reader'[r]] /\ bump' = [b \in Bumpers |-> bump'[b]]
    BY <1>1
  <2>2. \A r \in Readers : reader'[r] \in Reader
    BY <1>6
  <2>3. \A b \in Bumpers : bump'[b] \in Bump
    BY <1>7
  <2> QED BY <2>1, <2>2, <2>3
<1>9. AuthTypeOK'
  BY <1>1, <1>2, <1>8, Troubles DEF FenceInv, AuthTypeOK
<1>10. WriterOK'
  BY <1>1, <1>7 DEF FenceInv, WriterOK
<1> QED BY <1>4, <1>6, <1>7, <1>9, <1>10 DEF FenceInv, ReadersOK, BumpsOK

\* Nothing is cached at the start.
LEMMA AuthStart ==
  ASSUME AuthInit
  PROVE  FenceInv
<1>1. /\ version = 1 /\ writer = "nobody" /\ hash = NoEntry /\ fence = NoEntry /\ floor = 0
      /\ reader = [r \in Readers |-> NoReader] /\ bump = [b \in Bumpers |-> NoBump] /\ troubles = 0
  BY DEF AuthInit
<1>2. /\ NoBump \in Bump /\ BumpOK(version, floor, fence, NoBump) /\ NoBump.pc = "idle"
      /\ NoReader \in Reader /\ ReaderOK(version, floor, fence, NoReader)
  BY <1>1, OverOK
<1>3. NoEntry \in Key /\ NoEntry.version = 0
  BY DEF NoEntry, Key
<1>4. AuthTypeOK
  BY <1>1, <1>2, <1>3, AuthConstants DEF AuthTypeOK
<1>5. KeysOK(version, hash, floor, fence)
  BY <1>1, <1>3 DEF KeysOK
<1> QED BY <1>1, <1>2, <1>4, <1>5 DEF FenceInv, ReadersOK, BumpsOK, WriterOK

\* VersionFenced: a request that begins after a restrictive change was committed
\* never gets the user as it was before, for any number of readers and
\* transactions, with or without row locks, whatever Redis calls and publications
\* fail, provided fences outlive hashes and calls as FenceAssumption says.
THEOREM AuthFenced == AuthSpec => []VersionFenced
<1>1. AuthInit => FenceInv
  BY AuthStart
<1>2. FenceInv /\ [AuthNext]_authVars => FenceInv'
  <2> SUFFICES ASSUME FenceInv, [AuthNext]_authVars PROVE FenceInv'
    OBVIOUS
  <2>1. ASSUME NEW r \in Readers, ReadStart(r) \/ ReadStep(r) PROVE FenceInv'
    BY <2>1, ReadingInv, FillInv DEF ReadStep
  <2>2. ASSUME NEW b \in Bumpers, BumpRead(b) \/ BumpStep(b) \/ BumpCrash(b) PROVE FenceInv'
    BY <2>2, BumpingInv, BumpFenceInv, CommitInv, PublishingInv DEF BumpStep
  <2>3. CASE AuthTick
    BY <2>3, AuthTickInv
  <2>4. CASE UNCHANGED authVars
    BY <2>4 DEF authVars, FenceInv, AuthTypeOK, ReadersOK, BumpsOK, WriterOK
  <2> QED BY <2>1, <2>2, <2>3, <2>4 DEF AuthNext
<1>3. FenceInv => VersionFenced
  <2> SUFFICES ASSUME FenceInv, NEW r \in Readers, reader[r].pc = "returned"
               PROVE  reader[r].version >= reader[r].since
    BY DEF VersionFenced
  <2>1. ReaderOK(version, floor, fence, reader[r]) /\ reader[r].version \in Nat /\ reader[r].since \in Nat
    BY AuthParts DEF FenceInv, ReadersOK
  <2> QED BY <2>1 DEF ReaderOK
<1> QED BY <1>1, <1>2, <1>3, PTL DEF AuthSpec

-----------------------------------------------------------------------------
(* The slots of a channel (RelaySlots).  A bound on a count of holders has *)
(* to survive a holder that leaves, so the invariant lists the holders of  *)
(* a counter such that the i-th was admitted under a limit of at least i:  *)
(* a new holder goes to the end, and the list closes up behind one that    *)
(* leaves.                                                                 *)

\* The requests of sv that hold a slot of the key.
HoldersIn(sv, key) == {r \in SlotRequests : sv[r].held = key}

Ranked(e, n, key, sv) ==
  /\ n \in Nat
  /\ Lists(e, n, HoldersIn(sv, key))
  /\ \A i \in 1..n : sv[e[i]].bound >= i

\* A request of the loop as far as slots depend on it: one that is idle or has
\* just returned its slot holds none.
ServingOK(q) ==
  /\ q.held \in SlotKey \cup {NoKey}
  /\ q.bound \in Nat
  /\ q.pc \in {"idle", "take"} => q.held = NoKey
  /\ q.pc # "idle" => q.channel \in Channel /\ q.model \in Models /\ q \in Serving

ServingsOK(sv) ==
  /\ sv = [r \in SlotRequests |-> sv[r]]
  /\ \A r \in SlotRequests : ServingOK(sv[r])

CountersOK(ac, sv) ==
  /\ ac \in [SlotKey -> Nat]
  /\ \A key \in SlotKey : \E e : Ranked(e, ac[key], key, sv)

SlotsInv ==
  /\ settings \in Settings
  /\ ServingsOK(serving)
  /\ CountersOK(active, serving)

\* One request changes.
Swapped(sv2, sv, r, x) ==
  /\ r \in SlotRequests
  /\ \A s \in SlotRequests : sv2[s] = IF s = r THEN x ELSE sv[s]

\* A request that takes no slot of the key and returns none leaves the list.
LEMMA RankKept ==
  ASSUME NEW e, NEW n, NEW key, NEW sv, NEW sv2, NEW r, NEW x,
         Ranked(e, n, key, sv), Swapped(sv2, sv, r, x),
         \/ sv[r].held # key /\ x.held # key
         \/ x.held = sv[r].held /\ x.bound = sv[r].bound
  PROVE  Ranked(e, n, key, sv2)
<1>1. HoldersIn(sv2, key) = HoldersIn(sv, key)
  BY DEF HoldersIn, Swapped
<1>2. ASSUME NEW i \in 1..n PROVE sv2[e[i]].bound >= i
  <2>1. e[i] \in HoldersIn(sv, key) /\ sv[e[i]].bound >= i
    BY DEF Ranked, Lists
  <2>2. sv2[e[i]].bound = sv[e[i]].bound
    BY <2>1 DEF HoldersIn, Swapped
  <2> QED BY <2>1, <2>2
<1> QED BY <1>1, <1>2 DEF Ranked

\* A request that takes a slot while fewer than its limit are taken goes to the
\* end of the list.
LEMMA RankAdded ==
  ASSUME NEW e, NEW n, NEW key, NEW sv, NEW sv2, NEW r, NEW x,
         Ranked(e, n, key, sv), Swapped(sv2, sv, r, x),
         sv[r].held # key, x.held = key, x.bound >= n + 1
  PROVE  \E d : Ranked(d, n + 1, key, sv2)
<1> DEFINE d == [i \in 1..(n + 1) |-> IF i = n + 1 THEN r ELSE e[i]]
           H == HoldersIn(sv, key)
           K == HoldersIn(sv2, key)
<1>1. n \in Nat /\ r \in SlotRequests
  BY DEF Ranked, Swapped
<1>2. /\ \A s : s \in K <=> s \in H \/ s = r
      /\ r \notin H
  BY DEF HoldersIn, Swapped
<1>3. /\ \A i \in 1..n : e[i] \in H /\ sv[e[i]].bound >= i
      /\ \A i, j \in 1..n : e[i] = e[j] => i = j
      /\ \A s \in H : \E i \in 1..n : e[i] = s
  BY DEF Ranked, Lists
<1>4. /\ d[n + 1] = r
      /\ \A i \in 1..n : d[i] = e[i]
      /\ \A i \in 1..(n + 1) : i = n + 1 \/ i \in 1..n
      /\ \A i \in 1..n : i \in 1..(n + 1)
      /\ n + 1 \in 1..(n + 1)
  BY <1>1
<1>5. \A s \in SlotRequests : s # r => sv2[s] = sv[s]
  BY DEF Swapped
<1>6. sv2[r] = x
  BY DEF Swapped
<1>7. \A s \in H : s \in SlotRequests /\ s # r
  BY <1>2 DEF HoldersIn
<1>8. \A i \in 1..(n + 1) : d[i] \in K
  BY <1>2, <1>3, <1>4
<1>9. \A i, j \in 1..(n + 1) : d[i] = d[j] => i = j
  BY <1>2, <1>3, <1>4
<1>10. \A s \in K : \E i \in 1..(n + 1) : d[i] = s
  BY <1>2, <1>3, <1>4
<1>11. \A i \in 1..(n + 1) : sv2[d[i]].bound >= i
  <2> TAKE i \in 1..(n + 1)
  <2>1. CASE i = n + 1
    BY <2>1, <1>4, <1>6
  <2>2. CASE i \in 1..n
    <3>1. d[i] = e[i] /\ e[i] \in H /\ sv[e[i]].bound >= i
      BY <2>2, <1>3, <1>4
    <3>2. sv2[e[i]] = sv[e[i]]
      BY <3>1, <1>5, <1>7
    <3> QED BY <3>1, <3>2
  <2> QED BY <2>1, <2>2, <1>4
<1>12. d \in [1..(n + 1) -> K]
  BY <1>8
<1>13. Lists(d, n + 1, K)
  BY <1>9, <1>10, <1>12 DEF Lists
<1> HIDE DEF d
<1>14. n + 1 \in Nat
  BY <1>1
<1> QED BY <1>11, <1>13, <1>14 DEF Ranked

\* The list closes up behind a request that returns its slot.
LEMMA RankRemoved ==
  ASSUME NEW e, NEW n, NEW key, NEW sv, NEW sv2, NEW r, NEW x,
         Ranked(e, n, key, sv), Swapped(sv2, sv, r, x),
         sv[r].held = key, x.held # key,
         \A s \in SlotRequests : sv[s].bound \in Nat
  PROVE  n >= 1 /\ \E d : Ranked(d, n - 1, key, sv2)
<1> DEFINE H == HoldersIn(sv, key)
           K == HoldersIn(sv2, key)
<1>1. n \in Nat /\ r \in SlotRequests
  BY DEF Ranked, Swapped
<1>2. /\ \A s : s \in K <=> s \in H /\ s # r
      /\ r \in H
  BY DEF HoldersIn, Swapped
<1>3. /\ \A i \in 1..n : e[i] \in H /\ sv[e[i]].bound >= i
      /\ \A i, j \in 1..n : e[i] = e[j] => i = j
      /\ \A s \in H : \E i \in 1..n : e[i] = s
  BY DEF Ranked, Lists
<1>4. PICK k \in 1..n : e[k] = r
  BY <1>2, <1>3
<1> DEFINE d == [i \in 1..(n - 1) |-> IF i < k THEN e[i] ELSE e[i + 1]]
           at(i) == IF i < k THEN i ELSE i + 1
<1>5. n >= 1 /\ n - 1 \in Nat
  BY <1>1, <1>4
<1>6. \A i \in 1..(n - 1) : at(i) \in 1..n /\ at(i) # k /\ at(i) >= i
  BY <1>1, <1>4
<1>7. \A i, j \in 1..(n - 1) : at(i) = at(j) => i = j
  BY <1>1, <1>4
<1>8. \A h \in 1..n : h # k => \E i \in 1..(n - 1) : at(i) = h
  <2> SUFFICES ASSUME NEW h \in 1..n, h # k PROVE \E i \in 1..(n - 1) : at(i) = h
    OBVIOUS
  <2>1. CASE h < k
    <3>1. h \in 1..(n - 1) /\ at(h) = h
      BY <2>1, <1>1, <1>4
    <3> QED BY <3>1
  <2>2. CASE h > k
    <3>1. h - 1 \in 1..(n - 1) /\ at(h - 1) = h
      BY <2>2, <1>1, <1>4
    <3> QED BY <3>1
  <2> QED BY <2>1, <2>2, <1>4
<1>9. \A i \in 1..(n - 1) : d[i] = e[at(i)]
  OBVIOUS
<1>10. \A s \in SlotRequests : s # r => sv2[s] = sv[s]
  BY DEF Swapped
<1> HIDE DEF at
<1>11. \A i \in 1..(n - 1) : d[i] \in K
  BY <1>2, <1>3, <1>4, <1>6, <1>9
<1>12. d \in [1..(n - 1) -> K]
  BY <1>11
<1> HIDE DEF d
<1>13. \A i, j \in 1..(n - 1) : d[i] = d[j] => i = j
  BY <1>3, <1>6, <1>7, <1>9
<1>14. \A s \in K : \E i \in 1..(n - 1) : d[i] = s
  BY <1>2, <1>3, <1>4, <1>8, <1>9
<1>15. ASSUME NEW i \in 1..(n - 1) PROVE sv2[d[i]].bound >= i
  <2>1. /\ sv[e[at(i)]].bound >= at(i) /\ at(i) >= i /\ at(i) \in 1..n
        /\ e[at(i)] \in H /\ e[at(i)] # r
    BY <1>3, <1>4, <1>6
  <2>2. e[at(i)] \in SlotRequests
    BY <2>1 DEF HoldersIn
  <2>3. sv2[d[i]] = sv[e[at(i)]] /\ sv[e[at(i)]].bound \in Nat
    BY <2>1, <2>2, <1>9, <1>10
  <2> QED BY <2>1, <2>3, <1>5
<1>16. Lists(d, n - 1, K)
  BY <1>12, <1>13, <1>14 DEF Lists
<1>17. Ranked(d, n - 1, key, sv2)
  BY <1>5, <1>15, <1>16 DEF Ranked
<1> QED BY <1>5, <1>17

\* Serving one request changes that request.
LEMMA Served ==
  ASSUME SlotsInv, NEW r \in SlotRequests, NEW x, ServingOK(x), Serve(r, x)
  PROVE  ServingsOK(serving') /\ Swapped(serving', serving, r, x)
<1>1. serving' = [s \in SlotRequests |-> IF s = r THEN x ELSE serving[s]]
  BY DEF Serve, SlotsInv, ServingsOK
<1>2. \A s \in SlotRequests : serving'[s] = IF s = r THEN x ELSE serving[s]
  BY <1>1
<1>3. \A s \in SlotRequests : ServingOK(serving'[s])
  BY <1>2 DEF SlotsInv, ServingsOK
<1>4. serving' = [s \in SlotRequests |-> serving'[s]]
  BY <1>1
<1> QED BY <1>2, <1>3, <1>4 DEF ServingsOK, Swapped

\* A key of a slot is a pair.
LEMMA NoKeyApart == NoKey \notin SlotKey
BY DEF NoKey, SlotKey

\* A step that takes and returns no slot.
LEMMA SlotKept ==
  ASSUME SlotsInv, NEW r \in SlotRequests, NEW x, ServingOK(x), Serve(r, x),
         settings' = settings, active' = active,
         \/ x.held = serving[r].held /\ x.bound = serving[r].bound
         \/ x.held = NoKey /\ serving[r].held = NoKey
  PROVE  SlotsInv'
<1>1. ServingsOK(serving') /\ Swapped(serving', serving, r, x)
  BY Served
<1>2. ASSUME NEW key \in SlotKey PROVE \E e : Ranked(e, active'[key], key, serving')
  <2>1. PICK e : Ranked(e, active[key], key, serving)
    BY DEF SlotsInv, CountersOK
  <2>2. \/ serving[r].held # key /\ x.held # key
        \/ x.held = serving[r].held /\ x.bound = serving[r].bound
    BY NoKeyApart
  <2>3. Ranked(e, active[key], key, serving')
    BY <1>1, <2>1, <2>2, RankKept
  <2> QED BY <2>3
<1> QED BY <1>1, <1>2 DEF SlotsInv, CountersOK

\* The request's slot, if it has one, is returned.
LEMMA SlotReturned ==
  ASSUME SlotsInv, NEW r \in SlotRequests, NEW x, ServingOK(x), Serve(r, x),
         settings' = settings, x.held = NoKey,
         active' = IF serving[r].held = NoKey THEN active ELSE Released(serving[r].held)
  PROVE  SlotsInv'
<1>1. CASE serving[r].held = NoKey
  BY <1>1, SlotKept
<1>2. CASE serving[r].held # NoKey
  <2>1. ServingsOK(serving') /\ Swapped(serving', serving, r, x)
    BY Served
  <2>2. PICK h : h = serving[r].held
    OBVIOUS
  <2>3. h \in SlotKey
    BY <1>2, <2>2 DEF SlotsInv, ServingsOK, ServingOK
  <2>4. /\ active \in [SlotKey -> Nat]
        /\ \A s \in SlotRequests : serving[s].bound \in Nat
    BY DEF SlotsInv, ServingsOK, ServingOK, CountersOK
  <2>5. active[h] >= 1 /\ \E d : Ranked(d, active[h] - 1, h, serving')
    <3>1. PICK e : Ranked(e, active[h], h, serving)
      BY <2>3 DEF SlotsInv, CountersOK
    <3>2. serving[r].held = h /\ x.held # h
      BY <2>2, <2>3, NoKeyApart
    <3> QED BY <2>1, <2>4, <3>1, <3>2, RankRemoved
  <2>6. active' = [active EXCEPT ![h] = IF active[h] - 1 <= 0 THEN 0 ELSE active[h] - 1]
    BY <1>2, <2>2 DEF Released
  <2>7. active' = [active EXCEPT ![h] = active[h] - 1]
    <3>1. PICK n \in Nat : n = active[h] /\ n >= 1
      BY <2>3, <2>4, <2>5
    <3>2. (IF n - 1 <= 0 THEN 0 ELSE n - 1) = n - 1
      BY <3>1
    <3> QED BY <2>6, <3>1, <3>2
  <2>8. active' \in [SlotKey -> Nat]
    BY <2>3, <2>4, <2>5, <2>7
  <2>9. ASSUME NEW key \in SlotKey PROVE \E e : Ranked(e, active'[key], key, serving')
    <3>1. CASE key = h
      <4>1. active'[key] = active[h] - 1
        BY <2>3, <2>4, <2>7, <3>1
      <4> QED BY <2>5, <3>1, <4>1
    <3>2. CASE key # h
      <4>1. active'[key] = active[key]
        BY <2>4, <2>7, <3>2
      <4>2. PICK e : Ranked(e, active[key], key, serving)
        BY DEF SlotsInv, CountersOK
      <4>3. serving[r].held # key /\ x.held # key
        BY <2>2, <3>2, NoKeyApart
      <4>4. Ranked(e, active[key], key, serving')
        BY <2>1, <4>2, <4>3, RankKept
      <4> QED BY <4>1, <4>4
    <3> QED BY <3>1, <3>2
  <2> QED BY <2>1, <2>8, <2>9 DEF SlotsInv, CountersOK
<1> QED BY <1>1, <1>2

\* A slot is taken while the counter is below the limit.
LEMMA SlotTaken ==
  ASSUME SlotsInv, NEW r \in SlotRequests, NEW x, ServingOK(x), Serve(r, x),
         settings' = settings, serving[r].held = NoKey,
         NEW h \in SlotKey, x.held = h, ~(active[h] >= x.bound),
         active' = [active EXCEPT ![h] = @ + 1]
  PROVE  SlotsInv'
<1>1. ServingsOK(serving') /\ Swapped(serving', serving, r, x)
  BY Served
<1>2. active \in [SlotKey -> Nat] /\ x.bound \in Nat
  BY DEF SlotsInv, CountersOK, ServingOK
<1>3. active' \in [SlotKey -> Nat] /\ active[h] \in Nat /\ x.bound >= active[h] + 1
  BY <1>2
<1>4. ASSUME NEW key \in SlotKey PROVE \E e : Ranked(e, active'[key], key, serving')
  <2>1. PICK e : Ranked(e, active[key], key, serving)
    BY DEF SlotsInv, CountersOK
  <2>2. serving[r].held # key
    BY NoKeyApart
  <2>3. CASE key = h
    <3>1. active'[key] = active[key] + 1
      BY <1>2, <2>3
    <3>2. x.held = key /\ x.bound >= active[key] + 1
      BY <1>3, <2>3
    <3>3. \E d : Ranked(d, active[key] + 1, key, serving')
      BY <1>1, <2>1, <2>2, <3>2, RankAdded
    <3> QED BY <3>1, <3>3
  <2>4. CASE key # h
    <3>1. active'[key] = active[key]
      BY <1>2, <2>4
    <3>2. Ranked(e, active[key], key, serving')
      BY <1>1, <2>1, <2>2, <2>4, RankKept
    <3> QED BY <3>1, <3>2
  <2> QED BY <2>3, <2>4
<1> QED BY <1>1, <1>3, <1>4 DEF SlotsInv, CountersOK

\* Counting a list of holders.
LEMMA RankedCount ==
  ASSUME NEW e, NEW n, NEW key, NEW sv, Ranked(e, n, key, sv)
  PROVE  Cardinality(HoldersIn(sv, key)) = n
<1>1. n \in Nat /\ Lists(e, n, HoldersIn(sv, key))
  BY DEF Ranked
<1>2. ExistsBijection(1..n, HoldersIn(sv, key))
  BY <1>1 DEF Lists, ExistsBijection, Bijection, Injection, Surjection, IsInjective
<1> QED BY <1>1, <1>2, FS_CountingElements

\* The invariant gives the property.
LEMMA SlotsInvAccounted == SlotsInv => SlotsAccounted
<1> SUFFICES ASSUME SlotsInv, NEW key \in SlotKey
             PROVE  /\ active[key] = Cardinality(Holders(key))
                    /\ Holders(key) # {} => \E r \in Holders(key) : active[key] <= serving[r].bound
  BY DEF SlotsAccounted
<1>1. PICK e : Ranked(e, active[key], key, serving)
  BY DEF SlotsInv, CountersOK
<1>2. Holders(key) = HoldersIn(serving, key)
  BY DEF Holders, HoldersIn
<1>3. active[key] = Cardinality(Holders(key))
  BY <1>1, <1>2, RankedCount
<1>4. ASSUME NEW r \in Holders(key) PROVE \E s \in Holders(key) : active[key] <= serving[s].bound
  <2>1. PICK i \in 1..active[key] : e[i] = r
    BY <1>1, <1>2 DEF Ranked, Lists
  <2>2. active[key] \in Nat
    BY <1>1 DEF Ranked
  <2>3. active[key] \in 1..active[key]
    BY <2>1, <2>2
  <2>4. e[active[key]] \in Holders(key) /\ serving[e[active[key]]].bound >= active[key]
    BY <1>1, <1>2, <2>3 DEF Ranked, Lists
  <2>5. serving[e[active[key]]].bound \in Nat
    BY <2>4 DEF Holders, SlotsInv, ServingsOK, ServingOK
  <2> QED BY <2>2, <2>4, <2>5
<1> QED BY <1>3, <1>4

\* A scope that is limited has a counter's key.
LEMMA ScopeKey ==
  ASSUME settings \in Settings, NEW ch \in Channel, NEW m \in Models
  PROVE  LET scope == ResolveChannelConcurrency(ch, m)
         IN scope.limit > 0 => scope.key \in SlotKey /\ scope.limit \in Nat
<1>1. /\ settings.default \in Nat /\ ch.id \in Channels
      /\ ch.concurrency \in Limit /\ ch.models[m] \in Limit
  BY DEF Settings, Channel
<1>2. <<ch.id, m>> \in SlotKey /\ <<ch.id, "all">> \in SlotKey
  BY <1>1 DEF SlotKey
<1> DEFINE own == [key |-> <<ch.id, m>>, limit |-> ch.models[m]]
           shared == [key |-> <<ch.id, "all">>,
                      limit |-> IF ch.concurrency # Unset THEN ch.concurrency
                                ELSE settings.default]
<1>3. CASE ~settings.enabled
  BY <1>3 DEF ResolveChannelConcurrency, NoScope
<1>4. CASE settings.enabled /\ ch.models[m] # Unset
  <2>1. ResolveChannelConcurrency(ch, m) = own
    BY <1>4 DEF ResolveChannelConcurrency
  <2>2. ch.models[m] \in Nat
    BY <1>1, <1>4 DEF Limit
  <2> QED BY <1>2, <2>1, <2>2
<1>5. CASE settings.enabled /\ ch.models[m] = Unset
  <2>1. ResolveChannelConcurrency(ch, m) = shared
    BY <1>5 DEF ResolveChannelConcurrency
  <2>2. shared.limit \in Nat /\ shared.key \in SlotKey
    BY <1>1, <1>2 DEF Limit
  <2> QED BY <2>1, <2>2
<1> QED BY <1>3, <1>4, <1>5

\* What a request that is being served says about itself.
LEMMA ServingFields ==
  ASSUME SlotsInv, NEW r \in SlotRequests, NEW q, q = serving[r], q.pc # "idle"
  PROVE  /\ q \in Serving /\ q.channel \in Channel /\ q.model \in Models
         /\ q.attempt \in Nat /\ q.held \in SlotKey \cup {NoKey} /\ q.bound \in Nat
         /\ ServingOK(q)
<1>1. ServingOK(q) /\ q \in Serving
  BY DEF SlotsInv, ServingsOK, ServingOK
<1> QED BY <1>1 DEF Serving

\* The object of a channel.
LEMMA LoadedChannel ==
  ASSUME settings \in Settings, NEW c \in Channels
  PROVE  Loaded(c) \in Channel /\ FromContext(c) \in Channel
<1>1. settings.channels[c].concurrency \in Limit /\ settings.channels[c].models \in [Models -> Limit]
  BY DEF Settings
<1>2. Loaded(c) \in Channel
  BY <1>1 DEF Loaded, Channel
<1>3. FromContext(c) \in Channel
  BY DEF FromContext, Channel, Limit
<1> QED BY <1>2, <1>3

\* A request between two others.
LEMMA IdleServing ==
  /\ NotServing.pc = "idle" /\ NotServing.held = NoKey /\ NotServing.bound = 0
  /\ ServingOK(NotServing)
<1>1. NotServing.pc = "idle" /\ NotServing.held = NoKey /\ NotServing.bound = 0
  BY DEF NotServing, NewServing
<1> QED BY <1>1 DEF ServingOK

\* A request arrives.
LEMMA SlotArriveInv ==
  ASSUME SlotsInv, NEW r \in SlotRequests, NEW m \in Models, NEW c \in Channels,
         SlotArrive(r, m, c)
  PROVE  SlotsInv'
<1>1. PICK x : x = NewServing(m, c)
  OBVIOUS
<1>2. serving[r].pc = "idle" /\ Serve(r, x) /\ settings' = settings /\ active' = active
  BY <1>1 DEF SlotArrive
<1>3. FromContext(c) \in Channel
  BY LoadedChannel DEF SlotsInv
<1>4. x \in Serving /\ x.held = NoKey
  BY <1>1, <1>3 DEF NewServing, Serving, ServingPC
<1>5. ServingOK(x)
  BY <1>4 DEF ServingOK, Serving
<1>6. serving[r].held = NoKey
  BY <1>2 DEF SlotsInv, ServingsOK, ServingOK
<1> QED BY <1>2, <1>4, <1>5, <1>6, SlotKept

\* A channel is chosen.
LEMMA GetChannelInv ==
  ASSUME SlotsInv, NEW r \in SlotRequests, GetChannel(r)
  PROVE  SlotsInv'
<1>1. PICK q : q = serving[r]
  OBVIOUS
<1>2. /\ q.pc = "choose" /\ settings' = settings /\ active' = active
      /\ \/ Serve(r, [q EXCEPT !.pc = "return"])
         \/ \E c \in Channels : Serve(r, [q EXCEPT !.pc = "return", !.channel = Loaded(c)])
         \/ Serve(r, [q EXCEPT !.pc = "exit"])
  BY <1>1 DEF GetChannel
<1>3. /\ q \in Serving /\ q.channel \in Channel /\ q.model \in Models
      /\ q.attempt \in Nat /\ q.held \in SlotKey \cup {NoKey} /\ q.bound \in Nat
  BY <1>1, <1>2, ServingFields
<1>4. ASSUME NEW pc \in {"return", "exit"}, Serve(r, [q EXCEPT !.pc = pc])
      PROVE  SlotsInv'
  <2>1. PICK x : x = [q EXCEPT !.pc = pc]
    OBVIOUS
  <2>2. x \in Serving /\ x.held = q.held /\ x.bound = q.bound /\ x.pc = pc
    BY <2>1, <1>3 DEF Serving, ServingPC
  <2>3. ServingOK(x)
    BY <2>2 DEF ServingOK, Serving
  <2>4. Serve(r, x)
    BY <2>1, <1>4
  <2> QED BY <1>1, <1>2, <2>2, <2>3, <2>4, SlotKept
<1>5. ASSUME NEW c \in Channels, Serve(r, [q EXCEPT !.pc = "return", !.channel = Loaded(c)])
      PROVE  SlotsInv'
  <2>0. Loaded(c) \in Channel
    BY LoadedChannel DEF SlotsInv
  <2>1. PICK x : x = [q EXCEPT !.pc = "return", !.channel = Loaded(c)]
    OBVIOUS
  <2>2. x \in Serving /\ x.held = q.held /\ x.bound = q.bound /\ x.pc = "return"
    BY <2>0, <2>1, <1>3 DEF Serving, ServingPC
  <2>3. ServingOK(x)
    BY <2>2 DEF ServingOK, Serving
  <2>4. Serve(r, x)
    BY <2>1, <1>5
  <2> QED BY <1>1, <1>2, <2>2, <2>3, <2>4, SlotKept
<1> QED BY <1>2, <1>4, <1>5

\* The slot of the attempt before is returned.
LEMMA ReturnSlotInv ==
  ASSUME SlotsInv, NEW r \in SlotRequests, ReturnSlot(r)
  PROVE  SlotsInv'
<1>1. PICK q : q = serving[r]
  OBVIOUS
<1>2. PICK x : x = [q EXCEPT !.pc = "take", !.held = NoKey]
  OBVIOUS
<1>3. /\ q.pc = "return" /\ settings' = settings /\ Serve(r, x)
      /\ active' = IF serving[r].held = NoKey THEN active ELSE Released(serving[r].held)
  BY <1>1, <1>2 DEF ReturnSlot
<1>4. q \in Serving
  BY <1>1, <1>3, ServingFields
<1>5. x \in Serving /\ x.held = NoKey
  BY <1>2, <1>4 DEF Serving, ServingPC
<1>6. ServingOK(x)
  BY <1>5 DEF ServingOK, Serving
<1> QED BY <1>3, <1>5, <1>6, SlotReturned

\* A slot is taken, none is needed, or the channel is full.
LEMMA TakeSlotInv ==
  ASSUME SlotsInv, NEW r \in SlotRequests, TakeSlot(r)
  PROVE  SlotsInv'
<1>1. PICK q : q = serving[r]
  OBVIOUS
<1>2. PICK scope : scope = ResolveChannelConcurrency(q.channel, q.model)
  OBVIOUS
<1>3. /\ q.pc = "take" /\ settings' = settings
      /\ \/ Serve(r, [q EXCEPT !.pc = "upstream"]) /\ active' = active
         \/ Serve(r, [q EXCEPT !.pc = "exit"]) /\ active' = active
         \/ /\ scope.limit > 0 /\ ~Full(scope)
            /\ Serve(r, [q EXCEPT !.pc = "upstream", !.held = scope.key, !.bound = scope.limit])
            /\ active' = [active EXCEPT ![scope.key] = @ + 1]
  BY <1>1, <1>2 DEF TakeSlot
<1>4. q \in Serving /\ q.channel \in Channel /\ q.model \in Models /\ q.held = NoKey /\ ServingOK(q)
  <2>1. ServingOK(q) /\ q \in Serving /\ q.channel \in Channel /\ q.model \in Models
    BY <1>1, <1>3, ServingFields
  <2> QED BY <2>1, <1>3 DEF ServingOK
<1>5. ASSUME NEW pc \in {"upstream", "exit"}, Serve(r, [q EXCEPT !.pc = pc]), active' = active
      PROVE  SlotsInv'
  <2>1. PICK x : x = [q EXCEPT !.pc = pc]
    OBVIOUS
  <2>2. x \in Serving /\ x.held = q.held /\ x.bound = q.bound /\ x.pc = pc
    BY <2>1, <1>4 DEF Serving, ServingPC
  <2>3. ServingOK(x)
    BY <2>2 DEF ServingOK, Serving
  <2>4. Serve(r, x)
    BY <2>1, <1>5
  <2> QED BY <1>1, <1>3, <1>5, <2>2, <2>3, <2>4, SlotKept
<1>6. ASSUME scope.limit > 0, ~Full(scope),
             Serve(r, [q EXCEPT !.pc = "upstream", !.held = scope.key, !.bound = scope.limit]),
             active' = [active EXCEPT ![scope.key] = @ + 1]
      PROVE  SlotsInv'
  <2>1. scope.key \in SlotKey /\ scope.limit \in Nat
    BY <1>2, <1>4, <1>6, ScopeKey DEF SlotsInv
  <2>2. PICK h \in SlotKey : h = scope.key
    BY <2>1
  <2>3. PICK x : x = [q EXCEPT !.pc = "upstream", !.held = h, !.bound = scope.limit]
    OBVIOUS
  <2>4. x \in Serving /\ x.held = h /\ x.bound = scope.limit /\ x.pc = "upstream"
    BY <2>1, <2>3, <1>4 DEF Serving, ServingPC
  <2>5. ServingOK(x)
    BY <2>4 DEF ServingOK, Serving
  <2>6. Serve(r, x) /\ active' = [active EXCEPT ![h] = @ + 1]
    BY <2>2, <2>3, <1>6
  <2>7. ~(active[h] >= x.bound)
    BY <2>2, <2>4, <1>6 DEF Full
  <2>8. serving[r].held = NoKey
    BY <1>1, <1>4
  <2> QED BY <1>3, <2>4, <2>5, <2>6, <2>7, <2>8, SlotTaken
<1> QED BY <1>3, <1>5, <1>6

\* An attempt ends.
LEMMA EndAttemptInv ==
  ASSUME SlotsInv, NEW r \in SlotRequests, EndAttempt(r)
  PROVE  SlotsInv'
<1>1. PICK q : q = serving[r]
  OBVIOUS
<1>2. /\ q.pc = "upstream" /\ settings' = settings /\ active' = active
      /\ \/ Serve(r, [q EXCEPT !.pc = "choose", !.attempt = @ + 1])
         \/ Serve(r, [q EXCEPT !.pc = "exit"])
  BY <1>1 DEF EndAttempt
<1>3. q \in Serving /\ q.attempt \in Nat
  BY <1>1, <1>2, ServingFields
<1>4. CASE Serve(r, [q EXCEPT !.pc = "exit"])
  <2>1. PICK x : x = [q EXCEPT !.pc = "exit"]
    OBVIOUS
  <2>2. x \in Serving /\ x.held = q.held /\ x.bound = q.bound /\ x.pc = "exit"
    BY <2>1, <1>3 DEF Serving, ServingPC
  <2>3. ServingOK(x)
    BY <2>2 DEF ServingOK, Serving
  <2>4. Serve(r, x)
    BY <2>1, <1>4
  <2> QED BY <1>1, <1>2, <2>2, <2>3, <2>4, SlotKept
<1>5. CASE Serve(r, [q EXCEPT !.pc = "choose", !.attempt = @ + 1])
  <2>0. PICK k \in Nat : k = q.attempt + 1
    BY <1>3
  <2>1. PICK x : x = [q EXCEPT !.pc = "choose", !.attempt = k]
    OBVIOUS
  <2>2. x \in Serving /\ x.held = q.held /\ x.bound = q.bound /\ x.pc = "choose"
    BY <2>1, <1>3 DEF Serving, ServingPC
  <2>3. ServingOK(x)
    BY <2>2 DEF ServingOK, Serving
  <2>4. Serve(r, x)
    BY <2>0, <2>1, <1>5
  <2> QED BY <1>1, <1>2, <2>2, <2>3, <2>4, SlotKept
<1> QED BY <1>2, <1>4, <1>5

\* Every way out.
LEMMA ExitSlotInv ==
  ASSUME SlotsInv, NEW r \in SlotRequests, ExitSlot(r)
  PROVE  SlotsInv'
<1>1. /\ settings' = settings /\ Serve(r, NotServing)
      /\ active' = IF serving[r].held = NoKey THEN active ELSE Released(serving[r].held)
  BY DEF ExitSlot
<1> QED BY <1>1, IdleServing, SlotReturned

\* No request holds a slot at the start.
LEMMA SlotsStart == SlotsInit => SlotsInv
<1> SUFFICES ASSUME SlotsInit PROVE SlotsInv
  OBVIOUS
<1>1. settings \in Settings
  BY RelaySlotsAssumption DEF SlotsInit
<1>2. /\ serving = [r \in SlotRequests |-> NotServing]
      /\ active = [k \in SlotKey |-> 0]
  BY DEF SlotsInit
<1>3. \A r \in SlotRequests : serving[r] = NotServing
  BY <1>2
<1>4. ServingsOK(serving)
  BY <1>2, <1>3, IdleServing DEF ServingsOK
<1>5. active \in [SlotKey -> Nat]
  BY <1>2
<1>6. ASSUME NEW key \in SlotKey PROVE \E e : Ranked(e, active[key], key, serving)
  <2>1. active[key] = 0
    BY <1>2
  <2>2. HoldersIn(serving, key) = {}
    BY <1>3, IdleServing, NoKeyApart DEF HoldersIn
  <2>3. PICK e : e = [i \in 1..0 |-> i]
    OBVIOUS
  <2>4. e \in [1..0 -> {}]
    BY <2>3
  <2>5. Lists(e, 0, {})
    BY <2>4 DEF Lists
  <2>6. Ranked(e, 0, key, serving)
    BY <2>2, <2>5 DEF Ranked
  <2> QED BY <2>1, <2>6
<1> QED BY <1>1, <1>4, <1>5, <1>6 DEF SlotsInv, CountersOK

\* Whatever settings change between taking and returning a slot, and on every
\* way out of the relay loop, each counter is the number of requests that hold
\* a slot of it, and some holder was admitted under a limit that the counter
\* does not exceed.
THEOREM SlotsStayAccounted == SlotsSpec => []SlotsAccounted
<1>1. SlotsInv /\ [SlotsNext]_slotVars => SlotsInv'
  <2> SUFFICES ASSUME SlotsInv, [SlotsNext]_slotVars PROVE SlotsInv'
    OBVIOUS
  <2>1. CASE \E r \in SlotRequests : ServeStep(r)
    <3>1. PICK r \in SlotRequests : ServeStep(r)
      BY <2>1
    <3> QED BY <3>1, SlotArriveInv, GetChannelInv, ReturnSlotInv, TakeSlotInv, EndAttemptInv,
               ExitSlotInv DEF ServeStep
  <2>2. CASE \E s \in SlotSettings : ChangeSettings(s)
    <3>1. settings' \in Settings /\ active' = active /\ serving' = serving
      BY <2>2, RelaySlotsAssumption DEF ChangeSettings
    <3> QED BY <3>1 DEF SlotsInv
  <2>3. CASE UNCHANGED slotVars
    BY <2>3 DEF slotVars, SlotsInv
  <2> QED BY <2>1, <2>2, <2>3 DEF SlotsNext
<1> QED BY <1>1, SlotsStart, SlotsInvAccounted, PTL DEF SlotsSpec

=============================================================================
