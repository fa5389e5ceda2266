----------------------------- MODULE NamedLease -----------------------------
(***************************************************************************)
(* One named lease of model/named_lease.go and the calls that work under   *)
(* it.  A lease name has one kind of user:                                 *)
(*   "sync"     WithNamedLease (service/named_lease.go): a heartbeat       *)
(*              renews the lease and cancels the work when it is lost;     *)
(*   "balance"  withChannelCustomBalanceLease: no heartbeat, the lease is  *)
(*              released after the work;                                   *)
(*   "warm"     warmOneChannel (controller/channel_queue_warmer.go): never *)
(*              released, so that its expiry paces the rounds.             *)
(*                                                                         *)
(* Time is in ticks.  A call reads the clock before its statement runs, so *)
(* what it compares with is old by then.  lease.left is expires_at - now.  *)
(***************************************************************************)
EXTENDS Integers

CONSTANTS
  Workers,    \* calls that compete, one per node
  Uses,       \* kinds of user to consider
  LeaseTTL,   \* length of the lease
  Interval,   \* ticks between two heartbeats (ttl / 2)
  MaxWork,    \* longest work without a heartbeat (HTTP and round timeouts)
  MaxStall,   \* longest delay between a clock reading and its statement
  MaxFail,    \* MaxConsecutiveFailures of the warmer's breaker
  Cooldown,   \* ticks the breaker stays open
  MaxFaults   \* bound on the faults of a behaviour

LeaseUse == {"sync", "balance", "warm"}

ASSUME NamedLeaseAssumption ==
  /\ Uses \subseteq LeaseUse
  /\ LeaseTTL \in Nat /\ Interval \in Nat /\ MaxWork \in Nat /\ MaxStall \in Nat
  /\ MaxFail \in Nat \ {0} /\ Cooldown \in Nat /\ MaxFaults \in Nat
  /\ {"free", "past"} \cap Workers = {}

\* What keeps the lease from ending under a call that does what it should.
ASSUME TimelyAssumption ==
  /\ Interval + 2 * MaxStall <= LeaseTTL
  /\ MaxWork + MaxStall <= LeaseTTL

VARIABLES
  use,      \* the kind of user of this lease
  lease,    \* the named_leases row
  call,     \* each worker's call
  breaker,  \* each node's channelWarmerState: failures in a row, ticks open
  faults    \* faults so far

leaseVars == <<use, lease, call, breaker, faults>>

\* Every call has a holder name of its own: "past" is one of an ended call.
Lease == [holder: Workers \cup {"free", "past"}, left: Int]

CallPC == {"idle", "insert", "takeover", "work", "drain", "release"}

\* age: ticks since the call read the clock, or since the work began.
\* beat: the heartbeat goroutine; since: ticks since its ticker fired.
Call == [pc: CallPC, age: Nat, cancelled: BOOLEAN,
         beat: {"off", "wait", "write"}, since: Nat]

LeaseTypeOK ==
  /\ use \in LeaseUse
  /\ lease \in Lease
  /\ call \in [Workers -> Call]
  /\ breaker \in [Workers -> [fails: Nat, open: Nat]]
  /\ faults \in 0..MaxFaults

NoCall == [pc |-> "idle", age |-> 0, cancelled |-> FALSE, beat |-> "off", since |-> 0]

NoLeaseRow == [holder |-> "free", left |-> 0]

ClosedBreaker == [fails |-> 0, open |-> 0]

\* Something goes wrong, at most MaxFaults times.
Fault == faults < MaxFaults /\ faults' = faults + 1

NoFault == faults' = faults

\* The call is over; a lease it leaves behind is nobody's.
Orphan(w, row) == IF row.holder = w THEN [row EXCEPT !.holder = "past"] ELSE row

EndCall(w, row) ==
  /\ call' = [call EXCEPT ![w] = NoCall]
  /\ lease' = Orphan(w, row)

-----------------------------------------------------------------------------
(* AcquireNamedLease *)

\* The call reads the clock.  The warmer starts no round while its breaker is
\* open; one round or one balance call per node is guarded by its pc.
Start(w) ==
  /\ call[w].pc = "idle"
  /\ use = "warm" => breaker[w].open = 0
  /\ call' = [call EXCEPT ![w] = [NoCall EXCEPT !.pc = "insert"]]
  /\ NoFault /\ UNCHANGED <<use, lease, breaker>>

\* The work begins, with the ticker of the heartbeat.
Acquire(w) ==
  /\ lease' = [holder |-> w, left |-> LeaseTTL - call[w].age]
  /\ call' = [call EXCEPT ![w] = [NoCall EXCEPT
                !.pc = "work", !.beat = IF use = "sync" THEN "wait" ELSE "off"]]

\* INSERT ... ON CONFLICT DO NOTHING.  It may fail, or be applied although
\* the call is told that it failed.
Insert(w) ==
  /\ call[w].pc = "insert"
  /\ \/ /\ lease.holder = "free" /\ NoFault
        /\ Acquire(w)
     \/ /\ lease.holder # "free" /\ NoFault
        /\ call' = [call EXCEPT ![w].pc = "takeover"]
        /\ UNCHANGED lease
     \/ /\ Fault
        /\ \/ EndCall(w, lease)
           \/ /\ lease.holder = "free"
              /\ EndCall(w, [holder |-> w, left |-> LeaseTTL - call[w].age])
  /\ UNCHANGED <<use, breaker>>

\* Mutant: a lease that expires now counts as expired.
Expired_Inclusive(age) == lease.left + age <= 0

\* A lease that expires exactly now is still valid.
Expired(age) == lease.left + age < 0

\* Mutant: nobody takes over what another call left behind.
Takeover_Never(w) ==
  /\ call[w].pc = "takeover"
  /\ EndCall(w, lease)
  /\ NoFault /\ UNCHANGED <<use, breaker>>

\* UPDATE ... WHERE expires_at < now; no row matches when it was released
\* meanwhile, and the call reports a busy lease.
Takeover(w) ==
  /\ call[w].pc = "takeover"
  /\ \/ /\ lease.holder # "free" /\ Expired(call[w].age) /\ NoFault
        /\ Acquire(w)
     \/ /\ lease.holder = "free" \/ ~Expired(call[w].age)
        /\ NoFault
        /\ EndCall(w, lease)
     \/ Fault /\ EndCall(w, lease)
  /\ UNCHANGED <<use, breaker>>

-----------------------------------------------------------------------------
(* The work, and the heartbeat of WithNamedLease.                          *)

\* The ticker fires and the clock is read.  While the work has just returned,
\* the select may still choose the ticker.
BeatRead(w) ==
  /\ call[w].pc \in {"work", "drain"} /\ call[w].beat = "wait"
  /\ call[w].since >= Interval
  /\ call' = [call EXCEPT ![w].beat = "write", ![w].since = 0]
  /\ NoFault /\ UNCHANGED <<use, lease, breaker>>

\* RenewNamedLease; a lost lease or an error cancels the work's context and
\* ends the heartbeat.
BeatWrite(w) ==
  LET ok == lease.holder = w /\ ~Expired(call[w].since)
  IN /\ call[w].beat = "write"
     /\ \/ /\ ok /\ NoFault
           /\ lease' = [lease EXCEPT !.left = LeaseTTL - call[w].since]
           /\ call' = [call EXCEPT ![w].beat = "wait"]
        \/ /\ (~ok /\ NoFault) \/ Fault
           /\ call' = [call EXCEPT ![w].beat = "off", ![w].cancelled = TRUE]
           /\ UNCHANGED lease
     /\ UNCHANGED <<use, breaker>>

\* The heartbeat sees that the context was cancelled after the work.
BeatStop(w) ==
  /\ call[w].pc = "drain" /\ call[w].beat = "wait"
  /\ call' = [call EXCEPT ![w].beat = "off"]
  /\ NoFault /\ UNCHANGED <<use, lease, breaker>>

\* The work returns: WithNamedLease waits for the heartbeat to end, the balance
\* call goes on to its deferred release.
Return(w) ==
  /\ use # "warm" /\ call[w].pc = "work"
  /\ call' = [call EXCEPT ![w].pc = IF use = "sync" THEN "drain" ELSE "release",
                          ![w].cancelled = TRUE]
  /\ NoFault /\ UNCHANGED <<use, lease, breaker>>

\* One tick of the cooldown.
Cooled(n) == IF n > 0 THEN n - 1 ELSE n

\* The failures after a round: only success resets them, only failure counts.
Failures(w, outcome) ==
  CASE outcome = "success" -> 0
    [] outcome = "failure" -> IF breaker[w].fails < MaxFail THEN breaker[w].fails + 1 ELSE MaxFail
    [] OTHER -> breaker[w].fails

\* A warm-up round ends and keeps its lease; failures in a row open the breaker.
WarmEnd(w, outcome) ==
  LET fails == Failures(w, outcome)
  IN /\ use = "warm" /\ call[w].pc = "work"
     /\ breaker' = [breaker EXCEPT ![w] =
          [fails |-> fails,
           open |-> CASE outcome = "failure" /\ fails >= MaxFail -> Cooldown
                      [] outcome = "success" -> 0
                      [] OTHER -> @.open]]
     /\ EndCall(w, lease)
     /\ NoFault /\ UNCHANGED use

\* ReleaseNamedLease deletes the row of this holder; an error is ignored.
Release(w) ==
  /\ call[w].pc = "release" \/ (call[w].pc = "drain" /\ call[w].beat = "off")
  /\ \/ NoFault /\ EndCall(w, IF lease.holder = w THEN NoLeaseRow ELSE lease)
     \/ Fault /\ EndCall(w, lease)
  /\ UNCHANGED <<use, breaker>>

\* The node stops and starts again; breaker and call are gone, the row stays.
LeaseCrash(w) ==
  /\ call[w].pc # "idle" /\ Fault
  /\ EndCall(w, lease)
  /\ breaker' = [breaker EXCEPT ![w] = ClosedBreaker]
  /\ UNCHANGED use

-----------------------------------------------------------------------------
LeaseFloor == -(MaxStall + 1)

\* The work of WithNamedLease takes as long as it takes.
Timed(c) == c.pc \in {"insert", "takeover"} \/ (c.pc = "work" /\ use # "sync")

\* Whether a tick may pass for this call.
MayWait(c) ==
  /\ Timed(c) => c.age < (IF c.pc = "work" THEN MaxWork ELSE MaxStall)
  /\ c.beat = "wait" => c.since < Interval
  /\ c.beat = "write" => c.since < MaxStall

Aged(c) == [c EXCEPT !.age = IF Timed(c) THEN @ + 1 ELSE @,
                     !.since = IF c.beat = "off" THEN @ ELSE @ + 1]

\* One tick; past LeaseFloor nobody can tell how long ago the lease ended.
LeaseTick ==
  /\ \A w \in Workers : MayWait(call[w])
  /\ lease' = IF lease.holder # "free" /\ lease.left > LeaseFloor
              THEN [lease EXCEPT !.left = @ - 1] ELSE lease
  /\ call' = [w \in Workers |-> Aged(call[w])]
  /\ breaker' = [w \in Workers |-> [breaker[w] EXCEPT !.open = Cooled(@)]]
  /\ NoFault /\ UNCHANGED use

LeaseInit ==
  /\ use \in Uses
  /\ lease = NoLeaseRow
  /\ call = [w \in Workers |-> NoCall]
  /\ breaker = [w \in Workers |-> ClosedBreaker]
  /\ faults = 0

CallStep(w) ==
  \/ Insert(w) \/ Takeover(w) \/ Return(w) \/ Release(w)
  \/ \E outcome \in {"success", "busy", "timeout", "failure"} : WarmEnd(w, outcome)

BeatStep(w) == BeatRead(w) \/ BeatWrite(w) \/ BeatStop(w)

LeaseNext ==
  \/ \E w \in Workers : Start(w) \/ CallStep(w) \/ BeatStep(w) \/ LeaseCrash(w)
  \/ LeaseTick

\* Time passes; a call that has begun ends and its heartbeat runs, and select
\* chooses the ended context in the end; the schedulers of all three kinds of
\* work start a call again and again.
LeaseFairness ==
  /\ SF_leaseVars(LeaseTick)
  /\ \A w \in Workers : /\ WF_leaseVars(Start(w))
                        /\ WF_leaseVars(CallStep(w))
                        /\ WF_leaseVars(BeatStep(w)) /\ SF_leaseVars(BeatStop(w))

LeaseSpec == LeaseInit /\ [][LeaseNext]_leaseVars /\ LeaseFairness

-----------------------------------------------------------------------------
(* Properties *)

\* The work may still change what the lease protects ("fn must stop all
\* mutations when its context is canceled").
Entitled(w) == call[w].pc = "work" /\ ~call[w].cancelled

\* Two calls never work under the lease at once, whatever statements fail and
\* whichever calls were cut off ("multiple master-capable nodes never warm the
\* same channel concurrently").
Exclusive == \A v, w \in Workers : Entitled(v) /\ Entitled(w) => v = w

\* Work is done again and again: neither a lease left by a crash or a failed
\* release nor an open breaker ends it.
WorkGoesOn == []<>(\E w \in Workers : Entitled(w))

=============================================================================
