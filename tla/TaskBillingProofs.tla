------------------------- MODULE TaskBillingProofs -------------------------
(***************************************************************************)
(* Proofs about TaskBilling for any number of overlapping passes, any      *)
(* prices and every fault: without the real-time fetch nobody is refunded  *)
(* more than was charged, and only the bulk update for an unreadable       *)
(* channel changes an outcome; unless a fault stops a settlement half way, *)
(* the row holds what the user pays, and the ledgers agree.                *)
(***************************************************************************)
EXTENDS TaskBilling, Sums, TLAPS

\* No real-time fetch: its stale writes break both properties.
NoFetch == Fetchers = {}

Actors == Pollers \cup Fetchers

-----------------------------------------------------------------------------
(* The inductive invariant.                                                *)

Reading(a) == actor[a].pc \in {"poll", "sweep"}

\* The passes that won the update of the outcome and have the task to bill.
Winner(a) == actor[a].pc \in {"bill", "refund", "token", "quota"}

\* Before the row exists nobody looks at it.
NotYet ==
  /\ submit.pc = "reserved" => row.status = "none" /\ submit.surplus = 0
  /\ row.status = "none" => \A a \in Pollers : actor[a].pc = "idle"

\* What the submission will still return has been charged.
CoversSurplus == charge.funding >= submit.surplus /\ charge.token >= submit.surplus

\* While the task is unfinished its whole quota has been charged.
CoversQuota ==
  row.status \in Unfinished =>
    /\ charge.funding >= row.quota + submit.surplus
    /\ charge.token >= row.quota + submit.surplus

\* A pass read an unfinished row, and its quota is the row's until somebody
\* stores an outcome.
CopyIsCurrent ==
  \A a \in Pollers : Reading(a) =>
    /\ actor[a].from \in Unfinished /\ actor[a].copy.status \in Unfinished
    /\ row.status \in Unfinished => actor[a].copy.quota = row.quota

\* There is one winner, and none while the task is unfinished.
OneWinner ==
  /\ \A a \in Pollers : Winner(a) => row.status \notin Unfinished
  /\ \A a, b \in Pollers : Winner(a) /\ Winner(b) => a = b

\* What the winner may still return has been charged.
WinnerCovered ==
  \A a \in Pollers :
    /\ actor[a].pc \in {"bill", "refund"} =>
         /\ charge.funding >= actor[a].copy.quota + submit.surplus
         /\ charge.token >= actor[a].copy.quota + submit.surplus
    /\ actor[a].pc = "token" => charge.token + actor[a].delta >= submit.surplus

Solvent == /\ NotYet /\ CoversSurplus /\ CoversQuota
           /\ CopyIsCurrent /\ OneWinner /\ WinnerCovered

-----------------------------------------------------------------------------
(* Types.                                                                  *)

\* The larger of two naturals is a natural that bounds both.
LEMMA Max2Type ==
  ASSUME NEW a \in Nat, NEW b \in Nat
  PROVE  Max2(a, b) \in Nat /\ Max2(a, b) >= a /\ Max2(a, b) >= b
BY DEF Max2

\* UpdateWithStatus leaves a row and actors of the right type.
LEMMA UpdateType ==
  ASSUME TypeOK, NEW a \in Actors, NEW copy \in Row, NEW pc \in ActorPC,
         UpdateWithStatus(a, copy, pc)
  PROVE  row' \in Row /\ actor' \in [Actors -> Actor]
<1>1. row \in Row /\ actor \in [Actors -> Actor] /\ actor[a] \in Actor
  BY DEF TypeOK, Actors
<1>2. Done(a) \in Actor
  BY <1>1 DEF Done, Actor, ActorPC
<1>3. [Done(a) EXCEPT !.pc = pc, !.copy = copy] \in Actor
  BY <1>2 DEF Actor
<1>4. CASE row.status = actor[a].from
  BY <1>1, <1>3, <1>4 DEF UpdateWithStatus
<1>5. CASE row.status # actor[a].from
  BY <1>1, <1>2, <1>5 DEF UpdateWithStatus
<1> QED BY <1>4, <1>5

\* A failed copy is a row.
LEMMA FailedType ==
  ASSUME NEW copy \in Row
  PROVE  /\ Failed(copy) \in Row /\ Failed(copy).quota = copy.quota
         /\ Failed(copy).status = "FAILURE"
BY DEF Failed, Row, Terminal

\* An actor that ends is an actor.
LEMMA DoneType ==
  ASSUME TypeOK, NEW a \in Actors
  PROVE  /\ actor[a] \in Actor /\ Done(a) \in Actor /\ actor[a].copy \in Row
         /\ actor \in [Actors -> Actor]
BY DEF TypeOK, Actors, Done, Actor, ActorPC

\* What a settlement may aim at is a quota.
LEMMA TargetsType ==
  ASSUME TypeOK, NEW a \in Actors, NEW t \in Targets(a)
  PROVE  t \in Nat
<1>1. actor[a].copy.quota \in Nat
  BY DoneType DEF Row
<1>2. Prices \subseteq Nat
  BY TaskBillingAssumption
<1> QED BY <1>1, <1>2 DEF Targets

\* The initial state is well typed.
LEMMA InitType == Init => TypeOK
<1> SUFFICES ASSUME Init PROVE TypeOK
  OBVIOUS
<1>1. NoRow \in Row
  BY DEF NoRow, Row, BillingKind, Unfinished, Terminal
<1>2. [pc |-> "idle", copy |-> NoRow, from |-> "NOT_START", delta |-> 0] \in Actor
  BY <1>1 DEF Actor, ActorPC, Unfinished
<1>3. Reserved \in Nat /\ MaxFetches \in Nat
  BY TaskBillingAssumption
<1> QED BY <1>1, <1>2, <1>3 DEF Init, TypeOK

\* Loading an existing row gives an actor with a copy of it.
LEMMA LoadType ==
  ASSUME TypeOK, NEW a \in Actors, NEW pc \in ActorPC, row.status # "none", Load(a, pc)
  PROVE  actor' \in [Actors -> Actor]
<1>1. row \in Row /\ row.status \in Unfinished \cup Terminal
  BY DEF TypeOK, Row
<1>2. [pc |-> pc, copy |-> row, from |-> row.status, delta |-> 0] \in Actor
  BY <1>1 DEF Actor
<1> QED BY <1>2, DoneType DEF Load

Ledgers == [funding: Int, token: Int, used: Int]

\* Changing a ledger by an integer leaves ledgers.
LEMMA LedgersType ==
  ASSUME NEW c \in Ledgers, NEW x \in Int, NEW y \in Int, NEW z \in Int
  PROVE  [c EXCEPT !.funding = x, !.token = y, !.used = z] \in Ledgers
<1>1. PICK d : d = [c EXCEPT !.funding = x]
  OBVIOUS
<1>2. d \in Ledgers
  BY ONLY <1>1, c \in Ledgers, x \in Int DEF Ledgers
<1>3. PICK e : e = [d EXCEPT !.token = y]
  OBVIOUS
<1>4. e \in Ledgers
  BY ONLY <1>2, <1>3, y \in Int DEF Ledgers
<1>5. [e EXCEPT !.used = z] \in Ledgers
  BY ONLY <1>4, z \in Int DEF Ledgers
<1>6. [c EXCEPT !.funding = x, !.token = y, !.used = z] = [e EXCEPT !.used = z]
  BY ONLY <1>1, <1>3
<1> QED BY <1>5, <1>6

\* Steps of the submitting request keep the types.
LEMMA SubmitType == TypeOK /\ SubmitStep => TypeOK'
<1> SUFFICES ASSUME TypeOK, SubmitStep PROVE TypeOK'
  OBVIOUS
<1>1. ASSUME NEW quota \in Prices \cup {0}, NEW kind \in Kinds, NEW legacy \in Origins,
             NEW status \in Unfinished \cup Terminal, NEW full \in BOOLEAN,
             Insert(status, full, quota, kind, legacy)
      PROVE  TypeOK'
  <2>1. quota \in Nat /\ kind \in BillingKind /\ legacy \in BOOLEAN /\ Reserved \in Nat
    BY TaskBillingAssumption
  <2>2. /\ Max2(Reserved, quota) \in Nat
        /\ Max2(Reserved, quota) - quota \in Nat
    <3>1. Max2(Reserved, quota) \in Nat /\ Max2(Reserved, quota) >= quota
      BY ONLY <2>1, Max2Type
    <3> QED BY <2>1, <3>1
  <2>3. row' \in Row
    BY <1>1, <2>1 DEF Insert, Row
  <2>4. /\ charge' \in [funding: Int, token: Int, used: Int]
        /\ submit' \in [pc: {"reserved", "settle", "over"}, quota: Nat, surplus: Nat]
    BY <1>1, <2>1, <2>2 DEF Insert
  <2> QED BY <1>1, <2>3, <2>4 DEF Insert, TypeOK
<1>0. /\ charge \in [funding: Int, token: Int, used: Int]
      /\ submit \in [pc: {"reserved", "settle", "over"}, quota: Nat, surplus: Nat]
  BY DEF TypeOK
<1>2. ASSUME GiveUp PROVE TypeOK'
  <2>0. charge' = [charge EXCEPT !.funding = 0, !.token = 0]
    BY <1>2 DEF GiveUp
  <2>1. charge' \in [funding: Int, token: Int, used: Int]
    <3>1. PICK d : d = [charge EXCEPT !.funding = 0]
      OBVIOUS
    <3>2. d \in [funding: Int, token: Int, used: Int]
      BY ONLY <1>0, <3>1
    <3>3. charge' = [d EXCEPT !.token = 0]
      BY ONLY <2>0, <3>1
    <3> QED BY ONLY <3>2, <3>3
  <2>2. submit' \in [pc: {"reserved", "settle", "over"}, quota: Nat, surplus: Nat]
    BY <1>0, <1>2 DEF GiveUp
  <2> QED BY <1>2, <2>1, <2>2 DEF GiveUp, TypeOK
<1>3. ASSUME Settle PROVE TypeOK'
  <2>0. PICK s \in Nat, q \in Nat : s = submit.surplus /\ q = submit.quota
    BY <1>0
  <2>1. charge' \in [funding: Int, token: Int, used: Int]
    <3>1. CASE charge' = [charge EXCEPT !.funding = @ - s, !.token = @ - s, !.used = @ + q]
      <4>1. /\ charge.funding - s \in Int /\ charge.token - s \in Int
            /\ charge.used + q \in Int /\ charge \in Ledgers
        BY <1>0 DEF Ledgers
      <4> QED BY <3>1, <4>1, LedgersType DEF Ledgers
    <3> QED BY <1>0, <1>3, <2>0, <3>1 DEF Settle
  <2>2. submit' \in [pc: {"reserved", "settle", "over"}, quota: Nat, surplus: Nat]
    BY <1>3 DEF Settle
  <2> QED BY <1>3, <2>1, <2>2 DEF Settle, TypeOK
<1> QED BY <1>1, <1>2, <1>3 DEF SubmitStep

\* Steps of a pass that has read the row keep the types.
LEMMA PollType == \A a \in Actors : TypeOK /\ PollStep(a) => TypeOK'
<1> SUFFICES ASSUME TypeOK, NEW a \in Actors, PollStep(a) PROVE TypeOK'
  OBVIOUS
<1>0. /\ actor[a].copy \in Row /\ Failed(actor[a].copy) \in Row
      /\ {"idle", "bill", "refund"} \subseteq ActorPC
  BY DoneType, FailedType DEF ActorPC
<1>1. ASSUME NEW copy \in Row, NEW pc \in {"idle", "bill", "refund"},
             UpdateWithStatus(a, copy, pc), UNCHANGED <<charge, submit, fetches>>
      PROVE  TypeOK'
  BY <1>0, <1>1, UpdateType DEF TypeOK, Actors
<1>2. CASE Sweep(a)
  <2>1. [Failed(actor[a].copy) EXCEPT !.quota = 0] \in Row
    BY <1>0 DEF Row
  <2> QED BY <1>0, <1>1, <1>2, <2>1 DEF Sweep
<1>3. CASE PollFails(a)
  <2> DEFINE n == actor[a].copy.failures + 1
  <2>1. PICK copy : copy = [actor[a].copy EXCEPT !.failures = IF MaxFailures = 0 THEN 0 ELSE n]
    OBVIOUS
  <2>2. copy \in Row
    BY <1>0, <2>1 DEF Row
  <2>3. Failed(copy) \in Row
    BY <2>2, FailedType
  <2> QED BY <1>1, <1>3, <2>1, <2>2, <2>3 DEF PollFails
<1>4. CASE PollGone(a)
  BY <1>0, <1>1, <1>4 DEF PollGone
<1>5. CASE PollNoChannel(a)
  <2>1. row' \in Row
    BY <1>5, FailedType DEF PollNoChannel, TypeOK
  <2>2. actor' \in [Actors -> Actor]
    BY <1>5, DoneType DEF PollNoChannel
  <2> QED BY <1>5, <2>1, <2>2 DEF PollNoChannel, TypeOK, Actors
<1>6. ASSUME NEW status \in Unfinished, NEW full \in BOOLEAN, PollRunning(a, status, full)
      PROVE  TypeOK'
  <2>1. [actor[a].copy EXCEPT !.status = status, !.full = full, !.failures = 0] \in Row
    BY <1>0 DEF Row
  <2> QED BY <1>1, <1>6, <2>1 DEF PollRunning
<1>7. ASSUME NEW status \in Terminal, PollFinished(a, status) PROVE TypeOK'
  <2>1. [actor[a].copy EXCEPT !.status = status, !.full = TRUE] \in Row
    BY <1>0 DEF Row
  <2> QED BY <1>1, <1>7, <2>1 DEF PollFinished
<1> QED BY <1>2, <1>3, <1>4, <1>5, <1>6, <1>7 DEF PollStep

\* Steps of a settlement keep the types.
LEMMA BillType == \A a \in Actors : TypeOK /\ BillStep(a) => TypeOK'
<1> SUFFICES ASSUME TypeOK, NEW a \in Actors, BillStep(a) PROVE TypeOK'
  OBVIOUS
<1>0. /\ actor[a] \in Actor /\ Done(a) \in Actor /\ actor \in [Actors -> Actor]
      /\ charge \in [funding: Int, token: Int, used: Int] /\ row \in Row
      /\ actor[a].delta \in Int /\ actor[a].copy.quota \in Nat
  BY DoneType DEF TypeOK, Actor, Row
<1>1. ASSUME NEW target \in Targets(a), Bill(a, target) PROVE TypeOK'
  <2>1. target \in Nat
    BY TargetsType
  <2>2. PICK delta : delta = target - actor[a].copy.quota
    OBVIOUS
  <2>3. delta \in Int
    BY <1>0, <2>1, <2>2
  <2>4. [actor[a] EXCEPT !.pc = "token", !.delta = delta, !.copy.quota = target] \in Actor
    BY <1>0, <2>1, <2>3 DEF Actor, ActorPC, Row
  <2>5. CASE actor' = [actor EXCEPT ![a] = Done(a)] /\ UNCHANGED charge
    BY <1>0, <1>1, <2>5 DEF Bill, TypeOK, Actors
  <2>6. CASE /\ charge' = [charge EXCEPT !.funding = @ + delta]
             /\ actor' = [actor EXCEPT ![a].pc = "token", ![a].delta = delta,
                                       ![a].copy.quota = target]
    <3>1. charge' \in [funding: Int, token: Int, used: Int]
      BY <1>0, <2>3, <2>6
    <3>2. actor' = [actor EXCEPT ![a] =
                      [actor[a] EXCEPT !.pc = "token", !.delta = delta, !.copy.quota = target]]
      BY <1>0, <2>6
    <3>3. actor' \in [Actors -> Actor]
      BY <1>0, <2>4, <3>2
    <3> QED BY <1>1, <3>1, <3>3 DEF Bill, TypeOK, Actors
  <2>7. CASE /\ actor' = [actor EXCEPT ![a] = Done(a)]
             /\ charge' = [charge EXCEPT !.funding = @ + delta]
    <3>1. charge' \in [funding: Int, token: Int, used: Int]
      BY <1>0, <2>3, <2>7
    <3>2. actor' \in [Actors -> Actor]
      BY <1>0, <2>7
    <3> QED BY <1>1, <3>1, <3>2 DEF Bill, TypeOK, Actors
  <2> QED BY <1>1, <2>2, <2>5, <2>6, <2>7 DEF Bill
<1>2. ASSUME BillToken(a) PROVE TypeOK'
  <2>1. [actor[a] EXCEPT !.pc = "quota"] \in Actor
    BY <1>0 DEF Actor, ActorPC
  <2>2. actor' \in [Actors -> Actor]
    BY <1>0, <1>2, <2>1 DEF BillToken
  <2>3. charge' \in [funding: Int, token: Int, used: Int]
    BY <1>0, <1>2 DEF BillToken
  <2> QED BY <1>2, <2>2, <2>3 DEF BillToken, TypeOK, Actors
<1>3. ASSUME BillQuota(a) PROVE TypeOK'
  <2>1. row' \in Row
    BY <1>0, <1>3 DEF BillQuota, Row
  <2>2. charge' \in [funding: Int, token: Int, used: Int]
    BY <1>0, <1>3 DEF BillQuota
  <2> QED BY <1>0, <1>3, <2>1, <2>2 DEF BillQuota, TypeOK, Actors
<1> QED BY <1>1, <1>2, <1>3 DEF BillStep

\* Every step keeps the types.
LEMMA TypeStep == TypeOK /\ [Next]_vars => TypeOK'
<1> SUFFICES ASSUME TypeOK, [Next]_vars PROVE TypeOK'
  OBVIOUS
<1>1. CASE UNCHANGED vars
  BY <1>1 DEF vars, TypeOK
<1>2. ASSUME NEW a \in Pollers, LoadTimedOut(a) \/ LoadUnfinished(a) PROVE TypeOK'
  <2>1. row.status # "none" /\ a \in Actors /\ {"sweep", "poll"} \subseteq ActorPC
    BY <1>2 DEF LoadTimedOut, LoadUnfinished, Selected, Unfinished, Actors, ActorPC
  <2>2. actor' \in [Actors -> Actor]
    BY <1>2, <2>1, LoadType DEF LoadTimedOut, LoadUnfinished
  <2> QED BY <1>2, <2>2 DEF LoadTimedOut, LoadUnfinished, Load, TypeOK, Actors
<1>3. ASSUME NEW a \in Pollers, Crash(a) PROVE TypeOK'
  BY <1>3, DoneType DEF Crash, TypeOK, Actors
<1>4. ASSUME NEW f \in Fetchers, FetchStep(f) PROVE TypeOK'
  <2>0. f \in Actors /\ {"idle", "fetch"} \subseteq ActorPC
    BY DEF Actors, ActorPC
  <2>1. CASE FetchLoad(f)
    <3>1. actor' \in [Actors -> Actor]
      BY <2>0, <2>1, LoadType DEF FetchLoad
    <3>2. fetches' \in 0..MaxFetches
      BY <2>1, TaskBillingAssumption DEF FetchLoad, TypeOK
    <3> QED BY <2>1, <3>1, <3>2 DEF FetchLoad, Load, TypeOK, Actors
  <2>2. ASSUME NEW status \in Unfinished \cup Terminal, NEW full \in BOOLEAN,
               FetchAnswer(f, status, full)
        PROVE  TypeOK'
    <3>1. [actor[f].copy EXCEPT !.status = status, !.full = full] \in Row
      BY <2>0, DoneType DEF Row
    <3>2. row' \in Row /\ actor' \in [Actors -> Actor]
      BY <2>0, <2>2, <3>1, UpdateType, DoneType DEF FetchAnswer, TypeOK
    <3> QED BY <2>2, <3>2 DEF FetchAnswer, TypeOK, Actors
  <2> QED BY <1>4, <2>1, <2>2 DEF FetchStep
<1> QED BY <1>1, <1>2, <1>3, <1>4, SubmitType, PollType, BillType DEF Next, Actors

\* Every reachable state is well typed, with fetches and with every fault.
THEOREM TypeCorrect == Spec => []TypeOK
<1> QED BY InitType, TypeStep, PTL DEF Spec

-----------------------------------------------------------------------------
(* Solvency.                                                               *)

\* What UpdateWithStatus does, actor by actor.
LEMMA UpdateEffect ==
  ASSUME TypeOK, NEW a \in Pollers, NEW copy \in Row, NEW pc \in ActorPC,
         UpdateWithStatus(a, copy, pc)
  PROVE  /\ \A b \in Pollers \ {a} : actor'[b] = actor[b]
         /\ \/ /\ row.status = actor[a].from /\ row' = copy
               /\ actor'[a].pc = pc /\ actor'[a].copy = copy
            \/ /\ row.status # actor[a].from /\ row' = row
               /\ actor'[a].pc = "idle"
<1>1. /\ actor \in [Actors -> Actor] /\ a \in Actors /\ Pollers \subseteq Actors
      /\ Done(a) \in Actor /\ actor[a] \in Actor
  BY DoneType DEF Actors
<1>2. Done(a).pc = "idle"
  BY <1>1 DEF Done, Actor
<1>3. PICK w : w = [Done(a) EXCEPT !.pc = pc, !.copy = copy]
  OBVIOUS
<1>4. w.pc = pc /\ w.copy = copy
  BY <1>1, <1>3 DEF Actor
<1>5. CASE row.status = actor[a].from
  <2>1. row' = copy /\ actor' = [actor EXCEPT ![a] = w]
    BY <1>3, <1>5 DEF UpdateWithStatus
  <2> QED BY <1>1, <1>4, <1>5, <2>1
<1>6. CASE row.status # actor[a].from
  <2>1. row' = row /\ actor' = [actor EXCEPT ![a] = Done(a)]
    BY <1>6 DEF UpdateWithStatus
  <2> QED BY <1>1, <1>2, <1>6, <2>1
<1> QED BY <1>5, <1>6

\* A pass that stores its copy, with the quota it read or without one to
\* refund, keeps the task solvent.
LEMMA UpdateSolvent ==
  ASSUME TypeOK, Solvent, NEW a \in Pollers, NEW copy \in Row, NEW pc \in ActorPC,
         Reading(a), UpdateWithStatus(a, copy, pc), UNCHANGED <<charge, submit>>,
         \/ copy.status \in Unfinished /\ pc = "idle" /\ copy.quota = actor[a].copy.quota
         \/ copy.status \in Terminal /\ pc = "idle"
         \/ /\ copy.status \in Terminal /\ pc \in {"bill", "refund"}
            /\ copy.quota = actor[a].copy.quota
  PROVE  Solvent'
<1>1. /\ \A b \in Pollers \ {a} : actor'[b] = actor[b]
      /\ \/ /\ row.status = actor[a].from /\ row' = copy
            /\ actor'[a].pc = pc /\ actor'[a].copy = copy
         \/ /\ row.status # actor[a].from /\ row' = row
            /\ actor'[a].pc = "idle"
  BY UpdateEffect
<1>2. /\ row.quota \in Nat /\ copy.quota \in Nat /\ submit.surplus \in Nat
      /\ charge.funding \in Int /\ charge.token \in Int
      /\ charge' = charge /\ submit' = submit
      /\ row.status \in {"none"} \cup Unfinished \cup Terminal
  BY DEF TypeOK, Row
<1>3. /\ actor[a].from \in Unfinished
      /\ row.status \in Unfinished => actor[a].copy.quota = row.quota
      /\ row.status # "none"
  BY DEF Solvent, CopyIsCurrent, NotYet, Reading
<1>4. CASE row.status # actor[a].from /\ row' = row /\ actor'[a].pc = "idle"
  <2>1. NotYet' /\ CoversSurplus' /\ CoversQuota'
    BY <1>1, <1>2, <1>4 DEF Solvent, NotYet, CoversSurplus, CoversQuota
  <2>2. CopyIsCurrent'
    BY <1>1, <1>4 DEF Solvent, CopyIsCurrent, Reading
  <2>3. OneWinner'
    BY <1>1, <1>4 DEF Solvent, OneWinner, Winner
  <2>4. WinnerCovered'
    BY <1>1, <1>2, <1>4 DEF Solvent, WinnerCovered
  <2> QED BY <2>1, <2>2, <2>3, <2>4 DEF Solvent
<1>5. CASE /\ row.status = actor[a].from /\ row' = copy
           /\ actor'[a].pc = pc /\ actor'[a].copy = copy
  <2>0. /\ row.status \in Unfinished
        /\ charge.funding >= row.quota + submit.surplus
        /\ charge.token >= row.quota + submit.surplus
        /\ \A b \in Pollers : ~Winner(b)
        /\ copy.status # "none"
    BY <1>3, <1>5 DEF Solvent, CoversQuota, OneWinner, Unfinished, Terminal
  <2>1. NotYet'
    BY <1>2, <1>3, <1>5, <2>0 DEF Solvent, NotYet
  <2>2. CoversSurplus' /\ CoversQuota'
    BY <1>2, <1>3, <1>5, <2>0 DEF Solvent, CoversSurplus, CoversQuota, Unfinished, Terminal
  <2>3. CopyIsCurrent'
    BY <1>1, <1>3, <1>5, <2>0
       DEF Solvent, CopyIsCurrent, Reading, Unfinished, Terminal
  <2>4. OneWinner'
    BY <1>1, <1>5, <2>0 DEF OneWinner, Winner, Unfinished, Terminal
  <2>5. WinnerCovered'
    <3>1. ASSUME NEW b \in Pollers \ {a}
          PROVE  actor'[b].pc \notin {"bill", "refund", "token"}
      BY <1>1, <2>0 DEF Winner
    <3>2. actor'[a].pc \in {"bill", "refund"} => copy.quota = row.quota
      BY <1>3, <1>5, <2>0
    <3> QED BY <1>2, <1>5, <2>0, <3>1, <3>2 DEF WinnerCovered
  <2> QED BY <2>1, <2>2, <2>3, <2>4, <2>5 DEF Solvent
<1> QED BY <1>1, <1>4, <1>5

\* The submitting request keeps the task solvent.
LEMMA SubmitSolvent == TypeOK /\ Solvent /\ SubmitStep => Solvent'
<1> SUFFICES ASSUME TypeOK, Solvent, SubmitStep PROVE Solvent'
  OBVIOUS
<1>0. /\ charge.funding \in Int /\ charge.token \in Int /\ submit.surplus \in Nat
      /\ row.quota \in Nat /\ \A a \in Pollers : /\ actor[a].copy.quota \in Nat
                                                /\ actor[a].delta \in Int
  BY DEF TypeOK, Row, Actor
<1>1. ASSUME NEW quota \in Prices \cup {0}, NEW kind \in Kinds, NEW legacy \in Origins,
             NEW status \in Unfinished \cup Terminal, NEW full \in BOOLEAN,
             Insert(status, full, quota, kind, legacy)
      PROVE  Solvent'
  <2>1. quota \in Nat /\ Reserved \in Nat
    BY TaskBillingAssumption
  <2>2. PICK top \in Nat : top = Max2(Reserved, quota) /\ top >= quota
    BY <2>1, Max2Type
  <2>3. /\ row'.status = status /\ row'.quota = quota
        /\ charge'.funding = top /\ charge'.token = top
        /\ submit'.pc = "settle" /\ submit'.surplus = top - quota
        /\ actor' = actor /\ row'.status # "none"
    BY <1>1, <2>2 DEF Insert, Unfinished, Terminal
  <2>4. \A a \in Pollers : actor[a].pc = "idle"
    BY <1>1 DEF Insert, Solvent, NotYet
  <2>5. NotYet' /\ CoversSurplus' /\ CoversQuota'
    BY <2>1, <2>2, <2>3 DEF NotYet, CoversSurplus, CoversQuota
  <2>6. CopyIsCurrent' /\ OneWinner' /\ WinnerCovered'
    BY <2>3, <2>4 DEF CopyIsCurrent, OneWinner, WinnerCovered, Reading, Winner
  <2> QED BY <2>5, <2>6 DEF Solvent
<1>2. ASSUME GiveUp PROVE Solvent'
  <2>1. /\ row.status = "none" /\ submit.surplus = 0 /\ \A a \in Pollers : actor[a].pc = "idle"
    BY <1>2 DEF GiveUp, Solvent, NotYet
  <2>2. /\ row' = row /\ actor' = actor
        /\ charge'.funding = 0 /\ charge'.token = 0
        /\ submit'.pc = "over" /\ submit'.surplus = 0
    BY <1>2, <2>1 DEF GiveUp, TypeOK
  <2>3. NotYet' /\ CoversSurplus' /\ CoversQuota'
    BY <2>1, <2>2 DEF NotYet, CoversSurplus, CoversQuota, Unfinished
  <2>4. CopyIsCurrent' /\ OneWinner' /\ WinnerCovered'
    BY <2>1, <2>2 DEF CopyIsCurrent, OneWinner, WinnerCovered, Reading, Winner
  <2> QED BY <2>3, <2>4 DEF Solvent
<1>3. ASSUME Settle PROVE Solvent'
  <2>1. /\ row' = row /\ actor' = actor
        /\ submit'.pc = "over" /\ submit'.surplus = 0
        /\ charge'.funding >= charge.funding - submit.surplus
        /\ charge'.token >= charge.token - submit.surplus
        /\ charge'.funding \in Int /\ charge'.token \in Int
    <3>1. charge \in [funding: Int, token: Int, used: Int]
      BY DEF TypeOK
    <3>2. PICK s, q : s = submit.surplus /\ q = submit.quota /\ s \in Nat
      BY <1>0
    <3>3. CASE charge' = [charge EXCEPT !.funding = @ - s, !.token = @ - s, !.used = @ + q]
      <4>1. charge'.funding = charge.funding - s /\ charge'.token = charge.token - s
        BY <3>1, <3>3
      <4> QED BY <1>0, <1>3, <3>2, <4>1 DEF Settle
    <3>4. CASE charge' = charge
      BY <1>0, <1>3, <3>4 DEF Settle
    <3>5. CASE charge' = [charge EXCEPT !.funding = @ - s]
      <4>1. charge'.funding = charge.funding - s /\ charge'.token = charge.token
        BY <3>1, <3>5
      <4> QED BY <1>0, <1>3, <3>2, <4>1 DEF Settle
    <3> QED BY <1>3, <3>2, <3>3, <3>4, <3>5 DEF Settle
  <2>2. NotYet' /\ CoversSurplus' /\ CoversQuota'
    BY <1>0, <2>1 DEF Solvent, NotYet, CoversSurplus, CoversQuota
  <2>3. CopyIsCurrent' /\ OneWinner'
    BY <2>1 DEF Solvent, CopyIsCurrent, OneWinner, Reading, Winner
  <2>4. WinnerCovered'
    BY <1>0, <2>1 DEF Solvent, WinnerCovered
  <2> QED BY <2>2, <2>3, <2>4 DEF Solvent
<1> QED BY <1>1, <1>2, <1>3 DEF SubmitStep

\* A pass that turns idle keeps the task solvent.
LEMMA IdleSolvent ==
  ASSUME TypeOK, Solvent, NEW a \in Pollers, actor' = [actor EXCEPT ![a] = Done(a)],
         UNCHANGED <<row, charge, submit>>
  PROVE  Solvent'
<1>1. /\ \A b \in Pollers \ {a} : actor'[b] = actor[b]
      /\ actor'[a].pc = "idle"
  BY DoneType DEF Actors, Done, Actor
<1>2. NotYet' /\ CoversSurplus' /\ CoversQuota'
  BY <1>1 DEF Solvent, NotYet, CoversSurplus, CoversQuota
<1>3. CopyIsCurrent' /\ OneWinner'
  BY <1>1 DEF Solvent, CopyIsCurrent, OneWinner, Reading, Winner
<1>4. WinnerCovered'
  BY <1>1 DEF Solvent, WinnerCovered
<1> QED BY <1>2, <1>3, <1>4 DEF Solvent

\* Reading the row keeps the task solvent.
LEMMA LoadSolvent ==
  ASSUME TypeOK, Solvent, NEW a \in Pollers, NEW pc \in {"poll", "sweep"},
         Selected, Load(a, pc)
  PROVE  Solvent'
<1>1. /\ actor'[a].pc = pc /\ actor'[a].copy = row /\ actor'[a].from = row.status
      /\ \A b \in Pollers \ {a} : actor'[b] = actor[b]
      /\ row' = row /\ charge' = charge /\ submit' = submit
      /\ row.status \in Unfinished /\ row.status # "none"
  BY DoneType DEF Actors, Load, Selected, Unfinished
<1>2. NotYet' /\ CoversSurplus' /\ CoversQuota'
  BY <1>1 DEF Solvent, NotYet, CoversSurplus, CoversQuota
<1>3. CopyIsCurrent'
  BY <1>1 DEF Solvent, CopyIsCurrent, Reading
<1>4. OneWinner'
  BY <1>1 DEF Solvent, OneWinner, Winner
<1>5. WinnerCovered'
  BY <1>1 DEF Solvent, WinnerCovered
<1> QED BY <1>2, <1>3, <1>4, <1>5 DEF Solvent

\* Steps of a pass that has read the row keep the task solvent.
LEMMA PollSolvent == \A a \in Pollers : TypeOK /\ Solvent /\ PollStep(a) => Solvent'
<1> SUFFICES ASSUME TypeOK, Solvent, NEW a \in Pollers, PollStep(a) PROVE Solvent'
  OBVIOUS
<1>0. /\ a \in Actors /\ actor[a].copy \in Row
      /\ {"idle", "bill", "refund"} \subseteq ActorPC
  BY DoneType DEF Actors, ActorPC
<1>1. PICK failed : /\ failed = Failed(actor[a].copy) /\ failed \in Row
                    /\ failed.quota = actor[a].copy.quota /\ failed.status \in Terminal
  BY <1>0, FailedType DEF Terminal
<1>2. CASE Sweep(a)
  <2>1. PICK copy : copy = [failed EXCEPT !.quota = 0]
    OBVIOUS
  <2>2. copy \in Row /\ copy.status \in Terminal
    BY <1>1, <2>1 DEF Row
  <2>3. Reading(a) /\ UNCHANGED <<charge, submit>>
    BY <1>2 DEF Sweep, Reading
  <2>4. CASE UpdateWithStatus(a, copy, "idle")
    BY <1>0, <2>2, <2>3, <2>4, UpdateSolvent
  <2>5. CASE UpdateWithStatus(a, failed, "refund")
    BY <1>0, <1>1, <2>3, <2>5, UpdateSolvent
  <2> QED BY <1>1, <1>2, <2>1, <2>4, <2>5 DEF Sweep
<1>3. CASE PollFails(a)
  <2> DEFINE n == actor[a].copy.failures + 1
  <2>1. PICK copy : copy = [actor[a].copy EXCEPT !.failures = IF MaxFailures = 0 THEN 0 ELSE n]
    OBVIOUS
  <2>2. /\ copy \in Row /\ copy.quota = actor[a].copy.quota
        /\ copy.status = actor[a].copy.status
    BY <1>0, <2>1 DEF Row
  <2>3. PICK gone : /\ gone = Failed(copy) /\ gone \in Row
                    /\ gone.quota = actor[a].copy.quota /\ gone.status \in Terminal
    BY <2>2, FailedType DEF Terminal
  <2>4. Reading(a) /\ UNCHANGED <<charge, submit>>
    BY <1>3 DEF PollFails, Reading
  <2>5. CASE UpdateWithStatus(a, gone, "bill")
    BY <1>0, <2>3, <2>4, <2>5, UpdateSolvent
  <2>6. CASE UpdateWithStatus(a, copy, "idle")
    <3>1. copy.status \in Unfinished \cup Terminal
      BY <2>2, <2>4 DEF Solvent, CopyIsCurrent
    <3> QED BY <1>0, <2>2, <2>4, <2>6, <3>1, UpdateSolvent
  <2> QED BY <1>3, <2>1, <2>3, <2>5, <2>6 DEF PollFails
<1>4. CASE PollGone(a)
  BY <1>0, <1>1, <1>4, UpdateSolvent DEF PollGone, Reading
<1>5. CASE PollNoChannel(a)
  <2>1. /\ \A b \in Pollers \ {a} : actor'[b] = actor[b]
        /\ actor'[a].pc = "idle"
        /\ row'.status = "FAILURE" /\ charge' = charge /\ submit' = submit
    BY <1>5, DoneType, FailedType DEF PollNoChannel, Actors, Done, Actor, TypeOK
  <2>2. row.status # "none"
    BY <1>5 DEF PollNoChannel, Solvent, NotYet
  <2>3. NotYet' /\ CoversSurplus' /\ CoversQuota'
    BY <2>1, <2>2 DEF Solvent, NotYet, CoversSurplus, CoversQuota, Unfinished
  <2>4. CopyIsCurrent' /\ OneWinner'
    BY <2>1 DEF Solvent, CopyIsCurrent, OneWinner, Reading, Winner, Unfinished
  <2>5. WinnerCovered'
    BY <2>1 DEF Solvent, WinnerCovered
  <2> QED BY <2>3, <2>4, <2>5 DEF Solvent
<1>6. ASSUME NEW status \in Unfinished, NEW full \in BOOLEAN, PollRunning(a, status, full)
      PROVE  Solvent'
  <2>1. PICK copy : copy = [actor[a].copy EXCEPT !.status = status, !.full = full, !.failures = 0]
    OBVIOUS
  <2>2. copy \in Row /\ copy.quota = actor[a].copy.quota /\ copy.status = status
    BY <1>0, <2>1 DEF Row
  <2> QED BY <1>0, <1>6, <2>1, <2>2, UpdateSolvent DEF PollRunning, Reading
<1>7. ASSUME NEW status \in Terminal, PollFinished(a, status) PROVE Solvent'
  <2>1. PICK copy : copy = [actor[a].copy EXCEPT !.status = status, !.full = TRUE]
    OBVIOUS
  <2>2. copy \in Row /\ copy.quota = actor[a].copy.quota /\ copy.status = status
    BY <1>0, <2>1 DEF Row
  <2> QED BY <1>0, <1>7, <2>1, <2>2, UpdateSolvent DEF PollFinished, Reading
<1> QED BY <1>2, <1>3, <1>4, <1>5, <1>6, <1>7 DEF PollStep

\* Steps of a settlement keep the task solvent.
LEMMA BillSolvent == \A a \in Pollers : TypeOK /\ Solvent /\ BillStep(a) => Solvent'
<1> SUFFICES ASSUME TypeOK, Solvent, NEW a \in Pollers, BillStep(a) PROVE Solvent'
  OBVIOUS
<1>0. /\ a \in Actors /\ actor[a] \in Actor /\ actor \in [Actors -> Actor]
      /\ Pollers \subseteq Actors /\ submit.surplus \in Nat
      /\ charge \in [funding: Int, token: Int, used: Int]
      /\ charge.funding \in Int /\ charge.token \in Int
      /\ actor[a].delta \in Int /\ actor[a].copy.quota \in Nat
  BY DoneType DEF TypeOK, Actors, Actor, Row
<1>1. ASSUME Winner(a)
      PROVE  /\ row.status \notin Unfinished /\ row.status # "none"
             /\ \A b \in Pollers \ {a} : ~Winner(b)
  BY <1>1 DEF Solvent, OneWinner, NotYet, Winner
<1>2. ASSUME Winner(a), row'.status = row.status, submit' = submit,
             charge'.funding >= submit.surplus, charge'.token >= submit.surplus,
             \A b \in Pollers \ {a} : actor'[b] = actor[b],
             actor'[a].pc \in {"idle", "token", "quota"},
             actor'[a].pc = "token" => charge'.token + actor'[a].delta >= submit.surplus
      PROVE  Solvent'
  <2>1. NotYet' /\ CoversSurplus' /\ CoversQuota'
    BY <1>1, <1>2 DEF Solvent, NotYet, CoversSurplus, CoversQuota
  <2>2. CopyIsCurrent'
    BY <1>1, <1>2 DEF Solvent, CopyIsCurrent, Reading
  <2>3. OneWinner'
    BY <1>1, <1>2 DEF OneWinner, Winner
  <2>4. WinnerCovered'
    BY <1>1, <1>2 DEF WinnerCovered, Winner
  <2> QED BY <2>1, <2>2, <2>3, <2>4 DEF Solvent
<1>3. ASSUME NEW target \in Targets(a), Bill(a, target) PROVE Solvent'
  <2>1. target \in Nat
    BY <1>0, TargetsType
  <2>2. PICK delta : delta = target - actor[a].copy.quota
    OBVIOUS
  <2>3. /\ Winner(a) /\ delta \in Int
        /\ charge.funding >= actor[a].copy.quota + submit.surplus
        /\ charge.token >= actor[a].copy.quota + submit.surplus
        /\ row' = row /\ submit' = submit
    BY <1>0, <1>3, <2>1, <2>2 DEF Bill, Winner, Solvent, WinnerCovered
  <2>4. CASE actor' = [actor EXCEPT ![a] = Done(a)] /\ UNCHANGED charge
    BY <2>3, <2>4, IdleSolvent
  <2>5. CASE /\ charge' = [charge EXCEPT !.funding = @ + delta]
             /\ actor' = [actor EXCEPT ![a].pc = "token", ![a].delta = delta,
                                       ![a].copy.quota = target]
    <3>1. charge'.funding = charge.funding + delta /\ charge'.token = charge.token
      BY <1>0, <2>5
    <3>2. /\ \A b \in Pollers \ {a} : actor'[b] = actor[b]
          /\ actor'[a].pc = "token" /\ actor'[a].delta = delta
      BY <1>0, <2>5 DEF Actor
    <3>3. /\ charge'.funding >= submit.surplus /\ charge'.token >= submit.surplus
          /\ charge'.token + delta >= submit.surplus
      BY <1>0, <2>1, <2>2, <2>3, <3>1
    <3> QED BY <1>2, <2>3, <3>2, <3>3
  <2>6. CASE /\ delta > 0 /\ actor' = [actor EXCEPT ![a] = Done(a)]
             /\ charge' = [charge EXCEPT !.funding = @ + delta]
    <3>1. charge'.funding = charge.funding + delta /\ charge'.token = charge.token
      BY <1>0, <2>6
    <3>2. /\ \A b \in Pollers \ {a} : actor'[b] = actor[b]
          /\ actor'[a].pc = "idle"
      BY <1>0, <2>6 DEF Done, Actor
    <3>3. charge'.funding >= submit.surplus /\ charge'.token >= submit.surplus
      BY <1>0, <2>3, <2>6, <3>1
    <3> QED BY <1>2, <2>3, <3>2, <3>3
  <2> QED BY <1>3, <2>2, <2>4, <2>5, <2>6 DEF Bill
<1>4. ASSUME BillToken(a) PROVE Solvent'
  <2>1. /\ charge.token + actor[a].delta >= submit.surplus /\ Winner(a)
        /\ charge.token >= submit.surplus /\ charge.funding >= submit.surplus
    BY <1>4 DEF BillToken, Solvent, WinnerCovered, CoversSurplus, Winner
  <2>2. charge'.token >= submit.surplus /\ charge'.funding >= submit.surplus
    BY <1>0, <1>4, <2>1 DEF BillToken
  <2>3. /\ \A b \in Pollers \ {a} : actor'[b] = actor[b]
        /\ actor'[a].pc = "quota" /\ row' = row /\ submit' = submit
    BY <1>0, <1>4 DEF BillToken, Actor
  <2> QED BY <1>2, <2>1, <2>2, <2>3
<1>5. ASSUME BillQuota(a) PROVE Solvent'
  <2>1. /\ Winner(a) /\ charge.token >= submit.surplus /\ charge.funding >= submit.surplus
    BY <1>5 DEF BillQuota, Solvent, CoversSurplus, Winner
  <2>2. charge'.token = charge.token /\ charge'.funding = charge.funding
    BY <1>0, <1>5 DEF BillQuota
  <2>3. row'.status = row.status /\ submit' = submit
    BY <1>5 DEF BillQuota, TypeOK, Row
  <2>4. /\ \A b \in Pollers \ {a} : actor'[b] = actor[b]
        /\ actor'[a].pc = "idle"
    BY <1>0, <1>5 DEF BillQuota, Done, Actor
  <2> QED BY <1>2, <2>1, <2>2, <2>3, <2>4
<1> QED BY <1>3, <1>4, <1>5 DEF BillStep

\* Solvency is inductive when nobody fetches in real time.
LEMMA SolventStep == NoFetch /\ TypeOK /\ Solvent /\ [Next]_vars => Solvent'
<1> SUFFICES ASSUME NoFetch, TypeOK, Solvent, [Next]_vars PROVE Solvent'
  OBVIOUS
<1>1. CASE UNCHANGED vars
  BY <1>1 DEF vars, Solvent, NotYet, CoversSurplus, CoversQuota, CopyIsCurrent,
              OneWinner, WinnerCovered, Reading, Winner
<1>2. ASSUME NEW a \in Pollers, LoadTimedOut(a) \/ LoadUnfinished(a) PROVE Solvent'
  BY <1>2, LoadSolvent DEF LoadTimedOut, LoadUnfinished
<1>3. ASSUME NEW a \in Pollers, Crash(a) PROVE Solvent'
  BY <1>3, IdleSolvent DEF Crash
<1> QED BY <1>1, <1>2, <1>3, SubmitSolvent, PollSolvent, BillSolvent DEF Next, NoFetch

\* The initial state is solvent.
LEMMA InitSolvent == Init => Solvent
<1> SUFFICES ASSUME Init PROVE Solvent
  OBVIOUS
<1>1. Reserved \in Nat
  BY TaskBillingAssumption
<1> QED BY <1>1 DEF Init, NoRow, Solvent, NotYet, CoversSurplus, CoversQuota, CopyIsCurrent,
                    OneWinner, WinnerCovered, Reading, Winner, Unfinished

\* Without real-time fetches, in every reachable state what the submission and
\* the one winner of the outcome may still return has been charged.
THEOREM Invariance == NoFetch => (Spec => [](TypeOK /\ Solvent))
<1>1. Init => TypeOK /\ Solvent
  BY InitType, InitSolvent
<1>2. NoFetch /\ TypeOK /\ Solvent /\ [Next]_vars => (TypeOK /\ Solvent)'
  BY TypeStep, SolventStep
<1>3. SUFFICES ASSUME NoFetch PROVE Spec => [](TypeOK /\ Solvent)
  OBVIOUS
<1> QED BY <1>1, <1>2, <1>3, PTL DEF Spec

\* Nobody is refunded more than was charged for the task, whatever passes
\* overlap, stop or fail (finalizeTerminalTask: "exactly once").
THEOREM RefundedOnce == NoFetch => (Spec => []NeverOverRefunded)
<1>1. TypeOK /\ Solvent => NeverOverRefunded
  BY DEF TypeOK, Solvent, CoversSurplus, NeverOverRefunded
<1> QED BY <1>1, Invariance, PTL

\* A stored outcome is overwritten by no pass, however late it compares its
\* copy: only by the bulk update, which compares nothing (UpdateWithStatus).
THEOREM OutcomeFinal == NoFetch => (Spec => OutcomeIsFinal)
<1> DEFINE Kept == row'.status = row.status \/ \E a \in Pollers : PollNoChannel(a)
<1>1. ASSUME NoFetch, TypeOK, Solvent, [Next]_vars
      PROVE  [row.status \in Terminal => Kept]_vars
  <2> SUFFICES ASSUME row.status \in Terminal, Next,
                      \A a \in Pollers : ~PollNoChannel(a)
               PROVE  row'.status = row.status
    BY <1>1
  <2>0. row.status \notin Unfinished /\ row.status # "none"
    BY DEF Terminal, Unfinished
  <2>1. ASSUME NEW a \in Pollers, NEW copy, NEW pc, Reading(a), UpdateWithStatus(a, copy, pc)
        PROVE  row' = row
    BY <1>1, <2>0, <2>1 DEF UpdateWithStatus, Solvent, CopyIsCurrent
  <2>2. CASE SubmitStep
    BY <1>1, <2>0, <2>2 DEF SubmitStep, Insert, GiveUp, Settle, Solvent, NotYet
  <2>3. ASSUME NEW a \in Pollers, PollStep(a) PROVE row' = row
    <3>1. CASE Sweep(a)
      BY <2>1, <3>1 DEF Sweep, Reading
    <3>2. CASE PollFails(a)
      BY <2>1, <3>2 DEF PollFails, Reading
    <3>3. CASE PollGone(a)
      BY <2>1, <3>3 DEF PollGone, Reading
    <3>4. CASE \E status \in Unfinished, full \in BOOLEAN : PollRunning(a, status, full)
      BY <2>1, <3>4 DEF PollRunning, Reading
    <3>5. CASE \E status \in Terminal : PollFinished(a, status)
      BY <2>1, <3>5 DEF PollFinished, Reading
    <3> QED BY <2>3, <3>1, <3>2, <3>3, <3>4, <3>5 DEF PollStep
  <2>4. ASSUME NEW a \in Pollers, BillStep(a) PROVE row'.status = row.status
    <3>1. CASE \E target \in Targets(a) : Bill(a, target)
      BY <3>1 DEF Bill
    <3>2. CASE BillToken(a)
      BY <3>2 DEF BillToken
    <3>3. CASE BillQuota(a)
      BY <1>1, <3>3 DEF BillQuota, TypeOK, Row
    <3> QED BY <2>4, <3>1, <3>2, <3>3 DEF BillStep
  <2>5. ASSUME NEW a \in Pollers, LoadTimedOut(a) \/ LoadUnfinished(a) \/ Crash(a)
        PROVE  row' = row
    BY <2>5 DEF LoadTimedOut, LoadUnfinished, Load, Crash
  <2> QED BY <1>1, <2>2, <2>3, <2>4, <2>5 DEF Next, NoFetch
<1>2. (NoFetch /\ TypeOK /\ Solvent /\ [Next]_vars) => [row.status \in Terminal => Kept]_vars
  BY <1>1
<1>3. SUFFICES ASSUME NoFetch PROVE Spec => OutcomeIsFinal
  OBVIOUS
<1> QED BY <1>2, <1>3, Invariance, PTL DEF Spec, OutcomeIsFinal

-----------------------------------------------------------------------------
(* The row and the charge.                                                 *)

\* No fault stops a settlement, or the submission, half way to the row, and no
\* debit is made and reported as failed.
KeepsCharge == Faults \cap {"settle", "clamp", "crash", "quota"} = {}

\* A pass works for the kind of row it read.
SameOrigin == \A a \in Pollers : Reading(a) \/ Winner(a) => actor[a].copy.legacy = row.legacy

\* The winner of the outcome read the quota that the row has, and in the middle
\* of a settlement the charge is what it will store.
WinnerMatches ==
  ~row.legacy =>
    \A a \in Pollers :
      /\ actor[a].pc \in {"bill", "refund"} => actor[a].copy.quota = row.quota
      /\ Billing(a) => charge.funding = actor[a].copy.quota + submit.surplus

Matched == SameOrigin /\ WinnerMatches /\ ChargeMatchesRow

\* A pass that turns idle without having moved quota keeps the match.
LEMMA IdleMatched ==
  ASSUME TypeOK, Solvent, Matched, NEW a \in Pollers, ~Billing(a),
         actor' = [actor EXCEPT ![a] = Done(a)], UNCHANGED <<charge, submit>>,
         row'.quota = row.quota, row'.legacy = row.legacy, row.status # "none"
  PROVE  Matched'
<1>1. /\ \A b \in Pollers \ {a} : actor'[b] = actor[b]
      /\ actor'[a].pc = "idle" /\ charge' = charge /\ submit' = submit
  BY DoneType DEF Actors, Done, Actor
<1>2. SameOrigin' /\ WinnerMatches'
  BY <1>1 DEF Matched, SameOrigin, WinnerMatches, Reading, Winner, Billing
<1>3. (\A b \in Pollers : ~Billing(b)') => \A b \in Pollers : ~Billing(b)
  BY <1>1 DEF Billing
<1>4. ChargeMatchesRow'
  BY <1>1, <1>3 DEF Matched, ChargeMatchesRow
<1> QED BY <1>2, <1>4 DEF Matched

\* A pass that stores its copy keeps the match: it is still current.
LEMMA UpdateMatched ==
  ASSUME TypeOK, Solvent, Matched, NEW a \in Pollers, NEW copy \in Row, NEW pc \in ActorPC,
         Reading(a), UpdateWithStatus(a, copy, pc), UNCHANGED <<charge, submit>>,
         pc \in {"idle", "bill", "refund"}, copy.legacy = actor[a].copy.legacy,
         copy.legacy \/ copy.quota = actor[a].copy.quota
  PROVE  Matched'
<1>1. /\ \A b \in Pollers \ {a} : actor'[b] = actor[b]
      /\ \/ /\ row.status = actor[a].from /\ row' = copy
            /\ actor'[a].pc = pc /\ actor'[a].copy = copy
         \/ /\ row.status # actor[a].from /\ row' = row
            /\ actor'[a].pc = "idle"
      /\ charge' = charge /\ submit' = submit
  BY UpdateEffect
<1>2. /\ actor[a].from \in Unfinished /\ row.status # "none"
      /\ row.status \in Unfinished => actor[a].copy.quota = row.quota
      /\ actor[a].copy.legacy = row.legacy
  BY DEF Solvent, CopyIsCurrent, NotYet, Reading, Matched, SameOrigin
<1>3. CASE row.status # actor[a].from /\ row' = row /\ actor'[a].pc = "idle"
  <2>1. SameOrigin' /\ WinnerMatches'
    BY <1>1, <1>3 DEF Matched, SameOrigin, WinnerMatches, Reading, Winner, Billing
  <2>2. (\A b \in Pollers : ~Billing(b)') => \A b \in Pollers : ~Billing(b)
    BY <1>1, <1>3 DEF Billing, Reading
  <2>3. ChargeMatchesRow'
    BY <1>1, <1>3, <2>2 DEF Matched, ChargeMatchesRow
  <2> QED BY <2>1, <2>3 DEF Matched
<1>4. CASE /\ row.status = actor[a].from /\ row' = copy
           /\ actor'[a].pc = pc /\ actor'[a].copy = copy
  <2>1. /\ \A b \in Pollers : ~Winner(b)
        /\ ~row.legacy => charge.funding = row.quota + submit.surplus /\ copy.quota = row.quota
    BY <1>2, <1>4 DEF Solvent, OneWinner, Matched, ChargeMatchesRow, Billing, Winner
  <2>2. \A b \in Pollers : ~Billing(b)'
    BY <1>1, <1>4, <2>1 DEF Billing, Winner
  <2>3. SameOrigin'
    BY <1>1, <1>2, <1>4, <2>1 DEF Matched, SameOrigin, Reading, Winner
  <2>4. WinnerMatches'
    BY <1>1, <1>2, <1>4, <2>1, <2>2 DEF WinnerMatches, Winner
  <2>5. ChargeMatchesRow'
    BY <1>1, <1>2, <1>4, <2>1 DEF ChargeMatchesRow
  <2> QED BY <2>3, <2>4, <2>5 DEF Matched
<1> QED BY <1>1, <1>3, <1>4

\* The submission reserves at least the quota and returns the surplus.
LEMMA SubmitMatched ==
  ASSUME KeepsCharge, TypeOK, Solvent, Matched, SubmitStep
  PROVE  Matched'
<1>1. ASSUME NEW quota \in Prices \cup {0}, NEW kind \in Kinds, NEW legacy \in Origins,
             NEW status \in Unfinished \cup Terminal, NEW full \in BOOLEAN,
             Insert(status, full, quota, kind, legacy)
      PROVE  Matched'
  <2>1. quota \in Nat /\ Reserved \in Nat
    BY TaskBillingAssumption
  <2>2. PICK top \in Nat : top = Max2(Reserved, quota)
    BY <2>1, Max2Type
  <2>3. /\ row'.quota = quota /\ charge'.funding = top /\ submit'.surplus = top - quota
        /\ actor' = actor
    BY <1>1, <2>2 DEF Insert
  <2>4. \A a \in Pollers : actor[a].pc = "idle"
    BY <1>1 DEF Insert, Solvent, NotYet
  <2>5. charge'.funding = row'.quota + submit'.surplus
    BY <2>1, <2>2, <2>3
  <2> QED BY <2>3, <2>4, <2>5
          DEF Matched, SameOrigin, WinnerMatches, ChargeMatchesRow, Reading, Winner, Billing
<1>2. ASSUME GiveUp PROVE Matched'
  <2>1. row.status = "none" /\ row' = row /\ actor' = actor /\ \A a \in Pollers : actor[a].pc = "idle"
    BY <1>2 DEF GiveUp, Solvent, NotYet
  <2> QED BY <2>1 DEF Matched, SameOrigin, WinnerMatches, ChargeMatchesRow, Reading, Winner, Billing
<1>3. ASSUME Settle PROVE Matched'
  <2>0. /\ charge.funding \in Int /\ submit.surplus \in Nat /\ row.quota \in Nat
        /\ charge \in Ledgers /\ \A a \in Pollers : actor[a].copy.quota \in Nat
    BY DEF TypeOK, Row, Actor, Ledgers
  <2>1. /\ row' = row /\ actor' = actor /\ submit'.surplus = 0
        /\ charge'.funding = charge.funding - submit.surplus
    BY <1>3, <2>0 DEF Settle, KeepsCharge, Ledgers
  <2>2. SameOrigin'
    BY <2>1 DEF Matched, SameOrigin, Reading, Winner
  <2>3. WinnerMatches'
    BY <2>0, <2>1 DEF Matched, WinnerMatches, Billing
  <2>4. ChargeMatchesRow'
    BY <2>0, <2>1 DEF Matched, ChargeMatchesRow, Billing
  <2> QED BY <2>2, <2>3, <2>4 DEF Matched
<1> QED BY <1>1, <1>2, <1>3 DEF SubmitStep

\* Reading the row changes nothing.
LEMMA LoadMatched ==
  ASSUME TypeOK, Matched, NEW a \in Pollers, NEW pc \in {"poll", "sweep"}, Load(a, pc)
  PROVE  Matched'
<1>1. /\ actor[a].pc = "idle" /\ actor'[a].pc = pc /\ actor'[a].copy = row
      /\ \A b \in Pollers \ {a} : actor'[b] = actor[b]
      /\ row' = row /\ charge' = charge /\ submit' = submit
  BY DoneType DEF Actors, Load
<1>2. SameOrigin' /\ WinnerMatches'
  BY <1>1 DEF Matched, SameOrigin, WinnerMatches, Reading, Winner, Billing
<1>3. (\A b \in Pollers : ~Billing(b)') => \A b \in Pollers : ~Billing(b)
  BY <1>1 DEF Billing
<1>4. ChargeMatchesRow'
  BY <1>1, <1>3 DEF Matched, ChargeMatchesRow
<1> QED BY <1>2, <1>4 DEF Matched

\* A pass that has read the row keeps the match.
LEMMA PollMatched ==
  ASSUME TypeOK, Solvent, Matched, NEW a \in Pollers, PollStep(a)
  PROVE  Matched'
<1>0. /\ a \in Actors /\ actor[a].copy \in Row
      /\ {"idle", "bill", "refund"} \subseteq ActorPC
  BY DoneType DEF Actors, ActorPC
<1>f. ASSUME NEW c \in Row
      PROVE  /\ Failed(c) \in Row /\ Failed(c).quota = c.quota /\ Failed(c).legacy = c.legacy
  BY DEF Failed, Row, Terminal
<1>1. PICK failed : failed = Failed(actor[a].copy)
  OBVIOUS
<1>2. CASE Sweep(a)
  <2>1. PICK copy : copy = [failed EXCEPT !.quota = 0]
    OBVIOUS
  <2>2. /\ failed \in Row /\ failed.quota = actor[a].copy.quota
        /\ failed.legacy = actor[a].copy.legacy
    BY <1>0, <1>1, <1>f
  <2>3. copy \in Row /\ copy.legacy = failed.legacy
    BY <2>1, <2>2 DEF Row
  <2>4. Reading(a) /\ UNCHANGED <<charge, submit>>
    BY <1>2 DEF Sweep, Reading
  <2>5. CASE failed.legacy /\ UpdateWithStatus(a, copy, "idle")
    BY <1>0, <2>2, <2>3, <2>4, <2>5, UpdateMatched
  <2>6. CASE UpdateWithStatus(a, failed, "refund")
    BY <1>0, <2>2, <2>4, <2>6, UpdateMatched
  <2> QED BY <1>1, <1>2, <2>1, <2>5, <2>6 DEF Sweep
<1>3. CASE PollFails(a)
  <2> DEFINE n == actor[a].copy.failures + 1
  <2>1. PICK copy : copy = [actor[a].copy EXCEPT !.failures = IF MaxFailures = 0 THEN 0 ELSE n]
    OBVIOUS
  <2>2. copy \in Row /\ copy.quota = actor[a].copy.quota /\ copy.legacy = actor[a].copy.legacy
    BY <1>0, <2>1 DEF Row
  <2>3. PICK gone : /\ gone = Failed(copy) /\ gone \in Row
                    /\ gone.quota = actor[a].copy.quota /\ gone.legacy = actor[a].copy.legacy
    BY <1>f, <2>2
  <2>4. Reading(a) /\ UNCHANGED <<charge, submit>>
    BY <1>3 DEF PollFails, Reading
  <2>5. CASE UpdateWithStatus(a, gone, "bill")
    BY <1>0, <2>3, <2>4, <2>5, UpdateMatched
  <2>6. CASE UpdateWithStatus(a, copy, "idle")
    BY <1>0, <2>2, <2>4, <2>6, UpdateMatched
  <2> QED BY <1>3, <2>1, <2>3, <2>5, <2>6 DEF PollFails
<1>4. CASE PollGone(a)
  <2>1. /\ failed \in Row /\ failed.quota = actor[a].copy.quota
        /\ failed.legacy = actor[a].copy.legacy
    BY <1>0, <1>1, <1>f
  <2> QED BY <1>0, <1>1, <1>4, <2>1, UpdateMatched DEF PollGone, Reading
<1>5. CASE PollNoChannel(a)
  <2>1. row'.quota = row.quota /\ row'.legacy = row.legacy
    BY <1>5, <1>f DEF PollNoChannel, TypeOK
  <2>2. row.status # "none" /\ ~Billing(a)
    BY <1>5 DEF PollNoChannel, Solvent, NotYet, Billing
  <2> QED BY <1>5, <2>1, <2>2, IdleMatched DEF PollNoChannel
<1>6. ASSUME NEW status \in Unfinished, NEW full \in BOOLEAN, PollRunning(a, status, full)
      PROVE  Matched'
  <2>1. PICK copy : copy = [actor[a].copy EXCEPT !.status = status, !.full = full, !.failures = 0]
    OBVIOUS
  <2>2. copy \in Row /\ copy.quota = actor[a].copy.quota /\ copy.legacy = actor[a].copy.legacy
    BY <1>0, <2>1 DEF Row
  <2> QED BY <1>0, <1>6, <2>1, <2>2, UpdateMatched DEF PollRunning, Reading
<1>7. ASSUME NEW status \in Terminal, PollFinished(a, status) PROVE Matched'
  <2>1. PICK copy : copy = [actor[a].copy EXCEPT !.status = status, !.full = TRUE]
    OBVIOUS
  <2>2. copy \in Row /\ copy.quota = actor[a].copy.quota /\ copy.legacy = actor[a].copy.legacy
    BY <1>0, <2>1 DEF Row
  <2> QED BY <1>0, <1>7, <2>1, <2>2, UpdateMatched DEF PollFinished, Reading
<1> QED BY <1>2, <1>3, <1>4, <1>5, <1>6, <1>7 DEF PollStep

\* A settlement moves the charge and then the row to the same quota.
LEMMA BillMatched ==
  ASSUME KeepsCharge, TypeOK, Solvent, Matched, NEW a \in Pollers, BillStep(a)
  PROVE  Matched'
<1>0. /\ a \in Actors /\ actor[a] \in Actor /\ actor \in [Actors -> Actor] /\ row \in Row
      /\ Pollers \subseteq Actors /\ submit.surplus \in Nat /\ row.quota \in Nat
      /\ charge \in Ledgers /\ charge.funding \in Int
      /\ actor[a].delta \in Int /\ actor[a].copy.quota \in Nat
  BY DoneType DEF TypeOK, Actors, Actor, Row, Ledgers
<1>1. ASSUME Winner(a)
      PROVE  row.status # "none" /\ \A b \in Pollers \ {a} : ~Winner(b)
  BY <1>1 DEF Solvent, OneWinner, NotYet, Winner
<1>2. ASSUME NEW target \in Targets(a), Bill(a, target) PROVE Matched'
  <2>1. target \in Nat
    BY <1>0, TargetsType
  <2>2. PICK delta : delta = target - actor[a].copy.quota
    OBVIOUS
  <2>3. /\ Winner(a) /\ ~Billing(a) /\ row' = row /\ submit' = submit
        /\ actor[a].pc \in {"bill", "refund"}
    BY <1>2 DEF Bill, Winner, Billing
  <2>4. CASE actor' = [actor EXCEPT ![a] = Done(a)] /\ UNCHANGED charge
    BY <1>1, <2>3, <2>4, IdleMatched
  <2>5. CASE /\ charge' = [charge EXCEPT !.funding = @ + delta]
             /\ actor' = [actor EXCEPT ![a].pc = "token", ![a].delta = delta,
                                       ![a].copy.quota = target]
    <3>1. charge'.funding = charge.funding + delta
      BY <1>0, <2>5 DEF Ledgers
    <3>2. /\ \A b \in Pollers \ {a} : actor'[b] = actor[b]
          /\ actor'[a].pc = "token" /\ actor'[a].copy.quota = target
          /\ actor'[a].copy.legacy = actor[a].copy.legacy
      BY <1>0, <2>5 DEF Actor, Row
    <3>3. ~row.legacy => charge.funding = actor[a].copy.quota + submit.surplus
      <4>1. \A b \in Pollers : ~Billing(b)
        BY <1>1, <2>3 DEF Billing, Winner
      <4> QED BY <1>1, <2>3, <4>1 DEF Matched, WinnerMatches, ChargeMatchesRow
    <3>4. ~row.legacy => charge'.funding = target + submit.surplus
      BY <1>0, <2>1, <2>2, <3>1, <3>3
    <3>5. SameOrigin'
      BY <2>3, <3>2 DEF Matched, SameOrigin, Reading, Winner
    <3>6. WinnerMatches'
      BY <1>1, <2>3, <3>2, <3>4 DEF WinnerMatches, Billing, Winner
    <3>7. ChargeMatchesRow'
      BY <3>2 DEF ChargeMatchesRow, Billing
    <3> QED BY <3>5, <3>6, <3>7 DEF Matched
  <2> QED BY <1>2, <2>2, <2>4, <2>5 DEF Bill, KeepsCharge
<1>3. ASSUME BillToken(a) PROVE Matched'
  <2>1. /\ \A b \in Pollers \ {a} : actor'[b] = actor[b]
        /\ actor[a].pc = "token" /\ actor'[a].pc = "quota" /\ actor'[a].copy = actor[a].copy
        /\ row' = row /\ submit' = submit
    BY <1>0, <1>3 DEF BillToken, Actor
  <2>2. charge'.funding = charge.funding
    BY <1>0, <1>3 DEF BillToken, Ledgers
  <2>3. SameOrigin'
    BY <2>1 DEF Matched, SameOrigin, Reading, Winner
  <2>4. WinnerMatches'
    BY <2>1, <2>2 DEF Matched, WinnerMatches, Billing
  <2>5. ChargeMatchesRow'
    BY <2>1 DEF ChargeMatchesRow, Billing
  <2> QED BY <2>3, <2>4, <2>5 DEF Matched
<1>4. ASSUME BillQuota(a) PROVE Matched'
  <2>1. /\ \A b \in Pollers \ {a} : actor'[b] = actor[b]
        /\ actor'[a].pc = "idle" /\ Winner(a) /\ Billing(a) /\ submit' = submit
    BY <1>0, <1>4 DEF BillQuota, Done, Actor, Winner, Billing
  <2>2. charge'.funding = charge.funding
    BY <1>0, <1>4 DEF BillQuota, Ledgers
  <2>3. row'.quota = actor[a].copy.quota /\ row'.legacy = row.legacy
    BY <1>0, <1>4 DEF BillQuota, KeepsCharge, Row
  <2>4. \A b \in Pollers \ {a} : ~Winner(b)
    BY <1>1, <2>1
  <2>5. SameOrigin'
    BY <2>1, <2>3 DEF Matched, SameOrigin, Reading, Winner
  <2>6. WinnerMatches'
    BY <2>1, <2>4 DEF WinnerMatches, Winner, Billing
  <2>7. ChargeMatchesRow'
    BY <2>1, <2>2, <2>3 DEF Matched, WinnerMatches, ChargeMatchesRow
  <2> QED BY <2>5, <2>6, <2>7 DEF Matched
<1> QED BY <1>2, <1>3, <1>4 DEF BillStep

\* The match is inductive for the faults that keep the charge.
LEMMA MatchedStep ==
  ASSUME NoFetch, KeepsCharge, TypeOK, Solvent, Matched, [Next]_vars
  PROVE  Matched'
<1>1. CASE UNCHANGED vars
  BY <1>1 DEF vars, Matched, SameOrigin, WinnerMatches, ChargeMatchesRow, Reading, Winner, Billing
<1>2. ASSUME NEW a \in Pollers, LoadTimedOut(a) \/ LoadUnfinished(a) PROVE Matched'
  BY <1>2, LoadMatched DEF LoadTimedOut, LoadUnfinished
<1>3. ASSUME NEW a \in Pollers PROVE ~Crash(a)
  BY DEF Crash, KeepsCharge
<1> QED BY <1>1, <1>2, <1>3, SubmitMatched, PollMatched, BillMatched DEF Next, NoFetch

\* While nobody settles, what the user pays for the task is its row's quota,
\* for any number of overlapping passes, unless a fault stops a settlement
\* between its funding and its row (RecalculateTaskQuota, RefundTaskQuota).
THEOREM ChargeIsRecorded ==
  NoFetch /\ KeepsCharge => (Spec => []ChargeMatchesRow)
<1>1. ASSUME Init PROVE Matched
  <2>1. row.status = "none" /\ \A a \in Pollers : actor[a].pc = "idle"
    BY <1>1 DEF Init, NoRow
  <2> QED BY <2>1 DEF Matched, SameOrigin, WinnerMatches, ChargeMatchesRow, Reading, Winner, Billing
<1>2. NoFetch /\ KeepsCharge /\ TypeOK /\ Solvent /\ Matched /\ [Next]_vars => Matched'
  BY MatchedStep
<1>3. Matched => ChargeMatchesRow
  BY DEF Matched
<1>4. SUFFICES ASSUME NoFetch, KeepsCharge PROVE Spec => []ChargeMatchesRow
  OBVIOUS
<1> QED BY <1>1, <1>2, <1>3, <1>4, Invariance, PTL DEF Spec


-----------------------------------------------------------------------------
(* The three ledgers.                                                      *)

\* No fault stops a settlement, or the submission, between two ledgers, and no
\* debit is made and reported as failed.
KeepsLedgers == Faults \cap {"settle", "clamp", "crash", "token"} = {}

\* What a settlement has still to bring to the token and to the statistics.
TokenPending(a) == IF actor[a].pc = "token" THEN actor[a].delta ELSE 0

UsedPending(a) == IF Billing(a) THEN actor[a].delta ELSE 0

TokenDebts == [a \in Pollers |-> TokenPending(a)]

UsedDebts == [a \in Pollers |-> UsedPending(a)]

\* What the submission has still to bring to the statistics.
Due == IF submit.pc = "settle" THEN submit.quota + submit.surplus ELSE 0

\* Nothing is at work before the task is submitted.
Waiting ==
  submit.pc = "reserved" =>
    /\ row.status = "none" /\ charge.used = 0 /\ charge.token = charge.funding

NobodyYet == row.status = "none" => \A a \in Pollers \cup Fetchers : actor[a].pc = "idle"

\* The ledgers differ by what the settlements under way owe them, together.
TokenLag == IsSum(charge.funding - charge.token, TokenDebts, Pollers, 0)

UsedLag == IsSum(charge.funding - charge.used - Due, UsedDebts, Pollers, 0)

Balanced == Waiting /\ NobodyYet /\ TokenLag /\ (submit.pc # "reserved" => UsedLag)

\* What is owed are integers.
LEMMA DebtsType == TypeOK => TokenDebts \in [Pollers -> Int] /\ UsedDebts \in [Pollers -> Int]
<1> SUFFICES ASSUME TypeOK PROVE TokenDebts \in [Pollers -> Int] /\ UsedDebts \in [Pollers -> Int]
  OBVIOUS
<1>1. \A a \in Pollers : actor[a].delta \in Int
  BY DoneType DEF Actors, Actor
<1> QED BY <1>1 DEF TokenDebts, UsedDebts, TokenPending, UsedPending

\* Nothing is owed while everybody is idle.
LEMMA NoDebts ==
  ASSUME IsFiniteSet(Pollers), \A a \in Pollers : actor[a].pc = "idle"
  PROVE  IsSum(0, TokenDebts, Pollers, 0) /\ IsSum(0, UsedDebts, Pollers, 0)
<1>1. TokenDebts = [a \in Pollers |-> 0] /\ UsedDebts = [a \in Pollers |-> 0]
  BY DEF TokenDebts, UsedDebts, TokenPending, UsedPending, Billing
<1> QED BY <1>1, SumInit

\* A step outside the settlements that leaves the charge alone keeps the balance.
LEMMA FrameBalanced ==
  ASSUME Balanced, UNCHANGED <<charge, submit>>, row.status # "none", row'.status # "none",
         \A a \in Pollers : \/ actor'[a] = actor[a]
                            \/ ~Billing(a) /\ ~Billing(a)'
  PROVE  Balanced'
<1>1. \A a \in Pollers : TokenPending(a)' = TokenPending(a) /\ UsedPending(a)' = UsedPending(a)
  BY DEF TokenPending, UsedPending, Billing
<1>2. TokenDebts' = TokenDebts /\ UsedDebts' = UsedDebts
  BY <1>1 DEF TokenDebts, UsedDebts
<1>3. TokenLag' /\ (submit'.pc # "reserved" => UsedLag')
  BY <1>2 DEF Balanced, TokenLag, UsedLag, Due
<1> QED BY <1>3 DEF Balanced, Waiting, NobodyYet

\* An actor's update of the row, or its end, is such a step.
LEMMA WriteBalanced ==
  ASSUME TypeOK, Balanced, NEW a \in Actors, UNCHANGED <<charge, submit>>,
         a \in Pollers => ~Billing(a), row.status # "none", row'.status # "none",
         NEW s, actor' = [actor EXCEPT ![a] = s], s.pc \notin {"token", "quota"}
  PROVE  Balanced'
<1>1. \A b \in Pollers : \/ actor'[b] = actor[b]
                         \/ ~Billing(b) /\ ~Billing(b)'
  BY DoneType DEF Actors, Billing
<1> QED BY <1>1, FrameBalanced

\* Somebody at work found a row.
LEMMA BusyRow ==
  ASSUME Balanced, NEW a \in Actors, actor[a].pc # "idle"
  PROVE  row.status # "none"
BY DEF Balanced, NobodyYet, Actors

\* UpdateWithStatus keeps the balance.
LEMMA UpdateBalanced ==
  ASSUME TypeOK, Balanced, NEW a \in Actors, UNCHANGED <<charge, submit>>,
         actor[a].pc \in {"sweep", "poll", "fetch"},
         NEW copy \in Row, copy.status # "none", NEW pc \in ActorPC, pc \notin {"token", "quota"},
         UpdateWithStatus(a, copy, pc)
  PROVE  Balanced'
<1>1. /\ row.status # "none" /\ (a \in Pollers => ~Billing(a))
      /\ actor[a] \in Actor /\ Done(a) \in Actor /\ Done(a).pc = "idle"
  BY BusyRow, DoneType DEF Billing, Done, Actor
<1>2. PICK s : s = [Done(a) EXCEPT !.pc = pc, !.copy = copy]
  OBVIOUS
<1>3. s.pc = pc
  BY <1>1, <1>2 DEF Actor
<1>4. CASE row.status = actor[a].from
  <2>1. row' = copy /\ actor' = [actor EXCEPT ![a] = s]
    BY <1>2, <1>4 DEF UpdateWithStatus
  <2> QED BY <1>1, <1>3, <2>1, WriteBalanced
<1>5. CASE row.status # actor[a].from
  <2>1. row' = row /\ actor' = [actor EXCEPT ![a] = Done(a)]
    BY <1>5 DEF UpdateWithStatus
  <2> QED BY <1>1, <2>1, WriteBalanced
<1> QED BY <1>4, <1>5

\* A read copy is of an existing row.
CopyExists == \A a \in Actors : actor[a].pc # "idle" => actor[a].copy.status # "none"

\* Steps of a pass that has read the row keep the balance.
LEMMA PollBalanced ==
  ASSUME TypeOK, Balanced, CopyExists, NEW a \in Pollers, PollStep(a)
  PROVE  Balanced'
<1>0. /\ a \in Actors /\ actor[a].copy \in Row
      /\ {"idle", "bill", "refund"} \subseteq ActorPC
      /\ actor[a].pc # "idle" => actor[a].copy.status # "none"
  BY DoneType DEF Actors, ActorPC, CopyExists
<1>1. PICK failed : /\ failed = Failed(actor[a].copy) /\ failed \in Row /\ failed.status # "none"
  BY <1>0, FailedType
<1>2. CASE Sweep(a)
  <2>1. PICK copy : copy = [failed EXCEPT !.quota = 0]
    OBVIOUS
  <2>2. copy \in Row /\ copy.status # "none"
    BY <1>1, <2>1 DEF Row
  <2>3. actor[a].pc = "sweep" /\ UNCHANGED <<charge, submit>>
    BY <1>2 DEF Sweep
  <2>4. CASE UpdateWithStatus(a, copy, "idle")
    BY <1>0, <2>2, <2>3, <2>4, UpdateBalanced
  <2>5. CASE UpdateWithStatus(a, failed, "refund")
    BY <1>0, <1>1, <2>3, <2>5, UpdateBalanced
  <2> QED BY <1>1, <1>2, <2>1, <2>4, <2>5 DEF Sweep
<1>3. CASE PollFails(a)
  <2> DEFINE n == actor[a].copy.failures + 1
  <2>1. PICK copy : copy = [actor[a].copy EXCEPT !.failures = IF MaxFailures = 0 THEN 0 ELSE n]
    OBVIOUS
  <2>2. actor[a].pc = "poll" /\ UNCHANGED <<charge, submit>>
    BY <1>3 DEF PollFails
  <2>3. copy \in Row /\ copy.status # "none"
    BY <1>0, <2>1, <2>2 DEF Row
  <2>4. PICK gone : gone = Failed(copy) /\ gone \in Row /\ gone.status # "none"
    BY <2>3, FailedType
  <2>5. CASE UpdateWithStatus(a, gone, "bill")
    BY <1>0, <2>2, <2>4, <2>5, UpdateBalanced
  <2>6. CASE UpdateWithStatus(a, copy, "idle")
    BY <1>0, <2>2, <2>3, <2>6, UpdateBalanced
  <2> QED BY <1>3, <2>1, <2>4, <2>5, <2>6 DEF PollFails
<1>4. CASE PollGone(a)
  BY <1>0, <1>1, <1>4, UpdateBalanced DEF PollGone
<1>5. CASE PollNoChannel(a)
  <2>1. /\ row'.status = "FAILURE" /\ actor' = [actor EXCEPT ![a] = Done(a)]
        /\ UNCHANGED <<charge, submit>> /\ actor[a].pc = "poll"
    BY <1>5, FailedType DEF PollNoChannel, TypeOK
  <2>2. Done(a).pc = "idle" /\ ~Billing(a) /\ row.status # "none"
    BY <1>0, <2>1, DoneType, BusyRow DEF Done, Actor, Billing
  <2> QED BY <1>0, <2>1, <2>2, WriteBalanced
<1>6. ASSUME NEW status \in Unfinished, NEW full \in BOOLEAN, PollRunning(a, status, full)
      PROVE  Balanced'
  <2>1. PICK copy : copy = [actor[a].copy EXCEPT !.status = status, !.full = full, !.failures = 0]
    OBVIOUS
  <2>2. copy \in Row /\ copy.status # "none"
    BY <1>0, <2>1 DEF Row, Unfinished
  <2> QED BY <1>0, <1>6, <2>1, <2>2, UpdateBalanced DEF PollRunning
<1>7. ASSUME NEW status \in Terminal, PollFinished(a, status) PROVE Balanced'
  <2>1. PICK copy : copy = [actor[a].copy EXCEPT !.status = status, !.full = TRUE]
    OBVIOUS
  <2>2. copy \in Row /\ copy.status # "none"
    BY <1>0, <2>1 DEF Row, Terminal
  <2> QED BY <1>0, <1>7, <2>1, <2>2, UpdateBalanced DEF PollFinished
<1> QED BY <1>2, <1>3, <1>4, <1>5, <1>6, <1>7 DEF PollStep

\* Reading an existing row keeps the balance.
LEMMA LoadBalanced ==
  ASSUME TypeOK, Balanced, NEW a \in Actors, NEW pc \in {"sweep", "poll", "fetch"},
         row.status # "none", Load(a, pc)
  PROVE  Balanced'
<1>1. PICK s : s = [pc |-> pc, copy |-> row, from |-> row.status, delta |-> 0]
  OBVIOUS
<1>2. /\ actor' = [actor EXCEPT ![a] = s] /\ s.pc \notin {"token", "quota"}
      /\ row' = row /\ UNCHANGED <<charge, submit>> /\ (a \in Pollers => ~Billing(a))
  BY <1>1 DEF Load, Billing
<1> QED BY <1>2, WriteBalanced

\* A user's query, which bills nobody, keeps the balance.
LEMMA FetchBalanced ==
  ASSUME TypeOK, Balanced, NEW f \in Fetchers, FetchStep(f)
  PROVE  Balanced'
<1>0. f \in Actors /\ actor[f].copy \in Row /\ "idle" \in ActorPC
  BY DoneType DEF Actors, ActorPC
<1>1. CASE FetchLoad(f)
  BY <1>0, <1>1, LoadBalanced DEF FetchLoad
<1>2. ASSUME NEW status \in Unfinished \cup Terminal, NEW full \in BOOLEAN,
             FetchAnswer(f, status, full)
      PROVE  Balanced'
  <2>1. PICK copy : copy = [actor[f].copy EXCEPT !.status = status, !.full = full]
    OBVIOUS
  <2>2. copy \in Row /\ copy.status # "none"
    BY <1>0, <2>1 DEF Row, Unfinished, Terminal
  <2>3. actor[f].pc = "fetch" /\ UNCHANGED <<charge, submit>>
    BY <1>2 DEF FetchAnswer
  <2>4. CASE UpdateWithStatus(f, copy, "idle")
    BY <1>0, <2>2, <2>3, <2>4, UpdateBalanced
  <2>5. CASE row' = row /\ actor' = [actor EXCEPT ![f] = Done(f)]
    <3>1. Done(f).pc = "idle" /\ row.status # "none" /\ ~Billing(f)
      BY <1>0, <2>3, BusyRow, DoneType DEF Done, Actor, Billing
    <3> QED BY <1>0, <2>3, <2>5, <3>1, WriteBalanced
  <2> QED BY <1>2, <2>1, <2>4, <2>5 DEF FetchAnswer
<1> QED BY <1>1, <1>2 DEF FetchStep

\* The submission brings the quota to all three ledgers.
LEMMA SubmitBalanced ==
  ASSUME IsFiniteSet(Pollers), KeepsLedgers, TypeOK, Balanced, SubmitStep
  PROVE  Balanced'
<1>1. ASSUME submit.pc = "reserved", actor' = actor, charge'.funding - charge'.token = 0,
             charge'.funding - charge'.used - Due' = 0, submit'.pc # "reserved"
      PROVE  Balanced'
  <2>1. \A a \in Pollers \cup Fetchers : actor[a].pc = "idle"
    BY <1>1 DEF Balanced, Waiting, NobodyYet
  <2>2. IsSum(0, TokenDebts, Pollers, 0) /\ IsSum(0, UsedDebts, Pollers, 0)
    BY <2>1, NoDebts
  <2>3. TokenDebts' = TokenDebts /\ UsedDebts' = UsedDebts
    BY <1>1 DEF TokenDebts, UsedDebts, TokenPending, UsedPending, Billing
  <2>4. TokenLag' /\ UsedLag'
    BY <1>1, <2>2, <2>3 DEF TokenLag, UsedLag
  <2> QED BY <1>1, <2>1, <2>4 DEF Balanced, Waiting, NobodyYet
<1>2. ASSUME NEW quota \in Prices \cup {0}, NEW kind \in Kinds, NEW legacy \in Origins,
             NEW status \in Unfinished \cup Terminal, NEW full \in BOOLEAN,
             Insert(status, full, quota, kind, legacy)
      PROVE  Balanced'
  <2>1. quota \in Nat /\ Reserved \in Nat
    BY TaskBillingAssumption
  <2>2. PICK top \in Nat : top = Max2(Reserved, quota)
    BY <2>1, Max2Type
  <2>3. /\ charge'.funding = top /\ charge'.token = top /\ charge'.used = 0
        /\ submit'.surplus = top - quota /\ submit'.quota = quota /\ submit'.pc = "settle"
        /\ actor' = actor /\ submit.pc = "reserved"
    BY <1>2, <2>2 DEF Insert
  <2>4. Due' = top
    BY <2>1, <2>2, <2>3 DEF Due
  <2> QED BY <1>1, <2>2, <2>3, <2>4
<1>0. charge \in Ledgers /\ submit \in [pc: {"reserved", "settle", "over"}, quota: Nat, surplus: Nat]
  BY DEF TypeOK, Ledgers
<1>3. ASSUME GiveUp PROVE Balanced'
  <2>1. /\ charge'.funding = 0 /\ charge'.token = 0 /\ charge'.used = charge.used
        /\ submit'.pc = "over" /\ actor' = actor /\ submit.pc = "reserved"
    BY <1>0, <1>3 DEF GiveUp, Ledgers
  <2>2. charge'.used = 0 /\ Due' = 0
    BY <2>1 DEF Balanced, Waiting, Due
  <2> QED BY <1>1, <2>1, <2>2
<1>4. ASSUME Settle PROVE Balanced'
  <2>1. /\ submit.pc = "settle" /\ submit'.pc = "over" /\ row' = row /\ actor' = actor
        /\ charge' = [charge EXCEPT !.funding = @ - submit.surplus, !.token = @ - submit.surplus,
                                    !.used = @ + submit.quota]
    BY <1>4 DEF Settle, KeepsLedgers
  <2>2. /\ charge'.funding = charge.funding - submit.surplus
        /\ charge'.token = charge.token - submit.surplus
        /\ charge'.used = charge.used + submit.quota
        /\ charge.funding \in Int /\ charge.token \in Int /\ charge.used \in Int
        /\ submit.surplus \in Nat /\ submit.quota \in Nat
    BY <1>0, <2>1 DEF Ledgers
  <2>3. Due' = 0 /\ Due = submit.quota + submit.surplus
    BY <2>1 DEF Due
  <2>4. /\ charge'.funding - charge'.token = charge.funding - charge.token
        /\ charge'.funding - charge'.used - Due' = charge.funding - charge.used - Due
    BY <2>2, <2>3
  <2>5. TokenDebts' = TokenDebts /\ UsedDebts' = UsedDebts
    BY <2>1 DEF TokenDebts, UsedDebts, TokenPending, UsedPending, Billing
  <2>6. TokenLag' /\ UsedLag'
    BY <2>1, <2>4, <2>5 DEF Balanced, TokenLag, UsedLag
  <2> QED BY <2>1, <2>6 DEF Balanced, Waiting, NobodyYet
<1> QED BY <1>2, <1>3, <1>4 DEF SubmitStep

\* One pass moves the ledgers and what it owes them by the same amounts.
LEMMA DebtsMove ==
  ASSUME TypeOK, Balanced, NEW a \in Pollers, actor[a].pc # "idle",
         \A b \in Pollers \ {a} : actor'[b] = actor[b], row'.status = row.status,
         charge' \in Ledgers, actor'[a].delta \in Int, UNCHANGED submit,
         charge'.funding - charge'.token =
           charge.funding - charge.token + (TokenPending(a)' - TokenPending(a)),
         charge'.funding - charge'.used =
           charge.funding - charge.used + (UsedPending(a)' - UsedPending(a))
  PROVE  Balanced'
<1>0. /\ row.status # "none" /\ submit.pc # "reserved" /\ Due \in Int /\ Due' = Due
      /\ charge.funding \in Int /\ charge.token \in Int /\ charge.used \in Int
      /\ charge'.funding \in Int /\ charge'.token \in Int /\ charge'.used \in Int
      /\ TokenPending(a)' \in Int /\ UsedPending(a)' \in Int
      /\ TokenPending(a) \in Int /\ UsedPending(a) \in Int
  <2>1. row.status # "none" /\ submit.pc # "reserved"
    BY BusyRow DEF Actors, Balanced, Waiting
  <2>2. actor[a].delta \in Int
    BY DoneType DEF Actors, Actor
  <2> QED BY <2>1, <2>2 DEF TypeOK, Ledgers, Due, TokenPending, UsedPending
<1>1. TokenDebts \in [Pollers -> Int] /\ UsedDebts \in [Pollers -> Int]
  BY DebtsType
<1>2. \A b \in Pollers \ {a} : TokenPending(b)' = TokenPending(b) /\ UsedPending(b)' = UsedPending(b)
  BY DEF TokenPending, UsedPending, Billing
<1>3. /\ Moved(TokenDebts', TokenDebts, Pollers, a, TokenPending(a)')
      /\ TokenDebts[a] = TokenPending(a)
  BY <1>0, <1>1, <1>2 DEF TokenDebts, Moved
<1>4. /\ Moved(UsedDebts', UsedDebts, Pollers, a, UsedPending(a)')
      /\ UsedDebts[a] = UsedPending(a)
  BY <1>0, <1>1, <1>2 DEF UsedDebts, Moved
<1>5. IsSum(charge.funding - charge.token + (TokenPending(a)' - TokenPending(a)),
            TokenDebts', Pollers, 0)
  BY <1>3, SumShift DEF Balanced, TokenLag
<1>6. IsSum(charge.funding - charge.used - Due + (UsedPending(a)' - UsedPending(a)),
            UsedDebts', Pollers, 0)
  BY <1>0, <1>4, SumShift DEF Balanced, UsedLag
<1>7. charge'.funding - charge'.used - Due' =
        charge.funding - charge.used - Due + (UsedPending(a)' - UsedPending(a))
  BY <1>0
<1>8. TokenLag' /\ UsedLag'
  BY <1>5, <1>6, <1>7 DEF TokenLag, UsedLag
<1> QED BY <1>0, <1>8 DEF Balanced, Waiting, NobodyYet

\* Steps of a settlement keep the balance.
LEMMA BillBalanced ==
  ASSUME KeepsLedgers, TypeOK, Balanced, NEW a \in Pollers, BillStep(a)
  PROVE  Balanced'
<1>0. /\ a \in Actors /\ actor[a] \in Actor /\ actor \in [Actors -> Actor]
      /\ Pollers \subseteq Actors /\ charge \in Ledgers
      /\ charge.funding \in Int /\ charge.token \in Int /\ charge.used \in Int
      /\ actor[a].delta \in Int /\ actor[a].copy.quota \in Nat
      /\ charge' \in Ledgers /\ actor'[a].delta \in Int
  <2>1. /\ a \in Actors /\ actor[a] \in Actor /\ actor \in [Actors -> Actor]
        /\ Pollers \subseteq Actors /\ charge \in Ledgers
    BY DoneType DEF Actors, TypeOK, Ledgers
  <2>2. TypeOK'
    BY <2>1, BillType
  <2>3. charge' \in Ledgers /\ actor'[a] \in Actor
    BY <2>1, <2>2 DEF TypeOK, Actors, Ledgers
  <2> QED BY <2>1, <2>3 DEF Actor, Row, Ledgers
<1>1. ASSUME NEW target \in Targets(a), Bill(a, target) PROVE Balanced'
  <2>2. PICK delta : delta = target - actor[a].copy.quota
    OBVIOUS
  <2>3. /\ row' = row /\ submit' = submit /\ actor[a].pc \in {"bill", "refund"}
    BY <1>1 DEF Bill
  <2>4. CASE actor' = [actor EXCEPT ![a] = Done(a)] /\ UNCHANGED charge
    <3>1. Done(a).pc = "idle" /\ ~Billing(a) /\ row.status # "none"
      BY <1>0, <2>3, BusyRow DEF Done, Actor, Billing
    <3> QED BY <1>0, <2>3, <2>4, <3>1, WriteBalanced
  <2>5. CASE /\ charge' = [charge EXCEPT !.funding = @ + delta]
             /\ actor' = [actor EXCEPT ![a].pc = "token", ![a].delta = delta,
                                       ![a].copy.quota = target]
    <3>1. /\ charge'.funding = charge.funding + delta /\ charge'.token = charge.token
          /\ charge'.used = charge.used
      BY <1>0, <2>5 DEF Ledgers
    <3>2. /\ \A b \in Pollers \ {a} : actor'[b] = actor[b]
          /\ actor'[a].pc = "token" /\ actor'[a].delta = delta
      BY <1>0, <2>5 DEF Actor
    <3>3. /\ TokenPending(a)' = delta /\ UsedPending(a)' = delta
          /\ TokenPending(a) = 0 /\ UsedPending(a) = 0 /\ delta \in Int
      BY <1>0, <2>3, <3>2 DEF TokenPending, UsedPending, Billing
    <3>4. /\ charge'.funding - charge'.token =
               charge.funding - charge.token + (TokenPending(a)' - TokenPending(a))
          /\ charge'.funding - charge'.used =
               charge.funding - charge.used + (UsedPending(a)' - UsedPending(a))
      BY <1>0, <3>1, <3>3
    <3> QED BY <1>0, <2>3, <3>2, <3>4, DebtsMove
  <2> QED BY <1>1, <2>2, <2>4, <2>5 DEF Bill, KeepsLedgers
<1>2. ASSUME BillToken(a) PROVE Balanced'
  <2>1. /\ actor[a].pc = "token" /\ row' = row /\ submit' = submit
        /\ charge' = [charge EXCEPT !.token = @ + actor[a].delta]
        /\ actor' = [actor EXCEPT ![a].pc = "quota"]
    BY <1>2 DEF BillToken, KeepsLedgers
  <2>2. /\ charge'.funding = charge.funding /\ charge'.token = charge.token + actor[a].delta
        /\ charge'.used = charge.used
    BY <1>0, <2>1 DEF Ledgers
  <2>3. /\ \A b \in Pollers \ {a} : actor'[b] = actor[b]
        /\ actor'[a].pc = "quota" /\ actor'[a].delta = actor[a].delta
    BY <1>0, <2>1 DEF Actor
  <2>4. /\ TokenPending(a)' = 0 /\ UsedPending(a)' = actor[a].delta
        /\ TokenPending(a) = actor[a].delta /\ UsedPending(a) = actor[a].delta
    BY <2>1, <2>3 DEF TokenPending, UsedPending, Billing
  <2>5. /\ charge'.funding - charge'.token =
             charge.funding - charge.token + (TokenPending(a)' - TokenPending(a))
        /\ charge'.funding - charge'.used =
             charge.funding - charge.used + (UsedPending(a)' - UsedPending(a))
    BY <1>0, <2>2, <2>4
  <2> QED BY <1>0, <2>1, <2>3, <2>5, DebtsMove
<1>3. ASSUME BillQuota(a) PROVE Balanced'
  <2>1. /\ actor[a].pc = "quota" /\ submit' = submit
        /\ charge' = [charge EXCEPT !.used = @ + actor[a].delta]
        /\ actor' = [actor EXCEPT ![a] = Done(a)]
    BY <1>3 DEF BillQuota
  <2>2. /\ charge'.funding = charge.funding /\ charge'.token = charge.token
        /\ charge'.used = charge.used + actor[a].delta
    BY <1>0, <2>1 DEF Ledgers
  <2>3. /\ \A b \in Pollers \ {a} : actor'[b] = actor[b]
        /\ actor'[a].pc = "idle" /\ row'.status = row.status
    BY <1>0, <1>3, <2>1 DEF BillQuota, Done, Actor, TypeOK, Row
  <2>4. /\ TokenPending(a)' = 0 /\ UsedPending(a)' = 0
        /\ TokenPending(a) = 0 /\ UsedPending(a) = actor[a].delta
    BY <2>1, <2>3 DEF TokenPending, UsedPending, Billing
  <2>5. /\ charge'.funding - charge'.token =
             charge.funding - charge.token + (TokenPending(a)' - TokenPending(a))
        /\ charge'.funding - charge'.used =
             charge.funding - charge.used + (UsedPending(a)' - UsedPending(a))
    BY <1>0, <2>2, <2>4
  <2> QED BY <1>0, <2>1, <2>3, <2>5, DebtsMove
<1> QED BY <1>1, <1>2, <1>3 DEF BillStep

\* A copy is always of an existing row: nobody reads, or stores, a missing one.
LEMMA CopyStep ==
  ASSUME TypeOK, Balanced, CopyExists, [Next]_vars
  PROVE  CopyExists'
<1>1. CASE UNCHANGED vars
  BY <1>1 DEF vars, CopyExists
<1>2. ASSUME NEW a \in Actors, NEW s, actor' = [actor EXCEPT ![a] = s],
             s.pc # "idle" => s.copy.status # "none"
      PROVE  CopyExists'
  BY <1>2, DoneType DEF CopyExists
<1>3. ASSUME NEW a \in Actors PROVE Done(a).pc = "idle"
  BY <1>3, DoneType DEF Done, Actor
<1>4. ASSUME NEW a \in Actors, NEW copy \in Row, copy.status # "none", NEW pc \in ActorPC,
             UpdateWithStatus(a, copy, pc)
      PROVE  CopyExists'
  <2>1. [Done(a) EXCEPT !.pc = pc, !.copy = copy].copy = copy
    BY DoneType DEF Actor
  <2> QED BY <1>2, <1>3, <1>4, <2>1 DEF UpdateWithStatus
<1>5. CASE SubmitStep
  BY <1>5 DEF SubmitStep, Insert, GiveUp, Settle, CopyExists
<1>6. ASSUME NEW a \in Actors, NEW pc, row.status # "none", Load(a, pc) PROVE CopyExists'
  BY <1>2, <1>6 DEF Load
<1>7. ASSUME NEW a \in Pollers, LoadTimedOut(a) \/ LoadUnfinished(a) PROVE CopyExists'
  BY <1>6, <1>7 DEF LoadTimedOut, LoadUnfinished, Selected, Unfinished, Actors
<1>8. ASSUME NEW a \in Pollers, PollStep(a) PROVE CopyExists'
  <2>0. /\ a \in Actors /\ actor[a].copy \in Row
        /\ {"idle", "bill", "refund"} \subseteq ActorPC
        /\ actor[a].pc # "idle" => actor[a].copy.status # "none"
    BY DoneType DEF Actors, ActorPC, CopyExists
  <2>1. PICK failed : failed = Failed(actor[a].copy) /\ failed \in Row /\ failed.status # "none"
    BY <2>0, FailedType
  <2>2. CASE Sweep(a)
    <3>1. PICK copy : copy = [failed EXCEPT !.quota = 0]
      OBVIOUS
    <3>2. copy \in Row /\ copy.status # "none"
      BY <2>1, <3>1 DEF Row
    <3>3. UpdateWithStatus(a, copy, "idle") \/ UpdateWithStatus(a, failed, "refund")
      BY <2>1, <2>2, <3>1 DEF Sweep
    <3> QED BY <1>4, <2>0, <2>1, <3>2, <3>3
  <2>3. CASE PollFails(a)
    <3> DEFINE n == actor[a].copy.failures + 1
    <3>1. PICK copy : copy = [actor[a].copy EXCEPT !.failures = IF MaxFailures = 0 THEN 0 ELSE n]
      OBVIOUS
    <3>2. copy \in Row /\ copy.status # "none"
      BY <2>0, <2>3, <3>1 DEF Row, PollFails
    <3>3. PICK gone : gone = Failed(copy) /\ gone \in Row /\ gone.status # "none"
      BY <3>2, FailedType
    <3>4. UpdateWithStatus(a, gone, "bill") \/ UpdateWithStatus(a, copy, "idle")
      BY <2>3, <3>1, <3>3 DEF PollFails
    <3> QED BY <1>4, <2>0, <3>2, <3>3, <3>4
  <2>4. CASE PollGone(a)
    BY <1>4, <2>0, <2>1, <2>4 DEF PollGone
  <2>5. CASE PollNoChannel(a)
    BY <1>2, <1>3, <2>0, <2>5 DEF PollNoChannel
  <2>6. ASSUME NEW status \in Unfinished, NEW full \in BOOLEAN, PollRunning(a, status, full)
        PROVE  CopyExists'
    <3>1. PICK copy : copy = [actor[a].copy EXCEPT !.status = status, !.full = full, !.failures = 0]
      OBVIOUS
    <3>2. copy \in Row /\ copy.status # "none"
      BY <2>0, <3>1 DEF Row, Unfinished
    <3> QED BY <1>4, <2>0, <2>6, <3>1, <3>2 DEF PollRunning
  <2>7. ASSUME NEW status \in Terminal, PollFinished(a, status) PROVE CopyExists'
    <3>1. PICK copy : copy = [actor[a].copy EXCEPT !.status = status, !.full = TRUE]
      OBVIOUS
    <3>2. copy \in Row /\ copy.status # "none"
      BY <2>0, <3>1 DEF Row, Terminal
    <3> QED BY <1>4, <2>0, <2>7, <3>1, <3>2 DEF PollFinished
  <2> QED BY <1>8, <2>2, <2>3, <2>4, <2>5, <2>6, <2>7 DEF PollStep
<1>9. ASSUME NEW a \in Pollers, BillStep(a) PROVE CopyExists'
  <2>0. /\ a \in Actors /\ actor \in [Actors -> Actor] /\ actor[a] \in Actor
        /\ actor[a].pc # "idle" => actor[a].copy.status # "none"
    BY DoneType DEF Actors, CopyExists
  <2>1. ASSUME NEW target \in Targets(a), Bill(a, target) PROVE CopyExists'
    <3>1. PICK delta : delta = target - actor[a].copy.quota
      OBVIOUS
    <3>2. PICK s : s = [actor[a] EXCEPT !.pc = "token", !.delta = delta, !.copy.quota = target]
      OBVIOUS
    <3>3. s.copy.status = actor[a].copy.status
      BY <2>0, <3>2 DEF Actor, Row
    <3>4. CASE actor' = [actor EXCEPT ![a] = Done(a)]
      BY <1>2, <1>3, <2>0, <3>4
    <3>5. CASE actor' = [actor EXCEPT ![a].pc = "token", ![a].delta = delta,
                                      ![a].copy.quota = target]
      <4>1. actor' = [actor EXCEPT ![a] = s]
        BY <2>0, <3>2, <3>5
      <4>2. actor[a].pc # "idle"
        BY <2>1 DEF Bill
      <4> QED BY <1>2, <2>0, <3>3, <4>1, <4>2
    <3> QED BY <2>1, <3>1, <3>4, <3>5 DEF Bill
  <2>2. CASE BillToken(a)
    <3>1. PICK s : s = [actor[a] EXCEPT !.pc = "quota"]
      OBVIOUS
    <3>2. s.copy = actor[a].copy /\ actor' = [actor EXCEPT ![a] = s] /\ actor[a].pc = "token"
      BY <2>0, <2>2, <3>1 DEF Actor, BillToken
    <3> QED BY <1>2, <2>0, <3>2
  <2>3. CASE BillQuota(a)
    BY <1>2, <1>3, <2>0, <2>3 DEF BillQuota
  <2> QED BY <1>9, <2>1, <2>2, <2>3 DEF BillStep
<1>10. ASSUME NEW a \in Pollers, Crash(a) PROVE CopyExists'
  BY <1>2, <1>3, <1>10 DEF Crash, Actors
<1>11. ASSUME NEW f \in Fetchers, FetchStep(f) PROVE CopyExists'
  <2>0. f \in Actors /\ actor[f].copy \in Row /\ "idle" \in ActorPC
    BY DoneType DEF Actors, ActorPC
  <2>1. ASSUME NEW status \in Unfinished \cup Terminal, NEW full \in BOOLEAN,
               FetchAnswer(f, status, full)
        PROVE  CopyExists'
    <3>1. PICK copy : copy = [actor[f].copy EXCEPT !.status = status, !.full = full]
      OBVIOUS
    <3>2. copy \in Row /\ copy.status # "none"
      BY <2>0, <3>1 DEF Row, Unfinished, Terminal
    <3>3. CASE UpdateWithStatus(f, copy, "idle")
      BY <1>4, <2>0, <3>2, <3>3
    <3>4. CASE actor' = [actor EXCEPT ![f] = Done(f)]
      BY <1>2, <1>3, <2>0, <3>4
    <3> QED BY <2>1, <3>1, <3>3, <3>4 DEF FetchAnswer
  <2> QED BY <1>6, <1>11, <2>0, <2>1 DEF FetchStep, FetchLoad
<1> QED BY <1>1, <1>5, <1>7, <1>8, <1>9, <1>10, <1>11 DEF Next

\* The balance is inductive for the faults that keep the ledgers.
LEMMA BalancedStep ==
  ASSUME IsFiniteSet(Pollers), KeepsLedgers, TypeOK, Balanced, CopyExists, [Next]_vars
  PROVE  Balanced'
<1>1. CASE UNCHANGED vars
  <2>1. TokenDebts' = TokenDebts /\ UsedDebts' = UsedDebts
    BY <1>1 DEF vars, TokenDebts, UsedDebts, TokenPending, UsedPending, Billing
  <2> QED BY <1>1, <2>1 DEF vars, Balanced, Waiting, NobodyYet, TokenLag, UsedLag, Due
<1>2. ASSUME NEW a \in Pollers, LoadTimedOut(a) \/ LoadUnfinished(a) PROVE Balanced'
  <2>1. row.status # "none" /\ a \in Actors
    BY <1>2 DEF LoadTimedOut, LoadUnfinished, Selected, Unfinished, Actors
  <2> QED BY <1>2, <2>1, LoadBalanced DEF LoadTimedOut, LoadUnfinished
<1>3. ASSUME NEW a \in Pollers PROVE ~Crash(a)
  BY DEF Crash, KeepsLedgers
<1> QED BY <1>1, <1>2, <1>3, SubmitBalanced, PollBalanced, BillBalanced, FetchBalanced DEF Next

\* Once the submission is over and nobody settles, the funding, the token and
\* the usage statistics hold the same charge, with real-time fetches and any
\* finite number of overlapping passes, unless a fault loses the write of one
\* of them (taskAdjustTokenQuota, RecalculateTaskQuota).
THEOREM LedgersTogether ==
  IsFiniteSet(Pollers) /\ KeepsLedgers => (Spec => []LedgersAgree)
<1>1. ASSUME IsFiniteSet(Pollers), Init PROVE Balanced /\ CopyExists
  <2>1. /\ row.status = "none" /\ charge.used = 0 /\ charge.token = charge.funding
        /\ charge.funding \in Int /\ submit.pc = "reserved"
        /\ \A a \in Pollers \cup Fetchers : actor[a].pc = "idle"
    BY <1>1, TaskBillingAssumption DEF Init, NoRow
  <2>2. IsSum(0, TokenDebts, Pollers, 0)
    BY <1>1, <2>1, NoDebts
  <2>3. charge.funding - charge.token = 0
    BY <2>1
  <2>4. TokenLag
    BY <2>2, <2>3 DEF TokenLag
  <2> QED BY <2>1, <2>4 DEF Balanced, Waiting, NobodyYet, CopyExists, Actors
<1>2. /\ IsFiniteSet(Pollers) /\ KeepsLedgers /\ TypeOK /\ Balanced /\ CopyExists /\ [Next]_vars
        => (Balanced /\ CopyExists)'
  BY BalancedStep, CopyStep
<1>3. ASSUME TypeOK, Balanced PROVE LedgersAgree
  <2> SUFFICES ASSUME submit.pc = "over", \A a \in Pollers : ~Billing(a)
               PROVE  charge.token = charge.funding /\ charge.used = charge.funding
    BY DEF LedgersAgree
  <2>1. /\ \A a \in Pollers : TokenDebts[a] = 0
        /\ \A a \in Pollers : UsedDebts[a] = 0
    BY DEF TokenDebts, UsedDebts, TokenPending, UsedPending, Billing
  <2>2. TokenDebts \in [Pollers -> Int] /\ UsedDebts \in [Pollers -> Int]
    BY <1>3, DebtsType
  <2>3. charge.funding - charge.token = 0
    BY <1>3, <2>1, <2>2, SumFacts DEF Balanced, TokenLag
  <2>4. charge.funding - charge.used - Due = 0
    BY <1>3, <2>1, <2>2, SumFacts DEF Balanced, UsedLag
  <2>5. Due = 0
    BY DEF Due
  <2> QED BY <1>3, <2>3, <2>4, <2>5 DEF TypeOK
<1>4. TypeOK /\ Balanced => LedgersAgree
  BY <1>3
<1>5. SUFFICES ASSUME IsFiniteSet(Pollers), KeepsLedgers PROVE Spec => []LedgersAgree
  OBVIOUS
<1>6. Init => Balanced /\ CopyExists
  BY <1>1, <1>5
<1> QED BY <1>2, <1>4, <1>5, <1>6, TypeCorrect, PTL DEF Spec

=============================================================================
