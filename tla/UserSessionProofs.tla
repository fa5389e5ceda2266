------------------------- MODULE UserSessionProofs -------------------------
(***************************************************************************)
(* Theorems about UserSession, for any number of calls, any TTL and any    *)
(* faults: an outdated snapshot leaves the cache within one TTL, the row   *)
(* implements SessionLifecycle, and a revoked session is not let in from   *)
(* the cache.                                                              *)
(***************************************************************************)
EXTENDS UserSession, TLAPS

-----------------------------------------------------------------------------
(* Types.                                                                  *)

\* The initial state is well typed.
LEMMA InitType == SessionInit => SessionTypeOK
BY SessionAssumption DEF SessionInit, SessionTypeOK, SessionRow, Cache, Caller, Trouble, NoCall, NoCache, Stored, Deny

\* Whatever a call does next, its record stays one of a call.
LEMMA GoType ==
  ASSUME SessionTypeOK, NEW a \in Callers, NEW pc, Go(a, pc),
         pc \in {"idle", "load", "fill", "deny", "read", "swap", "fence", "revoke", "bury", "advance"}
  PROVE  caller' \in [Callers -> Caller]
BY DEF SessionTypeOK, Go, Caller

\* The same for a call that takes a version, a generation or a time in hand.
LEMMA HaveType ==
  ASSUME SessionTypeOK, NEW a \in Callers, NEW pc, NEW version \in Nat, NEW gen \in Nat, NEW left \in 0..TTL,
         pc \in {"idle", "load", "fill", "deny", "read", "swap", "fence", "revoke", "bury", "advance"},
         Have(a, pc, version, gen, left)
  PROVE  caller' \in [Callers -> Caller]
BY DEF SessionTypeOK, Have, Caller

\* Every step keeps the types.
LEMMA TypeStep == SessionTypeOK /\ [SessionNext]_sessionVars => SessionTypeOK'
<1> SUFFICES ASSUME SessionTypeOK, [SessionNext]_sessionVars PROVE SessionTypeOK'
  OBVIOUS
<1> USE SessionAssumption
<1>t. /\ session \in SessionRow /\ session.status \in {"active", "revoked"} /\ session.version \in Nat /\ session.gen \in Nat
      /\ cache \in Cache /\ since \in 0..TTL /\ trouble \in Trouble
      /\ 0 \in 0..TTL /\ TTL \in 0..TTL
  BY DEF SessionTypeOK, SessionRow
<1>a. ASSUME NEW a \in Callers
      PROVE  caller[a].version \in Nat /\ caller[a].gen \in Nat /\ caller[a].left \in 0..TTL
  BY DEF SessionTypeOK, Caller
<1>s. ASSUME NEW st \in {"none", "active", "revoking", "revoked"}, NEW v \in Nat, NEW l \in 0..TTL
      PROVE  Stored(st, v, l) \in Cache
  BY DEF Stored, Cache, Deny
<1>n. NoCache \in Cache
  BY <1>s, <1>t DEF NoCache
<1>1. CASE UNCHANGED sessionVars
  BY <1>1 DEF sessionVars, SessionTypeOK
<1>2. CASE Tick
  <2>1. cache' \in Cache
    BY <1>2, <1>t, <1>n DEF Tick, Cache
  <2>2. caller' \in [Callers -> Caller]
    <3> SUFFICES ASSUME NEW a \in Callers PROVE [caller[a] EXCEPT !.left = Less(@)] \in Caller
      BY <1>2 DEF Tick
    <3>1. Less(caller[a].left) \in 0..TTL
      BY <1>a DEF Less
    <3> QED BY <3>1 DEF SessionTypeOK, Caller
  <2>3. since' \in 0..TTL /\ trouble' \in Trouble /\ session' = session
    BY <1>2, <1>t DEF Tick, Trouble
  <2> QED BY <2>1, <2>2, <2>3, <1>t DEF SessionTypeOK
<1>3. ASSUME NEW a \in Callers, Step(a) PROVE SessionTypeOK'
  <2> USE <1>t, <1>a, <1>s
  <2>1. CASE Get(a)
    BY <2>1, HaveType DEF Get, SessionTypeOK
  <2>2. CASE GetLoad(a)
    <3>1. (IF session.status = "active" THEN "fill" ELSE "deny") \in {"fill", "deny"}
      OBVIOUS
    <3> QED BY <2>2, <3>1, HaveType DEF GetLoad, SessionTypeOK
  <2>3. CASE Fill(a)
    <3>1. cache' \in Cache
      BY <2>3, <1>n DEF Fill
    <3> QED BY <2>3, <3>1, GoType DEF Fill, SessionTypeOK
  <2>4. CASE GetDeny(a)
    <3>1. cache' \in Cache
      BY <2>4 DEF GetDeny
    <3> QED BY <2>4, <3>1, GoType DEF GetDeny, SessionTypeOK
  <2>5. CASE \E gen \in 1..MaxGen : Refresh(a, gen)
    BY <2>5, HaveType DEF Refresh, SessionTypeOK
  <2>6. CASE RefreshRead(a)
    <3>1. caller' \in [Callers -> Caller]
      BY <2>6, GoType, HaveType DEF RefreshRead
    <3> QED BY <2>6, <3>1 DEF RefreshRead, SessionTypeOK
  <2>7. CASE Swap(a)
    <3>1. caller' \in [Callers -> Caller]
      BY <2>7, GoType, HaveType DEF Swap
    <3>2. session' \in SessionRow
      BY <2>7 DEF Swap, SessionRow
    <3> QED BY <2>7, <3>1, <3>2 DEF Swap, SessionTypeOK
  <2>8. CASE RevokeRead(a)
    BY <2>8, HaveType DEF RevokeRead, SessionTypeOK
  <2>9. CASE Fence(a)
    <3>1. caller' \in [Callers -> Caller]
      BY <2>9, GoType, HaveType DEF Fence
    <3>2. cache' \in Cache
      BY <2>9 DEF Fence
    <3> QED BY <2>9, <3>1, <3>2 DEF Fence, SessionTypeOK
  <2>10. CASE \E version \in {caller[a].version, session.version} : Revoke(a, version)
    <3>1. caller' \in [Callers -> Caller]
      BY <2>10, GoType, HaveType DEF Revoke
    <3>2. session' \in SessionRow /\ since' \in 0..TTL /\ trouble' \in Trouble
      BY <2>10 DEF Revoke, SessionRow, Trouble
    <3> QED BY <2>10, <3>1, <3>2 DEF Revoke, SessionTypeOK
  <2>11. CASE Bury(a)
    <3>1. cache' \in Cache /\ trouble' \in Trouble
      BY <2>11 DEF Bury, Trouble
    <3> QED BY <2>11, <3>1, GoType DEF Bury, SessionTypeOK
  <2>12. CASE Advance(a)
    BY <2>12, HaveType DEF Advance, SessionTypeOK
  <2>13. CASE AdvanceRow(a)
    <3>0. \/ Go(a, "idle")
          \/ session.version + 1 \in Nat /\ Have(a, "fill", session.version + 1, 0, caller[a].left)
      BY <2>13, <1>t DEF AdvanceRow
    <3>1. caller' \in [Callers -> Caller]
      BY <3>0, GoType, HaveType, <1>t, <1>a
    <3>2. session' \in SessionRow /\ since' \in 0..TTL
      BY <2>13 DEF AdvanceRow, SessionRow
    <3> QED BY <2>13, <3>1, <3>2 DEF AdvanceRow, SessionTypeOK
  <2>14. CASE CallStops(a)
    <3>1. trouble' \in Trouble
      BY <2>14 DEF CallStops, Trouble
    <3> QED BY <2>14, <3>1, GoType DEF CallStops, SessionTypeOK
  <2> QED BY <1>3, <2>1, <2>2, <2>3, <2>4, <2>5, <2>6, <2>7, <2>8, <2>9, <2>10, <2>11, <2>12, <2>13, <2>14 DEF Step, RevokeOne, RevokeLocked
<1> QED BY <1>1, <1>2, <1>3 DEF SessionNext

\* Every reachable state is well typed.
THEOREM TypeCorrect == SessionSpec => []SessionTypeOK
<1> QED BY InitType, TypeStep, PTL DEF SessionSpec

-----------------------------------------------------------------------------
(* The age of snapshots.  StaleIsBounded is not inductive: it says nothing *)
(* of the fills that are still under way.  The strengthening bounds every  *)
(* active snapshot, in the cache or in the hands of a call: one that the   *)
(* row has left behind has no more time than is missing to a TTL since.    *)

Sound(r, n, version, left) ==
  /\ version <= r.version
  /\ r.status # "active" \/ version # r.version => left + n <= TTL

CacheAged ==
  /\ cache.status # "none" => cache.left > 0
  /\ cache.status = "active" => Sound(session, since, cache.version, cache.left)

CallAged(a) ==
  caller[a].pc \in {"swap", "fill"} => Sound(session, since, caller[a].version, caller[a].left)

Aged == CacheAged /\ \A a \in Callers : CallAged(a)

\* No snapshot is outdated in the initial state.
LEMMA InitAged == SessionInit => Aged
<1> SUFFICES ASSUME SessionInit PROVE Aged
  OBVIOUS
<1>1. CacheAged
  BY DEF SessionInit, CacheAged, NoCache, Stored
<1>2. ASSUME NEW a \in Callers PROVE CallAged(a)
  BY SessionAssumption DEF SessionInit, CallAged, NoCall, Sound
<1> QED BY <1>1, <1>2 DEF Aged

\* When the row is revoked or advanced, the time since starts again: every
\* snapshot taken before has at most a TTL left.
LEMMA SoundRestart ==
  ASSUME NEW r \in SessionRow, NEW q \in SessionRow, q.version >= r.version, NEW n \in 0..TTL,
         NEW v \in Nat, NEW l \in 0..TTL, Sound(r, n, v, l)
  PROVE  Sound(q, 0, v, l)
BY SessionAssumption DEF Sound, SessionRow

\* A call that moves on without a snapshot, with one it had, or with one that is
\* sound leaves the calls' snapshots sound.
LEMMA CallsAged ==
  ASSUME SessionTypeOK, Aged, UNCHANGED <<session, since>>, NEW a \in Callers,
         \A b \in Callers \ {a} : caller'[b] = caller[b],
         caller'[a].pc \in {"swap", "fill"} => Sound(session, since, caller'[a].version, caller'[a].left)
  PROVE  \A b \in Callers : CallAged(b)'
BY DEF Aged, CallAged, SessionTypeOK

\* Every step keeps snapshots' ages.
LEMMA AgedStep == SessionTypeOK /\ Aged /\ [SessionNext]_sessionVars => Aged'
<1> SUFFICES ASSUME SessionTypeOK, Aged, [SessionNext]_sessionVars PROVE Aged'
  OBVIOUS
<1> USE SessionAssumption
<1>t. /\ session \in SessionRow /\ session.version \in Nat
      /\ cache.version \in Nat /\ cache.left \in 0..TTL /\ since \in 0..TTL
  BY DEF SessionTypeOK, SessionRow, Cache
<1>a. ASSUME NEW a \in Callers
      PROVE  caller[a].version \in Nat /\ caller[a].left \in 0..TTL
  BY DEF SessionTypeOK, Caller
<1>f. Callers = DOMAIN caller
  BY DEF SessionTypeOK
<1>1. CASE UNCHANGED sessionVars
  BY <1>1 DEF sessionVars, Aged, CacheAged, CallAged
<1>2. CASE Tick
  <2>s. ASSUME NEW v \in Nat, NEW l \in 0..TTL, Sound(session, since, v, l)
        PROVE  Sound(session, since', v, Less(l))
    BY <1>2, <1>t, <2>s DEF Tick, Sound, Less
  <2>1. CacheAged'
    <3>1. CASE cache.left <= 1
      BY <1>2, <3>1 DEF Tick, CacheAged, NoCache, Stored
    <3>2. CASE ~(cache.left <= 1)
      <4>1. /\ cache'.status = cache.status /\ cache'.version = cache.version
            /\ cache'.left = Less(cache.left) /\ cache'.left > 0 /\ session' = session
        BY <1>2, <3>2, <1>t DEF Tick, SessionTypeOK, Cache, Less
      <4>2. cache.status = "active" => Sound(session, since', cache.version, Less(cache.left))
        BY <2>s, <1>t DEF Aged, CacheAged
      <4> QED BY <4>1, <4>2 DEF CacheAged
    <3> QED BY <3>1, <3>2
  <2>2. ASSUME NEW a \in Callers PROVE CallAged(a)'
    <3>1. /\ caller'[a].pc = caller[a].pc /\ caller'[a].version = caller[a].version
          /\ caller'[a].left = Less(caller[a].left) /\ session' = session
      BY <1>2 DEF Tick, SessionTypeOK, Caller
    <3>2. caller[a].pc \in {"swap", "fill"} => Sound(session, since', caller[a].version, Less(caller[a].left))
      BY <2>s, <1>a DEF Aged, CallAged
    <3> QED BY <3>1, <3>2 DEF CallAged
  <2> QED BY <2>1, <2>2 DEF Aged
<1>3. ASSUME NEW a \in Callers, Step(a) PROVE Aged'
  <2>c. ASSUME UNCHANGED <<session, since, cache>> PROVE CacheAged'
    BY <2>c DEF Aged, CacheAged
  <2>d. ASSUME NEW st \in Deny, NEW v \in Nat, cache' = Stored(st, v, TTL) PROVE CacheAged'
    BY <2>d DEF CacheAged, Stored, Deny
  <2>g. ASSUME NEW pc, Go(a, pc)
        PROVE  /\ \A b \in Callers \ {a} : caller'[b] = caller[b]
               /\ caller'[a].pc = pc /\ caller'[a].version = caller[a].version /\ caller'[a].left = caller[a].left
    BY <2>g DEF Go, SessionTypeOK, Caller
  <2>h. ASSUME NEW pc, NEW v, NEW g, NEW l, Have(a, pc, v, g, l)
        PROVE  /\ \A b \in Callers \ {a} : caller'[b] = caller[b]
               /\ caller'[a].pc = pc /\ caller'[a].version = v /\ caller'[a].left = l
    BY <2>h DEF Have, SessionTypeOK
  <2>r. ASSUME NEW l \in 0..TTL PROVE session.status = "active" => Sound(session, since, session.version, l)
    BY <1>t DEF Sound
  <2>1. CASE Get(a)
    BY <2>1, <2>c, <2>h, CallsAged DEF Get, Aged
  <2>2. CASE GetLoad(a)
    <3>1. /\ \A b \in Callers \ {a} : caller'[b] = caller[b]
          /\ caller'[a].pc = (IF session.status = "active" THEN "fill" ELSE "deny")
          /\ caller'[a].version = session.version /\ caller'[a].left = caller[a].left
      BY <2>2, <2>h DEF GetLoad
    <3>2. \A b \in Callers : CallAged(b)'
      BY <2>2, <3>1, <2>r, <1>a, CallsAged DEF GetLoad
    <3> QED BY <2>2, <3>2, <2>c DEF GetLoad, Aged
  <2>3. CASE Fill(a)
    <3>1. \A b \in Callers : CallAged(b)'
      BY <2>3, <2>g, CallsAged DEF Fill
    <3>2. CacheAged'
      <4>1. CASE cache' = Stored("active", caller[a].version, caller[a].left) /\ caller[a].left > 0
        BY <2>3, <4>1 DEF Fill, Aged, CallAged, CacheAged, Stored
      <4>2. CASE cache' = cache
        BY <2>3, <4>2, <2>c DEF Fill
      <4>3. CASE cache' = NoCache
        BY <4>3 DEF CacheAged, NoCache, Stored
      <4> QED BY <2>3, <4>1, <4>2, <4>3 DEF Fill
    <3> QED BY <3>1, <3>2 DEF Aged
  <2>4. CASE GetDeny(a)
    <3>1. \A b \in Callers : CallAged(b)'
      BY <2>4, <2>g, CallsAged DEF GetDeny
    <3>2. CacheAged'
      BY <2>4, <2>c, <2>d, <1>a DEF GetDeny, Deny
    <3> QED BY <3>1, <3>2 DEF Aged
  <2>5. CASE \E gen \in 1..MaxGen : Refresh(a, gen)
    BY <2>5, <2>c, <2>h, CallsAged DEF Refresh, Aged
  <2>6. CASE RefreshRead(a)
    <3>1. \A b \in Callers : CallAged(b)'
      <4>1. CASE session.status = "active" /\ Have(a, "swap", session.version, caller[a].gen, caller[a].left)
        BY <2>6, <4>1, <2>h, <2>r, <1>a, CallsAged DEF RefreshRead
      <4>2. CASE Have(a, "fence", session.version, 0, 0)
        BY <2>6, <4>2, <2>h, CallsAged DEF RefreshRead
      <4>3. CASE Go(a, "idle")
        BY <2>6, <4>3, <2>g, CallsAged DEF RefreshRead
      <4> QED BY <2>6, <4>1, <4>2, <4>3 DEF RefreshRead
    <3> QED BY <2>6, <3>1, <2>c DEF RefreshRead, Aged
  <2>7. CASE Swap(a)
    <3>1. /\ session'.version = session.version /\ session'.status = session.status
          /\ UNCHANGED <<cache, since>>
      BY <2>7, <1>t DEF Swap, SessionRow
    <3>2. CacheAged'
      BY <3>1 DEF Aged, CacheAged, Sound
    <3>3. ASSUME NEW b \in Callers PROVE CallAged(b)'
      <4>1. CASE b # a
        <5>1. caller'[b] = caller[b]
          BY <2>7, <4>1, <2>g, <2>h DEF Swap
        <5> QED BY <3>1, <5>1 DEF Aged, CallAged, Sound
      <4>2. CASE b = a /\ Go(a, "fill")
        <5>1. caller[a].pc = "swap"
          BY <2>7 DEF Swap
        <5>2. caller'[a].version = caller[a].version /\ caller'[a].left = caller[a].left
          BY <4>2, <2>g
        <5> QED BY <3>1, <4>2, <5>1, <5>2 DEF Aged, CallAged, Sound
      <4>3. CASE b = a /\ ~Go(a, "fill")
        <5>1. caller'[a].pc \in {"read", "idle"}
          BY <2>7, <4>3, <2>g, <2>h DEF Swap
        <5> QED BY <4>3, <5>1 DEF CallAged
      <4> QED BY <4>1, <4>2, <4>3
    <3> QED BY <3>2, <3>3 DEF Aged
  <2>8. CASE RevokeRead(a)
    BY <2>8, <2>c, <2>h, CallsAged DEF RevokeRead, Aged
  <2>9. CASE Fence(a)
    <3>1. \A b \in Callers : CallAged(b)'
      BY <2>9, <2>g, <2>h, CallsAged DEF Fence
    <3>2. CacheAged'
      BY <2>9, <2>c, <2>d, <1>a DEF Fence, Deny
    <3> QED BY <3>1, <3>2 DEF Aged
  <2>10. CASE \E version \in {caller[a].version, session.version} : Revoke(a, version)
    <3>1. CASE session.status # "active"
      BY <2>10, <3>1, <2>c, <2>g, CallsAged DEF Revoke, Aged
    <3>2. CASE session.status = "active"
      <4>1. /\ session' \in SessionRow /\ session'.version >= session.version /\ since' = 0 /\ cache' = cache
        BY <2>10, <3>2, <1>t DEF Revoke, SessionRow
      <4>2. /\ \A b \in Callers \ {a} : caller'[b] = caller[b]
            /\ caller'[a].pc = "bury"
        BY <2>10, <3>2, <2>h DEF Revoke
      <4>3. CacheAged'
        BY <4>1, <1>t, SoundRestart DEF Aged, CacheAged
      <4>4. ASSUME NEW b \in Callers PROVE CallAged(b)'
        <5>1. CASE b = a
          BY <4>2, <5>1 DEF CallAged
        <5>2. CASE b # a
          BY <4>1, <4>2, <5>2, <1>t, <1>a, SoundRestart DEF Aged, CallAged
        <5> QED BY <5>1, <5>2
      <4> QED BY <4>3, <4>4 DEF Aged
    <3> QED BY <3>1, <3>2
  <2>11. CASE Bury(a)
    <3>1. \A b \in Callers : CallAged(b)'
      BY <2>11, <2>g, CallsAged DEF Bury
    <3>2. CacheAged'
      BY <2>11, <2>c, <2>d, <1>a DEF Bury, Deny
    <3> QED BY <3>1, <3>2 DEF Aged
  <2>12. CASE Advance(a)
    BY <2>12, <2>c, <2>h, CallsAged DEF Advance, Aged
  <2>13. CASE AdvanceRow(a)
    <3>1. CASE ~(session.status = "active" /\ session.version = caller[a].version)
      BY <2>13, <3>1, <2>c, <2>g, CallsAged DEF AdvanceRow, Aged
    <3>2. CASE session.status = "active" /\ session.version = caller[a].version
      <4>1. /\ session' \in SessionRow /\ session'.version = session.version + 1 /\ session'.status = "active"
            /\ since' = 0 /\ cache' = cache
        BY <2>13, <3>2, <1>t DEF AdvanceRow, SessionRow
      <4>2. /\ \A b \in Callers \ {a} : caller'[b] = caller[b]
            /\ caller'[a].version = session.version + 1
        BY <2>13, <3>2, <2>h DEF AdvanceRow
      <4>3. CacheAged'
        BY <4>1, <1>t, SoundRestart DEF Aged, CacheAged
      <4>4. ASSUME NEW b \in Callers PROVE CallAged(b)'
        <5>1. CASE b = a
          BY <4>1, <4>2, <5>1, <1>t DEF CallAged, Sound
        <5>2. CASE b # a
          BY <4>1, <4>2, <5>2, <1>t, <1>a, SoundRestart DEF Aged, CallAged
        <5> QED BY <5>1, <5>2
      <4> QED BY <4>3, <4>4 DEF Aged
    <3> QED BY <3>1, <3>2
  <2>14. CASE CallStops(a)
    BY <2>14, <2>c, <2>g, CallsAged DEF CallStops, Aged
  <2> QED BY <1>3, <2>1, <2>2, <2>3, <2>4, <2>5, <2>6, <2>7, <2>8, <2>9, <2>10, <2>11, <2>12, <2>13, <2>14 DEF Step, RevokeOne, RevokeLocked
<1> QED BY <1>1, <1>2, <1>3 DEF SessionNext

\* The invariant that the bound on stale snapshots rests on.
THEOREM Invariance == SessionSpec => [](SessionTypeOK /\ Aged)
<1>1. SessionInit => SessionTypeOK /\ Aged
  BY InitType, InitAged
<1>2. SessionTypeOK /\ Aged /\ [SessionNext]_sessionVars => (SessionTypeOK /\ Aged)'
  BY TypeStep, AgedStep
<1> QED BY <1>1, <1>2, PTL DEF SessionSpec

\* Whatever calls are delayed or lost, a snapshot of a revoked or superseded
\* session is out of the cache one TTL after the row changed.
THEOREM StaleBounded == SessionSpec => []StaleIsBounded
<1>1. SessionTypeOK /\ Aged => StaleIsBounded
  BY SessionAssumption DEF SessionTypeOK, Cache, Aged, CacheAged, Sound, StaleIsBounded, Outdated
<1> QED BY <1>1, Invariance, PTL

-----------------------------------------------------------------------------
(* Refinement.                                                             *)

\* Rotation, advance and revocation are the only writes to the row, each is a
\* step of SessionLifecycle, and every other step leaves the row alone.
LEMMA RowStep == SessionTypeOK /\ [SessionNext]_sessionVars => [Lifecycle!Next]_session
<1> SUFFICES ASSUME SessionTypeOK, [SessionNext]_sessionVars PROVE [Lifecycle!Next]_session
  OBVIOUS
<1>1. CASE UNCHANGED sessionVars
  BY <1>1 DEF sessionVars
<1>2. CASE Tick
  BY <1>2 DEF Tick
<1>3. ASSUME NEW a \in Callers, Step(a) PROVE [Lifecycle!Next]_session
  <2>1. CASE Swap(a)
    BY <2>1 DEF Swap, Lifecycle!Next, Lifecycle!Rotate
  <2>2. CASE \E version \in {caller[a].version, session.version} : Revoke(a, version)
    BY <2>2 DEF Revoke, Lifecycle!Next, Lifecycle!Revoke
  <2>3. CASE AdvanceRow(a)
    BY <2>3 DEF AdvanceRow, Lifecycle!Next, Lifecycle!Advance
  <2>4. CASE UNCHANGED session
    BY <2>4
  <2> QED BY <1>3, <2>1, <2>2, <2>3, <2>4
    DEF Step, RevokeOne, RevokeLocked, Get, GetLoad, Fill, GetDeny, Refresh, RefreshRead, RevokeRead, Fence, Bury, Advance, CallStops
<1> QED BY <1>1, <1>2, <1>3 DEF SessionNext

\* The row implements the life of a session.
THEOREM Refinement == SessionSpec => RowIsSession
<1>1. SessionInit => Lifecycle!Init
  BY DEF SessionInit, Lifecycle!Init
<1>2. SessionTypeOK /\ [SessionNext]_sessionVars => [Lifecycle!Next]_session
  BY RowStep
<1> QED BY <1>1, <1>2, TypeCorrect, PTL DEF SessionSpec, RowIsSession, Lifecycle!Spec

-----------------------------------------------------------------------------
(* Denial.  RevokedIsDenied is not inductive either.  While a revocation   *)
(* is under way its fence stands for as long as it has; once it is over,   *)
(* what denies the session stands for as long as any fill may still write. *)

\* No snapshot is ahead of the row.
Behind ==
  /\ cache.version <= session.version /\ (cache.status = "none" => cache.left = 0)
  /\ \A a \in Callers : caller[a].version <= session.version

Fenced(a) ==
  /\ Revoking(a) => caller[a].left > 0 /\ cache.status \in Deny /\ caller[a].left <= cache.left
  /\ caller[a].pc = "bury" => session.status = "revoked" /\ caller[a].version = session.version

Outlived(a) == caller[a].pc = "fill" => caller[a].left <= cache.left

Buried == cache.status # "active" /\ \A a \in Callers : Outlived(a)

Denied ==
  /\ Behind
  /\ trouble = "none" =>
       /\ \A a \in Callers : Fenced(a)
       /\ session.status = "revoked" => Buried \/ \E a \in Callers : caller[a].pc = "bury"

\* What Go and Have do to a call.
LEMMA GoParts ==
  ASSUME SessionTypeOK, NEW a \in Callers, NEW pc, Go(a, pc)
  PROVE  /\ \A b \in Callers \ {a} : caller'[b] = caller[b]
         /\ caller'[a].pc = pc /\ caller'[a].version = caller[a].version
         /\ caller'[a].left = caller[a].left
BY DEF Go, SessionTypeOK, Caller

\* The same for a call that takes something in hand.
LEMMA HaveParts ==
  ASSUME SessionTypeOK, NEW a \in Callers, NEW pc, NEW v, NEW g, NEW l, Have(a, pc, v, g, l)
  PROVE  /\ \A b \in Callers \ {a} : caller'[b] = caller[b]
         /\ caller'[a].pc = pc /\ caller'[a].version = v /\ caller'[a].left = l
BY DEF Have, SessionTypeOK

\* The numbers in a typed state.
LEMMA SessionNumbers ==
  ASSUME SessionTypeOK
  PROVE  /\ session \in SessionRow /\ session.version \in Nat
         /\ cache.version \in Nat /\ cache.left \in 0..TTL /\ TTL \in Nat /\ TTL > 0
         /\ \A a \in Callers : caller[a].version \in Nat /\ caller[a].left \in 0..TTL
BY SessionAssumption DEF SessionTypeOK, SessionRow, Cache, Caller

\* Only a moves, and only in its record.
Alone(a) == \A b \in Callers \ {a} : caller'[b] = caller[b]

\* A call moves without touching the cache, revokes nothing and gives up no
\* tombstone; it comes to a fill only while the session is active.
LEMMA DeniedQuiet ==
  ASSUME SessionTypeOK, Denied, NEW a \in Callers, Alone(a),
         session'.status = session.status, session'.version = session.version,
         UNCHANGED <<cache, trouble>>,
         caller'[a].version <= session.version,
         caller[a].pc # "bury", caller'[a].pc \notin {"revoke", "bury"},
         caller'[a].pc = "fill" => session.status = "active"
  PROVE  Denied'
<1>1. Behind'
  BY DEF Denied, Behind, Alone
<1>2. ASSUME trouble = "none", NEW b \in Callers PROVE Fenced(b)'
  <2>1. CASE b = a
    BY <2>1 DEF Fenced, Revoking
  <2>2. CASE b # a
    BY <1>2, <2>2 DEF Fenced, Revoking, Denied, Alone
  <2> QED BY <2>1, <2>2
<1>3. ASSUME trouble = "none", session.status = "revoked"
      PROVE  Buried' \/ \E b \in Callers : caller'[b].pc = "bury"
  <2>1. CASE Buried
    <3>1. ASSUME NEW b \in Callers PROVE Outlived(b)'
      <4>1. CASE b = a
        BY <1>3, <4>1 DEF Outlived
      <4>2. CASE b # a
        BY <2>1, <4>2 DEF Outlived, Buried, Alone
      <4> QED BY <4>1, <4>2
    <3> QED BY <2>1, <3>1 DEF Buried
  <2>2. CASE \E b \in Callers : caller[b].pc = "bury"
    BY <2>2 DEF Alone
  <2> QED BY <1>3, <2>1, <2>2 DEF Denied
<1> QED BY <1>1, <1>2, <1>3 DEF Denied

\* A fence or a tombstone is written: it outlives every fill there is.
LEMMA DeniedWrite ==
  ASSUME SessionTypeOK, SessionTypeOK', Denied, NEW a \in Callers, Alone(a), UNCHANGED <<session, trouble>>,
         cache'.status \in Deny, cache'.version <= session.version, cache'.left = TTL,
         caller'[a].version <= session.version,
         caller'[a].pc \in {"idle", "revoke"}, caller'[a].pc = "revoke" => caller'[a].left = TTL
  PROVE  Denied'
<1>0. /\ \A b \in Callers : caller'[b].left \in 0..TTL /\ TTL \in Nat /\ TTL > 0
  <2>1. \A b \in Callers : caller'[b].left \in 0..TTL
    BY DEF SessionTypeOK, Caller
  <2> QED BY <2>1, SessionAssumption
<1>1. Behind'
  BY DEF Denied, Behind, Alone, Deny
<1>2. \A b \in Callers : caller'[b].left <= TTL
  BY <1>0
<1>3. ASSUME trouble = "none", NEW b \in Callers PROVE Fenced(b)'
  <2>1. CASE b = a
    BY <1>0, <1>2, <2>1 DEF Fenced, Revoking
  <2>2. CASE b # a
    BY <1>2, <1>3, <2>2 DEF Fenced, Revoking, Denied, Alone
  <2> QED BY <2>1, <2>2
<1>4. Buried'
  BY <1>2 DEF Buried, Outlived, Deny
<1> QED BY <1>1, <1>3, <1>4 DEF Denied

\* An active snapshot is written, or one whose deadline is over.
LEMMA DeniedFill ==
  ASSUME SessionTypeOK, Denied, NEW a \in Callers, Fill(a)
  PROVE  Denied'
<1>1. /\ Alone(a) /\ caller'[a].pc = "idle" /\ caller'[a].version = caller[a].version
      /\ UNCHANGED <<session, trouble>> /\ caller[a].pc = "fill"
  BY GoParts DEF Fill, Alone
<1>2. caller[a].version <= session.version
  BY DEF Denied, Behind
<1>3. CASE UNCHANGED cache
  BY <1>1, <1>2, <1>3, DeniedQuiet
<1>4. CASE ~UNCHANGED cache
  <2>1. /\ ActiveAccepted(caller[a].version)
        /\ \/ caller[a].left > 0 /\ cache' = Stored("active", caller[a].version, caller[a].left)
           \/ cache' = NoCache
    BY <1>4 DEF Fill
  <2>2. cache.status \notin Deny
    BY <2>1 DEF ActiveAccepted
  <2>3. cache.status \in {"none", "active"}
    BY <2>2 DEF SessionTypeOK, Cache
  <2>4. /\ cache'.version <= session.version /\ (cache'.status = "none" => cache'.left = 0)
    <3>1. CASE cache' = NoCache
      BY <3>1, SessionNumbers DEF NoCache, Stored
    <3>2. CASE cache' = Stored("active", caller[a].version, caller[a].left)
      BY <1>2, <3>2 DEF Stored
    <3> QED BY <2>1, <3>1, <3>2
  <2>5. Behind'
    BY <1>1, <2>4 DEF Denied, Behind, Alone
  <2>6. ASSUME trouble = "none" PROVE \A b \in Callers : ~Revoking(b)
    BY <2>2, <2>6 DEF Denied, Fenced
  <2>7. ASSUME trouble = "none", NEW b \in Callers PROVE Fenced(b)'
    <3>1. ~(caller'[b].pc \in {"revoke", "bury"})
      BY <1>1, <2>6, <2>7 DEF Revoking, Alone
    <3> QED BY <3>1 DEF Fenced, Revoking
  <2>8. ASSUME trouble = "none", session.status = "revoked" PROVE Buried'
    <3>1. Buried
      BY <2>6, <2>8 DEF Denied, Revoking
    <3>2. cache.left = 0
      BY <2>3, <3>1 DEF Buried, Denied, Behind
    <3>3. ~(caller[a].left > 0)
      <4>1. caller[a].left <= cache.left
        BY <1>1, <3>1 DEF Buried, Outlived
      <4> QED BY <3>2, <4>1, SessionNumbers
    <3>4. cache' = NoCache
      BY <2>1, <3>3
    <3>5. cache'.left = 0 /\ cache'.status # "active"
      BY <3>4 DEF NoCache, Stored
    <3>6. ASSUME NEW b \in Callers PROVE Outlived(b)'
      BY <1>1, <3>1, <3>2, <3>5 DEF Buried, Outlived, Alone
    <3> QED BY <3>5, <3>6 DEF Buried
  <2> QED BY <1>1, <2>5, <2>7, <2>8 DEF Denied
<1> QED BY <1>3, <1>4

\* The row is revoked behind a fence.
LEMMA DeniedRevoke ==
  ASSUME SessionTypeOK, Denied, NEW a \in Callers, NEW v \in {caller[a].version, session.version},
         Revoke(a, v)
  PROVE  Denied'
<1>0. v <= session.version /\ caller[a].pc = "revoke"
  BY SessionNumbers DEF Denied, Behind, Revoke
<1>1. CASE session.status # "active"
  BY <1>0, <1>1, GoParts, DeniedQuiet DEF Revoke, Alone, Denied, Behind
<1>2. CASE session.status = "active"
  <2>1. /\ session'.status = "revoked" /\ session'.version = session.version
        /\ UNCHANGED cache
    BY <1>2, SessionNumbers DEF Revoke, SessionRow
  <2>2. /\ Alone(a) /\ caller'[a].pc = "bury" /\ caller'[a].version = v
        /\ caller'[a].left = caller[a].left
    BY <1>2, HaveParts DEF Revoke, Alone
  <2>3. Behind'
    BY <1>0, <2>1, <2>2 DEF Denied, Behind, Alone
  <2>4. trouble' = "none" => trouble = "none" /\ v = session.version
    BY <1>2 DEF Revoke
  <2>5. ASSUME trouble' = "none", NEW b \in Callers PROVE Fenced(b)'
    <3>0. Fenced(b)
      BY <2>4, <2>5 DEF Denied
    <3>1. CASE b = a
      BY <1>0, <2>1, <2>2, <2>4, <2>5, <3>0, <3>1 DEF Fenced, Revoking
    <3>2. CASE b # a
      BY <2>1, <2>2, <3>0, <3>2 DEF Fenced, Revoking, Alone
    <3> QED BY <3>1, <3>2
  <2> QED BY <2>2, <2>3, <2>5 DEF Denied
<1> QED BY <1>1, <1>2

\* The tombstone is written, or lost.
LEMMA DeniedBury ==
  ASSUME SessionTypeOK, SessionTypeOK', Denied, NEW a \in Callers, Bury(a)
  PROVE  Denied'
<1>1. /\ Alone(a) /\ caller'[a].pc = "idle" /\ caller'[a].version = caller[a].version
      /\ UNCHANGED session /\ caller[a].pc = "bury"
  BY GoParts DEF Bury, Alone
<1>2. caller[a].version <= session.version
  BY DEF Denied, Behind
<1>3. CASE cache' = Stored("revoked", caller[a].version, TTL) /\ UNCHANGED trouble
  <2>1. cache'.status \in Deny /\ cache'.version <= session.version /\ cache'.left = TTL
    BY <1>2, <1>3 DEF Stored, Deny
  <2> QED BY <1>1, <1>2, <1>3, <2>1, DeniedWrite
<1>4. ASSUME UNCHANGED cache, trouble' # "none" PROVE Denied'
  BY <1>1, <1>4 DEF Denied, Behind, Alone
<1>5. CASE ~DenyAccepted(caller[a].version) /\ UNCHANGED <<cache, trouble>>
  <2>1. trouble # "none"
    <3> SUFFICES ASSUME trouble = "none" PROVE FALSE
      OBVIOUS
    <3>1. caller[a].version = session.version
      BY <1>1 DEF Denied, Fenced
    <3>2. cache.version <= session.version
      BY DEF Denied, Behind
    <3> QED BY <1>5, <3>1, <3>2 DEF DenyAccepted
  <2> QED BY <1>4, <1>5, <2>1
<1> QED BY <1>3, <1>4, <1>5 DEF Bury

\* The version is advanced while the session is active.
LEMMA DeniedAdvance ==
  ASSUME SessionTypeOK, Denied, NEW a \in Callers, AdvanceRow(a)
  PROVE  Denied'
<1>0. caller[a].pc = "advance" /\ UNCHANGED <<cache, trouble>>
  BY DEF AdvanceRow
<1>1. CASE ~(session.status = "active" /\ session.version = caller[a].version)
  BY <1>0, <1>1, GoParts, DeniedQuiet DEF AdvanceRow, Alone, Denied, Behind
<1>2. CASE session.status = "active" /\ session.version = caller[a].version
  <2>0. PICK n \in Nat : n = session.version
    BY SessionNumbers
  <2>1. session'.status = "active" /\ session'.version = n + 1
    BY <1>2, <2>0, SessionNumbers DEF AdvanceRow, SessionRow
  <2>2. Alone(a) /\ caller'[a].pc = "fill" /\ caller'[a].version = n + 1
    BY <1>2, <2>0, HaveParts DEF AdvanceRow, Alone
  <2>3. \A k \in Nat : k <= n => k <= n + 1
    BY <2>0
  <2>4. Behind'
    <3>1. cache.version <= n + 1
      BY <2>0, <2>3, SessionNumbers DEF Denied, Behind
    <3>2. ASSUME NEW b \in Callers PROVE caller'[b].version <= n + 1
      <4>1. CASE b = a
        BY <2>0, <2>2, <4>1
      <4>2. CASE b # a
        BY <2>0, <2>2, <2>3, <4>2, SessionNumbers DEF Denied, Behind, Alone
      <4> QED BY <4>1, <4>2
    <3> QED BY <1>0, <2>1, <3>1, <3>2 DEF Denied, Behind
  <2>5. ASSUME trouble = "none", NEW b \in Callers PROVE Fenced(b)'
    <3>0. Fenced(b)
      BY <2>5 DEF Denied
    <3>1. CASE b = a
      BY <2>2, <3>1 DEF Fenced, Revoking
    <3>2. CASE b # a
      <4>1. caller[b].pc # "bury"
        BY <1>2, <3>0 DEF Fenced
      <4> QED BY <1>0, <2>2, <3>0, <3>2, <4>1 DEF Fenced, Revoking, Alone
    <3> QED BY <3>1, <3>2
  <2> QED BY <1>0, <2>1, <2>4, <2>5 DEF Denied
<1> QED BY <1>1, <1>2

\* A tick takes as much from a call as from the cache.
LEMMA DeniedTick ==
  ASSUME SessionTypeOK, Denied, Tick
  PROVE  Denied'
<1>1. /\ \A b \in Callers : /\ caller'[b].pc = caller[b].pc /\ caller'[b].version = caller[b].version
                            /\ caller'[b].left = Less(caller[b].left)
      /\ UNCHANGED session
  BY DEF Tick, SessionTypeOK, Caller
<1>2. \/ cache.left <= 1 /\ cache'.status = "none" /\ cache'.version = 0 /\ cache'.left = 0
      \/ /\ ~(cache.left <= 1) /\ cache'.status = cache.status /\ cache'.version = cache.version
         /\ cache'.left = cache.left - 1
  BY SessionNumbers DEF Tick, NoCache, Stored, SessionTypeOK, Cache
<1>3. Behind'
  <2>1. cache'.version <= session.version
    BY <1>2, SessionNumbers DEF Denied, Behind
  <2>2. cache'.status = "none" => cache'.left = 0
    <3>1. CASE cache.left <= 1
      BY <1>2, <3>1
    <3>2. CASE ~(cache.left <= 1)
      <4>1. cache.status # "none"
        BY <3>2 DEF Denied, Behind
      <4> QED BY <1>2, <3>2, <4>1
    <3> QED BY <3>1, <3>2
  <2> QED BY <1>1, <2>1, <2>2 DEF Denied, Behind
<1>4. ASSUME NEW b \in Callers, caller[b].left <= cache.left PROVE caller'[b].left <= cache'.left
  <2>1. PICK k \in Nat, n \in Nat : k = caller[b].left /\ n = cache.left
    BY SessionNumbers
  <2>2. k <= n /\ caller'[b].left = IF k = 0 THEN 0 ELSE k - 1
    BY <1>1, <1>4, <2>1 DEF Less
  <2>3. CASE n <= 1
    BY <1>2, <2>1, <2>2, <2>3
  <2>4. CASE ~(n <= 1)
    <3>1. cache'.left = n - 1
      BY <1>2, <2>1, <2>4
    <3> QED BY <2>2, <2>4, <3>1
  <2> QED BY <2>3, <2>4
<1>5. ASSUME trouble' = "none"
      PROVE  trouble = "none" /\ \A b \in Callers : Revoking(b) => ~(caller[b].left <= 1)
  BY <1>5 DEF Tick
<1>6. ASSUME trouble' = "none", NEW b \in Callers PROVE Fenced(b)'
  <2>1. Fenced(b)
    BY <1>5, <1>6 DEF Denied
  <2>2. Revoking(b)' <=> Revoking(b)
    BY <1>1 DEF Revoking
  <2>3. ASSUME Revoking(b)
        PROVE  caller'[b].left > 0 /\ cache'.status \in Deny /\ caller'[b].left <= cache'.left
    <3>1. caller[b].left > 0 /\ cache.status \in Deny /\ caller[b].left <= cache.left
      BY <2>1, <2>3 DEF Fenced
    <3>2. ~(caller[b].left <= 1)
      BY <1>5, <1>6, <2>3
    <3>3. PICK k \in Nat, n \in Nat : k = caller[b].left /\ n = cache.left
      BY SessionNumbers
    <3>4. k > 1 /\ n > 1
      BY <3>1, <3>2, <3>3
    <3>5. caller'[b].left > 0
      BY <1>1, <3>3, <3>4 DEF Less
    <3>6. cache'.status = cache.status
      BY <1>2, <3>3, <3>4
    <3> QED BY <1>4, <3>1, <3>5, <3>6
  <2> QED BY <1>1, <2>1, <2>2, <2>3 DEF Fenced
<1>7. ASSUME Buried PROVE Buried'
  <2>1. cache'.status # "active"
    BY <1>2, <1>7 DEF Buried
  <2>2. ASSUME NEW b \in Callers PROVE Outlived(b)'
    BY <1>1, <1>4, <1>7 DEF Buried, Outlived
  <2> QED BY <2>1, <2>2 DEF Buried
<1> QED BY <1>1, <1>3, <1>5, <1>6, <1>7 DEF Denied

\* Every step.
LEMMA DeniedStep == SessionTypeOK /\ Denied /\ [SessionNext]_sessionVars => Denied'
<1> SUFFICES ASSUME SessionTypeOK, Denied, [SessionNext]_sessionVars PROVE Denied'
  OBVIOUS
<1>0. SessionTypeOK'
  BY TypeStep
<1>1. CASE UNCHANGED sessionVars
  BY <1>1 DEF sessionVars, Denied, Behind, Fenced, Revoking, Buried, Outlived
<1>2. CASE Tick
  BY <1>2, DeniedTick
<1>3. ASSUME NEW a \in Callers, Step(a) PROVE Denied'
  <2>n. /\ session.version \in Nat /\ caller[a].version <= session.version
        /\ session.version <= session.version /\ 0 <= session.version
    BY SessionNumbers DEF Denied, Behind
  <2>1. CASE Get(a)
    BY <2>1, <2>n, HaveParts, DeniedQuiet DEF Get, Alone
  <2>2. CASE GetLoad(a)
    <3>1. /\ Alone(a) /\ caller'[a].version = session.version
          /\ caller'[a].pc = (IF session.status = "active" THEN "fill" ELSE "deny")
      BY <2>2, HaveParts DEF GetLoad, Alone
    <3>2. /\ caller[a].pc # "bury" /\ UNCHANGED <<session, cache, trouble>>
      BY <2>2 DEF GetLoad
    <3>3. /\ caller'[a].pc \notin {"revoke", "bury"}
          /\ caller'[a].pc = "fill" => session.status = "active"
      BY <3>1
    <3> QED BY <2>n, <3>1, <3>2, <3>3, DeniedQuiet
  <2>3. CASE Fill(a)
    BY <2>3, DeniedFill
  <2>4. CASE GetDeny(a)
    <3>1. /\ Alone(a) /\ caller'[a].pc = "idle" /\ caller'[a].version = caller[a].version
          /\ UNCHANGED <<session, trouble>> /\ caller[a].pc = "deny"
      BY <2>4, GoParts DEF GetDeny, Alone
    <3>2. CASE UNCHANGED cache
      BY <2>n, <3>1, <3>2, DeniedQuiet
    <3>3. CASE cache' = Stored("revoked", caller[a].version, TTL)
      <4>1. cache'.status \in Deny /\ cache'.version <= session.version /\ cache'.left = TTL
        BY <2>n, <3>3 DEF Stored, Deny
      <4> QED BY <1>0, <2>n, <3>1, <4>1, DeniedWrite
    <3> QED BY <2>4, <3>2, <3>3 DEF GetDeny
  <2>5. CASE \E gen \in 1..MaxGen : Refresh(a, gen)
    BY <2>5, <2>n, HaveParts, DeniedQuiet DEF Refresh, Alone
  <2>6. CASE RefreshRead(a)
    <3>0. caller[a].pc = "read" /\ UNCHANGED <<session, cache, trouble>>
      BY <2>6 DEF RefreshRead
    <3>1. /\ Alone(a) /\ caller'[a].version <= session.version
          /\ caller'[a].pc \in {"swap", "fence", "idle"}
      BY <2>6, <2>n, GoParts, HaveParts DEF RefreshRead, Alone
    <3> QED BY <3>0, <3>1, DeniedQuiet
  <2>7. CASE Swap(a)
    <3>0. caller[a].pc = "swap" /\ UNCHANGED <<cache, trouble>>
      BY <2>7 DEF Swap
    <3>1. session'.version = session.version /\ session'.status = session.status
      BY <2>7, SessionNumbers DEF Swap, SessionRow
    <3>2. /\ Alone(a) /\ caller'[a].version <= session.version
          /\ caller'[a].pc \in {"fill", "read", "idle"}
          /\ caller'[a].pc = "fill" => session.status = "active"
      BY <2>7, <2>n, GoParts, HaveParts DEF Swap, Alone
    <3> QED BY <3>0, <3>1, <3>2, DeniedQuiet
  <2>8. CASE RevokeRead(a)
    BY <2>8, <2>n, HaveParts, DeniedQuiet DEF RevokeRead, Alone
  <2>9. CASE Fence(a)
    <3>0. caller[a].pc = "fence" /\ UNCHANGED <<session, trouble>>
      BY <2>9 DEF Fence
    <3>1. /\ Alone(a) /\ caller'[a].version = caller[a].version
          /\ \/ caller'[a].pc = "idle" /\ cache' \in {cache, Stored("revoking", caller[a].version, TTL)}
             \/ /\ caller'[a].pc = "revoke" /\ caller'[a].left = TTL
                /\ cache' = Stored("revoking", caller[a].version, TTL)
      BY <2>9, GoParts, HaveParts DEF Fence, Alone
    <3>2. CASE UNCHANGED cache /\ caller'[a].pc = "idle"
      BY <2>n, <3>0, <3>1, <3>2, DeniedQuiet
    <3>3. CASE cache' = Stored("revoking", caller[a].version, TTL)
      <4>1. cache'.status \in Deny /\ cache'.version <= session.version /\ cache'.left = TTL
        BY <2>n, <3>3 DEF Stored, Deny
      <4> QED BY <1>0, <2>n, <3>0, <3>1, <4>1, DeniedWrite
    <3> QED BY <3>1, <3>2, <3>3
  <2>10. CASE \E v \in {caller[a].version, session.version} : Revoke(a, v)
    BY <2>10, DeniedRevoke
  <2>11. CASE Bury(a)
    BY <1>0, <2>11, DeniedBury
  <2>12. CASE Advance(a)
    BY <2>12, <2>n, HaveParts, DeniedQuiet DEF Advance, Alone
  <2>13. CASE AdvanceRow(a)
    BY <2>13, DeniedAdvance
  <2>14. CASE CallStops(a)
    <3>1. /\ Alone(a) /\ caller'[a].pc = "idle" /\ caller'[a].version = caller[a].version
          /\ UNCHANGED <<session, cache>>
      BY <2>14, GoParts DEF CallStops, Alone
    <3>2. CASE caller[a].pc = "bury"
      <4>1. trouble' # "none"
        BY <2>14, <3>2 DEF CallStops
      <4> QED BY <3>1, <4>1 DEF Denied, Behind, Alone
    <3>3. CASE caller[a].pc # "bury"
      BY <2>14, <2>n, <3>1, <3>3, DeniedQuiet DEF CallStops
    <3> QED BY <3>2, <3>3
  <2> QED BY <1>3, <2>1, <2>2, <2>3, <2>4, <2>5, <2>6, <2>7, <2>8, <2>9, <2>10, <2>11, <2>12, <2>13, <2>14 DEF Step, RevokeOne, RevokeLocked
<1> QED BY <1>1, <1>2, <1>3 DEF SessionNext

\* At the start nothing is revoked.
LEMMA InitDenied == SessionInit => Denied
<1> SUFFICES ASSUME SessionInit PROVE Denied
  OBVIOUS
<1>1. /\ session.status = "active" /\ session.version = 1
      /\ cache.version = 0 /\ cache.left = 0
  BY DEF SessionInit, NoCache, Stored
<1>2. \A a \in Callers : caller[a].version \in {0, 1} /\ caller[a].pc \in {"fill", "idle"}
  <2>1. PICK creator \in Callers, pc \in {"fill", "idle"} :
          caller = [a \in Callers |->
                     IF a = creator THEN [pc |-> pc, version |-> 1, gen |-> 0, left |-> TTL] ELSE NoCall]
    BY DEF SessionInit
  <2>2. NoCall.version = 0 /\ NoCall.pc = "idle"
    BY DEF NoCall
  <2> QED BY <2>1, <2>2
<1> QED BY <1>1, <1>2 DEF Denied, Behind, Fenced, Revoking

\* A revoked session is not let in from the cache, whatever fills are under way
\* and whoever stops, as long as no revocation has lost its tombstone, outlasted
\* its fence or been overtaken (RevokeUserSession, writeUserSessionCache).
THEOREM RevokedStaysDenied == SessionSpec => []RevokedIsDenied
<1>1. SessionInit => Denied
  BY InitDenied
<1>2. SessionTypeOK /\ Denied /\ [SessionNext]_sessionVars => Denied'
  BY DeniedStep
<1>3. Denied => RevokedIsDenied
  BY DEF Denied, Fenced, Revoking, Buried, Deny, RevokedIsDenied
<1> QED BY <1>1, <1>2, <1>3, TypeCorrect, PTL DEF SessionSpec

=============================================================================
