---------------------------- MODULE UserSession ----------------------------
(***************************************************************************)
(* One login session: its row in the database, its snapshot in Redis and   *)
(* the calls of model/user_session.go at work on them, one step for every  *)
(* statement and every Redis command.  Sessions do not affect one another. *)
(*                                                                         *)
(* Time is counted in ticks, TTL of which make up userCacheTTLSeconds.     *)
(* Deadlines are the ticks LEFT until then.  Refresh secrets form a chain  *)
(* (deriveNextRefreshSecret), so a secret is its number in the chain.      *)
(***************************************************************************)
EXTENDS Naturals

CONSTANTS
  Callers,     \* calls that may be under way at the same time
  TTL,         \* lifetime of a cached snapshot, in ticks
  MaxVersion,  \* bound on the security changes the session survives
  MaxGen,      \* bound on the refreshes
  SessionFaults  \* what may go wrong, a subset of SessionFaultKind

SessionFaultKind == {"redis", "crash"}

ASSUME SessionAssumption ==
  /\ TTL \in Nat \ {0}
  /\ MaxVersion \in Nat /\ MaxGen \in Nat
  /\ SessionFaults \subseteq SessionFaultKind

VARIABLES
  session, \* the user_sessions row
  cache,   \* the Redis hash of the session
  caller,  \* the calls
  since,   \* ticks since the row was last revoked or advanced, at most TTL
  trouble  \* history: what befell a revocation before its tombstone was written

sessionVars == <<session, cache, caller, since, trouble>>

\* "overtaken": the row had moved on from the version the tombstone was for.
\* "fault": the tombstone was lost, or came after the fence had expired.
Trouble == {"none", "overtaken", "fault"}

Deny == {"revoking", "revoked"}

SessionRow == [status: {"active", "revoked"}, version: Nat, gen: Nat]

Cache == [status: {"none", "active"} \cup Deny, version: Nat, left: 0..TTL]

\* version, gen and left belong to the snapshot, the secret and the deadline (of
\* a fence: the time it still stands) that a call has in hand.
Caller == [pc: {"idle", "load", "fill", "deny", "read", "swap", "fence", "revoke", "bury",
                "advance"},
           version: Nat, gen: Nat, left: 0..TTL]

SessionTypeOK ==
  /\ session \in SessionRow
  /\ cache \in Cache
  /\ caller \in [Callers -> Caller]
  /\ since \in 0..TTL
  /\ trouble \in Trouble

Go(a, pc) == caller' = [caller EXCEPT ![a].pc = pc]

\* The call goes on with this snapshot, secret and deadline.
Have(a, pc, version, gen, left) ==
  caller' = [caller EXCEPT ![a] = [pc |-> pc, version |-> version, gen |-> gen, left |-> left]]

-----------------------------------------------------------------------------
(* writeUserSessionCache: a Lua script, so one step.                       *)

\* Mutant: an active snapshot replaces a deny tombstone.
ActiveAccepted_OverDeny(version) == cache.version <= version

ActiveAccepted(version) == cache.status \notin Deny /\ cache.version <= version

\* A deny snapshot only yields to a newer version.
DenyAccepted(version) == cache.version <= version

Stored(status, version, left) == [status |-> status, version |-> version, left |-> left]

NoCache == Stored("none", 0, 0)

\* Mutant: a delayed fill gets the full lifetime.
Fill_FullTTL(a) ==
  /\ caller[a].pc = "fill"
  /\ \/ /\ ActiveAccepted(caller[a].version) /\ caller[a].left > 0
        /\ cache' = Stored("active", caller[a].version, TTL)
     \/ ~(ActiveAccepted(caller[a].version) /\ caller[a].left > 0) /\ UNCHANGED cache
  /\ Go(a, "idle")
  /\ UNCHANGED <<session, since, trouble>>

\* An active snapshot is stored until the deadline taken before the row was
\* read.  Past the deadline the call does not write, or its key expires at once.
Fill(a) ==
  LET ok == ActiveAccepted(caller[a].version)
  IN /\ caller[a].pc = "fill"
     /\ \/ ok /\ caller[a].left > 0 /\ cache' = Stored("active", caller[a].version, caller[a].left)
        \/ ok /\ caller[a].left = 0 /\ cache' \in {cache, NoCache}
        \/ (~ok \/ "redis" \in SessionFaults) /\ UNCHANGED cache
     /\ Go(a, "idle")
     /\ UNCHANGED <<session, since, trouble>>

-----------------------------------------------------------------------------
(* GetUserSessionCached.                                                   *)

\* A hit answers the call; a miss, or Redis failing, sends it to the database.
Get(a) ==
  /\ caller[a].pc = "idle"
  /\ cache.status = "none" \/ "redis" \in SessionFaults
  /\ Have(a, "load", 0, 0, TTL)
  /\ UNCHANGED <<session, cache, since, trouble>>

GetLoad(a) ==
  /\ caller[a].pc = "load"
  /\ Have(a, IF session.status = "active" THEN "fill" ELSE "deny", session.version, 0, caller[a].left)
  /\ UNCHANGED <<session, cache, since, trouble>>

\* The row is not active: that is cached too, an error is ignored.
GetDeny(a) ==
  /\ caller[a].pc = "deny"
  /\ \/ DenyAccepted(caller[a].version) /\ cache' = Stored("revoked", caller[a].version, TTL)
     \/ (~DenyAccepted(caller[a].version) \/ "redis" \in SessionFaults) /\ UNCHANGED cache
  /\ Go(a, "idle")
  /\ UNCHANGED <<session, since, trouble>>

-----------------------------------------------------------------------------
(* RotateUserSessionRefresh.                                               *)

\* A client presents any secret it was ever given; RefreshLoginSession found the
\* session active any time before.  The deadline is taken first.
Refresh(a, gen) ==
  /\ caller[a].pc = "idle" /\ gen <= session.gen /\ gen < MaxGen
  /\ Have(a, "read", 0, gen, TTL)
  /\ UNCHANGED <<session, cache, since, trouble>>

\* The current secret is to be swapped.  The previous one, past its grace, gives
\* the session away; within it, or with any other secret, nothing happens.
RefreshRead(a) ==
  LET gen == caller[a].gen
  IN /\ caller[a].pc = "read"
     /\ \/ session.status = "active" /\ gen = session.gen /\ Have(a, "swap", session.version, gen, caller[a].left)
        \/ session.status = "active" /\ gen + 1 = session.gen /\ Have(a, "fence", session.version, 0, 0)
        \/ (session.status # "active" \/ gen # session.gen) /\ Go(a, "idle")
     /\ UNCHANGED <<session, cache, since, trouble>>

\* Mutant: the update does not compare the secret it replaces.
Swap_NoCompare(a) ==
  /\ caller[a].pc = "swap"
  /\ \/ session.status = "active" /\ session' = [session EXCEPT !.gen = caller[a].gen + 1] /\ Go(a, "fill")
     \/ session.status # "active" /\ UNCHANGED session /\ Go(a, "idle")
  /\ UNCHANGED <<cache, since, trouble>>

\* The compare-and-swap.  The loser starts over, or has done so often enough.
Swap(a) ==
  LET ok == session.status = "active" /\ session.gen = caller[a].gen
  IN /\ caller[a].pc = "swap"
     /\ \/ ok /\ session' = [session EXCEPT !.gen = @ + 1] /\ Go(a, "fill")
        \/ ~ok /\ UNCHANGED session /\ Have(a, "read", 0, caller[a].gen, TTL)
        \/ ~ok /\ UNCHANGED session /\ Go(a, "idle")
     /\ UNCHANGED <<cache, since, trouble>>

-----------------------------------------------------------------------------
(* RevokeUserSession, RevokeUserSessionByRefreshHash, revokeUserSessions   *)
(* and the reuse branch of RotateUserSessionRefresh.                       *)

RevokeRead(a) ==
  /\ caller[a].pc = "idle" /\ session.status = "active"
  /\ Have(a, "fence", session.version, 0, 0)
  /\ UNCHANGED <<session, cache, since, trouble>>

\* The deny fence precedes the update.  A call that gets an error from Redis
\* revokes nothing, although the fence may stand.
Fence(a) ==
  LET ok == DenyAccepted(caller[a].version)
  IN /\ caller[a].pc = "fence"
     /\ \/ /\ ok /\ cache' = Stored("revoking", caller[a].version, TTL)
           /\ Have(a, "revoke", caller[a].version, 0, TTL)
        \/ ~ok /\ UNCHANGED cache /\ Go(a, "idle")
        \/ /\ "redis" \in SessionFaults /\ Go(a, "idle")
           /\ cache' \in {cache} \cup (IF ok THEN {Stored("revoking", caller[a].version, TTL)} ELSE {})
     /\ UNCHANGED <<session, since, trouble>>

\* The transaction; version is what the tombstone will say.
Revoke(a, version) ==
  /\ caller[a].pc = "revoke"
  /\ \/ /\ session.status = "active"
        /\ session' = [session EXCEPT !.status = "revoked"] /\ since' = 0
        /\ Have(a, "bury", version, 0, caller[a].left)
        /\ trouble' = IF version # session.version /\ trouble = "none" THEN "overtaken" ELSE trouble
     \/ session.status # "active" /\ Go(a, "idle") /\ UNCHANGED <<session, since, trouble>>
  /\ UNCHANGED cache

\* RevokeUserSession and the reuse branch keep the version they read first.
RevokeOne(a) == Revoke(a, caller[a].version)

\* revokeUserSessions and RevokeUserSessionByRefreshHash keep the row they locked.
RevokeLocked(a) == Revoke(a, session.version)

\* Mutant: no tombstone after the update.
Bury_Skipped(a) ==
  /\ caller[a].pc = "bury"
  /\ Go(a, "idle")
  /\ UNCHANGED <<session, cache, since, trouble>>

\* The tombstone; a failure is only logged.
Bury(a) ==
  LET ok == DenyAccepted(caller[a].version)
  IN /\ caller[a].pc = "bury"
     /\ \/ ok /\ cache' = Stored("revoked", caller[a].version, TTL) /\ UNCHANGED trouble
        \/ ~ok /\ UNCHANGED <<cache, trouble>>
        \/ "redis" \in SessionFaults /\ trouble' = "fault" /\ UNCHANGED cache
     /\ Go(a, "idle")
     /\ UNCHANGED <<session, since>>

-----------------------------------------------------------------------------
(* AdvanceUserSessionAuthVersion.                                          *)

Advance(a) ==
  /\ caller[a].pc = "idle" /\ session.version < MaxVersion
  /\ Have(a, "advance", session.version, 0, TTL)
  /\ UNCHANGED <<session, cache, since, trouble>>

\* One transaction, for the version the caller was authenticated with.
AdvanceRow(a) ==
  /\ caller[a].pc = "advance"
  /\ IF session.status = "active" /\ session.version = caller[a].version
     THEN /\ session' = [session EXCEPT !.version = @ + 1] /\ since' = 0
          /\ Have(a, "fill", session.version + 1, 0, caller[a].left)
     ELSE UNCHANGED <<session, since>> /\ Go(a, "idle")
  /\ UNCHANGED <<cache, trouble>>

-----------------------------------------------------------------------------
\* A node stops, or a statement fails, and the call is over.
CallStops(a) ==
  /\ "crash" \in SessionFaults /\ caller[a].pc # "idle"
  /\ Go(a, "idle")
  /\ trouble' = IF caller[a].pc = "bury" THEN "fault" ELSE trouble
  /\ UNCHANGED <<session, cache, since>>

Less(n) == IF n = 0 THEN 0 ELSE n - 1

\* A revocation that has its fence behind it but no tombstone yet.
Revoking(a) == caller[a].pc \in {"revoke", "bury"}

\* A tick: snapshots expire, deadlines come closer.
Tick ==
  /\ cache' = IF cache.left <= 1 THEN NoCache ELSE [cache EXCEPT !.left = @ - 1]
  /\ caller' = [a \in Callers |-> [caller[a] EXCEPT !.left = Less(@)]]
  /\ since' = IF since = TTL THEN TTL ELSE since + 1
  /\ trouble' = IF \E a \in Callers : Revoking(a) /\ caller[a].left <= 1 THEN "fault" ELSE trouble
  /\ UNCHANGED session

NoCall == [pc |-> "idle", version |-> 0, gen |-> 0, left |-> 0]

\* The row has been inserted; CreateUserSession has yet to publish it, or did
\* not live to.
SessionInit ==
  /\ session = [status |-> "active", version |-> 1, gen |-> 1]
  /\ cache = NoCache
  /\ \E creator \in Callers : \E pc \in {"fill", "idle"} :
       caller = [a \in Callers |->
                  IF a = creator THEN [pc |-> pc, version |-> 1, gen |-> 0, left |-> TTL] ELSE NoCall]
  /\ since = 0 /\ trouble = "none"

Step(a) ==
  \/ Get(a) \/ GetLoad(a) \/ Fill(a) \/ GetDeny(a)
  \/ \E gen \in 1..MaxGen : Refresh(a, gen)
  \/ RefreshRead(a) \/ Swap(a)
  \/ RevokeRead(a) \/ Fence(a) \/ RevokeOne(a) \/ RevokeLocked(a) \/ Bury(a)
  \/ Advance(a) \/ AdvanceRow(a) \/ CallStops(a)

SessionNext == Tick \/ \E a \in Callers : Step(a)

SessionSpec == SessionInit /\ [][SessionNext]_sessionVars

-----------------------------------------------------------------------------
(* Properties *)

\* A snapshot of this version is not what the row says.
Outdated(version) == session.status # "active" \/ version # session.version

\* However late fills are, whatever Redis loses and whoever stops, a snapshot of
\* a revoked or superseded session is gone from the cache one TTL after the row
\* changed (writeUserSessionCache: "Delayed fills inherit the unspent portion").
StaleIsBounded == since = TTL /\ cache.status = "active" => ~Outdated(cache.version)

\* A revoked session is not let in from the cache, whatever fills are under way,
\* unless a revocation lost its tombstone, took longer than its fence stands, or
\* was overtaken by AdvanceUserSessionAuthVersion.
RevokedIsDenied == session.status = "revoked" /\ trouble = "none" => cache.status # "active"

\* The comment on writeUserSessionCache: "a stale active snapshot cannot outlive a
\* short deny tombstone and reactivate a revoked Session after the tombstone
\* expires".
CannotReactivate == session.status = "revoked" /\ trouble # "fault" => cache.status # "active"

\* The row goes through the life of a session: calls that read it earlier
\* neither bring an exchanged secret back nor revive a revoked session.
Lifecycle == INSTANCE SessionLifecycle WITH session <- session

RowIsSession == Lifecycle!Spec

=============================================================================
