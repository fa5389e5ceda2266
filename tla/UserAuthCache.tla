---------------------------- MODULE UserAuthCache ----------------------------
(***************************************************************************)
(* The authentication version of one user and its three Redis keys         *)
(* (model/user_auth_cache.go, model/user_cache.go): the hash, the pending  *)
(* fence that is published before a restrictive transaction, and the       *)
(* committed floor.  Bumps are the transactions that raise the version;    *)
(* readers are calls of GetUserCache.  One step per statement or script.   *)
(***************************************************************************)
EXTENDS Integers

CONSTANTS
  Readers,     \* calls of GetUserCache
  Bumpers,     \* calls that raise the version
  RowLocks,    \* FALSE on SQLite, where lockForUpdate does nothing
  HashTTL,     \* TTL of the hash
  FenceTTL,    \* userAuthFenceTTLSeconds: HashTTL + max(HashTTL, 60)
  MaxDelay,    \* longest a call takes
  MaxAuthVersion,  \* the version from which on no transaction begins
  MaxTroubles  \* bound on Redis errors, rollbacks and crashes

ASSUME UserAuthCacheAssumption ==
  /\ RowLocks \in BOOLEAN
  /\ HashTTL \in Nat \ {0} /\ FenceTTL \in Nat /\ MaxDelay \in Nat
  /\ MaxAuthVersion \in Nat \ {0} /\ MaxTroubles \in Nat
  /\ "nobody" \notin Bumpers

\* A fence outlives every hash filled before it, and a call that was under way.
ASSUME FenceAssumption == HashTTL + MaxDelay <= FenceTTL /\ 2 * MaxDelay < FenceTTL

VARIABLES
  version,   \* users.auth_version, committed
  writer,    \* the transaction that has the row's lock
  hash,      \* the hash: version and ticks left, 0 for none
  fence,     \* the pending fence likewise
  floor,     \* the committed floor, 0 for none
  reader,
  bump,
  troubles   \* troubles so far

authVars == <<version, writer, hash, fence, floor, reader, bump, troubles>>

Key == [version: Nat, left: Nat]

NoEntry == [version |-> 0, left |-> 0]

\* since: the version that was committed when the call began.
Reader == [pc: {"idle", "hash", "check", "row", "floor", "fill", "returned", "denied"},
           version: Nat, since: Nat, age: Nat]

Bump == [pc: {"idle", "fence", "update", "commit", "reread", "publish"},
         version: Nat, age: Nat]

AuthTypeOK ==
  /\ version \in Nat
  /\ writer \in Bumpers \cup {"nobody"}
  /\ hash \in Key /\ fence \in Key /\ floor \in Nat
  /\ reader \in [Readers -> Reader]
  /\ bump \in [Bumpers -> Bump]
  /\ troubles \in 0..MaxTroubles

NoReader == [pc |-> "idle", version |-> 0, since |-> 0, age |-> 0]

NoBump == [pc |-> "idle", version |-> 0, age |-> 0]

AuthTrouble == troubles < MaxTroubles /\ troubles' = troubles + 1

Calm == troubles' = troubles

\* getUserAuthVersionFloor
Floor == IF fence.version > floor THEN fence.version ELSE floor

Read(r, change) == reader' = [reader EXCEPT ![r] = change]

\* The call ends, with the version it found or denied.
ReadEnd(r, v) ==
  Read(r, [NoReader EXCEPT !.pc = "returned", !.version = v, !.since = reader[r].since])

Denied(r) == Read(r, [NoReader EXCEPT !.pc = "denied"])

Proceed(b, change) == bump' = [bump EXCEPT ![b] = change]

-----------------------------------------------------------------------------
(* writeUserCache *)

\* Mutant: the script looks at the hash and the floor only.
Refused_NoFence(v) == floor > v \/ hash.version > v

\* The scripts reject what is older than a fence, the floor or the hash.
Refused(v) == fence.version > v \/ floor > v \/ hash.version > v

\* The script's effect otherwise; without quota it creates no hash.
WriteCache(v, includeQuota) ==
  /\ floor' = IF floor < v THEN v ELSE floor
  /\ fence' = IF fence.version > 0 /\ fence.version <= v THEN NoEntry ELSE fence
  /\ hash' = IF includeQuota \/ hash # NoEntry THEN [version |-> v, left |-> HashTTL] ELSE hash

-----------------------------------------------------------------------------
(* GetUserCache *)

\* A call begins; what it finds in the end must not be older than this.
ReadStart(r) ==
  /\ reader[r].pc \in {"idle", "returned", "denied"}
  /\ Read(r, [NoReader EXCEPT !.pc = "hash", !.since = version])
  /\ Calm /\ UNCHANGED <<version, writer, hash, fence, floor, bump>>

\* The hash is read; a miss or an error leads to the row.
ReadHash(r) ==
  /\ reader[r].pc = "hash"
  /\ \/ hash # NoEntry /\ Calm /\ Read(r, [reader[r] EXCEPT !.pc = "check", !.version = hash.version])
     \/ hash = NoEntry /\ Calm /\ Read(r, [reader[r] EXCEPT !.pc = "row"])
     \/ AuthTrouble /\ Read(r, [reader[r] EXCEPT !.pc = "row"])
  /\ UNCHANGED <<version, writer, hash, fence, floor, bump>>

\* A hash below the floor, or an error, leads to the row as well.
CheckFloor(r) ==
  /\ reader[r].pc = "check"
  /\ \/ Floor <= reader[r].version /\ Calm /\ ReadEnd(r, reader[r].version)
     \/ /\ (Floor > reader[r].version /\ Calm) \/ AuthTrouble
        /\ Read(r, [reader[r] EXCEPT !.pc = "row", !.version = 0])
  /\ UNCHANGED <<version, writer, hash, fence, floor, bump>>

ReadRow(r) ==
  /\ reader[r].pc = "row"
  /\ Read(r, [reader[r] EXCEPT !.pc = "floor", !.version = version])
  /\ Calm /\ UNCHANGED <<version, writer, hash, fence, floor, bump>>

\* A fence above the row is the one thing that denies the user; an error does
\* not.
RowFloor(r) ==
  /\ reader[r].pc = "floor"
  /\ \/ Floor > reader[r].version /\ Calm /\ Denied(r)
     \/ Floor <= reader[r].version /\ Calm /\ Read(r, [reader[r] EXCEPT !.pc = "fill"])
     \/ AuthTrouble /\ Read(r, [reader[r] EXCEPT !.pc = "fill"])
  /\ UNCHANGED <<version, writer, hash, fence, floor, bump>>

\* populateUserCache; only a refusal denies the user.
FillHash(r) ==
  LET v == reader[r].version
  IN /\ reader[r].pc = "fill"
     /\ \/ /\ Refused(v) /\ Calm
           /\ Denied(r)
           /\ UNCHANGED <<hash, fence, floor>>
        \/ /\ ~Refused(v) /\ Calm
           /\ WriteCache(v, TRUE)
           /\ ReadEnd(r, v)
        \/ /\ AuthTrouble
           /\ ReadEnd(r, v)
           /\ UNCHANGED <<hash, fence, floor>>
     /\ UNCHANGED <<version, writer, bump>>

-----------------------------------------------------------------------------
(* IncrementUserAuthVersionWithTx, and the publication after the commit.   *)

\* The transaction locks and reads the row.
BumpRead(b) ==
  /\ bump[b].pc = "idle" /\ version < MaxAuthVersion
  /\ RowLocks => writer = "nobody"
  /\ writer' = IF RowLocks THEN b ELSE writer
  /\ Proceed(b, [pc |-> "fence", version |-> version + 1, age |-> 0])
  /\ Calm /\ UNCHANGED <<version, hash, fence, floor, reader>>

\* The transaction ends without effect.
Rollback(b) ==
  /\ writer' = IF writer = b THEN "nobody" ELSE writer
  /\ Proceed(b, NoBump)

\* Mutant: a fence is set without a TTL.
FenceFor_NoExpiry(v) == IF fence.version <= v THEN [version |-> v, left |-> 0] ELSE fence

\* A higher fence stays as it is; an equal one is prolonged.
FenceFor(v) == IF fence.version <= v THEN [version |-> v, left |-> FenceTTL] ELSE fence

\* SetUserAuthVersionFence; an error ends the transaction.
BumpFence(b) ==
  /\ bump[b].pc = "fence"
  /\ \/ /\ fence' = FenceFor(bump[b].version)
        /\ Proceed(b, [bump[b] EXCEPT !.pc = "update"])
        /\ Calm /\ UNCHANGED writer
     \/ AuthTrouble /\ Rollback(b) /\ UNCHANGED fence
  /\ UNCHANGED <<version, hash, floor, reader>>

\* UPDATE ... WHERE auth_version = the one read: without locks another
\* transaction may have been first, then the row is read again and a new fence
\* set; the third conflict ends the transaction, which one it is is not counted.
BumpUpdate(b) ==
  /\ bump[b].pc = "update" /\ writer \in {b, "nobody"}
  /\ \/ /\ version = bump[b].version - 1 /\ Calm
        /\ writer' = b
        /\ Proceed(b, [bump[b] EXCEPT !.pc = "commit"])
     \/ /\ version # bump[b].version - 1 /\ Calm
        /\ Proceed(b, [bump[b] EXCEPT !.pc = "fence", !.version = version + 1])
        /\ UNCHANGED writer
     \/ /\ (version # bump[b].version - 1 /\ Calm) \/ AuthTrouble
        /\ Rollback(b)
  /\ UNCHANGED <<version, hash, fence, floor, reader>>

\* The surrounding transaction commits, or fails on a later statement.
BumpCommit(b) ==
  /\ bump[b].pc = "commit"
  /\ \/ /\ version' = bump[b].version
        /\ writer' = "nobody"
        /\ Proceed(b, [bump[b] EXCEPT !.pc = "reread"])
        /\ Calm
     \/ AuthTrouble /\ Rollback(b) /\ UNCHANGED version
  /\ UNCHANGED <<hash, fence, floor, reader>>

\* PublishUserAuthCache reads the row again.
PublishRead(b) ==
  /\ bump[b].pc = "reread"
  /\ \/ Calm /\ Proceed(b, [bump[b] EXCEPT !.pc = "publish", !.version = version])
     \/ AuthTrouble /\ Proceed(b, NoBump)
  /\ UNCHANGED <<version, writer, hash, fence, floor, reader>>

\* updateUserCache; a refusal or an error is the caller's only news of it.
Publish(b) ==
  LET v == bump[b].version
  IN /\ bump[b].pc = "publish" /\ Proceed(b, NoBump)
     /\ \/ ~Refused(v) /\ Calm /\ WriteCache(v, FALSE)
        \/ /\ (Refused(v) /\ Calm) \/ AuthTrouble
           /\ UNCHANGED <<hash, fence, floor>>
     /\ UNCHANGED <<version, writer, reader>>

\* publishCommittedUserAuthVersion, used when the user is deleted.
PublishCommitted(b) ==
  LET v == bump[b].version
  IN /\ bump[b].pc = "reread" /\ Proceed(b, NoBump)
     /\ \/ /\ Calm
           /\ floor' = IF floor < v THEN v ELSE floor
           /\ fence' = IF fence.version > 0 /\ fence.version <= v THEN NoEntry ELSE fence
        \/ AuthTrouble /\ UNCHANGED <<fence, floor>>
     /\ UNCHANGED <<version, writer, hash, reader>>

\* The node of a transaction stops; an open transaction is rolled back.
BumpCrash(b) ==
  /\ bump[b].pc # "idle" /\ AuthTrouble
  /\ Rollback(b)
  /\ UNCHANGED <<version, hash, fence, floor, reader>>

-----------------------------------------------------------------------------
Waiting(pc) == pc \in {"idle", "returned", "denied"}

\* A key whose TTL has ended is gone.
Older(k) == IF k.left = 1 THEN NoEntry ELSE IF k.left > 0 THEN [k EXCEPT !.left = @ - 1] ELSE k

AuthTick ==
  /\ \A r \in Readers : Waiting(reader[r].pc) \/ reader[r].age < MaxDelay
  /\ \A b \in Bumpers : Waiting(bump[b].pc) \/ bump[b].age < MaxDelay
  /\ hash' = Older(hash) /\ fence' = Older(fence)
  /\ reader' = [r \in Readers |-> IF Waiting(reader[r].pc) THEN reader[r]
                                  ELSE [reader[r] EXCEPT !.age = @ + 1]]
  /\ bump' = [b \in Bumpers |-> IF Waiting(bump[b].pc) THEN bump[b]
                                ELSE [bump[b] EXCEPT !.age = @ + 1]]
  /\ Calm /\ UNCHANGED <<version, writer, floor>>

AuthInit ==
  /\ version = 1 /\ writer = "nobody"
  /\ hash = NoEntry /\ fence = NoEntry /\ floor = 0
  /\ reader = [r \in Readers |-> NoReader]
  /\ bump = [b \in Bumpers |-> NoBump]
  /\ troubles = 0

ReadStep(r) ==
  ReadHash(r) \/ CheckFloor(r) \/ ReadRow(r) \/ RowFloor(r) \/ FillHash(r)

BumpStep(b) ==
  \/ BumpFence(b) \/ BumpUpdate(b) \/ BumpCommit(b)
  \/ PublishRead(b) \/ Publish(b) \/ PublishCommitted(b)

AuthNext ==
  \/ \E r \in Readers : ReadStart(r) \/ ReadStep(r)
  \/ \E b \in Bumpers : BumpRead(b) \/ BumpStep(b) \/ BumpCrash(b)
  \/ AuthTick

\* Time passes, calls that have begun go on and users come back.
AuthFairness ==
  /\ WF_authVars(AuthTick)
  /\ \A r \in Readers : WF_authVars(ReadStart(r)) /\ WF_authVars(ReadStep(r))
  /\ \A b \in Bumpers : WF_authVars(BumpStep(b))

AuthSpec == AuthInit /\ [][AuthNext]_authVars /\ AuthFairness

-----------------------------------------------------------------------------
(* Properties *)

\* A request that begins after a restrictive change was committed never gets
\* the user as it was before, although the publication may fail or never come
\* and old fills are still under way ("without allowing a stale snapshot to
\* re-authorize the user").
VersionFenced == \A r \in Readers : reader[r].pc = "returned" => reader[r].version >= reader[r].since

\* A user is never locked out for good: a fence of a transaction that was
\* rolled back goes away ("a rolled-back transaction heals").
DenialEnds == \A r \in Readers : []<>(reader[r].pc = "returned")

=============================================================================
