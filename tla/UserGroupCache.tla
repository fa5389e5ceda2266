--------------------------- MODULE UserGroupCache ---------------------------
(***************************************************************************)
(* The group field of a user's Redis hash.  A group changes without a new  *)
(* authentication version, so the fence of UserAuthCache does not order    *)
(* the writes: RefreshUserGroupCache (model/user_cache.go) writes, reads   *)
(* the row again and repairs.  Every call that changes the group           *)
(* (model/subscription.go) refreshes after its commit; fills of the whole  *)
(* hash come in between.                                                   *)
(***************************************************************************)
EXTENDS Integers

CONSTANTS
  GroupCalls,   \* calls that change the group, or only refresh it
  GroupFills,   \* calls that fill or publish the whole hash
  Groups,
  MaxGrants,    \* bound on the calls of a behaviour
  MaxGroupErrors

ASSUME UserGroupCacheAssumption ==
  /\ Groups # {} /\ "none" \notin Groups
  /\ MaxGrants \in Nat /\ MaxGroupErrors \in Nat

VARIABLES
  group,       \* users.group
  cached,      \* the hash's group, and which kind of call wrote it
  refresh,     \* the calls of RefreshUserGroupCache
  filling,     \* what a fill has read, "none" for no fill
  cutShort,    \* history: a refresh ended with an error or its node stopped
  grants,      \* calls so far
  groupErrors  \* errors so far

groupVars == <<group, cached, refresh, filling, cutShort, grants, groupErrors>>

NoHash == [group |-> "none", by |-> "nobody"]

GroupRefresh == [pc: {"idle", "read", "write", "verify", "last"},
                 seen: Groups \cup {"none"}, round: 0..2]

GroupTypeOK ==
  /\ group \in Groups
  /\ cached \in [group: Groups \cup {"none"}, by: {"nobody", "refresh", "fill"}]
  /\ refresh \in [GroupCalls -> GroupRefresh]
  /\ filling \in [GroupFills -> Groups \cup {"none"}]
  /\ cutShort \in BOOLEAN
  /\ grants \in 0..MaxGrants /\ groupErrors \in 0..MaxGroupErrors

NoRefresh == [pc |-> "idle", seen |-> "none", round |-> 0]

GroupFine == UNCHANGED <<groupErrors, cutShort>>

\* An error, or the end of the node, ends a refresh.
CutShort(c) ==
  /\ refresh[c].pc # "idle" /\ groupErrors < MaxGroupErrors
  /\ groupErrors' = groupErrors + 1
  /\ cutShort' = TRUE
  /\ refresh' = [refresh EXCEPT ![c] = NoRefresh]
  /\ UNCHANGED <<group, cached, filling, grants>>

\* A subscription begins, changes or ends: its transaction commits the group.
\* A call that only refreshes leaves it as it is.
Grant(c, g) ==
  /\ refresh[c].pc = "idle" /\ grants < MaxGrants
  /\ group' = g
  /\ grants' = grants + 1
  /\ refresh' = [refresh EXCEPT ![c].pc = "read"]
  /\ GroupFine /\ UNCHANGED <<cached, filling>>

GroupRead(c) ==
  /\ refresh[c].pc = "read"
  /\ refresh' = [refresh EXCEPT ![c] = [@ EXCEPT !.pc = "write", !.seen = group]]
  /\ GroupFine /\ UNCHANGED <<group, cached, filling, grants>>

\* updateUserCacheFieldAtVersion: nothing is written without a hash.
WriteGroup(g) ==
  cached' = IF cached = NoHash THEN NoHash ELSE [group |-> g, by |-> "refresh"]

GroupWrite(c) ==
  /\ refresh[c].pc = "write"
  /\ WriteGroup(refresh[c].seen)
  /\ refresh' = [refresh EXCEPT ![c].pc = "verify"]
  /\ GroupFine /\ UNCHANGED <<group, filling, grants>>

\* Mutant: a refresh is content with its own write.
Agrees_Always(c) == TRUE

\* The row still has the group that was written.
Agrees(c) == group = refresh[c].seen

\* The row is read again after the write; three rounds, then a last write.
GroupVerify(c) ==
  /\ refresh[c].pc = "verify"
  /\ \/ Agrees(c) /\ refresh' = [refresh EXCEPT ![c] = NoRefresh]
     \/ /\ ~Agrees(c)
        /\ refresh' = [refresh EXCEPT ![c] =
             IF @.round < 2 THEN [pc |-> "write", seen |-> group, round |-> @.round + 1]
                            ELSE [@ EXCEPT !.pc = "last", !.seen = group]]
  /\ GroupFine /\ UNCHANGED <<group, cached, filling, grants>>

\* The last write is not verified and the call reports an error.
GroupLast(c) ==
  /\ refresh[c].pc = "last"
  /\ WriteGroup(refresh[c].seen)
  /\ refresh' = [refresh EXCEPT ![c] = NoRefresh]
  /\ cutShort' = TRUE
  /\ UNCHANGED <<group, filling, grants, groupErrors>>

\* A fill reads the row and later writes every field, also over a hash that is
\* there.
FillRead(f) ==
  /\ filling[f] = "none"
  /\ filling' = [filling EXCEPT ![f] = group]
  /\ GroupFine /\ UNCHANGED <<group, cached, refresh, grants>>

FillWrite(f) ==
  /\ filling[f] # "none"
  /\ cached' = [group |-> filling[f], by |-> "fill"]
  /\ filling' = [filling EXCEPT ![f] = "none"]
  /\ GroupFine /\ UNCHANGED <<group, refresh, grants>>

\* The hash expires or is invalidated.
DropHash ==
  /\ cached # NoHash /\ cached' = NoHash
  /\ GroupFine /\ UNCHANGED <<group, refresh, filling, grants>>

GroupInit ==
  /\ group \in Groups
  /\ cached = NoHash
  /\ refresh = [c \in GroupCalls |-> NoRefresh]
  /\ filling = [f \in GroupFills |-> "none"]
  /\ cutShort = FALSE
  /\ grants = 0 /\ groupErrors = 0

GroupNext ==
  \/ \E c \in GroupCalls :
       \/ \E g \in Groups : Grant(c, g)
       \/ GroupRead(c) \/ GroupWrite(c) \/ GroupVerify(c) \/ GroupLast(c)
       \/ CutShort(c)
  \/ \E f \in GroupFills : FillRead(f) \/ FillWrite(f)
  \/ DropHash

GroupSpec == GroupInit /\ [][GroupNext]_groupVars

-----------------------------------------------------------------------------
(* Properties *)

\* When every refresh has ended, none of them early, the group that the last
\* refresh wrote is the row's, although refreshes that read an older group may
\* have written after newer ones ("repair the cache when the authoritative group
\* changed in between").  What a fill wrote may be old until the hash expires.
GroupRepaired ==
  /\ \A c \in GroupCalls : refresh[c].pc = "idle"
  /\ ~cutShort /\ cached.by = "refresh"
  => cached.group = group

=============================================================================
