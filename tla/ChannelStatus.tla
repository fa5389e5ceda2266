---------------------------- MODULE ChannelStatus ----------------------------
(***************************************************************************)
(* The status of one channel with several keys: in the database            *)
(* (model/channel.go, service/channel_mutation.go), where failing requests *)
(* and health tests turn keys and the channel off and on and               *)
(* administrators set it, and in each node's memory                        *)
(* (model/channel_cache.go), from which requests choose.  The row lock is  *)
(* the database's; the polling lock of a node is held from before the      *)
(* transaction until the node's copy is replaced.  A channel with a single *)
(* key behaves like one whose calls name no key.  Keys are chosen at       *)
(* random (MultiKeyModeRandom): a polling choice without a cache saves     *)
(* the whole list of keys again and is not modelled.                       *)
(***************************************************************************)
EXTENDS Naturals

CONSTANTS
  ChannelNodes,
  CachingNodes,      \* those with MemoryCacheEnabled
  ChannelKeys,
  StatusCalls,       \* calls in progress at a time, on any node
  MaxStatusChanges   \* bound on the calls that are begun

ASSUME ChannelStatusAssumption ==
  /\ CachingNodes \subseteq ChannelNodes /\ "none" \notin ChannelNodes
  /\ "" \notin ChannelKeys /\ MaxStatusChanges \in Nat

VARIABLES
  channelRow,     \* status, the keys that are off, and whether the reason
                  \* stored is that all keys are
  abilities,      \* abilities.enabled: what requests choose by without a cache
  statusCall,     \* the calls
  cachedChannel,  \* each node's channelsIDM entry
  listed,         \* whether the channel is in each node's group2model2channels
  syncing,        \* what each node's SyncChannelCache has read
  statusChanges,  \* calls begun
  turnedOff,      \* history: keys turned off and not on since
  ownWrite        \* history: the node that wrote the row last, when no refresh
                  \* of its memory was under way

channelVars == <<channelRow, abilities, statusCall, cachedChannel, listed, syncing,
                 statusChanges, turnedOff, ownWrite>>

Status == {"enabled", "manual", "auto"}

ChannelRow == [status: Status, off: SUBSET ChannelKeys, exhausted: BOOLEAN]

Cached(row) == [status |-> row.status, off |-> row.off]

NoStatusCall == [pc |-> "idle"]

NotSyncing == [pc |-> "idle"]

ChannelTypeOK ==
  /\ channelRow \in ChannelRow /\ abilities \in BOOLEAN
  /\ cachedChannel \in [CachingNodes -> [status: Status, off: SUBSET ChannelKeys]]
  /\ listed \in [CachingNodes -> BOOLEAN]
  /\ turnedOff \subseteq ChannelKeys

Goes(c, pc) == statusCall' = [statusCall EXCEPT ![c].pc = pc]

Ends(c) == statusCall' = [statusCall EXCEPT ![c] = NoStatusCall]

Begins(c, call) ==
  /\ statusCall[c].pc = "idle" /\ statusChanges < MaxStatusChanges
  /\ statusCall' = [statusCall EXCEPT ![c] = call]
  /\ statusChanges' = statusChanges + 1
  /\ UNCHANGED <<channelRow, abilities, cachedChannel, listed, syncing, turnedOff,
                 ownWrite>>

-----------------------------------------------------------------------------
(* Who holds which lock *)

\* Mutant: the row is read without a lock.
RowFree_Always(c) == TRUE

RowFree(c) == \A d \in StatusCalls \ {c} : statusCall[d].pc # "save"

\* Mutant: the polling lock ends with the transaction.
PollingFree_AfterSave(c) ==
  \A d \in StatusCalls \ {c} :
    statusCall[d].pc = "save" => statusCall[d].node # statusCall[c].node

PollingFree(c) ==
  \A d \in StatusCalls \ {c} :
    statusCall[d].pc \in {"save", "cache"} => statusCall[d].node # statusCall[c].node

\* A refresh of the node's memory has read the row and not installed it yet.
Refreshing(n) ==
  \/ n \in CachingNodes /\ syncing[n].pc # "idle"
  \/ \E d \in StatusCalls : statusCall[d].pc = "install" /\ statusCall[d].node = n

\* The row is written on node n, "none" for a write that does not replace the
\* node's copy itself.
Written(n) == ownWrite' = IF n # "none" /\ ~Refreshing(n) THEN n ELSE "none"

-----------------------------------------------------------------------------
(* UpdateChannelStatus *)

Asks(n, key, status) ==
  [pc |-> "lock", node |-> n, key |-> key, status |-> status, tag |-> FALSE]

\* A request that used the key fails, whenever it was sent; or the balance of
\* the whole channel is found empty (DisableChannel).
FailKey(c, n, key) == Begins(c, Asks(n, key, "auto"))

\* handlerMultiKeyUpdate.
KeyUpdate(row, key, status) ==
  LET off == IF status = "enabled" THEN row.off \ {key} ELSE row.off \cup {key}
  IN IF key = "" THEN [row EXCEPT !.status = status, !.exhausted = FALSE]
     ELSE IF off = ChannelKeys THEN [status |-> "auto", off |-> off, exhausted |-> TRUE]
     ELSE [row EXCEPT !.off = off, !.status = IF status = "enabled" THEN status ELSE @]

\* Nothing is done when the channel has the status asked for, unless the reason
\* stored has to be replaced.
LeaveStatus(call) ==
  /\ channelRow.status = call.status
  /\ ~(call.key = "" /\ call.status = "manual" /\ channelRow.exhausted)

\* A call for a tag fails when the status was not changed.
LockStatus(c) ==
  LET call == statusCall[c]
  IN /\ call.pc = "lock" /\ PollingFree(c) /\ RowFree(c)
     /\ \/ LeaveStatus(call) /\ Ends(c)
        \/ /\ ~LeaveStatus(call)
           /\ statusCall' = [statusCall EXCEPT ![c] =
                [pc |-> "save", node |-> call.node, key |-> call.key,
                 status |-> call.status, tag |-> call.tag,
                 row |-> KeyUpdate(channelRow, call.key, call.status)]]
     /\ UNCHANGED <<channelRow, abilities, cachedChannel, listed, syncing, statusChanges,
                    turnedOff, ownWrite>>

StatusChanged(call) == channelRow.status # call.row.status

SavedAbilities(call) ==
  IF StatusChanged(call) THEN call.row.status = "enabled" ELSE abilities

\* Row and abilities are saved in one transaction.
SaveStatus(c) ==
  LET call == statusCall[c]
  IN /\ call.pc = "save"
     /\ channelRow' = call.row
     /\ abilities' = SavedAbilities(call)
     /\ turnedOff' = IF call.key = "" THEN turnedOff
                     ELSE IF call.status = "enabled" THEN turnedOff \ {call.key}
                     ELSE turnedOff \cup {call.key}
     /\ statusCall' = [statusCall EXCEPT ![c] =
          [pc |-> "cache", node |-> call.node, row |-> call.row,
           next |-> IF call.tag /\ StatusChanged(call) THEN "tagStatus" ELSE "idle"]]
     /\ Written(call.node)
     /\ UNCHANGED <<cachedChannel, listed, syncing, statusChanges>>

\* The node's copy, if it keeps one.
Replaced(n, row) ==
  cachedChannel' = [m \in CachingNodes |-> IF m = n THEN Cached(row) ELSE cachedChannel[m]]

\* CacheUpdateChannel: the lists requests choose from are left alone.
CacheStatus(c) ==
  LET call == statusCall[c]
  IN /\ call.pc = "cache"
     /\ Replaced(call.node, call.row)
     /\ statusCall' = [statusCall EXCEPT ![c] =
          IF call.next = "idle" THEN NoStatusCall ELSE [pc |-> call.next, node |-> call.node]]
     /\ UNCHANGED <<channelRow, abilities, listed, syncing, statusChanges, turnedOff,
                    ownWrite>>

\* The transaction fails.
UndoStatus(c) ==
  /\ statusCall[c].pc = "save"
  /\ Ends(c)
  /\ UNCHANGED <<channelRow, abilities, cachedChannel, listed, syncing, statusChanges,
                 turnedOff, ownWrite>>

-----------------------------------------------------------------------------
(* Health tests: the list of channels is read once, each test takes a while *)

TestStart(c, n, key) ==
  /\ channelRow.status # "manual" /\ key \notin channelRow.off
  /\ Begins(c, [pc |-> "test", node |-> n, key |-> key, seen |-> channelRow.status])

\* testChannelForHealthCheck goes by the status it has read.
TestEnd(c) ==
  LET call == statusCall[c]
  IN /\ call.pc = "test"
     /\ \/ /\ call.seen = "auto"
           /\ statusCall' = [statusCall EXCEPT ![c] = Asks(call.node, call.key, "enabled")]
        \/ /\ call.seen = "enabled"
           /\ statusCall' = [statusCall EXCEPT ![c] = Asks(call.node, call.key, "auto")]
        \/ Ends(c)
     /\ UNCHANGED <<channelRow, abilities, cachedChannel, listed, syncing, statusChanges,
                    turnedOff, ownWrite>>

-----------------------------------------------------------------------------
(* Administrators *)

\* updateChannelStatusesTx; then the node's memory is refreshed, or the
\* statements of a tag follow.
SetStatus(c, n, status, next) ==
  /\ RowFree(c)
  /\ statusCall[c].pc = "idle" /\ statusChanges < MaxStatusChanges
  /\ statusChanges' = statusChanges + 1
  /\ channelRow' = [channelRow EXCEPT !.status = status]
  /\ abilities' = IF channelRow.status = status THEN abilities ELSE status = "enabled"
  /\ Written("none")
  /\ statusCall' = [statusCall EXCEPT ![c] = [pc |-> next, node |-> n]]
  /\ UNCHANGED <<cachedChannel, listed, syncing, turnedOff>>

\* UpdateChannelStatuses, and EnableTagChannels.  For a status that is set
\* already at most the memory is refreshed, as SyncRead does.
AdminStatus(c, n, status) == channelRow.status # status /\ SetStatus(c, n, status, "refresh")

\* DisableTagChannels sets the status twice, in a transaction and then in
\* DisableChannelByTag, statement by statement.
TagStart(c, n) == SetStatus(c, n, "manual", "tagRead")

TagRead(c) ==
  LET call == statusCall[c]
  IN /\ call.pc = "tagRead"
     /\ statusCall' = [statusCall EXCEPT ![c] =
          IF channelRow.exhausted THEN [Asks(call.node, "", "manual") EXCEPT !.tag = TRUE]
                                  ELSE [pc |-> "tagStatus", node |-> call.node]]
     /\ UNCHANGED <<channelRow, abilities, cachedChannel, listed, syncing, statusChanges,
                    turnedOff, ownWrite>>

TagStatus(c) ==
  /\ statusCall[c].pc = "tagStatus" /\ RowFree(c)
  /\ channelRow' = [channelRow EXCEPT !.status = "manual"]
  /\ Written("none")
  /\ Goes(c, "tagAbilities")
  /\ UNCHANGED <<abilities, cachedChannel, listed, syncing, statusChanges, turnedOff>>

TagAbilities(c) ==
  /\ statusCall[c].pc = "tagAbilities"
  /\ abilities' = FALSE
  /\ Goes(c, "refresh")
  /\ UNCHANGED <<channelRow, cachedChannel, listed, syncing, statusChanges, turnedOff,
                 ownWrite>>

-----------------------------------------------------------------------------
(* InitChannelCache, by an administrator's request and by SyncChannelCache *)

RefreshChannel(c) ==
  /\ statusCall[c].pc = "refresh"
  /\ statusCall' = [statusCall EXCEPT ![c] =
       IF @.node \in CachingNodes
       THEN [pc |-> "install", node |-> @.node, row |-> channelRow] ELSE NoStatusCall]
  /\ UNCHANGED <<channelRow, abilities, cachedChannel, listed, syncing, statusChanges,
                 turnedOff, ownWrite>>

\* Mutant: the lists are kept.
Install_CopyOnly(n, row) == Replaced(n, row) /\ UNCHANGED listed

Install(n, row) ==
  /\ Replaced(n, row)
  /\ listed' = [m \in CachingNodes |-> IF m = n THEN row.status = "enabled" ELSE listed[m]]

InstallChannel(c) ==
  /\ statusCall[c].pc = "install"
  /\ Install(statusCall[c].node, statusCall[c].row)
  /\ Ends(c)
  /\ UNCHANGED <<channelRow, abilities, syncing, statusChanges, turnedOff, ownWrite>>

SyncRead(n) ==
  /\ syncing[n].pc = "idle"
  /\ syncing' = [syncing EXCEPT ![n] = [pc |-> "install", row |-> channelRow]]
  /\ UNCHANGED <<channelRow, abilities, statusCall, cachedChannel, listed, statusChanges,
                 turnedOff, ownWrite>>

SyncInstall(n) ==
  /\ syncing[n].pc = "install"
  /\ Install(n, syncing[n].row)
  /\ syncing' = [syncing EXCEPT ![n] = NotSyncing]
  /\ UNCHANGED <<channelRow, abilities, statusCall, statusChanges, turnedOff, ownWrite>>

-----------------------------------------------------------------------------

ChannelInit ==
  /\ channelRow = [status |-> "enabled", off |-> {}, exhausted |-> FALSE]
  /\ abilities = TRUE
  /\ statusCall = [c \in StatusCalls |-> NoStatusCall]
  /\ cachedChannel = [n \in CachingNodes |-> Cached(channelRow)]
  /\ listed = [n \in CachingNodes |-> TRUE]
  /\ syncing = [n \in CachingNodes |-> NotSyncing]
  /\ statusChanges = 0
  /\ turnedOff = {} /\ ownWrite = "none"

StatusBegin(c, n) ==
  \/ \E key \in ChannelKeys \cup {""} : FailKey(c, n, key)
  \/ \E key \in ChannelKeys : TestStart(c, n, key)
  \/ \E status \in {"enabled", "manual"} : AdminStatus(c, n, status)
  \/ TagStart(c, n)

StatusStep(c) ==
  \/ LockStatus(c) \/ SaveStatus(c) \/ CacheStatus(c) \/ UndoStatus(c)
  \/ TestEnd(c)
  \/ TagRead(c) \/ TagStatus(c) \/ TagAbilities(c)
  \/ RefreshChannel(c) \/ InstallChannel(c)

SyncStep(n) == SyncRead(n) \/ SyncInstall(n)

ChannelNext ==
  \/ \E c \in StatusCalls : StatusStep(c) \/ \E n \in ChannelNodes : StatusBegin(c, n)
  \/ \E n \in CachingNodes : SyncStep(n)

\* Calls that have begun go on; SyncChannelCache runs on every node for ever.
ChannelFairness ==
  /\ \A c \in StatusCalls : WF_channelVars(StatusStep(c))
  /\ \A n \in CachingNodes : WF_channelVars(SyncStep(n))

ChannelSpec == ChannelInit /\ [][ChannelNext]_channelVars /\ ChannelFairness

-----------------------------------------------------------------------------
(* Properties *)

\* Nodes that turn keys off and on at the same time, each by writing the whole
\* list of key statuses, lose none of each other's changes, whatever
\* administrators set the channel's own status to (UpdateChannelStatus).
NoKeyLost == channelRow.off = turnedOff

\* The node that wrote the status last has it in memory once its call is over:
\* replaced copies come in the order of the transactions.  A refresh that was
\* under way may put an older one back (UpdateChannelStatus).
CopiesInOrder ==
  \A n \in CachingNodes :
    (ownWrite = n /\ \A c \in StatusCalls : statusCall[c].pc = "cache" => statusCall[c].node # n)
      => cachedChannel[n] = Cached(channelRow)

\* Once the status stops changing, every node comes to have it in memory, and to
\* list the channel exactly when it is enabled, whatever refreshes have put older
\* ones back meanwhile (InitChannelCache, SyncChannelCache).
MemoryCatchesUp ==
  <>[](\A n \in CachingNodes : /\ cachedChannel[n] = Cached(channelRow)
                               /\ listed[n] = (channelRow.status = "enabled"))

=============================================================================
