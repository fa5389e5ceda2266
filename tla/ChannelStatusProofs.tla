------------------------- MODULE ChannelStatusProofs -------------------------
(***************************************************************************)
(* For any nodes, keys and calls: no change of a key's status is lost, and *)
(* the node that wrote the status last has it in memory.                   *)
(***************************************************************************)
EXTENDS ChannelStatus, TLAPS

AnyKey == ChannelKeys \cup {""}

\* What is known of a call at each of its points.
CallOK(x) ==
  /\ "pc" \in DOMAIN x
  /\ x.pc \in {"lock", "test", "save"} => x.key \in AnyKey
  /\ x.pc \in {"lock", "save"} => x.status \in Status
  /\ x.pc = "cache" => x.next \in {"idle", "tagStatus"}

\* The call would put together the same row now.
UpToDate(x) == x.pc = "save" => x.row = KeyUpdate(channelRow, x.key, x.status)

\* NoKeyLost is not inductive: a save writes a whole row that was put together
\* earlier.  Between LockStatus and SaveStatus that row is up to date, because no
\* other call is there and administrators wait for the row lock.
KeyInv ==
  /\ channelRow \in ChannelRow /\ turnedOff = channelRow.off
  /\ statusCall = [c \in StatusCalls |-> statusCall[c]]
  /\ \A c \in StatusCalls : CallOK(statusCall[c]) /\ UpToDate(statusCall[c])
  /\ \A c \in StatusCalls : statusCall[c].pc = "save" => RowFree(c)

-----------------------------------------------------------------------------
(* Steps in general *)

\* What handlerMultiKeyUpdate makes of a row.
LEMMA UpdateType ==
  ASSUME NEW row \in ChannelRow, NEW key \in AnyKey, NEW status \in Status
  PROVE  /\ KeyUpdate(row, key, status) \in ChannelRow
         /\ KeyUpdate(row, key, status).off =
              IF key = "" THEN row.off
              ELSE IF status = "enabled" THEN row.off \ {key} ELSE row.off \cup {key}
BY DEF KeyUpdate, ChannelRow, Status, AnyKey

\* A call goes to x, where it holds no row lock; if it writes the row, nobody
\* else holds the lock.
LEMMA Moved ==
  ASSUME KeyInv, NEW c \in StatusCalls, NEW x,
         statusCall' = [statusCall EXCEPT ![c] = x],
         CallOK(x), x.pc # "save",
         channelRow' \in ChannelRow, turnedOff' = channelRow'.off,
         channelRow' = channelRow \/ RowFree(c)
  PROVE  KeyInv'
<1>1. /\ statusCall' = [d \in StatusCalls |-> statusCall'[d]]
      /\ statusCall'[c] = x
      /\ \A d \in StatusCalls \ {c} : statusCall'[d] = statusCall[d]
  BY DEF KeyInv
<1>2. ASSUME NEW d \in StatusCalls
      PROVE  CallOK(statusCall'[d]) /\ (statusCall'[d].pc = "save" =>
               statusCall'[d].row = KeyUpdate(channelRow', statusCall'[d].key, statusCall'[d].status))
  <2>1. CASE d = c
    BY <1>1, <2>1
  <2>2. CASE d # c
    BY <1>1, <2>2 DEF KeyInv, UpToDate, RowFree
  <2> QED BY <2>1, <2>2
<1>3. ASSUME NEW d \in StatusCalls, statusCall'[d].pc = "save"
      PROVE  \A e \in StatusCalls \ {d} : statusCall'[e].pc # "save"
  BY <1>1, <1>3 DEF KeyInv, RowFree
<1> QED BY <1>1, <1>2, <1>3 DEF KeyInv, UpToDate, RowFree, CallOK

\* The same for a step that leaves the row alone.
LEMMA MovedOnly ==
  ASSUME KeyInv, NEW c \in StatusCalls, NEW x,
         statusCall' = [statusCall EXCEPT ![c] = x],
         CallOK(x), x.pc # "save",
         channelRow' = channelRow, turnedOff' = turnedOff
  PROVE  KeyInv'
<1>1. channelRow' \in ChannelRow /\ turnedOff' = channelRow'.off
  BY DEF KeyInv
<1> QED BY <1>1, Moved

\* The call keeps its record but for the program counter.
LEMMA Went ==
  ASSUME KeyInv, NEW c \in StatusCalls, NEW pc \in {"refresh", "tagAbilities"}, Goes(c, pc)
  PROVE  \E x : /\ statusCall' = [statusCall EXCEPT ![c] = x]
                /\ CallOK(x) /\ x.pc = pc
<1> DEFINE x == [statusCall[c] EXCEPT !.pc = pc]
<1>1. statusCall' = [statusCall EXCEPT ![c] = x]
  BY DEF Goes
<1>2. "pc" \in DOMAIN x /\ x.pc = pc
  BY DEF KeyInv, CallOK
<1>3. CallOK(x)
  BY <1>2 DEF CallOK
<1> QED BY <1>1, <1>2, <1>3

\* A call that does not involve the keys any more.
LEMMA Plain ==
  /\ CallOK(NoStatusCall) /\ NoStatusCall.pc # "save"
  /\ \A n, pc : pc \notin {"lock", "test", "save", "cache"} =>
       CallOK([pc |-> pc, node |-> n]) /\ [pc |-> pc, node |-> n].pc # "save"
  /\ \A n, row : CallOK([pc |-> "install", node |-> n, row |-> row])
BY DEF CallOK, NoStatusCall

\* A call for a key names one, or the whole channel.
LEMMA AsksOK ==
  ASSUME NEW n, NEW key \in AnyKey, NEW status \in Status
  PROVE  CallOK(Asks(n, key, status)) /\ Asks(n, key, status).pc # "save"
BY DEF CallOK, Asks

\* A call begins at x.
LEMMA Began ==
  ASSUME KeyInv, NEW c \in StatusCalls, NEW x, CallOK(x), x.pc # "save", Begins(c, x)
  PROVE  KeyInv'
BY MovedOnly DEF Begins

\* A call ends.
LEMMA Ended ==
  ASSUME KeyInv, NEW c \in StatusCalls, Ends(c), UNCHANGED <<channelRow, turnedOff>>
  PROVE  KeyInv'
BY MovedOnly, Plain DEF Ends

-----------------------------------------------------------------------------
(* One lemma per action that writes the row or takes its lock *)

\* The row is put together under the row lock.
LEMMA LockStep ==
  ASSUME KeyInv, NEW c \in StatusCalls, LockStatus(c)
  PROVE  KeyInv'
<1> DEFINE call == statusCall[c]
           x == [pc |-> "save", node |-> call.node, key |-> call.key,
                 status |-> call.status, tag |-> call.tag,
                 row |-> KeyUpdate(channelRow, call.key, call.status)]
<1>1. CASE Ends(c)
  BY <1>1, Ended DEF LockStatus
<1>2. CASE statusCall' = [statusCall EXCEPT ![c] = x]
  <2>1. call.key \in AnyKey /\ call.status \in Status /\ RowFree(c)
    BY DEF LockStatus, KeyInv, CallOK
  <2>2. CallOK(x) /\ UpToDate(x)
    BY <2>1 DEF CallOK, UpToDate
  <2>3. channelRow' = channelRow /\ turnedOff' = turnedOff
    BY DEF LockStatus
  <2> HIDE DEF x
  <2>4. /\ statusCall' = [d \in StatusCalls |-> statusCall'[d]]
        /\ statusCall'[c] = x
        /\ \A d \in StatusCalls \ {c} : statusCall'[d] = statusCall[d]
    BY <1>2 DEF KeyInv
  <2>5. ASSUME NEW d \in StatusCalls
        PROVE  CallOK(statusCall'[d]) /\ UpToDate(statusCall'[d])
    BY <2>2, <2>4 DEF KeyInv
  <2>6. ASSUME NEW d \in StatusCalls, statusCall'[d].pc = "save"
        PROVE  \A e \in StatusCalls \ {d} : statusCall'[e].pc # "save"
    BY <2>1, <2>4, <2>6 DEF KeyInv, RowFree
  <2> QED BY <2>3, <2>4, <2>5, <2>6 DEF KeyInv, UpToDate, RowFree, CallOK
<1> QED BY <1>1, <1>2 DEF LockStatus

\* The row put together is saved.
LEMMA SaveStep ==
  ASSUME KeyInv, NEW c \in StatusCalls, SaveStatus(c)
  PROVE  KeyInv'
<1> DEFINE call == statusCall[c]
           x == [pc |-> "cache", node |-> call.node, row |-> call.row,
                 next |-> IF call.tag /\ StatusChanged(call) THEN "tagStatus" ELSE "idle"]
<1>1. /\ call.key \in AnyKey /\ call.status \in Status /\ RowFree(c)
      /\ call.row = KeyUpdate(channelRow, call.key, call.status)
  BY DEF SaveStatus, KeyInv, CallOK, UpToDate
<1> channelRow \in ChannelRow /\ turnedOff = channelRow.off
  BY DEF KeyInv
<1>2. /\ KeyUpdate(channelRow, call.key, call.status) \in ChannelRow
      /\ KeyUpdate(channelRow, call.key, call.status).off =
           IF call.key = "" THEN channelRow.off
           ELSE IF call.status = "enabled" THEN channelRow.off \ {call.key}
           ELSE channelRow.off \cup {call.key}
  <2> call.key \in AnyKey /\ call.status \in Status
    BY <1>1
  <2> HIDE DEF call
  <2> QED BY UpdateType, Zenon
<1>3. channelRow' \in ChannelRow /\ turnedOff' = channelRow'.off
  BY <1>1, <1>2 DEF SaveStatus
<1>4. CallOK(x) /\ x.pc # "save"
  BY DEF CallOK
<1>5. statusCall' = [statusCall EXCEPT ![c] = x]
  BY DEF SaveStatus
<1> HIDE DEF x
<1> QED BY <1>1, <1>2, <1>3, <1>4, <1>5, Moved

\* A new status, and the same keys.
LEMMA Restatused ==
  ASSUME KeyInv, NEW status \in Status
  PROVE  /\ [channelRow EXCEPT !.status = status] \in ChannelRow
         /\ [channelRow EXCEPT !.status = status].off = channelRow.off
BY DEF KeyInv, ChannelRow

\* An administrator sets the status.
LEMMA SetStep ==
  ASSUME KeyInv, NEW c \in StatusCalls, NEW n, NEW status \in Status,
         NEW next \in {"refresh", "tagRead"}, SetStatus(c, n, status, next)
  PROVE  KeyInv'
<1>1. channelRow' \in ChannelRow /\ turnedOff' = channelRow'.off
  BY Restatused DEF SetStatus, KeyInv
<1> QED BY <1>1, Moved, Plain DEF SetStatus

\* The status is set by tag.
LEMMA TagStatusStep ==
  ASSUME KeyInv, NEW c \in StatusCalls, TagStatus(c)
  PROVE  KeyInv'
<1>1. channelRow' \in ChannelRow /\ turnedOff' = channelRow'.off
  BY Restatused DEF TagStatus, KeyInv, Status
<1>2. PICK x : /\ statusCall' = [statusCall EXCEPT ![c] = x]
               /\ CallOK(x) /\ x.pc # "save"
  BY Went DEF TagStatus
<1> QED BY <1>1, <1>2, Moved DEF TagStatus

-----------------------------------------------------------------------------

\* A call begins.
LEMMA BeginSteps ==
  ASSUME KeyInv, NEW c \in StatusCalls, NEW n \in ChannelNodes, StatusBegin(c, n)
  PROVE  KeyInv'
<1>1. CASE \E key \in ChannelKeys \cup {""} : FailKey(c, n, key)
  BY <1>1, AsksOK, Began DEF FailKey, AnyKey, Status
<1>2. CASE \E key \in ChannelKeys : TestStart(c, n, key)
  <2>1. PICK key \in ChannelKeys : TestStart(c, n, key)
    BY <1>2
  <2> DEFINE x == [pc |-> "test", node |-> n, key |-> key, seen |-> channelRow.status]
  <2>2. CallOK(x) /\ x.pc # "save"
    BY DEF CallOK, AnyKey
  <2>3. Begins(c, x)
    BY <2>1 DEF TestStart
  <2> HIDE DEF x
  <2> QED BY <2>2, <2>3, Began
<1>3. CASE \E status \in {"enabled", "manual"} : AdminStatus(c, n, status)
  BY <1>3, SetStep DEF AdminStatus, Status
<1>4. CASE TagStart(c, n)
  BY <1>4, SetStep DEF TagStart, Status
<1> QED BY <1>1, <1>2, <1>3, <1>4 DEF StatusBegin

\* A call goes on.
LEMMA CallSteps ==
  ASSUME KeyInv, NEW c \in StatusCalls, StatusStep(c)
  PROVE  KeyInv'
<1> DEFINE call == statusCall[c]
<1>1. CASE LockStatus(c)
  BY <1>1, LockStep
<1>2. CASE SaveStatus(c)
  BY <1>2, SaveStep
<1>3. CASE CacheStatus(c)
  <2> DEFINE x == IF call.next = "idle" THEN NoStatusCall ELSE [pc |-> call.next, node |-> call.node]
  <2>1. call.next \in {"idle", "tagStatus"}
    BY <1>3 DEF CacheStatus, KeyInv, CallOK
  <2>2. CallOK(x) /\ x.pc # "save"
    BY <2>1, Plain
  <2>3. statusCall' = [statusCall EXCEPT ![c] = x]
    BY <1>3 DEF CacheStatus
  <2> HIDE DEF x
  <2> QED BY <1>3, <2>2, <2>3, MovedOnly DEF CacheStatus
<1>4. CASE UndoStatus(c)
  BY <1>4, Ended DEF UndoStatus
<1>5. CASE TestEnd(c)
  <2>1. call.key \in AnyKey
    BY <1>5 DEF TestEnd, KeyInv, CallOK
  <2>2. CASE Ends(c)
    BY <1>5, <2>2, Ended DEF TestEnd
  <2>3. CASE \E status \in Status :
               statusCall' = [statusCall EXCEPT ![c] = Asks(call.node, call.key, status)]
    BY <1>5, <2>1, <2>3, AsksOK, MovedOnly DEF TestEnd
  <2> QED BY <1>5, <2>2, <2>3 DEF TestEnd, Status
<1>6. CASE TagRead(c)
  <2>1. CallOK([Asks(call.node, "", "manual") EXCEPT !.tag = TRUE])
    BY DEF CallOK, Asks, AnyKey, Status
  <2>2. [Asks(call.node, "", "manual") EXCEPT !.tag = TRUE].pc # "save"
    BY DEF Asks
  <2> QED BY <1>6, <2>1, <2>2, Plain, MovedOnly DEF TagRead
<1>7. CASE TagStatus(c)
  BY <1>7, TagStatusStep
<1>8. CASE TagAbilities(c)
  BY <1>8, Went, MovedOnly DEF TagAbilities
<1>9. CASE RefreshChannel(c)
  BY <1>9, Plain, MovedOnly DEF RefreshChannel
<1>10. CASE InstallChannel(c)
  BY <1>10, Ended DEF InstallChannel
<1> QED BY <1>1, <1>2, <1>3, <1>4, <1>5, <1>6, <1>7, <1>8, <1>9, <1>10 DEF StatusStep

\* KeyInv holds in every reachable state.
THEOREM KeyInvariance == ChannelSpec => []KeyInv
<1>1. ChannelInit => KeyInv
  BY DEF ChannelInit, KeyInv, ChannelRow, Status, CallOK, UpToDate, NoStatusCall, RowFree
<1>2. KeyInv /\ [ChannelNext]_channelVars => KeyInv'
  <2> SUFFICES ASSUME KeyInv, [ChannelNext]_channelVars PROVE KeyInv'
    OBVIOUS
  <2>1. ASSUME NEW c \in StatusCalls, StatusStep(c) PROVE KeyInv'
    BY <2>1, CallSteps
  <2>2. ASSUME NEW c \in StatusCalls, NEW n \in ChannelNodes, StatusBegin(c, n) PROVE KeyInv'
    BY <2>2, BeginSteps
  <2>3. ASSUME UNCHANGED <<channelRow, statusCall, turnedOff>> PROVE KeyInv'
    BY <2>3 DEF KeyInv, UpToDate, RowFree
  <2>4. ASSUME NEW n \in CachingNodes, SyncStep(n) PROVE KeyInv'
    BY <2>3, <2>4 DEF SyncStep, SyncRead, SyncInstall
  <2>5. CASE UNCHANGED channelVars
    BY <2>3, <2>5 DEF channelVars
  <2> QED BY <2>1, <2>2, <2>4, <2>5 DEF ChannelNext
<1> QED BY <1>1, <1>2, PTL DEF ChannelSpec

\* Every change of a key stays in the row (UpdateChannelStatus): concurrent calls
\* of any number of nodes never overwrite each other's, whatever administrators
\* and tag operations do to the channel's own status.
THEOREM KeysKept == ChannelSpec => []NoKeyLost
<1>1. KeyInv => NoKeyLost
  BY DEF KeyInv, NoKeyLost
<1> QED BY <1>1, KeyInvariance, PTL

-----------------------------------------------------------------------------
(* Copies.  CopiesInOrder is not inductive: a call or a refresh that holds  *)
(* an older row would put it back.  While the last write is the node's own  *)
(* none does: refreshes begun since have read it, and the polling lock lets *)
(* one call at a time come between its save and its copy.                   *)

Current(n) ==
  /\ syncing[n].pc # "idle" => syncing[n].row = channelRow
  /\ \A c \in StatusCalls :
       statusCall[c].pc \in {"cache", "install"} /\ statusCall[c].node = n
         => statusCall[c].row = channelRow
  /\ (\A c \in StatusCalls : statusCall[c].pc = "cache" => statusCall[c].node # n)
       => cachedChannel[n] = Cached(channelRow)

OrderInv ==
  /\ syncing = [n \in CachingNodes |-> syncing[n]]
  /\ \A c \in StatusCalls : statusCall[c].pc \in {"save", "cache"} => PollingFree(c)
  /\ \A n \in CachingNodes : ownWrite = n => Current(n)

\* "none" is the name of no node.
LEMMA NoneCaches == "none" \notin CachingNodes
BY ChannelStatusAssumption

\* What a step of one call leaves of the others.
LEMMA OthersStay ==
  ASSUME KeyInv, NEW c \in StatusCalls, NEW x, statusCall' = [statusCall EXCEPT ![c] = x]
  PROVE  statusCall'[c] = x /\ \A d \in StatusCalls \ {c} : statusCall'[d] = statusCall[d]
BY DEF KeyInv

\* A call goes to x, where it holds no lock.
LEMMA PollingMoved ==
  ASSUME KeyInv, OrderInv, NEW c \in StatusCalls, NEW x,
         statusCall' = [statusCall EXCEPT ![c] = x], x.pc \notin {"save", "cache"}
  PROVE  \A d \in StatusCalls : statusCall'[d].pc \in {"save", "cache"} => PollingFree(d)'
<1>1. statusCall'[c] = x /\ \A d \in StatusCalls \ {c} : statusCall'[d] = statusCall[d]
  BY OthersStay
<1>2. ASSUME NEW d \in StatusCalls, statusCall'[d].pc \in {"save", "cache"},
             NEW e \in StatusCalls \ {d}, statusCall'[e].pc \in {"save", "cache"}
      PROVE  statusCall'[e].node # statusCall'[d].node
  BY <1>1, <1>2 DEF OrderInv, PollingFree
<1> QED BY <1>2 DEF PollingFree

\* A call goes to x, where it holds neither a lock nor a row; what it writes is
\* no node's own write.
LEMMA OrderMoved ==
  ASSUME KeyInv, OrderInv, NEW c \in StatusCalls, NEW x,
         statusCall' = [statusCall EXCEPT ![c] = x],
         x.pc \notin {"save", "cache", "install"}, statusCall[c].pc # "cache",
         UNCHANGED <<cachedChannel, syncing>>,
         ownWrite' = "none" \/ UNCHANGED <<channelRow, ownWrite>>
  PROVE  OrderInv'
<1>1. statusCall'[c] = x /\ \A d \in StatusCalls \ {c} : statusCall'[d] = statusCall[d]
  BY OthersStay
<1>2. \A d \in StatusCalls : statusCall'[d].pc \in {"save", "cache"} => PollingFree(d)'
  BY PollingMoved
<1>3. ASSUME NEW n \in CachingNodes, ownWrite' = n PROVE Current(n)'
  <2>1. UNCHANGED <<channelRow, ownWrite, cachedChannel, syncing>>
    BY <1>3, NoneCaches
  <2>2. Current(n)
    BY <1>3, <2>1 DEF OrderInv
  <2> QED BY <1>1, <2>1, <2>2 DEF Current, Cached
<1> QED BY <1>2, <1>3 DEF OrderInv

\* What installing a row does to the copies, seen from a node: the node's own
\* last write is there to be installed.
LEMMA CopyReplaced ==
  ASSUME NEW n \in CachingNodes, NEW m, NEW row, Replaced(m, row), m = n => row = channelRow
  PROVE  cachedChannel'[n] = IF m = n THEN Cached(channelRow) ELSE cachedChannel[n]
BY DEF Replaced

\* A call waits for its node's polling lock and the row lock, and takes both.
LEMMA OrderLock ==
  ASSUME KeyInv, OrderInv, NEW c \in StatusCalls, LockStatus(c)
  PROVE  OrderInv'
<1> DEFINE call == statusCall[c]
           x == [pc |-> "save", node |-> call.node, key |-> call.key,
                 status |-> call.status, tag |-> call.tag,
                 row |-> KeyUpdate(channelRow, call.key, call.status)]
<1>1. CASE Ends(c)
  <2>1. NoStatusCall.pc = "idle"
    BY DEF NoStatusCall
  <2> QED BY <1>1, <2>1, OrderMoved DEF LockStatus, Ends
<1>2. CASE statusCall' = [statusCall EXCEPT ![c] = x]
  <2>1. /\ statusCall[c].pc = "lock" /\ PollingFree(c)
        /\ UNCHANGED <<channelRow, cachedChannel, syncing, ownWrite>>
    BY DEF LockStatus
  <2>2. x.pc = "save" /\ x.node = statusCall[c].node
    OBVIOUS
  <2> HIDE DEF x, call
  <2>3. statusCall'[c] = x /\ \A d \in StatusCalls \ {c} : statusCall'[d] = statusCall[d]
    BY <1>2, OthersStay
  <2>4. ASSUME NEW d \in StatusCalls, statusCall'[d].pc \in {"save", "cache"},
               NEW e \in StatusCalls \ {d}, statusCall'[e].pc \in {"save", "cache"}
        PROVE  statusCall'[e].node # statusCall'[d].node
    BY <2>1, <2>2, <2>3, <2>4 DEF OrderInv, PollingFree
  <2>5. ASSUME NEW n \in CachingNodes, ownWrite' = n PROVE Current(n)'
    BY <2>1, <2>2, <2>3, <2>5 DEF OrderInv, Current, Cached
  <2> QED BY <2>1, <2>4, <2>5 DEF OrderInv, PollingFree
<1> QED BY <1>1, <1>2 DEF LockStatus

\* A save is its node's own write, and the only one the node has under way.
LEMMA OrderSave ==
  ASSUME KeyInv, OrderInv, NEW c \in StatusCalls, SaveStatus(c)
  PROVE  OrderInv'
<1> DEFINE call == statusCall[c]
           x == [pc |-> "cache", node |-> call.node, row |-> call.row,
                 next |-> IF call.tag /\ StatusChanged(call) THEN "tagStatus" ELSE "idle"]
<1>1. /\ statusCall[c].pc = "save" /\ channelRow' = statusCall[c].row
      /\ UNCHANGED <<cachedChannel, syncing>> /\ Written(statusCall[c].node)
      /\ statusCall' = [statusCall EXCEPT ![c] = x]
  BY DEF SaveStatus
<1>2. x.pc = "cache" /\ x.node = statusCall[c].node /\ x.row = statusCall[c].row
  OBVIOUS
<1> HIDE DEF x, call
<1>3. statusCall'[c] = x /\ \A d \in StatusCalls \ {c} : statusCall'[d] = statusCall[d]
  BY <1>1, OthersStay
<1>4. PollingFree(c)
  BY <1>1 DEF OrderInv
<1>5. ASSUME NEW d \in StatusCalls, statusCall'[d].pc \in {"save", "cache"},
             NEW e \in StatusCalls \ {d}, statusCall'[e].pc \in {"save", "cache"}
      PROVE  statusCall'[e].node # statusCall'[d].node
  BY <1>1, <1>2, <1>3, <1>4, <1>5 DEF OrderInv, PollingFree
<1>6. ASSUME NEW n \in CachingNodes, ownWrite' = n PROVE Current(n)'
  <2>1. statusCall[c].node = n /\ ~Refreshing(n)
    BY <1>1, <1>6, NoneCaches DEF Written
  <2>2. syncing'[n].pc = "idle"
    BY <1>1, <2>1 DEF Refreshing
  <2>3. ASSUME NEW d \in StatusCalls, statusCall'[d].pc \in {"cache", "install"}, statusCall'[d].node = n
        PROVE  d = c
    BY <1>1, <1>2, <1>3, <1>4, <2>1, <2>3 DEF Refreshing, PollingFree
  <2> QED BY <1>1, <1>2, <1>3, <2>1, <2>2, <2>3 DEF Current
<1> QED BY <1>1, <1>5, <1>6 DEF OrderInv, PollingFree

\* The copy is replaced by the row the call has saved.
LEMMA OrderCache ==
  ASSUME KeyInv, OrderInv, NEW c \in StatusCalls, CacheStatus(c)
  PROVE  OrderInv'
<1> DEFINE call == statusCall[c]
           x == IF call.next = "idle" THEN NoStatusCall ELSE [pc |-> call.next, node |-> call.node]
<1>1. /\ statusCall[c].pc = "cache" /\ Replaced(statusCall[c].node, statusCall[c].row)
      /\ UNCHANGED <<channelRow, syncing, ownWrite>>
      /\ statusCall' = [statusCall EXCEPT ![c] = x]
  BY DEF CacheStatus
<1>2. x.pc \notin {"save", "cache", "install"}
  <2>1. call.next \in {"idle", "tagStatus"}
    BY <1>1 DEF KeyInv, CallOK
  <2> QED BY <2>1 DEF NoStatusCall
<1> HIDE DEF x, call
<1>3. statusCall'[c] = x /\ \A d \in StatusCalls \ {c} : statusCall'[d] = statusCall[d]
  BY <1>1, OthersStay
<1>4. \A d \in StatusCalls : statusCall'[d].pc \in {"save", "cache"} => PollingFree(d)'
  BY <1>1, <1>2, PollingMoved
<1>5. ASSUME NEW n \in CachingNodes, ownWrite' = n PROVE Current(n)'
  <2>1. Current(n)
    BY <1>1, <1>5 DEF OrderInv
  <2>2. statusCall[c].node = n => statusCall[c].row = channelRow
    BY <1>1, <2>1 DEF Current
  <2>3. cachedChannel'[n] = IF statusCall[c].node = n THEN Cached(channelRow) ELSE cachedChannel[n]
    BY <1>1, <2>2, CopyReplaced
  <2>4. /\ syncing'[n].pc # "idle" => syncing'[n].row = channelRow'
        /\ \A d \in StatusCalls :
             statusCall'[d].pc \in {"cache", "install"} /\ statusCall'[d].node = n
               => statusCall'[d].row = channelRow'
    BY <1>1, <1>2, <1>3, <2>1 DEF Current
  <2>5. ASSUME \A d \in StatusCalls : statusCall'[d].pc = "cache" => statusCall'[d].node # n
        PROVE  cachedChannel'[n] = Cached(channelRow)
    <3>1. CASE statusCall[c].node = n
      BY <2>3, <3>1
    <3>2. CASE statusCall[c].node # n
      <4>1. \A d \in StatusCalls : statusCall[d].pc = "cache" => statusCall[d].node # n
        BY <1>3, <2>5, <3>2
      <4> QED BY <2>1, <2>3, <3>2, <4>1 DEF Current
    <3> QED BY <3>1, <3>2
  <2> QED BY <1>1, <2>4, <2>5 DEF Current, Cached
<1> QED BY <1>1, <1>4, <1>5 DEF OrderInv

\* A refresh that has read the node's own last write installs it.
LEMMA OrderInstalled ==
  ASSUME NEW n \in CachingNodes, Current(n), NEW m, NEW row, Install(m, row),
         m = n => row = channelRow, channelRow' = channelRow,
         \A d \in StatusCalls :
           \/ statusCall'[d] = statusCall[d]
           \/ statusCall[d].pc # "cache" /\ statusCall'[d].pc \notin {"cache", "install"},
         syncing'[n] = syncing[n] \/ syncing'[n].pc = "idle"
  PROVE  Current(n)'
<1>1. cachedChannel'[n] = IF m = n THEN Cached(channelRow) ELSE cachedChannel[n]
  BY CopyReplaced DEF Install
<1>2. ASSUME \A d \in StatusCalls : statusCall'[d].pc = "cache" => statusCall'[d].node # n
      PROVE  cachedChannel'[n] = Cached(channelRow)
  <2>1. \A d \in StatusCalls : statusCall[d].pc = "cache" => statusCall[d].node # n
    BY <1>2
  <2> QED BY <1>1, <2>1 DEF Current
<1>3. \A d \in StatusCalls :
        statusCall'[d].pc \in {"cache", "install"} /\ statusCall'[d].node = n
          => statusCall'[d].row = channelRow'
  BY DEF Current
<1>4. syncing'[n].pc # "idle" => syncing'[n].row = channelRow'
  BY DEF Current
<1> QED BY <1>2, <1>3, <1>4 DEF Current, Cached

\* An administrator's call refreshes its node's memory.
LEMMA OrderRefresh ==
  ASSUME KeyInv, OrderInv, NEW c \in StatusCalls, RefreshChannel(c) \/ InstallChannel(c)
  PROVE  OrderInv'
<1>1. CASE RefreshChannel(c)
  <2> DEFINE x == IF statusCall[c].node \in CachingNodes
                  THEN [pc |-> "install", node |-> statusCall[c].node, row |-> channelRow] ELSE NoStatusCall
  <2>1. /\ statusCall[c].pc = "refresh" /\ UNCHANGED <<channelRow, cachedChannel, syncing, ownWrite>>
        /\ statusCall' = [statusCall EXCEPT ![c] = x]
    BY <1>1 DEF RefreshChannel
  <2>2. x.pc \notin {"save", "cache"} /\ (x.pc = "install" => x.row = channelRow)
    BY DEF NoStatusCall
  <2> HIDE DEF x
  <2>3. statusCall'[c] = x /\ \A d \in StatusCalls \ {c} : statusCall'[d] = statusCall[d]
    BY <2>1, OthersStay
  <2>4. \A d \in StatusCalls : statusCall'[d].pc \in {"save", "cache"} => PollingFree(d)'
    BY <2>1, <2>2, PollingMoved
  <2>5. ASSUME NEW n \in CachingNodes, ownWrite' = n PROVE Current(n)'
    BY <2>1, <2>2, <2>3, <2>5 DEF OrderInv, Current, Cached
  <2> QED BY <2>1, <2>4, <2>5 DEF OrderInv
<1>2. CASE InstallChannel(c)
  <2>1. /\ statusCall[c].pc = "install" /\ UNCHANGED <<channelRow, syncing, ownWrite>>
        /\ Install(statusCall[c].node, statusCall[c].row)
        /\ statusCall' = [statusCall EXCEPT ![c] = NoStatusCall]
    BY <1>2 DEF InstallChannel, Ends
  <2>2. NoStatusCall.pc = "idle"
    BY DEF NoStatusCall
  <2>3. statusCall'[c] = NoStatusCall /\ \A d \in StatusCalls \ {c} : statusCall'[d] = statusCall[d]
    BY <2>1, OthersStay
  <2>4. \A d \in StatusCalls : statusCall'[d].pc \in {"save", "cache"} => PollingFree(d)'
    BY <2>1, <2>2, PollingMoved
  <2>5. ASSUME NEW n \in CachingNodes, ownWrite' = n PROVE Current(n)'
    <3>1. Current(n) /\ (statusCall[c].node = n => statusCall[c].row = channelRow)
      BY <2>1, <2>5 DEF OrderInv, Current
    <3>2. \A d \in StatusCalls :
            \/ statusCall'[d] = statusCall[d]
            \/ statusCall[d].pc # "cache" /\ statusCall'[d].pc \notin {"cache", "install"}
      BY <2>1, <2>2, <2>3
    <3> QED BY <2>1, <3>1, <3>2, OrderInstalled
  <2> QED BY <2>1, <2>4, <2>5 DEF OrderInv
<1> QED BY <1>1, <1>2

\* A node refreshes its memory from time to time.
LEMMA OrderSync ==
  ASSUME KeyInv, OrderInv, NEW m \in CachingNodes, SyncStep(m)
  PROVE  OrderInv'
<1>1. UNCHANGED <<channelRow, statusCall, ownWrite>>
  BY DEF SyncStep, SyncRead, SyncInstall
<1>2. \A d \in StatusCalls : statusCall'[d].pc \in {"save", "cache"} => PollingFree(d)'
  BY <1>1 DEF OrderInv, PollingFree
<1>3. CASE SyncRead(m)
  <2> DEFINE x == [pc |-> "install", row |-> channelRow]
  <2>1. syncing' = [syncing EXCEPT ![m] = x] /\ UNCHANGED cachedChannel
    BY <1>3 DEF SyncRead
  <2>2. x.row = channelRow
    OBVIOUS
  <2> HIDE DEF x
  <2>3. /\ syncing' = [n \in CachingNodes |-> syncing'[n]]
        /\ syncing'[m] = x /\ \A n \in CachingNodes \ {m} : syncing'[n] = syncing[n]
    BY <2>1 DEF OrderInv
  <2>4. ASSUME NEW n \in CachingNodes, ownWrite' = n PROVE Current(n)'
    BY <1>1, <2>1, <2>2, <2>3, <2>4 DEF OrderInv, Current, Cached
  <2> QED BY <1>2, <2>3, <2>4 DEF OrderInv
<1>4. CASE SyncInstall(m)
  <2>1. /\ syncing' = [syncing EXCEPT ![m] = NotSyncing] /\ syncing[m].pc # "idle"
        /\ Install(m, syncing[m].row)
    BY <1>4 DEF SyncInstall
  <2>2. NotSyncing.pc = "idle"
    BY DEF NotSyncing
  <2>3. /\ syncing' = [n \in CachingNodes |-> syncing'[n]]
        /\ syncing'[m] = NotSyncing /\ \A n \in CachingNodes \ {m} : syncing'[n] = syncing[n]
    BY <2>1 DEF OrderInv
  <2>4. ASSUME NEW n \in CachingNodes, ownWrite' = n PROVE Current(n)'
    <3>1. Current(n) /\ (m = n => syncing[m].row = channelRow)
      BY <1>1, <2>1, <2>4 DEF OrderInv, Current
    <3>2. syncing'[n] = syncing[n] \/ syncing'[n].pc = "idle"
      BY <2>2, <2>3
    <3> QED BY <1>1, <2>1, <3>1, <3>2, OrderInstalled
  <2> QED BY <1>2, <2>3, <2>4 DEF OrderInv
<1> QED BY <1>3, <1>4 DEF SyncStep

\* A call begins: it asks, or an administrator has set the status.
LEMMA OrderBegins ==
  ASSUME KeyInv, OrderInv, NEW c \in StatusCalls, NEW n \in ChannelNodes, StatusBegin(c, n)
  PROVE  OrderInv'
<1>1. CASE \E key \in ChannelKeys \cup {""} : FailKey(c, n, key)
  <2>1. PICK key : Begins(c, Asks(n, key, "auto"))
    BY <1>1 DEF FailKey
  <2>2. Asks(n, key, "auto").pc = "lock"
    BY DEF Asks
  <2> QED BY <2>1, <2>2, OrderMoved DEF Begins
<1>2. CASE \E key \in ChannelKeys : TestStart(c, n, key)
  <2>1. PICK key, x : x = [pc |-> "test", node |-> n, key |-> key, seen |-> channelRow.status] /\ Begins(c, x)
    BY <1>2 DEF TestStart
  <2>2. x.pc = "test"
    BY <2>1
  <2> QED BY <2>1, <2>2, OrderMoved DEF Begins
<1>3. ASSUME NEW status, NEW next \in {"refresh", "tagRead"}, SetStatus(c, n, status, next)
      PROVE  OrderInv'
  <2>1. [pc |-> next, node |-> n].pc = next
    OBVIOUS
  <2> QED BY <1>3, <2>1, OrderMoved DEF SetStatus, Written
<1> QED BY <1>1, <1>2, <1>3 DEF StatusBegin, AdminStatus, TagStart

\* A call goes on.
LEMMA OrderSteps ==
  ASSUME KeyInv, OrderInv, NEW c \in StatusCalls, StatusStep(c)
  PROVE  OrderInv'
<1> DEFINE call == statusCall[c]
<1>i. NoStatusCall.pc = "idle" /\ \A n, key, status : Asks(n, key, status).pc = "lock"
  BY DEF NoStatusCall, Asks
<1>1. CASE LockStatus(c) \/ SaveStatus(c) \/ CacheStatus(c)
  BY <1>1, OrderLock, OrderSave, OrderCache
<1>2. CASE UndoStatus(c)
  BY <1>2, <1>i, OrderMoved DEF UndoStatus, Ends
<1>3. CASE TestEnd(c)
  <2>1. PICK x : statusCall' = [statusCall EXCEPT ![c] = x] /\ x.pc \in {"idle", "lock"}
    BY <1>3, <1>i DEF TestEnd, Ends
  <2> QED BY <1>3, <2>1, OrderMoved DEF TestEnd
<1>4. CASE TagRead(c)
  <2>1. [Asks(call.node, "", "manual") EXCEPT !.tag = TRUE].pc = "lock"
    BY DEF Asks
  <2>2. [pc |-> "tagStatus", node |-> call.node].pc = "tagStatus"
    OBVIOUS
  <2>3. PICK x : statusCall' = [statusCall EXCEPT ![c] = x] /\ x.pc \in {"tagStatus", "lock"}
    BY <1>4, <2>1, <2>2 DEF TagRead
  <2> QED BY <1>4, <2>3, OrderMoved DEF TagRead
<1>5. CASE TagStatus(c)
  <2>1. PICK x : statusCall' = [statusCall EXCEPT ![c] = x] /\ x.pc = "tagAbilities"
    BY <1>5, Went DEF TagStatus
  <2> QED BY <1>5, <2>1, OrderMoved DEF TagStatus, Written
<1>6. CASE TagAbilities(c)
  <2>1. PICK x : statusCall' = [statusCall EXCEPT ![c] = x] /\ x.pc = "refresh"
    BY <1>6, Went DEF TagAbilities
  <2> QED BY <1>6, <2>1, OrderMoved DEF TagAbilities
<1>7. CASE RefreshChannel(c) \/ InstallChannel(c)
  BY <1>7, OrderRefresh
<1> QED BY <1>1, <1>2, <1>3, <1>4, <1>5, <1>6, <1>7 DEF StatusStep

\* The node that wrote the status last has it in memory once its call is over,
\* for any number of nodes and calls, unless a refresh of its memory was under
\* way (UpdateChannelStatus, CacheUpdateChannel, InitChannelCache).
THEOREM CopiesOrdered == ChannelSpec => []CopiesInOrder
<1>1. ChannelInit => OrderInv
  BY NoneCaches DEF ChannelInit, OrderInv, NoStatusCall, NotSyncing
<1>2. KeyInv /\ OrderInv /\ [ChannelNext]_channelVars => OrderInv'
  <2> SUFFICES ASSUME KeyInv, OrderInv, [ChannelNext]_channelVars PROVE OrderInv'
    OBVIOUS
  <2>1. CASE UNCHANGED channelVars
    BY <2>1 DEF channelVars, OrderInv, Current, PollingFree, Cached
  <2> QED BY <2>1, OrderSteps, OrderBegins, OrderSync DEF ChannelNext
<1>3. OrderInv => CopiesInOrder
  BY DEF OrderInv, Current, CopiesInOrder
<1> QED BY <1>1, <1>2, <1>3, KeyInvariance, PTL DEF ChannelSpec

=============================================================================
