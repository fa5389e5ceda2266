----------------------------- MODULE RelaySlots -----------------------------
(***************************************************************************)
(* The concurrency slots of a channel (common/channel-concurrency.go), the *)
(* scope a request counts under (service/channel_concurrency.go) and the   *)
(* way the relay loop takes and returns a slot (controller/relay.go).      *)
(* Counters are per process, so this is one node.  Settings change while   *)
(* requests are under way.                                                 *)
(***************************************************************************)
EXTENDS Integers, FiniteSets

CONSTANTS
  SlotRequests,  \* goroutines that serve requests
  Channels,
  Models,
  SlotSettings,  \* settings an administrator may save
  MaxRetries,    \* attempts after the first, over all groups
  MaxChanges     \* bound on the changes of the settings

\* No limit of its own: a nil Concurrency, a model without an entry.
Unset == -1

Limit == Nat \cup {Unset}

\* What a loaded channel says about limits.
Channel == [id: Channels, concurrency: Limit, models: [Models -> Limit]]

Settings == [enabled: BOOLEAN, default: Nat,
             channels: [Channels -> [concurrency: Limit, models: [Models -> Limit]]]]

ASSUME RelaySlotsAssumption ==
  /\ IsFiniteSet(SlotRequests)
  /\ SlotSettings \subseteq Settings
  /\ MaxRetries \in Nat /\ MaxChanges \in Nat
  /\ "all" \notin Models

VARIABLES
  settings,  \* options and channel rows, as this node has loaded them
  active,    \* channelConcurrencyState.active
  serving,   \* each request in the relay loop
  changes    \* changes of the settings so far

slotVars == <<settings, active, serving, changes>>

\* "c:<id>" and "m:<id>:<model>".
SlotKey == Channels \X (Models \cup {"all"})

NoKey == <<>>

ServingPC == {"idle", "choose", "return", "take", "upstream", "exit"}

\* bound: the limit that held for the slot when it was taken.
Serving == [pc: ServingPC, model: Models, channel: Channel, attempt: Nat,
            held: SlotKey \cup {NoKey}, bound: Nat]

SlotsTypeOK ==
  /\ settings \in Settings
  /\ active \in [SlotKey -> Nat]
  /\ serving \in [SlotRequests -> Serving]
  /\ changes \in 0..MaxChanges

-----------------------------------------------------------------------------
(* What a channel object holds.                                            *)

\* The channel cache's object.
Loaded(c) == [id |-> c, concurrency |-> settings.channels[c].concurrency,
              models |-> settings.channels[c].models]

\* The object getChannel makes from the request's context: id, type, name and
\* auto_ban only.
FromContext(c) == [id |-> c, concurrency |-> Unset, models |-> [m \in Models |-> Unset]]

NoScope == [key |-> NoKey, limit |-> 0]

\* A model's own limit has a counter of its own; the others share the
\* channel's, which may be the global default.
ResolveChannelConcurrency(ch, m) ==
  CASE ~settings.enabled -> NoScope
    [] settings.enabled /\ ch.models[m] # Unset ->
         [key |-> <<ch.id, m>>, limit |-> ch.models[m]]
    [] OTHER ->
         [key |-> <<ch.id, "all">>,
          limit |-> IF ch.concurrency # Unset THEN ch.concurrency ELSE settings.default]

-----------------------------------------------------------------------------
(* The relay loop.                                                         *)

NewServing(m, c) == [pc |-> "choose", model |-> m, channel |-> FromContext(c),
                     attempt |-> 0, held |-> NoKey, bound |-> 0]

NotServing == [NewServing(CHOOSE m \in Models : TRUE, CHOOSE c \in Channels : TRUE)
                 EXCEPT !.pc = "idle"]

Serve(r, change) == serving' = [serving EXCEPT ![r] = change]

SlotArrive(r, m, c) ==
  /\ serving[r].pc = "idle"
  /\ Serve(r, NewServing(m, c))
  /\ UNCHANGED <<settings, active, changes>>

\* The first attempt uses the channel of the request's context, the others
\* select one, while the slot of the attempt before is still held.
GetChannel(r) ==
  LET q == serving[r]
  IN /\ q.pc = "choose"
     /\ \/ q.attempt = 0 /\ Serve(r, [q EXCEPT !.pc = "return"])
        \/ /\ q.attempt > 0
           /\ \E c \in Channels : Serve(r, [q EXCEPT !.pc = "return", !.channel = Loaded(c)])
        \/ q.attempt > 0 /\ Serve(r, [q EXCEPT !.pc = "exit"])
     /\ UNCHANGED <<settings, active, changes>>

\* ReleaseChannelConcurrency; a count that would be zero or less is deleted.
Released(key) ==
  [active EXCEPT ![key] = IF @ - 1 <= 0 THEN 0 ELSE @ - 1]

\* Mutant: the slot of the channel just chosen is returned.
ReturnSlot_Rescoped(r) ==
  LET key == ResolveChannelConcurrency(serving[r].channel, serving[r].model).key
  IN /\ serving[r].pc = "return"
     /\ active' = IF serving[r].held = NoKey \/ key = NoKey THEN active ELSE Released(key)
     /\ Serve(r, [serving[r] EXCEPT !.pc = "take", !.held = NoKey])
     /\ UNCHANGED <<settings, changes>>

\* releaseChannelConcurrency after the next channel was found.
ReturnSlot(r) ==
  /\ serving[r].pc = "return"
  /\ active' = IF serving[r].held = NoKey THEN active ELSE Released(serving[r].held)
  /\ Serve(r, [serving[r] EXCEPT !.pc = "take", !.held = NoKey])
  /\ UNCHANGED <<settings, changes>>

Full(scope) == active[scope.key] >= scope.limit

\* AcquireChannelConcurrency: without a limit nothing is counted; a full
\* channel ends the request, it is not tried again.
TakeSlot(r) ==
  LET q == serving[r]
      scope == ResolveChannelConcurrency(q.channel, q.model)
  IN /\ q.pc = "take"
     /\ \/ /\ scope.limit <= 0
           /\ Serve(r, [q EXCEPT !.pc = "upstream"])
           /\ UNCHANGED active
        \/ /\ scope.limit > 0 /\ Full(scope)
           /\ Serve(r, [q EXCEPT !.pc = "exit"])
           /\ UNCHANGED active
        \/ /\ scope.limit > 0 /\ ~Full(scope)
           /\ Serve(r, [q EXCEPT !.pc = "upstream", !.held = scope.key, !.bound = scope.limit])
           /\ active' = [active EXCEPT ![scope.key] = @ + 1]
     /\ UNCHANGED <<settings, changes>>

\* The attempt is over: it is repeated, or the request ends, by success, a
\* final error, a billing or body error or a panic.
EndAttempt(r) ==
  LET q == serving[r]
  IN /\ q.pc = "upstream"
     /\ \/ /\ q.attempt < MaxRetries
           /\ Serve(r, [q EXCEPT !.pc = "choose", !.attempt = @ + 1])
        \/ Serve(r, [q EXCEPT !.pc = "exit"])
     /\ UNCHANGED <<settings, active, changes>>

\* The deferred release, on every way out.
ExitSlot(r) ==
  /\ serving[r].pc = "exit"
  /\ active' = IF serving[r].held = NoKey THEN active ELSE Released(serving[r].held)
  /\ Serve(r, NotServing)
  /\ UNCHANGED <<settings, changes>>

\* An administrator saves options or a channel.
ChangeSettings(s) ==
  /\ changes < MaxChanges /\ s # settings
  /\ settings' = s
  /\ changes' = changes + 1
  /\ UNCHANGED <<active, serving>>

SlotsInit ==
  /\ settings \in SlotSettings
  /\ active = [k \in SlotKey |-> 0]
  /\ serving = [r \in SlotRequests |-> NotServing]
  /\ changes = 0

ServeStep(r) ==
  \/ \E m \in Models, c \in Channels : SlotArrive(r, m, c)
  \/ GetChannel(r) \/ ReturnSlot(r) \/ TakeSlot(r) \/ EndAttempt(r) \/ ExitSlot(r)

SlotsNext ==
  \/ \E r \in SlotRequests : ServeStep(r)
  \/ \E s \in SlotSettings : ChangeSettings(s)

SlotsSpec == SlotsInit /\ [][SlotsNext]_slotVars

-----------------------------------------------------------------------------
(* Properties *)

Holders(key) == {r \in SlotRequests : serving[r].held = key}

\* Every counter is the number of requests that hold a slot of it: none is
\* lost or returned twice on any way out of the loop, whatever settings change
\* between taking and returning it.  And it never exceeds every limit its holders
\* were admitted under, though they compare with limits of different age.
SlotsAccounted ==
  \A key \in SlotKey :
    /\ active[key] = Cardinality(Holders(key))
    /\ Holders(key) # {} => \E r \in Holders(key) : active[key] <= serving[r].bound

\* The limit an administrator set for a channel and model, for settings that
\* never changed.
ConfiguredScope(c, m) == ResolveChannelConcurrency(Loaded(c), m)

InFlight(key) ==
  {r \in SlotRequests :
     /\ serving[r].pc = "upstream"
     /\ ConfiguredScope(serving[r].channel.id, serving[r].model).key = key}

\* "limits the number of requests in flight on one channel, those beyond it are
\* refused" (setting/channel_concurrency.go): requests of a scope in flight are
\* never more than its limit.
ConfiguredLimitHolds ==
  \A c \in Channels, m \in Models :
    LET scope == ConfiguredScope(c, m)
    IN scope.limit > 0 => Cardinality(InFlight(scope.key)) <= scope.limit

=============================================================================
