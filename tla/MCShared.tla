------------------------------ MODULE MCShared ------------------------------
(***************************************************************************)
(* What nodes and requests share: the named lease, a channel's slots and   *)
(* its status, a user's authentication version.  They have no variable in  *)
(* common, so a behaviour moves one of them, and the state space is their  *)
(* sum instead of their product.                                           *)
(***************************************************************************)
EXTENDS NamedLease, MCRelaySlots, UserAuthCache, ChannelStatus

VARIABLE part   \* the mechanism that moves

sharedVars == <<part, leaseVars, slotVars, authVars, channelVars>>

SharedInit ==
  /\ part \in {"lease", "slots", "auth", "channel"}
  /\ LeaseInit /\ (part # "lease" => use = "sync")
  /\ SlotsInit /\ (part # "slots" => settings = CHOOSE s \in SlotSettings : TRUE)
  /\ AuthInit
  /\ ChannelInit

SharedNext ==
  \/ part = "lease" /\ LeaseNext /\ UNCHANGED <<part, slotVars, authVars, channelVars>>
  \/ part = "slots" /\ SlotsNext /\ UNCHANGED <<part, leaseVars, authVars, channelVars>>
  \/ part = "auth" /\ AuthNext /\ UNCHANGED <<part, leaseVars, slotVars, channelVars>>
  \/ part = "channel" /\ ChannelNext /\ UNCHANGED <<part, leaseVars, slotVars, authVars>>

\* LeaseFairness, AuthFairness and ChannelFairness, each for the behaviours that
\* move it.
OfLease(A) == part = "lease" /\ A

OfAuth(A) == part = "auth" /\ A

OfChannel(A) == part = "channel" /\ A

SharedFairness ==
  /\ SF_leaseVars(OfLease(LeaseTick))
  /\ \A w \in Workers :
       /\ WF_leaseVars(OfLease(Start(w))) /\ WF_leaseVars(OfLease(CallStep(w)))
       /\ WF_leaseVars(OfLease(BeatStep(w))) /\ SF_leaseVars(OfLease(BeatStop(w)))
  /\ WF_authVars(OfAuth(AuthTick))
  /\ \A r \in Readers : WF_authVars(OfAuth(ReadStart(r))) /\ WF_authVars(OfAuth(ReadStep(r)))
  /\ \A t \in Bumpers : WF_authVars(OfAuth(BumpStep(t)))
  /\ \A c \in StatusCalls : WF_channelVars(OfChannel(StatusStep(c)))
  /\ \A n \in CachingNodes : WF_channelVars(OfChannel(SyncStep(n)))

SharedSpec == SharedInit /\ [][SharedNext]_sharedVars /\ SharedFairness

\* WorkGoesOn: work under a lease is done again and again; neither a lease left
\* by a crash or a failed release nor an open breaker ends it.
LeaseWorkGoesOn == []<>(part = "lease" => \E w \in Workers : Entitled(w))

\* DenialEnds: no user is locked out for good by the fence of a transaction
\* that was rolled back.
UserDenialEnds == \A r \in Readers : []<>(part = "auth" => reader[r].pc = "returned")

=============================================================================
