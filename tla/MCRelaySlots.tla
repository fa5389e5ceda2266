---------------------------- MODULE MCRelaySlots ----------------------------
(* Settings for RelaySlots. *)
EXTENDS RelaySlots

\* A channel c1 with a limit of its own and one for model m1, a channel c2
\* without, and the default.
Limits(on, default, c1, m1) ==
  [enabled |-> on, default |-> default,
   channels |-> [c \in Channels |->
     [concurrency |-> IF c = "c1" THEN c1 ELSE Unset,
      models |-> [m \in Models |-> IF c = "c1" /\ m = "m1" THEN m1 ELSE Unset]]]]

MixedLimits == {Limits(TRUE, 2, 1, 1), Limits(TRUE, 1, 0, Unset), Limits(FALSE, 2, 1, 1)}

ChannelLimit == {Limits(TRUE, 0, 1, Unset)}

=============================================================================
