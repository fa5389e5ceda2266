-------------------------- MODULE SessionLifecycle --------------------------
(***************************************************************************)
(* What a login session promises: its refresh secret is exchanged for the  *)
(* next one, its version advances, and once revoked nothing happens to it  *)
(* any more.                                                               *)
(***************************************************************************)
EXTENDS Naturals

VARIABLE session   \* status, version and the generation of the refresh secret

Init == session = [status |-> "active", version |-> 1, gen |-> 1]

\* The current refresh secret is exchanged for its successor.
Rotate == session.status = "active" /\ session' = [session EXCEPT !.gen = @ + 1]

\* The user's security settings changed and this session survives it.
Advance == session.status = "active" /\ session' = [session EXCEPT !.version = @ + 1]

Revoke == session.status = "active" /\ session' = [session EXCEPT !.status = "revoked"]

Next == Rotate \/ Advance \/ Revoke

Spec == Init /\ [][Next]_session

=============================================================================
