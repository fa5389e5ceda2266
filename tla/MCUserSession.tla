--------------------------- MODULE MCUserSession ---------------------------
(* Small instances of UserSession for TLC. *)
EXTENDS UserSession, TLC

\* The calls are interchangeable (used where only safety is checked).
CallerSymmetry == Permutations(Callers)
=============================================================================
