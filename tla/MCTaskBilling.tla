--------------------------- MODULE MCTaskBilling ---------------------------
(* Small instances of TaskBilling for TLC. *)
EXTENDS TaskBilling, TLC

\* Overlapping passes are interchangeable (used where only safety is checked).
PollerSymmetry == Permutations(Pollers)
=============================================================================
