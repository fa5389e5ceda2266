---------------------------- MODULE MCSystemTask ----------------------------
(* Small instances of SystemTask for TLC. *)
EXTENDS SystemTask, TLC

\* Nodes are interchangeable (used where only safety is checked).
RunnerSymmetry == Permutations(Runners)
=============================================================================
