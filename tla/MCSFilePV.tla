----------------------------- MODULE MCSFilePV -----------------------------
(* A small instance of SFilePV for TLC. *)
EXTENDS SFilePV, TLC

Symmetry == Permutations(Value) \cup Permutations(Time)
=============================================================================
