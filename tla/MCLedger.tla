------------------------------ MODULE MCLedger ------------------------------
(* A small instance of Ledger for TLC. *)
EXTENDS Ledger, TLC

Symmetry == Permutations(Key) \cup Permutations(Val)
=============================================================================
