-------------------------- MODULE MCStateDBWrapper --------------------------
(* A small instance of StateDBWrapper. *)
EXTENDS StateDBWrapper, TLC

A(b, n, c) == [bal |-> b, nonce |-> n, code |-> c]

(* A sender, a contract, and an address without account. *)
ThreeAccounts ==
  ("e" :> A(2, 0, FALSE)) @@ ("c" :> A(0, 1, TRUE)) @@ ("n" :> A(0, 0, FALSE))
=============================================================================
