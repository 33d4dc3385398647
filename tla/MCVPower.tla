------------------------------ MODULE MCVPower ------------------------------
(* A small instance of VPower. *)
EXTENDS VPower, TLC

TwoValidators == (1 :> 2) @@ (2 :> 2)
NoAccount == (2 :> 0) @@ (3 :> 2)
=============================================================================
