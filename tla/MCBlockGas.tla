----------------------------- MODULE MCBlockGas -----------------------------
(* A small instance of BlockGas. *)
EXTENDS BlockGas
=============================================================================
