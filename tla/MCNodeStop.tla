----------------------------- MODULE MCNodeStop -----------------------------
(* A small instance of NodeStop. *)
EXTENDS NodeStop
=============================================================================
