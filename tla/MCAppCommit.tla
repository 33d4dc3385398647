---------------------------- MODULE MCAppCommit ----------------------------
(* A small instance of AppCommit. *)
EXTENDS AppCommit
=============================================================================
