------------------------------ MODULE MCQuery ------------------------------
(* A small instance of Query. *)
EXTENDS Query

One == [max |-> 1, min |-> 1]
TwoStrong == [max |-> 2, min |-> 2]
AllParams == {One, TwoStrong}

(* Queries that a property relates are asked together. *)
Accounts ==
  [paths |-> {"account", "vm_call", "reward", "total_supply", "txn"},
   kinds |-> {"transfer", "deploy", "reward"}]
Power ==
  [paths |-> {"stakes", "delegatee", "stakes/total_power", "stakes/voting_power"},
   kinds |-> {"stake", "unstake", "propose"}]
Governance == [paths |-> {"proposal", "gov_params"}, kinds |-> {"propose"}]
AllTopics == {Accounts, Power, Governance}
=============================================================================
