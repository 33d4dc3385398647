------------------------------ MODULE MCMempool ------------------------------
(* A small instance of Mempool. *)
EXTENDS Mempool, TLC

A(b) == [ex |-> TRUE, bal |-> b, nonce |-> 0]
Absent == [ex |-> FALSE, bal |-> 0, nonce |-> 0]

(* Two users, one who pays for others, a contract and a new account. *)
Accounts ==
  ("a" :> A(5)) @@ ("b" :> A(1)) @@ ("p" :> A(3)) @@ ("c" :> A(0)) @@ ("n" :> Absent)

Tx(f, t, p, a, g, n, pr, ty) ==
  [from |-> f, to |-> t, payer |-> p, amt |-> a, gas |-> g, nonce |-> n, price |-> pr, type |-> ty]
Transfer(f, t, p, a, n) == Tx(f, t, p, a, 1, n, 1, "transfer")
Call(f, p, a, n) == Tx(f, "c", p, a, 2, n, 1, "contract")

(* Transfers, to oneself, to a contract and to the new account, which      *)
(* spends; calls; with and without a payer, who may be the sender; two gas *)
(* prices.                                                                 *)
AllTxs ==
  {Transfer("a", "b", None, 2, 0), Transfer("a", "a", None, 1, 0), Transfer("a", "p", "p", 1, 1),
   Transfer("a", "n", None, 2, 1), Transfer("n", "b", None, 0, 0), Transfer("b", "a", None, 2, 0),
   Transfer("p", "c", None, 0, 0), Transfer("b", "a", "b", 0, 1), Call("a", None, 1, 0),
   Call("b", "p", 1, 0), Tx("a", "b", None, 1, 1, 1, 2, "transfer")}
=============================================================================
