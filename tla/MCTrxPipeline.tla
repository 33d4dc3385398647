--------------------------- MODULE MCTrxPipeline ---------------------------
(* A small instance of TrxPipeline for TLC. *)
EXTENDS TrxBlock

CONSTANTS a, b, n, k, z, v    \* two rich accounts, a new one, a contract,
                              \* the zero address and the proposer

MCAddr == {a, b, n, k, z, v}

Rich(bal) == [NewAccount EXCEPT !.bal = bal]

MCGenesis == [x \in MCAddr |-> IF x = a THEN Rich(9) ELSE IF x = b THEN Rich(6) ELSE NoAcct]

(* A plain transaction: gas 2 at the current price, no payer. *)
Plain(type, from, to, amount, nonce) ==
  [type |-> type, from |-> from, to |-> to, payer |-> Nil, amount |-> amount,
   nonce |-> nonce, gas |-> 2, price |-> GasPrice, arg |-> 1, evm |-> "ok",
   used |-> 1, creates |-> k, valid |-> TRUE, runs |-> TRUE]

(* A payment to a new account, which later spends; payers who are not the  *)
(* sender; a stake, an unstaking that is refused and a withdrawal; the     *)
(* deployment of a contract, and transfers that become calls once it is    *)
(* there, with calls that succeed, revert and fail; a transaction made for *)
(* an older gas price, which cannot be prepared.                           *)
MCTxs ==
  { Plain("transfer", a, n, 3, 0),
    Plain("transfer", n, b, 1, 0),
    [Plain("transfer", b, n, 5, 0) EXCEPT !.payer = a],
    [Plain("setdoc", a, b, 0, 1) EXCEPT !.payer = n],
    Plain("staking", b, b, 5, 0),
    [Plain("unstaking", b, b, 0, 1) EXCEPT !.runs = FALSE, !.payer = a],
    [Plain("withdraw", a, z, 0, 0) EXCEPT !.payer = b],
    Plain("contract", a, z, 1, 0),
    Plain("transfer", b, k, 2, 0),
    [Plain("transfer", b, k, 2, 0) EXCEPT !.evm = "revert"],
    [Plain("transfer", a, k, 2, 1) EXCEPT !.evm = "error"],
    [Plain("gov", b, z, 0, 0) EXCEPT !.price = GasPrice + 1] }

ThreeThenTwo == <<3, 2>>
=============================================================================
