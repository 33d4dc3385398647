----------------------------- MODULE TrxBlock ------------------------------
(***************************************************************************)
(* What the block pipeline (TrxPipeline) adds up to: coins and gas are     *)
(* accounted for, and the pipeline implements the serial execution of the  *)
(* block (SerialBlock).                                                    *)
(***************************************************************************)
EXTENDS TrxPipeline, SequencesExt

TotalBalance(tree) ==
  MapThenSumSet(LAMBDA a : IF tree[a] = NoAcct THEN 0 ELSE tree[a].bal, Addr)

(* Coins are neither made nor lost by a block: what the accounts lack is   *)
(* in the block's fee sum, in voting power, or was charged to a failed     *)
(* transaction.                                                            *)
BalanceConserved ==
  TotalBalance(st.tree) + st.moved + uncredited
    + (IF phase \in {"deliver", "exec"} THEN feeSum ELSE 0) = TotalBalance(Genesis)

(* The gas of the executed transactions and the rest of the pool never     *)
(* exceed the block gas limit, and the pool does not go below zero.        *)
BlockGasAccounted ==
  /\ st.gas >= 0
  /\ phase # "idle" =>
       MapThenSumSet(LAMBDA i : resp[i].used, DOMAIN resp) + st.gas <= GasLimit

(* Nothing is lost in a block: every change of an account is saved, every  *)
(* coin is somewhere, and so is every unit of gas.                         *)
NothingLost == NoUnsavedMutation /\ BalanceConserved /\ BlockGasAccounted

(* Executing a transaction that passes validation advances its sender's    *)
(* nonce by exactly one and takes the fee of its gas, whatever its handler *)
(* returns (so it cannot be delivered twice, and the error of postRunTrx,  *)
(* which runTrx drops, cannot happen); one that fails validation changes   *)
(* no account.                                                             *)
ValidatedTrxIsCharged ==
  [][ phase = "exec" /\ next' = next + 1 /\ resultValues[next].ctx # Nil =>
      LET c == resultValues[next].ctx
      IN  IF validateTrx(st, c)
          THEN /\ st'.tree[c.tx.from].nonce = c.tx.nonce + 1
               /\ feeSum' + uncredited' - feeSum - uncredited
                    = Last(resp').used * GasPrice
               /\ ~IsHandledByEVM(st, c) => Last(resp').used = c.tx.gas
          ELSE UNCHANGED <<st, feeSum, uncredited>> ]_vars

(* Where the request of place i is: stored, with a worker, or queued. *)
Requests(i) ==
  ({resultValues[i]} \ {Nil})
    \cup {wk[w] : w \in {x \in Worker : wk[x].pc # "idle" /\ wk[x].idx = i - 1}}
    \cup {q \in UNION {ToSet(chReqParams[w]) : w \in Worker} : q.idx = i - 1}

Serial == INSTANCE SerialBlock WITH
  acct <- st.tree,
  txs  <- [i \in DOMAIN resultValues |-> (CHOOSE r \in Requests(i) : TRUE).req],
  gas  <- st.gas,
  fee  <- feeSum

(* The pipeline implements serial execution: the ledger, the responses and *)
(* whether the node halts depend on the transactions of the block only,    *)
(* not on how the preparers interleave or which objects they share.        *)
ImplementsSerialBlock == Serial!Spec
=============================================================================
