---------------------------- MODULE SerialBlock ----------------------------
(***************************************************************************)
(* What the block pipeline promises: a block is a sequence of transactions *)
(* applied one after the other to a map of account VALUES.  There are no   *)
(* goroutines, no shared objects, no caches: the outcome of a block is a   *)
(* function of the ledger before it and of its transactions, which is what *)
(* makes all nodes compute the same application hash and the same          *)
(* responses.                                                              *)
(*                                                                         *)
(* A block with a transaction whose context cannot be built from the       *)
(* ledger the block starts from halts the node.                            *)
(***************************************************************************)
EXTENDS Integers, Sequences

CONSTANTS Addr, ZeroAddress, Proposer, DeadAddress, NoAcct, Nil, GasPrice,
          MinTrxGas, GasLimit, TxFeeRewardRate, Txs, Genesis

VARIABLES
  phase,    \* "idle", "deliver", "exec", "ended" or "panic"
  acct,     \* address -> account value or NoAcct
  txs,      \* the transactions of the block
  next,     \* the next one to apply
  gas,      \* gas left in the block
  fee,      \* fees of the successful transactions of the block
  resp      \* responses of the block

vars == <<phase, acct, txs, next, gas, fee, resp>>

Init ==
  /\ phase = "idle" /\ acct = Genesis
  /\ txs = <<>> /\ next = 1 /\ gas = GasLimit /\ fee = 0 /\ resp = <<>>

-----------------------------------------------------------------------------
Empty == [bal |-> 0, nonce |-> 0, code |-> FALSE, doc |-> 0]

Val(m, x) == IF m[x] = NoAcct THEN Empty ELSE m[x]

(* An account that was only touched exists afterwards. *)
Touch(m, x) == [m EXCEPT ![x] = Val(m, x)]
Credit(m, x, amt) == [m EXCEPT ![x] = [Val(m, x) EXCEPT !.bal = @ + amt]]
Pay(m, x, y, amt) == Credit(Credit(m, x, -amt), y, amt)

Payer(tx) == IF tx.payer = Nil THEN tx.from ELSE tx.payer

(* A context can be built: a fit gas offer, and known sender and payer. *)
Preparable(tx) ==
  /\ tx.gas >= MinTrxGas /\ tx.price = GasPrice
  /\ acct[tx.from] # NoAcct /\ acct[Payer(tx)] # NoAcct

ByEVM(m, tx) == tx.type = "contract" \/ (tx.type = "transfer" /\ Val(m, tx.to).code)

Valid(m, tx) ==
  LET f == tx.gas * tx.price
  IN  /\ gas > 0 /\ gas >= tx.gas
      /\ m[tx.from].nonce = tx.nonce
      /\ m[tx.from].bal >= tx.amount + (IF Payer(tx) = tx.from THEN f ELSE 0)
      /\ m[Payer(tx)].bal >= f
      /\ tx.type = "contract" => tx.to = ZeroAddress \/ Val(m, tx.to).code
      /\ tx.type = "withdraw" => tx.amount = 0
      /\ tx.type # "transfer" => tx.valid

(* Whether the transaction's own work succeeds, and what it does if so. *)
Succeeds(m, tx) ==
  IF ByEVM(m, tx) THEN tx.evm = "ok"
  ELSE tx.type \in {"staking", "unstaking", "gov"} => tx.runs

Work(m, tx) ==
  CASE ByEVM(m, tx) /\ tx.to = ZeroAddress ->
         [Touch(Pay(m, tx.from, tx.creates, tx.amount), Proposer)
            EXCEPT ![tx.creates].code = TRUE, ![tx.creates].nonce = 1]
    [] ByEVM(m, tx) /\ tx.to # ZeroAddress ->
         Touch(Pay(m, tx.from, tx.to, tx.amount), Proposer)
    [] ~ByEVM(m, tx) /\ tx.type = "transfer" -> Pay(m, tx.from, tx.to, tx.amount)
    [] tx.type = "setdoc" -> [Touch(m, tx.to) EXCEPT ![tx.from].doc = tx.arg]
    [] tx.type = "staking" -> Credit(m, tx.from, -tx.amount)
    [] tx.type = "withdraw" -> Credit(m, tx.from, tx.arg)
    [] tx.type \in {"unstaking", "gov"} -> m

(* The gas charged to a valid transaction, and the gas the pool loses:     *)
(* they differ when the EVM refuses the call.                              *)
Charged(m, tx) ==
  CASE ~ByEVM(m, tx) -> tx.gas
    [] ByEVM(m, tx) /\ tx.evm # "error" -> tx.used
    [] ByEVM(m, tx) /\ tx.evm = "error" -> 0

Drawn(m, tx) == IF ByEVM(m, tx) /\ tx.evm = "error" THEN tx.gas ELSE Charged(m, tx)

Charge(m, tx, amt) ==
  [Credit(m, Payer(tx), -amt) EXCEPT ![tx.from].nonce = @ + 1]

-----------------------------------------------------------------------------
Begin ==
  /\ phase = "idle" /\ phase' = "deliver"
  /\ txs' = <<>> /\ next' = 1 /\ gas' = GasLimit /\ fee' = 0 /\ resp' = <<>>
  /\ UNCHANGED acct

Deliver(tx) ==
  /\ phase = "deliver"
  /\ txs' = Append(txs, tx)
  /\ UNCHANGED <<phase, acct, next, gas, fee, resp>>

Execute ==
  /\ phase = "deliver"
  /\ phase' = IF \A i \in DOMAIN txs : Preparable(txs[i]) THEN "exec" ELSE "panic"
  /\ UNCHANGED <<acct, txs, next, gas, fee, resp>>

Apply ==
  /\ phase = "exec" /\ next <= Len(txs)
  /\ LET tx == txs[next]
         ok == Valid(acct, tx) /\ Succeeds(acct, tx)
         g  == IF Valid(acct, tx) THEN Charged(acct, tx) ELSE 0
     IN  /\ resp' = Append(resp, [ok |-> ok, used |-> g])
         /\ fee' = IF ok THEN fee + g * GasPrice ELSE fee
         /\ gas' = IF Valid(acct, tx) THEN gas - Drawn(acct, tx) ELSE gas
         /\ acct' = IF ~Valid(acct, tx) THEN acct
                    ELSE Charge(IF ok THEN Work(acct, tx) ELSE acct, tx, g * tx.price)
  /\ next' = next + 1
  /\ UNCHANGED <<phase, txs>>

End ==
  /\ phase = "exec" /\ next > Len(txs)
  /\ phase' = "ended"
  /\ LET rwd == (fee * TxFeeRewardRate) \div 100
     IN  acct' = IF fee > 0 THEN Credit(Credit(acct, Proposer, rwd), DeadAddress, fee - rwd)
                 ELSE acct
  /\ txs' = <<>>
  /\ UNCHANGED <<next, gas, fee, resp>>

Commit ==
  /\ phase = "ended" /\ phase' = "idle"
  /\ gas' = GasLimit
  /\ UNCHANGED <<acct, txs, next, fee, resp>>

Next ==
  \/ Begin \/ Execute \/ Apply \/ End \/ Commit
  \/ \E tx \in Txs : Deliver(tx)

Spec == Init /\ [][Next]_vars
=============================================================================
