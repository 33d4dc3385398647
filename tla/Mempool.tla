------------------------------- MODULE Mempool -------------------------------
(***************************************************************************)
(* Which transactions a node accepts before they are in a block: CheckTx   *)
(* of node/app.go, on the side of the account ledger that is not           *)
(* committed.                                                              *)
(*                                                                         *)
(* The consensus engine asks CheckTx for every new transaction, keeps the  *)
(* accepted ones in order, makes blocks of them, and after each block has  *)
(* the remaining ones checked again on the new state.  CheckTx reads       *)
(* copies of accounts, so what it writes back last wins; the execution of  *)
(* a block shares the objects.  All calls hold one mutex (node/client.go), *)
(* and the engine admits nothing new until the second check is done.       *)
(*                                                                         *)
(* Transactions are transfers and contract calls; a receiver with code     *)
(* makes a transfer a contract call.                                       *)
(***************************************************************************)
EXTENDS Integers, Sequences, SequencesExt, FiniteSets, FiniteSetsExt

CONSTANTS
  Addr,
  Contracts,     \* the addresses with code
  Genesis,       \* the accounts at the start
  Txs,           \* bound: the transactions there are
  Prices,        \* the gas prices governance may set
  None,          \* no payer, no block
  IntrinsicGas,  \* what a contract call costs at least
  MaxPool,       \* bound: transactions accepted and waiting
  MaxBlocks      \* bound: blocks

Account == [ex : BOOLEAN, bal : Nat, nonce : Nat]

ASSUME MempoolAssumption ==
  /\ Contracts \subseteq Addr /\ None \notin Addr
  /\ Genesis \in [Addr -> Account]
  /\ Prices \subseteq Nat /\ {IntrinsicGas, MaxPool, MaxBlocks} \subseteq Nat
  /\ \A t \in Txs :
       /\ {t.from, t.to} \subseteq Addr /\ t.payer \in Addr \cup {None}
       /\ {t.amt, t.gas, t.nonce} \subseteq Nat /\ t.price \in Prices
       /\ t.type \in {"transfer", "contract"} /\ IntrinsicGas <= t.gas

VARIABLES
  ledger,  \* the accounts as of the last block
  check,   \* the accounts as CheckTx has left them
  pool,    \* accepted, waiting for a block
  rest,    \* accepted before the last block, to be checked again
  block,   \* the block being executed
  price,   \* the gas price
  blocks,  \* blocks so far
  halted   \* EndBlock has panicked

vars == <<ledger, check, pool, rest, block, price, blocks, halted>>

-----------------------------------------------------------------------------
(* What CheckTx and the execution of a block have in common. *)

PayerOf(t) == IF t.payer = None THEN t.from ELSE t.payer
FeeOf(t) == t.gas * t.price
IsHandledByEVM(t) == t.type = "contract" \/ t.to \in Contracts

(* NewTrxContext: the price, and that the accounts exist. *)
NewTrxContext(w, t) ==
  t.price = price /\ w[t.from].ex /\ w[PayerOf(t)].ex

CheckNonce(w, t) == w[t.from].nonce = t.nonce

commonValidation(w, t) ==
  /\ IF t.from # PayerOf(t)
     THEN FeeOf(t) <= w[PayerOf(t)].bal /\ t.amt <= w[t.from].bal
     ELSE FeeOf(t) + t.amt <= w[t.from].bal
  /\ CheckNonce(w, t)

validateTrx(w, t) ==
  commonValidation(w, t) /\ (t.type = "contract" => t.to \in Contracts)

-----------------------------------------------------------------------------
(* CheckTx. *)

(* The gas CheckTx charges: ValidateTrx of the EVM sets it for contract    *)
(* transactions, and postRunTrx for those the EVM has no part in.          *)
GasUsedInCheck(t) ==
  IF ~ IsHandledByEVM(t) THEN t.gas ELSE IF t.type = "contract" THEN IntrinsicGas ELSE 0

(* Sender, receiver and payer are copies; the sender's is the payer's, too,*)
(* when no payer has signed.                                               *)
SenderAfter(w, t, fee) ==
  [w[t.from] EXCEPT !.bal = @ - t.amt - (IF t.payer = None THEN fee ELSE 0), !.nonce = @ + 1]
PayerAfter(w, t, fee) == [w[t.payer] EXCEPT !.bal = @ - fee]

(* Mutant: the payer is written before the receiver. *)
runTrxPayerFirst(w, t) ==
  LET fee == GasUsedInCheck(t) * t.price
      p   == IF t.payer \in {None, t.from} THEN w ELSE [w EXCEPT ![t.payer] = PayerAfter(w, t, fee)]
      r   == IF IsHandledByEVM(t) THEN p
             ELSE [p EXCEPT ![t.to] = [ex |-> TRUE, bal |-> w[t.to].bal + t.amt, nonce |-> w[t.to].nonce]]
  IN  [r EXCEPT ![t.from] = SenderAfter(w, t, fee)]

(* ExecuteTrx writes the sender and the receiver, postRunTrx the sender    *)
(* again and then the payer, unless it has the sender's address.           *)
runTrx(w, t) ==
  LET fee == GasUsedInCheck(t) * t.price
      r   == IF IsHandledByEVM(t) THEN w
             ELSE [w EXCEPT ![t.to] = [ex |-> TRUE, bal |-> @.bal + t.amt, nonce |-> @.nonce]]
      s   == [r EXCEPT ![t.from] = SenderAfter(w, t, fee)]
  IN  IF t.payer \in {None, t.from} THEN s ELSE [s EXCEPT ![t.payer] = PayerAfter(w, t, fee)]

(* CheckTxType_New.  The engine does not ask twice for the same. *)
CheckTxNew(t) ==
  /\ ~ halted /\ rest = <<>> /\ Len(pool) < MaxPool /\ t \notin Range(pool)
  /\ NewTrxContext(check, t) /\ validateTrx(check, t)
  /\ check' = runTrx(check, t)
  /\ pool' = Append(pool, t)
  /\ UNCHANGED <<ledger, rest, block, price, blocks, halted>>

(* Mutant: the second check leaves the balance alone. *)
recheckNoCharge(t) ==
  [check EXCEPT ![t.from] = [@ EXCEPT !.nonce = @ + 1]]

(* The second check writes the sender and, if there is one, the payer. *)
Rechecked(t) ==
  LET s == [check EXCEPT ![t.from] = SenderAfter(check, t, FeeOf(t))]
  IN  IF t.payer = None THEN s ELSE [s EXCEPT ![t.payer] = PayerAfter(check, t, FeeOf(t))]

recheckValid(t) ==
  /\ check[t.from].ex /\ check[PayerOf(t)].ex
  /\ IF t.payer = None THEN FeeOf(t) + t.amt <= check[t.from].bal
     ELSE t.amt <= check[t.from].bal /\ FeeOf(t) <= check[t.payer].bal
  /\ CheckNonce(check, t)

(* CheckTxType_Recheck of the next transaction. *)
CheckTxRecheck ==
  LET t == Head(rest)
  IN  /\ ~ halted /\ rest # <<>>
      /\ IF recheckValid(t) THEN check' = Rechecked(t) /\ pool' = Append(pool, t)
         ELSE UNCHANGED <<check, pool>>
      /\ rest' = Tail(rest)
      /\ UNCHANGED <<ledger, block, price, blocks, halted>>

-----------------------------------------------------------------------------
(* Blocks. *)

(* A transaction as a block executes it, with what it burns and whether    *)
(* the call succeeds if the EVM has part in it.                            *)
Outcome(t) ==
  IF IsHandledByEVM(t) THEN [gas : IntrinsicGas .. t.gas, ok : BOOLEAN]
  ELSE {[gas |-> t.gas, ok |-> TRUE]}

Add(w, a, d) == [w EXCEPT ![a] = [ex |-> TRUE, bal |-> @.bal + d, nonce |-> @.nonce]]

ExecuteSync(w, t, o) ==
  IF ~ validateTrx(w, t) THEN w
  ELSE LET moved == IF o.ok THEN Add(Add(w, t.from, - t.amt), t.to, t.amt) ELSE w
           paid  == Add(moved, PayerOf(t), - o.gas * t.price)
       IN  [paid EXCEPT ![t.from].nonce = @ + 1]

ExecuteAll(w, s, o) ==
  FoldLeftDomain(LAMBDA v, i : ExecuteSync(v, s[i], o[i]), w, s)

(* The engine makes a block of the first transactions accepted, or another *)
(* node makes one of a transaction this node need not have, but which has  *)
(* been accepted on the same state.                                        *)
Propose ==
  /\ ~ halted /\ rest = <<>> /\ block = None /\ blocks < MaxBlocks
  /\ block' \in {SubSeq(pool, 1, n) : n \in 1 .. Len(pool)} 
                \cup {<<t>> : t \in {u \in Txs : NewTrxContext(ledger, u)}}
  /\ UNCHANGED <<ledger, check, pool, rest, price, blocks, halted>>

(* The contexts of a block are made on the state before it; one that       *)
(* cannot be made panics EndBlock (module TrxPipeline).                    *)
Prepared == \A i \in DOMAIN block : NewTrxContext(ledger, block[i])

(* Mutant: the state of CheckTx survives the block. *)
commitKeepsCheck(o, p) ==
  /\ ~ halted /\ block # None /\ Prepared
  /\ ledger' = ExecuteAll(ledger, block, o)
  /\ check' = check
  /\ rest' = SelectSeq(pool, LAMBDA t : t \notin Range(block)) /\ pool' = <<>>
  /\ price' = p /\ block' = None /\ blocks' = blocks + 1
  /\ UNCHANGED halted

(* EndBlock and Commit: CheckTx starts anew on the state committed, and    *)
(* what is left is to be checked again.                                    *)
Commit(o, p) ==
  /\ ~ halted /\ block # None /\ Prepared
  /\ ledger' = ExecuteAll(ledger, block, o)
  /\ check' = ledger'
  /\ rest' = SelectSeq(pool, LAMBDA t : t \notin Range(block)) /\ pool' = <<>>
  /\ price' = p /\ block' = None /\ blocks' = blocks + 1
  /\ UNCHANGED halted

Panic ==
  /\ ~ halted /\ block # None /\ ~ Prepared
  /\ halted' = TRUE
  /\ UNCHANGED <<ledger, check, pool, rest, block, price, blocks>>

Outcomes ==
  {o \in [DOMAIN block -> UNION {Outcome(t) : t \in Range(block)}] :
     \A i \in DOMAIN block : o[i] \in Outcome(block[i])}

Init ==
  /\ ledger = Genesis /\ check = Genesis
  /\ pool = <<>> /\ rest = <<>> /\ block = None
  /\ price \in Prices /\ blocks = 0 /\ halted = FALSE

Next ==
  \/ \E t \in Txs : CheckTxNew(t)
  \/ CheckTxRecheck \/ Propose \/ Panic
  \/ block # None /\ \E o \in Outcomes, p \in Prices : Commit(o, p)

Spec == Init /\ [][Next]_vars

-----------------------------------------------------------------------------
(* Properties. *)

(* Accounts, transactions and blocks have their types; no balance is       *)
(* negative on either side of the ledger.                                  *)
TypeOK ==
  /\ ledger \in [Addr -> Account] /\ check \in [Addr -> Account]
  /\ pool \in Seq(Txs) /\ rest \in Seq(Txs) /\ block \in Seq(Txs) \cup {None}
  /\ price \in Prices /\ blocks \in 0 .. MaxBlocks /\ halted \in BOOLEAN

(* The accounts after the transactions waiting, each with the gas CheckTx  *)
(* charges for it.                                                         *)
Charged == [i \in DOMAIN pool |-> [gas |-> GasUsedInCheck(pool[i]), ok |-> TRUE]]
After(n) == ExecuteAll(ledger, SubSeq(pool, 1, n), SubSeq(Charged, 1, n))

(* When a sender signs as the payer, too, the second check writes the copy *)
(* of the payer, with the old nonce, over that of the sender.  What        *)
(* CheckTx promises is promised while no such transaction waits.           *)
NoneSelfPaid == \A t \in Range(pool) : t.payer # t.from

(* The transactions of a sender wait in the order of their nonces, without *)
(* gap, from the one the ledger expects; the next one CheckTx accepts      *)
(* follows.                                                                *)
PoolNonces ==
  \A a \in Addr :
    LET own == SelectSeq(pool, LAMBDA t : t.from = a)
    IN  /\ \A i \in DOMAIN own : own[i].nonce = ledger[a].nonce + i - 1
        /\ check[a].nonce = ledger[a].nonce + Len(own)

(* Whatever is accepted can be executed: a block of the transactions       *)
(* waiting, in their order, finds each of them valid, after any blocks of  *)
(* this or another node, if the calls of contracts before it burn no more  *)
(* than CheckTx charges.  Nothing accepted is worthless when it is its     *)
(* turn, and no nonce is missing.                                          *)
PoolExecutes ==
  NoneSelfPaid => PoolNonces /\ \A i \in DOMAIN pool : validateTrx(After(i - 1), pool[i])

(* CheckTx works on copies, credits receivers at first and not when it     *)
(* checks again, but never to the good of anybody: no account has more for *)
(* it than the transactions waiting would leave.                           *)
CheckBelow ==
  TypeOK /\ (NoneSelfPaid => \A a \in Addr : check[a].bal <= After(Len(pool))[a].bal)

(* A block of accepted transactions stops the node in two cases only: the  *)
(* block before changed the gas price, which the second check does not     *)
(* compare, or a transaction spends from an account that an earlier one of *)
(* the same block creates.                                                 *)
HaltExplained ==
  halted =>
    \E i \in DOMAIN block :
      \/ block[i].price # price
      \/ \E j \in 1 .. i - 1 : block[j].to \in {block[i].from, PayerOf(block[i])}
=============================================================================
