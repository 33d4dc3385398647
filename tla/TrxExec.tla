------------------------------ MODULE TrxExec ------------------------------
(***************************************************************************)
(* Execution of one transaction against the account controller:            *)
(* node/trx_executor.go (validateTrx, runTrx, postRunTrx) together with    *)
(* the handlers it calls, as far as they touch accounts, and the object    *)
(* cache of ledger/v1.                                                     *)
(*                                                                         *)
(* Go hands out account OBJECTS, and several transaction contexts of a     *)
(* block may hold the same one.  The model keeps that: an account object   *)
(* is a cell of `heap', a pointer is <<address, number of the cell>>, and  *)
(* a handler changes the cell its pointer names, then writes the cell to   *)
(* the ledger tree with SetAccount.                                        *)
(*                                                                         *)
(* The account side of a block in execution is a record s:                 *)
(*   s.heap[a]     the objects allocated for address a, oldest first       *)
(*   s.tree[a]     the encoded account in the ledger, or NoAcct            *)
(*   s.cache[a]    MutableLedger.cachedObjs, a pointer or Nil              *)
(*   s.newbies[a]  AcctCtrler.newbiesDeliver, a pointer or Nil             *)
(*   s.gas         the block gas pool                                      *)
(*   s.moved       what staking took out of the accounts into the voting   *)
(*                 power ledger, less the rewards withdrawn into them      *)
(***************************************************************************)
EXTENDS Integers, Sequences

CONSTANTS
  Addr,          \* account addresses
  ZeroAddress,   \* the destination of a deployment
  Proposer,      \* the proposer of the block (the EVM coinbase)
  NoAcct,        \* no account in the ledger
  Nil,           \* the nil pointer, and an absent payer or address
  GasPrice,      \* GovParams.gasPrice
  MinTrxGas      \* GovParams.minTrxGas

TxType == {"transfer", "setdoc", "contract", "staking", "unstaking", "withdraw", "gov"}

(* `arg' is the payload: the document of a setdoc, the amount of a         *)
(* withdraw.  `evm' is what the interpreter does with a call: "ok",        *)
(* "revert" (a failed call that is still charged) or "error" (a consensus  *)
(* error of TransitionDb, not charged); `used' the gas it uses, `creates'  *)
(* the address of a deployed contract.  `valid' and `runs' are the         *)
(* verdicts of the handler named by `type' on its own state.               *)
Tx == [type : TxType, from : Addr, to : Addr, payer : Addr \cup {Nil},
       amount : Nat, nonce : Nat, gas : Nat, price : Nat, arg : Nat,
       evm : {"ok", "revert", "error"}, used : Nat, creates : Addr,
       valid : BOOLEAN, runs : BOOLEAN]

Acct == [bal : Int, nonce : Nat, code : BOOLEAN, doc : Nat]
Ptr == Addr \X (Nat \ {0})

(* The account side of a block. *)
AccountSide ==
  [heap : [Addr -> Seq(Acct)], tree : [Addr -> Acct \cup {NoAcct}],
   cache : [Addr -> Ptr \cup {Nil}], newbies : [Addr -> Ptr \cup {Nil}],
   gas : Int, moved : Int]

ASSUME ExecAssumption ==
  /\ {ZeroAddress, Proposer} \subseteq Addr
  /\ Nil \notin Addr /\ Nil \notin Ptr /\ NoAcct \notin Acct
  /\ GasPrice \in Nat /\ MinTrxGas \in Nat

NewAccount == [bal |-> 0, nonce |-> 0, code |-> FALSE, doc |-> 0]

EmptyMap == [a \in Addr |-> Nil]

-----------------------------------------------------------------------------
(* Objects. *)

Deref(s, p) == s.heap[p[1]][p[2]]

Alloc(s, a, acct) == [s EXCEPT !.heap[a] = Append(@, acct)]
NextPtr(s, a) == <<a, Len(s.heap[a]) + 1>>

(* Assign to the object a pointer names. *)
Write(s, p, acct) == [s EXCEPT !.heap[p[1]][p[2]] = acct]

AddBalance(s, p, amt) == Write(s, p, [Deref(s, p) EXCEPT !.bal = @ + amt])
SubBalance(s, p, amt) == Write(s, p, [Deref(s, p) EXCEPT !.bal = @ - amt])
AddNonce(s, p) == Write(s, p, [Deref(s, p) EXCEPT !.nonce = @ + 1])
SetDoc(s, p, d) == Write(s, p, [Deref(s, p) EXCEPT !.doc = d])
SetCode(s, p) == Write(s, p, [Deref(s, p) EXCEPT !.code = TRUE, !.nonce = 1])

CheckBalance(s, p, amt) == amt <= Deref(s, p).bal
CheckNonce(s, p, n) == Deref(s, p).nonce = n

-----------------------------------------------------------------------------
(* MutableLedger.Get: the cached object, or one decoded from the tree. *)
FindAccount(s, a) ==
  IF s.cache[a] # Nil \/ s.tree[a] = NoAcct
  THEN s
  ELSE [Alloc(s, a, s.tree[a]) EXCEPT !.cache[a] = NextPtr(s, a)]

(* The pointer FindAccount returns, read in the state after the call. *)
Found(s, a) == s.cache[a]

(* Mutant: an address without account gets a new object at every call. *)
FindOrNewAccountForgets(s, a) ==
  LET t == FindAccount(s, a)
  IN  IF Found(t, a) # Nil
      THEN t
      ELSE [Alloc(t, a, NewAccount) EXCEPT !.newbies[a] = NextPtr(t, a)]

(* AcctCtrler.FindOrNewAccount holds the lock of the controller throughout. *)
FindOrNewAccount(s, a) ==
  LET t == FindAccount(s, a)
  IN  IF Found(t, a) # Nil \/ t.newbies[a] # Nil
      THEN t
      ELSE [Alloc(t, a, NewAccount) EXCEPT !.newbies[a] = NextPtr(t, a)]

(* The object of an address: what FindOrNewAccount returns after the call. *)
Current(s, a) == IF s.cache[a] # Nil THEN s.cache[a] ELSE s.newbies[a]

(* AcctCtrler.SetAccount: encode into the tree and cache the pointer. *)
SetAccount(s, p) ==
  [s EXCEPT !.tree[p[1]] = Deref(s, p), !.cache[p[1]] = p]

(* AcctCtrler.AddBalance, by address: it does not look into newbies. *)
AddBalanceAt(s, a, amt) ==
  LET t == FindAccount(s, a)
      p == IF Found(t, a) # Nil THEN Found(t, a) ELSE NextPtr(t, a)
      u == IF Found(t, a) # Nil THEN t ELSE Alloc(t, a, NewAccount)
  IN  SetAccount(AddBalance(u, p, amt), p)

-----------------------------------------------------------------------------
(* A transaction context: the transaction and its three account pointers. *)

Fee(tx) == tx.gas * tx.price

IsHandledByEVM(s, c) ==
  \/ c.tx.type = "contract"
  \/ c.tx.type = "transfer" /\ Deref(s, c.receiver).code

(* Mutant: the sender who pays needs the fee, but not the amount with it. *)
commonValidationFeeOnly(s, c) ==
  /\ s.gas > 0 /\ s.gas >= c.tx.gas
  /\ CheckBalance(s, c.payer, Fee(c.tx)) /\ CheckBalance(s, c.sender, c.tx.amount)
  /\ CheckNonce(s, c.sender, c.tx.nonce)

(* commonValidation.  Amounts below 2^255 cannot wrap fee + amount. *)
commonValidation(s, c) ==
  /\ s.gas > 0 /\ s.gas >= c.tx.gas
  /\ IF c.sender[1] # c.payer[1]
     THEN CheckBalance(s, c.payer, Fee(c.tx)) /\ CheckBalance(s, c.sender, c.tx.amount)
     ELSE CheckBalance(s, c.sender, Fee(c.tx) + c.tx.amount)
  /\ CheckNonce(s, c.sender, c.tx.nonce)

(* EVMCtrler.ValidateTrx: a deployment, or a call of an account with code. *)
validateEVM(s, c) == c.receiver[1] = ZeroAddress \/ Deref(s, c.receiver).code

validateTrx(s, c) ==
  /\ commonValidation(s, c)
  /\ c.tx.type = "contract" => validateEVM(s, c)
  /\ c.tx.type = "withdraw" => c.tx.amount = 0
  /\ c.tx.type # "transfer" => c.tx.valid

-----------------------------------------------------------------------------
(* Handlers.  An outcome: the state after, success, and the gas used. *)

Outcome(s, ok, used) == [s |-> s, ok |-> ok, used |-> used]

(* AcctCtrler.ExecuteTrx of a transfer, and of a document change. *)
executeAcct(s, c) ==
  LET t == IF c.tx.type = "transfer"
           THEN AddBalance(SubBalance(s, c.sender, c.tx.amount), c.receiver, c.tx.amount)
           ELSE SetDoc(s, c.sender, c.tx.arg)
  IN  IF c.tx.type = "transfer" /\ ~CheckBalance(s, c.sender, c.tx.amount)
      THEN Outcome(s, FALSE, 0)
      ELSE Outcome(SetAccount(SetAccount(t, c.sender), c.receiver), TRUE, 0)

(* VPowerCtrler.execBonding as far as the accounts see it. *)
executeStaking(s, c) ==
  IF c.tx.runs /\ CheckBalance(s, c.sender, c.tx.amount)
  THEN Outcome([SetAccount(SubBalance(s, c.sender, c.tx.amount), c.sender)
                  EXCEPT !.moved = @ + c.tx.amount], TRUE, 0)
  ELSE Outcome(s, FALSE, 0)

(* SupplyCtrler.withdrawReward: AcctCtrler.Reward, by the sender's address. *)
executeWithdraw(s, c) ==
  LET t == FindAccount(s, c.tx.from)
      p == Found(t, c.tx.from)
  IN  IF p = Nil
      THEN Outcome(s, FALSE, 0)
      ELSE Outcome([SetAccount(AddBalance(t, p, c.tx.arg), p)
                      EXCEPT !.moved = @ - c.tx.arg], TRUE, 0)

(* A proposal, a vote and an unstaking leave the accounts alone. *)
executeElsewhere(s, c) == Outcome(s, c.tx.runs, 0)

(* StateDBWrapper.Initiate loads the sender and, unless the transaction is *)
(* a deployment, the destination.                                          *)
Initiate(s, tx) ==
  LET t == FindOrNewAccount(s, tx.from)
  IN  IF tx.to = ZeroAddress THEN t ELSE FindOrNewAccount(t, tx.to)

(* The account that receives the value of a call: a created contract, or   *)
(* the destination.                                                        *)
Callee(tx) == IF tx.to = ZeroAddress THEN tx.creates ELSE tx.to

(* Prepare and the interpreter: the coinbase, and a created contract. *)
LoadAccessed(s, tx) == FindOrNewAccount(FindOrNewAccount(s, Proposer), Callee(tx))

(* StateDBWrapper.Finish: what the EVM computed is written through the     *)
(* object FindOrNewAccount returns for each accessed address.              *)
Finish(s, tx) ==
  LET from   == Current(s, tx.from)
      callee == Current(s, Callee(tx))
      t == AddBalance(SubBalance(s, from, tx.amount), callee, tx.amount)
      u == IF tx.to = ZeroAddress THEN SetCode(t, callee) ELSE t
  IN  SetAccount(SetAccount(SetAccount(u, from), callee), Current(s, Proposer))

(* Mutant: a reverted call keeps its effects. *)
executeEVMKeepsReverted(s, c) ==
  LET i == Initiate(s, c.tx)
      t == LoadAccessed(i, c.tx)
  IN  IF c.tx.evm = "error"
      THEN Outcome([i EXCEPT !.gas = @ - c.tx.gas], FALSE, 0)
      ELSE Outcome([Finish(t, c.tx) EXCEPT !.gas = @ - c.tx.used],
                   c.tx.evm = "ok", c.tx.used)

(* EVMCtrler.ExecuteTrx.  Gas is bought from the block pool for the whole  *)
(* limit and the rest is returned, except after a consensus error, which   *)
(* comes before Prepare.                                                   *)
executeEVM(s, c) ==
  LET i == Initiate(s, c.tx)
      t == LoadAccessed(i, c.tx)
  IN  CASE c.tx.evm = "ok" ->
             Outcome([Finish(t, c.tx) EXCEPT !.gas = @ - c.tx.used], TRUE, c.tx.used)
        [] c.tx.evm = "revert" ->
             Outcome([t EXCEPT !.gas = @ - c.tx.used], FALSE, c.tx.used)
        [] c.tx.evm = "error" ->
             Outcome([i EXCEPT !.gas = @ - c.tx.gas], FALSE, 0)

execute(s, c) ==
  CASE IsHandledByEVM(s, c) -> executeEVM(s, c)
    [] c.tx.type = "staking" -> executeStaking(s, c)
    [] c.tx.type = "withdraw" -> executeWithdraw(s, c)
    [] c.tx.type \in {"gov", "unstaking"} -> executeElsewhere(s, c)
    [] OTHER -> executeAcct(s, c)

-----------------------------------------------------------------------------
(* postRunTrx: the gas, the fee, then the nonce, then the two accounts. *)
postRunTrx(r, c) ==
  LET evm  == IsHandledByEVM(r.s, c)
      used == IF evm THEN r.used ELSE c.tx.gas
      s1   == IF evm \/ r.s.gas < c.tx.gas THEN r.s ELSE [r.s EXCEPT !.gas = @ - c.tx.gas]
      fee  == used * c.tx.price
      s2   == SetAccount(AddNonce(SubBalance(s1, c.payer, fee), c.sender), c.sender)
  IN  Outcome(CASE ~CheckBalance(s1, c.payer, fee) -> s1
                [] c.sender[1] # c.payer[1] -> SetAccount(s2, c.payer)
                [] OTHER -> s2,
              r.ok, used)

(* runTrx with exec = true: postRunTrx runs whatever the handler returned, *)
(* and an error of postRunTrx is not returned.                             *)
runTrx(s, c) == postRunTrx(execute(s, c), c)

(* TrxExecutor.ExecuteSync *)
ExecuteSync(s, c) ==
  IF validateTrx(s, c) THEN runTrx(s, c) ELSE Outcome(s, FALSE, 0)
=============================================================================
