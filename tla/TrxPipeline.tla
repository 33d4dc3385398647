---------------------------- MODULE TrxPipeline ----------------------------
(***************************************************************************)
(* The block pipeline of node/app.go and node/trx_preparer.go.             *)
(*                                                                         *)
(* DeliverTx only queues a transaction: one of the preparer's goroutines   *)
(* builds its TrxContext (NewTrxContext), looking up the account objects   *)
(* concurrently with the other goroutines.  EndBlock waits for all of      *)
(* them, compares two counters, executes the contexts one after the other, *)
(* and splits the collected fees.  Commit writes the ledger version.       *)
(*                                                                         *)
(* Not here: the other controllers' own EndBlock steps and the crash       *)
(* behaviour of Commit.                                                    *)
(***************************************************************************)
EXTENDS TrxExec

CONSTANTS
  Txs,              \* the transactions Tendermint may put into a block
  Genesis,          \* the account ledger before the first block
  NWorkers,         \* len(chReqParams), GOMAXPROCS
  ChanCap,          \* capacity of a request channel
  GasLimit,         \* GovParams.blockGasLimit
  TxFeeRewardRate,  \* GovParams.txFeeRewardRate, percent
  DeadAddress,      \* GovParams.deadAddress
  MaxTxs,           \* bound: transactions of each block
  MaxHeight         \* bound: blocks

(* TrxContext, under construction and whole, and an entry of resultValues. *)
PartialCtx == [tx : Txs, sender : Ptr, receiver : Ptr \cup {Nil}, payer : Ptr \cup {Nil}]
WholeCtx == [tx : Txs, sender : Ptr, receiver : Ptr, payer : Ptr]
Result == [idx : Nat, req : Txs, ctx : WholeCtx \cup {Nil}]

ASSUME PipelineAssumption ==
  /\ Txs \subseteq Tx
  /\ Nil \notin PartialCtx /\ Nil \notin Result
  /\ Genesis \in [Addr -> Acct \cup {NoAcct}]
  /\ NWorkers \in Nat \ {0} /\ ChanCap \in Nat \ {0}
  /\ GasLimit \in Nat /\ TxFeeRewardRate \in 0..100
  /\ DeadAddress \in Addr
  /\ MaxHeight \in Nat /\ MaxTxs \in [1 .. MaxHeight -> Nat]

VARIABLES
  phase,         \* "idle", "deliver", "exec", "ended", or "panic"
  height,        \* blocks committed
  chReqParams,   \* the request channel of each worker
  wk,            \* the goroutines of the preparer
  resultValues,  \* one entry per queued transaction, Nil until stored
  wg,            \* the WaitGroup
  txsCnt,        \* BlockContext.txsCnt
  next,          \* index of the loop of EndBlock
  st,            \* the account side (see TrxExec)
  feeSum,        \* BlockContext.feeSum
  uncredited,    \* fees taken from payers and not added to feeSum (history)
  resp           \* the responses handed to Tendermint for this block

vars == <<phase, height, chReqParams, wk, resultValues, wg, txsCnt, next,
          st, feeSum, uncredited, resp>>

Worker == 0 .. NWorkers - 1

(* A context, whole or under construction. *)
Ctx(tx, sender, receiver, payer) ==
  [tx |-> tx, sender |-> sender, receiver |-> receiver, payer |-> payer]

Idle == [pc |-> "idle", idx |-> 0, req |-> Nil, ctx |-> Nil]

Fresh(tree, moved) ==
  [heap |-> [a \in Addr |-> <<>>], tree |-> tree, cache |-> EmptyMap,
   newbies |-> EmptyMap, gas |-> GasLimit, moved |-> moved]

Init ==
  /\ phase = "idle" /\ height = 0
  /\ chReqParams = [w \in Worker |-> <<>>]
  /\ wk = [w \in Worker |-> Idle]
  /\ resultValues = <<>> /\ wg = 0 /\ txsCnt = 0 /\ next = 1
  /\ st = Fresh(Genesis, 0)
  /\ feeSum = 0 /\ uncredited = 0 /\ resp = <<>>

-----------------------------------------------------------------------------
(* A new BlockContext: counters at zero, a full gas pool. *)
BeginBlock ==
  /\ phase = "idle" /\ height < MaxHeight
  /\ phase' = "deliver"
  /\ txsCnt' = 0 /\ feeSum' = 0 /\ resp' = <<>> /\ next' = 1
  /\ st' = [st EXCEPT !.gas = GasLimit]
  /\ UNCHANGED <<height, chReqParams, wk, resultValues, wg, uncredited>>

(* DeliverTx and TrxPreparer.Add: an empty result, one more to wait for,   *)
(* and a request to worker idx % NWorkers; the send blocks on a full       *)
(* channel.                                                                *)
DeliverTx(tx) ==
  LET idx == Len(resultValues)
      w   == idx % NWorkers
  IN  /\ phase = "deliver" /\ idx < MaxTxs[height + 1]
      /\ Len(chReqParams[w]) < ChanCap
      /\ resultValues' = Append(resultValues, Nil)
      /\ wg' = wg + 1
      /\ chReqParams' = [chReqParams EXCEPT ![w] = Append(@, [idx |-> idx, req |-> tx])]
      /\ UNCHANGED <<phase, height, wk, txsCnt, next, st, feeSum, uncredited, resp>>

-----------------------------------------------------------------------------
(* trxPreparerRoutine running NewTrxContext.  Each account lookup is       *)
(* atomic under the locks of AcctCtrler and MutableLedger; other workers   *)
(* run between them.                                                       *)

Move(w, pc, ctx) == wk' = [wk EXCEPT ![w].pc = pc, ![w].ctx = ctx]

(* The gas and price checks, which read no shared state, then the sender. *)
PrepareSender(w) ==
  /\ wk[w].pc = "idle" /\ chReqParams[w] # <<>>
  /\ LET q  == Head(chReqParams[w])
         ok == q.req.gas >= MinTrxGas /\ q.req.price = GasPrice
         t  == IF ok THEN FindAccount(st, q.req.from) ELSE st
         p  == Found(t, q.req.from)
     IN  /\ st' = t
         /\ wk' = [wk EXCEPT ![w] =
                     IF ok /\ p # Nil
                     THEN [pc |-> "receiver", idx |-> q.idx, req |-> q.req,
                           ctx |-> Ctx(q.req, p, Nil, Nil)]
                     ELSE [pc |-> "store", idx |-> q.idx, req |-> q.req, ctx |-> Nil]]
  /\ chReqParams' = [chReqParams EXCEPT ![w] = Tail(@)]
  /\ UNCHANGED <<phase, height, resultValues, wg, txsCnt, next, feeSum, uncredited, resp>>

PrepareReceiver(w) ==
  /\ wk[w].pc = "receiver"
  /\ LET c == wk[w].ctx
     IN  /\ st' = FindOrNewAccount(st, c.tx.to)
         /\ Move(w, "payer", [c EXCEPT !.receiver = Current(st', c.tx.to)])
  /\ UNCHANGED <<phase, height, chReqParams, resultValues, wg, txsCnt, next,
                 feeSum, uncredited, resp>>

PreparePayer(w) ==
  /\ wk[w].pc = "payer"
  /\ LET c == wk[w].ctx
     IN  IF c.tx.payer = Nil
         THEN /\ Move(w, "count", [c EXCEPT !.payer = c.sender])
              /\ UNCHANGED st
         ELSE /\ st' = FindAccount(st, c.tx.payer)
              /\ IF Found(st', c.tx.payer) # Nil
                 THEN Move(w, "count", [c EXCEPT !.payer = Found(st', c.tx.payer)])
                 ELSE Move(w, "store", Nil)
  /\ UNCHANGED <<phase, height, chReqParams, resultValues, wg, txsCnt, next,
                 feeSum, uncredited, resp>>

(* The callback of DeliverTx counts the transaction: after success only. *)
CountTx(w) ==
  /\ wk[w].pc = "count"
  /\ txsCnt' = txsCnt + 1
  /\ Move(w, "store", wk[w].ctx)
  /\ UNCHANGED <<phase, height, chReqParams, resultValues, wg, next, st,
                 feeSum, uncredited, resp>>

(* Mutant: a failed preparation returns before onCompleted. *)
StoreResultSkipsFailed(w) ==
  /\ wk[w].pc = "store"
  /\ IF wk[w].ctx = Nil
     THEN wk' = [wk EXCEPT ![w] = Idle] /\ UNCHANGED resultValues
     ELSE /\ resultValues' = [resultValues EXCEPT ![wk[w].idx + 1] =
                               [idx |-> wk[w].idx, req |-> wk[w].req, ctx |-> wk[w].ctx]]
          /\ Move(w, "done", Nil)
  /\ UNCHANGED <<phase, height, chReqParams, wg, txsCnt, next, st, feeSum,
                 uncredited, resp>>

(* onCompleted: the result under the lock, then WaitGroup.Done. *)
StoreResult(w) ==
  /\ wk[w].pc = "store"
  /\ resultValues' = [resultValues EXCEPT ![wk[w].idx + 1] =
                        [idx |-> wk[w].idx, req |-> wk[w].req, ctx |-> wk[w].ctx]]
  /\ Move(w, "done", Nil)
  /\ UNCHANGED <<phase, height, chReqParams, wg, txsCnt, next, st, feeSum,
                 uncredited, resp>>

SignalDone(w) ==
  /\ wk[w].pc = "done"
  /\ wg' = wg - 1
  /\ wk' = [wk EXCEPT ![w] = Idle]
  /\ UNCHANGED <<phase, height, chReqParams, resultValues, txsCnt, next, st,
                 feeSum, uncredited, resp>>

-----------------------------------------------------------------------------
(* EndBlock up to the loop: Wait, then the comparison of the two counts. *)
EndBlockWait ==
  /\ phase = "deliver" /\ wg = 0
  /\ phase' = IF Len(resultValues) = txsCnt THEN "exec" ELSE "panic"
  /\ UNCHANGED <<height, chReqParams, wk, resultValues, wg, txsCnt, next, st,
                 feeSum, uncredited, resp>>

(* asyncExecTrxContext: the fee is added to feeSum on success only. *)
ExecTrx(c) ==
  LET r == ExecuteSync(st, c)
  IN  /\ st' = r.s
      /\ feeSum' = IF r.ok THEN feeSum + r.used * GasPrice ELSE feeSum
      /\ uncredited' = IF r.ok THEN uncredited ELSE uncredited + r.used * c.tx.price
      /\ resp' = Append(resp, [ok |-> r.ok, used |-> r.used])

Misplaced(i) == resultValues[i] = Nil \/ resultValues[i].idx # i - 1

(* An iteration of the loop: a nil or misplaced result panics, a nil       *)
(* context would be passed over, any other is executed.                    *)
EndBlockExec ==
  /\ phase = "exec" /\ next <= Len(resultValues)
  /\ IF Misplaced(next)
     THEN phase' = "panic" /\ UNCHANGED <<next, st, feeSum, uncredited, resp>>
     ELSE /\ IF resultValues[next].ctx # Nil
             THEN ExecTrx(resultValues[next].ctx)
             ELSE /\ resp' = Append(resp, [ok |-> FALSE, used |-> 0])
                  /\ UNCHANGED <<st, feeSum, uncredited>>
          /\ next' = next + 1
          /\ UNCHANGED phase
  /\ UNCHANGED <<height, chReqParams, wk, resultValues, wg, txsCnt>>

(* Mutant: both shares are rounded down. *)
splitFeeRounded(s) ==
  LET share(r) == (feeSum * r) \div 100
  IN  IF feeSum > 0
      THEN AddBalanceAt(AddBalanceAt(s, Proposer, share(TxFeeRewardRate)),
                        DeadAddress, share(100 - TxFeeRewardRate))
      ELSE s

(* AcctCtrler.EndBlock: the proposer's share, the rest to DeadAddress. *)
splitFee(s) ==
  LET rwdAmt == (feeSum * TxFeeRewardRate) \div 100
  IN  IF feeSum > 0
      THEN AddBalanceAt(AddBalanceAt(s, Proposer, rwdAmt), DeadAddress, feeSum - rwdAmt)
      ELSE s

(* The rest of EndBlock: TrxPreparer.reset, AcctCtrler.EndBlock. *)
EndBlockFinish ==
  /\ phase = "exec" /\ next > Len(resultValues)
  /\ phase' = "ended"
  /\ resultValues' = <<>>
  /\ st' = splitFee(st)
  /\ UNCHANGED <<height, chReqParams, wk, wg, txsCnt, next, feeSum, uncredited, resp>>

(* AcctCtrler.Commit: newbies and cached objects are dropped. *)
Commit ==
  /\ phase = "ended"
  /\ phase' = "idle" /\ height' = height + 1
  /\ st' = Fresh(st.tree, st.moved)
  /\ UNCHANGED <<chReqParams, wk, resultValues, wg, txsCnt, next, feeSum,
                 uncredited, resp>>

-----------------------------------------------------------------------------
WorkerStep(w) ==
  \/ PrepareSender(w) \/ PrepareReceiver(w) \/ PreparePayer(w)
  \/ CountTx(w) \/ StoreResult(w) \/ SignalDone(w)

Next ==
  \/ BeginBlock
  \/ \E tx \in Txs : DeliverTx(tx)
  \/ \E w \in Worker : WorkerStep(w)
  \/ EndBlockWait \/ EndBlockExec \/ EndBlockFinish
  \/ Commit

Spec == Init /\ [][Next]_vars

-----------------------------------------------------------------------------
(* Properties. *)

Request == [idx : Nat, req : Txs]
WorkerState == [pc : {"idle", "receiver", "payer", "count", "store", "done"},
                idx : Nat, req : Txs \cup {Nil}, ctx : PartialCtx \cup {Nil}]

(* Every variable has the shape of the Go value it stands for. *)
TypeOK ==
  /\ phase \in {"idle", "deliver", "exec", "ended", "panic"}
  /\ height \in Nat /\ wg \in Int /\ txsCnt \in Nat /\ next \in Nat \ {0}
  /\ chReqParams \in [Worker -> Seq(Request)]
  /\ wk \in [Worker -> WorkerState]
  /\ resultValues \in Seq({Nil} \cup Result)
  /\ st \in AccountSide
  /\ feeSum \in Int /\ uncredited \in Int
  /\ resp \in Seq([ok : BOOLEAN, used : Nat])

(* The contexts that hold account pointers: those being built by a worker  *)
(* and those stored.                                                       *)
HeldCtx ==
  ({wk[w].ctx : w \in Worker}
     \cup {resultValues[i].ctx : i \in {j \in DOMAIN resultValues : resultValues[j] # Nil}})
  \ {Nil}

(* The pointers a context holds, each with the address it was taken for. *)
Holds(c) ==
  ({<<c.tx.from, c.sender>>, <<c.tx.to, c.receiver>>}
     \cup {<<IF c.tx.payer = Nil THEN c.tx.from ELSE c.tx.payer, c.payer>>})
  \ (Addr \X {Nil})

(* All contexts of a block that name an address hold the same account      *)
(* object for it, the one the ledger hands out: whatever the interleaving  *)
(* of the preparers, and however execution has moved the object from       *)
(* newbiesDeliver into the cache (the lock of FindOrNewAccount, issue #32). *)
ContextsShareObjects ==
  \A c \in HeldCtx : \A h \in Holds(c) : h[2] = Current(st, h[1])

(* When the loop of EndBlock runs, every preparer has finished and the     *)
(* result of transaction i is at place i: the nil and index panics of the  *)
(* loop cannot happen, and nobody else reads the accounts.                 *)
PreparedBeforeExecution ==
  phase = "exec" =>
    /\ \A w \in Worker : wk[w] = Idle /\ chReqParams[w] = <<>>
    /\ \A i \in DOMAIN resultValues : ~Misplaced(i)

(* Whenever no handler is running, the ledger tree holds what the shared   *)
(* objects say: no handler forgets a SetAccount, so Commit loses nothing   *)
(* and the application hash covers every change.                           *)
NoUnsavedMutation ==
  \A a \in Addr :
    /\ st.cache[a] # Nil => st.tree[a] = Deref(st, st.cache[a])
    /\ st.cache[a] = Nil /\ st.newbies[a] # Nil =>
         st.tree[a] = NoAcct /\ Deref(st, st.newbies[a]) = NewAccount

(* EndBlock never waits for nothing: while the wait group is not zero some *)
(* preparer still has a request, whether or not its context can be built   *)
(* and however full the channels are; so every block comes to its end.     *)
WaitEnds ==
  wg > 0 => \E w \in Worker : chReqParams[w] # <<>> \/ wk[w].pc # "idle"

(* EndBlock stops the node for one reason only: a transaction of the block *)
(* has no TrxContext, in whatever order the preparers count and store      *)
(* theirs.  The two counts it compares differ by just these, though the    *)
(* comment of its loop says that such a transaction "is written to         *)
(* blockchain as invalid tx".                                              *)
PanicExplained ==
  phase = "panic" =>
    \E i \in DOMAIN resultValues : resultValues[i] # Nil /\ resultValues[i].ctx = Nil

(* What EndBlock relies on: its wait ends, its loop meets nothing that is  *)
(* still being prepared, and it stops the node for no reason but the one.  *)
EndBlockIsSafe == WaitEnds /\ PreparedBeforeExecution /\ PanicExplained
=============================================================================
