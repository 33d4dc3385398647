------------------------- MODULE TrxPipelineProofs -------------------------
(***************************************************************************)
(* Theorems about TrxPipeline, for every set of transactions and accounts, *)
(* any number of workers and any capacity of their channels.  The          *)
(* inductive invariant IInv is defined in TrxPreparerProofs.               *)
(***************************************************************************)
EXTENDS TrxPreparerProofs

(* A worker takes the head of its queue. *)
LEMMA PrepareSenderStep ==
  ASSUME IInv, NEW w \in Worker, PrepareSender(w)
  PROVE  IInv'
<1> DEFINE Q  == chReqParams[w]
           q  == Head(Q)
           ok == q.req.gas >= MinTrxGas /\ q.req.price = GasPrice
           t  == IF ok THEN FindAccount(st, q.req.from) ELSE st
           p  == Found(t, q.req.from)
           c  == Ctx(q.req, p, Nil, Nil)
           r1 == [pc |-> "receiver", idx |-> q.idx, req |-> q.req, ctx |-> c]
           r2 == [pc |-> "store", idx |-> q.idx, req |-> q.req, ctx |-> Nil]
           r  == IF ok /\ p # Nil THEN r1 ELSE r2
<1>1. /\ wk[w].pc = "idle" /\ Q # <<>> /\ st' = t /\ wk' = [wk EXCEPT ![w] = r]
      /\ chReqParams' = [chReqParams EXCEPT ![w] = Tail(Q)]
      /\ UNCHANGED <<phase, height, resultValues, wg, txsCnt, next, feeSum, uncredited, resp>>
  BY Zenon DEF PrepareSender
<1> HIDE DEF Q, q, ok, t, p, c, r1, r2, r
<1>2. phase = "deliver" /\ Good(st)
  BY <1>1, BusyMeansDeliver DEF Q
<1>3. chReqParams \in [Worker -> Seq(Request)] /\ Q \in Seq(Request)
  <2>1. chReqParams \in [Worker -> Seq(Request)]
    BY StateTypes
  <2>2. QED
    BY <2>1 DEF Q
<1>4. /\ q \in Request /\ Tail(Q) \in Seq(Request) /\ Len(Q) \in Nat /\ Len(Q) >= 1
      /\ q = Q[1] /\ 1 \in DOMAIN Q
      /\ DOMAIN Tail(Q) = 1 .. Len(Q) - 1 /\ DOMAIN Q = 1 .. Len(Q)
      /\ \A i \in 1 .. Len(Q) - 1 : Tail(Q)[i] = Q[i + 1]
  BY <1>1, <1>3 DEF q
<1>5. q.idx \in Nat /\ q.req \in Txs /\ q.req \in Tx /\ q.req.from \in Addr
  BY <1>4, PipelineAssumption, TxFields DEF Request
<1>6. Safe(st, t) /\ (ok /\ p # Nil => Points(t, q.req.from, p))
  <2>1. CASE ok
    BY <1>2, <1>5, <2>1, FindAccountGood DEF Safe, Points, t, p
  <2>2. CASE ~ok
    BY <1>2, <2>2, SafeRefl DEF t
  <2>3. QED
    BY <2>1, <2>2
<1>7. ok /\ p # Nil => p \in Ptr
  BY <1>6, PointsAt DEF Safe, At
<1>8. /\ ok /\ p # Nil => c \in PartialCtx /\ c # Nil
      /\ c.tx = q.req /\ c.sender = p /\ c.receiver = Nil /\ c.payer = Nil
  BY <1>5, <1>7, PipelineAssumption DEF Ctx, PartialCtx, c
<1>9. r \in WorkerState /\ r.idx = q.idx /\ r.pc \in {"receiver", "store"}
  BY <1>5, <1>8 DEF WorkerState, r, r1, r2
<1>10. /\ r.req = q.req
       /\ \/ r.pc = "receiver" /\ r.ctx = c /\ ok /\ p # Nil
          \/ r.pc = "store" /\ r.ctx = Nil
  BY DEF r, r1, r2
<1>11. /\ wk' \in [Worker -> WorkerState] /\ wk'[w] = r
       /\ \A x \in Worker : x # w => wk'[x] = wk[x]
  BY <1>1, <1>9, StateTypes
<1>12. /\ chReqParams' \in [Worker -> Seq(Request)] /\ chReqParams'[w] = Tail(Q)
       /\ \A x \in Worker : x # w => chReqParams'[x] = chReqParams[x]
  BY <1>1, <1>3, <1>4
<1>13. /\ \A x \in Worker : x # w => Queued(x)' = Queued(x) /\ Busy(x)' = Busy(x)
       /\ Busy(w) = {} /\ Busy(w)' = {q.idx}
  BY <1>1, <1>9, <1>11, <1>12 DEF Queued, Busy
<1>14. Queued(w) = Queued(w)' \cup {q.idx}
  <2>1. \A i \in DOMAIN Q : i = 1 \/ (i - 1 \in DOMAIN Tail(Q) /\ Tail(Q)[i - 1] = Q[i])
    BY <1>4
  <2>2. \A i \in DOMAIN Tail(Q) : i + 1 \in DOMAIN Q /\ Tail(Q)[i] = Q[i + 1]
    BY <1>4
  <2>3. Queued(w) = {Q[i].idx : i \in DOMAIN Q}
    BY DEF Queued, Q
  <2>4. Queued(w)' = {Tail(Q)[i].idx : i \in DOMAIN Tail(Q)}
    BY <1>12 DEF Queued
  <2>5. ASSUME NEW i \in DOMAIN Q
        PROVE  Q[i].idx \in Queued(w)' \cup {q.idx}
    <3>1. CASE i = 1
      BY <1>4, <3>1
    <3>2. CASE i # 1
      BY <2>1, <2>4, <3>2
    <3>3. QED
      BY <3>1, <3>2
  <2>6. \A n \in Queued(w)' \cup {q.idx} : n \in Queued(w)
    BY <1>4, <2>2, <2>3, <2>4
  <2>7. QED
    BY <2>3, <2>5, <2>6
<1>15. Pending' = Pending
  <2>1. \A n : (\E x \in Worker : n \in Queued(x)' \/ n \in Busy(x)')
             <=> (\E x \in Worker : n \in Queued(x) \/ n \in Busy(x))
    BY <1>13, <1>14
  <2>2. Pending' = {n \in 0 .. Len(resultValues) :
                     \E x \in Worker : n \in Queued(x)' \/ n \in Busy(x)'}
    BY <1>1 DEF Pending
  <2>3. QED
    BY <2>1, <2>2, Zenon DEF Pending
<1>16. Counted'
  BY <1>1, <1>15 DEF IInv, Counted
<1>17. Dealt'
  <2>1. \A i \in DOMAIN Q : /\ Q[i].idx % NWorkers = w /\ Q[i].idx < Len(resultValues)
                           /\ \A j \in DOMAIN Q : i < j => Q[i].idx < Q[j].idx
    BY DEF IInv, Dealt, Q
  <2>2. \A i \in DOMAIN Tail(Q) :
          /\ Tail(Q)[i].idx % NWorkers = w /\ Tail(Q)[i].idx < Len(resultValues)
          /\ \A j \in DOMAIN Tail(Q) : i < j => Tail(Q)[i].idx < Tail(Q)[j].idx
          /\ q.idx < Tail(Q)[i].idx
    BY <1>4, <2>1
  <2>3. q.idx % NWorkers = w /\ q.idx < Len(resultValues)
    BY <1>4, <2>1
  <2>4. \A x \in Worker : x # w => wk'[x] = wk[x] /\ chReqParams'[x] = chReqParams[x]
    BY <1>11, <1>12
  <2>5. QED
    BY <1>1, <1>9, <1>11, <1>12, <2>2, <2>3, <2>4 DEF IInv, Dealt
<1>18. Answered'
  <2> SUFFICES ASSUME NEW i \in DOMAIN resultValues, Misplaced(i)
               PROVE  \/ i - 1 \in UNION {Queued(x)' : x \in Worker}
                      \/ \E x \in Worker : wk'[x].pc \notin {"idle", "done"} /\ wk'[x].idx = i - 1
    BY <1>1 DEF Answered, Misplaced
  <2>1. CASE i - 1 \in UNION {Queued(x) : x \in Worker}
    BY <1>9, <1>11, <1>13, <1>14, <2>1
  <2>2. CASE \E x \in Worker : wk[x].pc \notin {"idle", "done"} /\ wk[x].idx = i - 1
    BY <1>1, <1>11, <2>2
  <2>3. QED
    BY <2>1, <2>2 DEF IInv, Answered
<1>19. Safe(st, st')
  BY <1>1, <1>6
<1>20. AllLinked'
  <2>1. \A x \in Worker : x # w => WorkerLinked(x)'
    BY <1>11, <1>19, LinksKept DEF IInv, AllLinked
  <2>2. WorkerLinked(w)'
    BY <1>1, <1>5, <1>6, <1>8, <1>10, <1>11 DEF WorkerLinked
  <2>3. QED
    BY <1>1, <1>19, <2>1, <2>2, ResultsKept DEF IInv, AllLinked
<1>21. TypeOK'
  BY <1>1, <1>11, <1>12, <1>19 DEF IInv, TypeOK, Safe, Good
<1>22. Phased'
  BY <1>1, <1>2, <1>19 DEF Phased, Safe
<1>23. QED
  BY <1>16, <1>17, <1>18, <1>20, <1>21, <1>22 DEF IInv

(* DeliverTx adds a request that nobody else has. *)
LEMMA DeliverTxStep ==
  ASSUME IInv, NEW tx \in Txs, DeliverTx(tx)
  PROVE  IInv'
<1>0. /\ Len(resultValues) \in Nat /\ Len(resultValues) % NWorkers \in Worker
      /\ chReqParams \in [Worker -> Seq(Request)]
  BY PipelineAssumption, StateTypes DEF Worker
<1> SUFFICES ASSUME NEW n \in Nat, n = Len(resultValues),
                    NEW w \in Worker, w = n % NWorkers,
                    NEW Q \in Seq(Request), Q = chReqParams[w]
             PROVE  IInv'
  BY <1>0
<1> DEFINE q == [idx |-> n, req |-> tx]
           R == Append(Q, q)
<1>1. /\ phase = "deliver" /\ resultValues' = Append(resultValues, Nil) /\ wg' = wg + 1
      /\ chReqParams' = [chReqParams EXCEPT ![w] = R]
      /\ UNCHANGED <<phase, height, wk, txsCnt, next, st, feeSum, uncredited, resp>>
  BY DEF DeliverTx
<1>2. n \in Nat /\ resultValues \in Seq({Nil} \cup Result)
  BY StateTypes
<1>3. w \in Worker
  OBVIOUS
<1>4. /\ Len(resultValues') = n + 1 /\ resultValues' \in Seq({Nil} \cup Result)
      /\ DOMAIN resultValues = 1 .. n /\ DOMAIN resultValues' = 1 .. n + 1
      /\ resultValues'[n + 1] = Nil
      /\ \A i \in 1 .. n : resultValues'[i] = resultValues[i]
  BY <1>1, <1>2
<1>5. q \in Request /\ q.idx = n
  BY <1>2 DEF Request
<1>6. chReqParams \in [Worker -> Seq(Request)] /\ Q \in Seq(Request)
  BY <1>3, StateTypes
<1>7. w = n % NWorkers
  OBVIOUS
<1> HIDE DEF q
<1>8. /\ R \in Seq(Request) /\ Len(Q) \in Nat
      /\ DOMAIN Q = 1 .. Len(Q) /\ DOMAIN R = 1 .. Len(Q) + 1
      /\ R[Len(Q) + 1] = q /\ \A i \in 1 .. Len(Q) : R[i] = Q[i]
  BY <1>5, <1>6
<1> HIDE DEF R
<1>9. /\ chReqParams' \in [Worker -> Seq(Request)] /\ chReqParams'[w] = R
      /\ \A x \in Worker : x # w => chReqParams'[x] = chReqParams[x]
  BY <1>1, <1>3, <1>6, <1>8
<1>10. \A i \in DOMAIN Q : Q[i].idx \in Nat /\ Q[i].idx < n
  <2>1. \A i \in DOMAIN Q : Q[i] \in Request
    BY <1>8
  <2>2. \A i \in DOMAIN Q : Q[i].idx < n
    BY DEF IInv, Dealt
  <2>3. QED
    BY <2>1, <2>2 DEF Request
<1>11. Queued(w)' = Queued(w) \cup {n} /\ \A x \in Worker : x # w => Queued(x)' = Queued(x)
  <2>1. Queued(w) = {Q[i].idx : i \in DOMAIN Q} /\ Queued(w)' = {R[i].idx : i \in DOMAIN R}
    BY <1>9 DEF Queued
  <2>2. ASSUME NEW i \in DOMAIN R PROVE R[i].idx \in Queued(w) \cup {n}
    <3>1. CASE i \in DOMAIN Q
      BY <1>8, <2>1, <3>1
    <3>2. CASE i = Len(Q) + 1
      BY <1>5, <1>8, <3>2
    <3>3. QED
      BY <1>8, <3>1, <3>2
  <2>3. n \in Queued(w)'
    <3>1. Len(Q) + 1 \in DOMAIN R /\ R[Len(Q) + 1].idx = n
      BY <1>5, <1>8
    <3>2. QED
      BY <2>1, <3>1
  <2>6. ASSUME NEW i \in DOMAIN Q PROVE Q[i].idx \in Queued(w)'
    <3>1. i \in DOMAIN R /\ R[i] = Q[i]
      BY <1>8
    <3>2. QED
      BY <2>1, <3>1
  <2>4. \A x \in Worker : x # w => Queued(x)' = Queued(x)
    BY <1>9 DEF Queued
  <2>5. QED
    BY <2>1, <2>2, <2>3, <2>4, <2>6
<1>12. \A x \in Worker : Busy(x)' = Busy(x)
  BY <1>1 DEF Busy
<1>13. \A x \in Worker : \A m \in Queued(x) \cup Busy(x) : m \in Nat /\ m < n
  <2>1. \A x \in Worker : \A i \in DOMAIN chReqParams[x] :
          chReqParams[x][i] \in Request /\ chReqParams[x][i].idx < n
    BY <1>6 DEF IInv, Dealt
  <2>2. \A x \in Worker : wk[x].idx \in Nat /\ (wk[x].pc # "idle" => wk[x].idx < n)
    BY StateTypes DEF IInv, Dealt, WorkerState
  <2>3. QED
    BY <2>1, <2>2 DEF Queued, Busy, Request
<1>14. n \notin Pending /\ Pending' = Pending \cup {n}
  <2>1. n \notin Pending
    BY <1>2, <1>13 DEF Pending
  <2>2. \A m : (\E x \in Worker : m \in Queued(x)' \/ m \in Busy(x)')
             <=> (\E x \in Worker : m \in Queued(x) \/ m \in Busy(x)) \/ m = n
    BY <1>3, <1>11, <1>12
  <2>3. Pending' = {m \in 0 .. n + 1 : (\E x \in Worker : m \in Queued(x) \/ m \in Busy(x)) \/ m = n}
    BY <1>4, <2>2 DEF Pending
  <2>4. Pending = {m \in 0 .. n : \E x \in Worker : m \in Queued(x) \/ m \in Busy(x)}
    BY DEF Pending
  <2>5. \A m \in Pending' : m \in Pending \cup {n}
    BY <1>2, <1>13, <2>3, <2>4
  <2>6. \A m \in Pending \cup {n} : m \in Pending'
    BY <1>2, <2>3, <2>4
  <2>7. QED
    BY <2>1, <2>5, <2>6
<1>15. Counted'
  BY <1>1, <1>14, NumberedAdd DEF IInv, Counted
<1>16. Dealt'
  <2>1. \A x \in Worker : x # w => chReqParams'[x] = chReqParams[x]
    BY <1>9
  <2>2. \A i \in DOMAIN R :
          /\ R[i].idx % NWorkers = w /\ R[i].idx < n + 1
          /\ \A j \in DOMAIN R : i < j => R[i].idx < R[j].idx
          /\ wk[w].pc # "idle" => wk[w].idx < R[i].idx
    <3>1. \A i \in DOMAIN Q :
            /\ Q[i].idx % NWorkers = w
            /\ \A j \in DOMAIN Q : i < j => Q[i].idx < Q[j].idx
            /\ wk[w].pc # "idle" => wk[w].idx < Q[i].idx
      BY <1>3 DEF IInv, Dealt
    <3>2. wk[w].pc # "idle" => wk[w].idx < n
      BY <1>3 DEF IInv, Dealt
    <3>3. \A i \in DOMAIN R : (i \in DOMAIN Q /\ R[i] = Q[i]) \/ (i = Len(Q) + 1 /\ R[i].idx = n)
      BY <1>5, <1>8
    <3>4. \A i \in DOMAIN R : R[i].idx % NWorkers = w /\ R[i].idx < n + 1
      BY <1>2, <1>7, <1>10, <3>1, <3>3
    <3>5. \A i \in DOMAIN R : wk[w].pc # "idle" => wk[w].idx < R[i].idx
      BY <3>1, <3>2, <3>3
    <3>6. \A i, j \in DOMAIN R : i < j => R[i].idx < R[j].idx
      <4> SUFFICES ASSUME NEW i \in DOMAIN R, NEW j \in DOMAIN R, i < j
                   PROVE  R[i].idx < R[j].idx
        OBVIOUS
      <4>1. i \in DOMAIN Q /\ R[i] = Q[i]
        BY <1>8, <3>3
      <4>2. CASE j \in DOMAIN Q /\ R[j] = Q[j]
        BY <3>1, <4>1, <4>2
      <4>3. CASE R[j].idx = n
        BY <1>10, <4>1, <4>3
      <4>4. QED
        BY <3>3, <4>2, <4>3
    <3>7. QED
      BY <3>4, <3>5, <3>6
  <2>3. \A x \in Worker : wk[x].idx \in Nat
    BY StateTypes DEF WorkerState
  <2>4. ASSUME NEW x \in Worker, NEW i \in DOMAIN chReqParams[x]
        PROVE  chReqParams[x][i].idx \in Nat
    <3>1. chReqParams[x] \in Seq(Request)
      BY <1>6
    <3>2. chReqParams[x][i] \in Request
      BY <3>1
    <3>3. QED
      BY <3>2 DEF Request
  <2>5. QED
    BY <1>1, <1>2, <1>4, <1>9, <2>1, <2>2, <2>3, <2>4 DEF IInv, Dealt
<1>17. Answered'
  <2> SUFFICES ASSUME NEW i \in 1 .. n + 1
               PROVE  \/ \E x \in Worker : i - 1 \in Queued(x)'
                      \/ \E x \in Worker : wk'[x].pc \notin {"idle", "done"} /\ wk'[x].idx = i - 1
                      \/ ~Misplaced(i)'
    BY <1>4 DEF Answered
  <2>1. CASE i = n + 1
    <3>1. i - 1 = n
      BY <2>1
    <3>2. n \in Queued(w)'
      BY <1>11
    <3>3. QED
      BY <3>1, <3>2
  <2>2. CASE i \in 1 .. n
    <3>1. \/ \E x \in Worker : i - 1 \in Queued(x)
          \/ \E x \in Worker : wk[x].pc \notin {"idle", "done"} /\ wk[x].idx = i - 1
          \/ ~Misplaced(i)
      BY <1>4, <2>2 DEF IInv, Answered
    <3>2. Misplaced(i)' = Misplaced(i)
      BY <1>4, <2>2 DEF Misplaced
    <3>3. QED
      BY <1>1, <1>11, <3>1, <3>2
  <2>3. QED
    BY <1>2, <2>1, <2>2
<1>18. Safe(st, st')
  BY <1>1, SafeRefl DEF IInv, Phased
<1>19. AllLinked'
  <2>1. \A x \in Worker : WorkerLinked(x)'
    BY <1>1, <1>18, LinksKept DEF IInv, AllLinked
  <2>2. ASSUME NEW i \in 1 .. n + 1, resultValues'[i] # Nil, resultValues'[i].ctx # Nil
        PROVE  Linked(st', resultValues'[i].ctx)
    <3>1. i \in 1 .. n
      BY <1>2, <1>4, <2>2
    <3>2. resultValues'[i] = resultValues[i] /\ i \in DOMAIN resultValues
      BY <1>4, <3>1
    <3>3. QED
      BY <1>1, <2>2, <3>2 DEF IInv, AllLinked
  <2>3. QED
    BY <1>4, <2>1, <2>2 DEF AllLinked
<1>20. TypeOK'
  BY <1>1, <1>4, <1>9 DEF IInv, TypeOK
<1>21. Phased'
  BY <1>1 DEF IInv, Phased
<1>22. QED
  BY <1>15, <1>16, <1>17, <1>19, <1>20, <1>21 DEF IInv

-----------------------------------------------------------------------------
(* Steps of the ABCI calls. *)

(* A step that leaves the preparer alone leaves its part of the invariant. *)
LEMMA PreparerUnchanged ==
  ASSUME IInv, UNCHANGED <<chReqParams, wk, resultValues, wg>>
  PROVE  Dealt' /\ Counted' /\ Answered'
<1>1. Pending' = Pending
  BY PendingSame
<1>2. Counted'
  BY <1>1 DEF IInv, Counted
<1>3. Dealt'
  BY DEF IInv, Dealt
<1>4. Answered'
  BY AnsweredKept DEF IInv
<1>5. QED
  BY <1>2, <1>3, <1>4

LEMMA LinkedUnchanged ==
  ASSUME IInv, UNCHANGED <<wk, resultValues>>, Safe(st, st')
  PROVE  AllLinked'
<1>1. \A x \in Worker : WorkerLinked(x)'
  BY LinksKept DEF IInv, AllLinked
<1>2. QED
  BY <1>1, ResultsKept DEF IInv, AllLinked

(* When nothing is pending every worker is idle and every result is there. *)
LEMMA NothingPending ==
  ASSUME IInv, wg = 0
  PROVE  /\ \A w \in Worker : wk[w] = Idle /\ chReqParams[w] = <<>>
         /\ \A i \in DOMAIN resultValues : ~Misplaced(i)
<1>1. Pending = {}
  <2>1. Numbered(Pending, 0)
    BY DEF IInv, Counted
  <2>2. QED
    BY <2>1, NumberedEmpty
<1>2. ASSUME NEW w \in Worker PROVE wk[w].pc = "idle" /\ chReqParams[w] = <<>>
  <2>1. SUFFICES ASSUME wk[w].pc # "idle" \/ chReqParams[w] # <<>> PROVE FALSE
    OBVIOUS
  <2>2. Len(resultValues) \in Nat /\ chReqParams[w] \in Seq(Request) /\ wk[w].idx \in Nat
    BY StateTypes DEF WorkerState
  <2>3. CASE wk[w].pc # "idle"
    <3>1. wk[w].idx < Len(resultValues)
      BY <2>3 DEF IInv, Dealt
    <3>2. QED
      BY <1>1, <2>2, <2>3, <3>1 DEF Pending, Busy
  <2>4. CASE chReqParams[w] # <<>>
    <3>1. 1 \in DOMAIN chReqParams[w] /\ chReqParams[w][1] \in Request
      BY <2>2, <2>4
    <3>2. chReqParams[w][1].idx \in Nat /\ chReqParams[w][1].idx < Len(resultValues)
      BY <3>1 DEF IInv, Dealt, Request
    <3>3. chReqParams[w][1].idx \in Pending
      BY <2>2, <3>1, <3>2 DEF Pending, Queued
    <3>4. QED
      BY <1>1, <3>3
  <2>5. QED
    BY <2>1, <2>3, <2>4
<1>3. \A w \in Worker : Queued(w) = {}
  BY <1>2 DEF Queued
<1>4. \A w \in Worker : wk[w] = Idle
  BY <1>2 DEF IInv, Dealt
<1>5. \A i \in DOMAIN resultValues : ~Misplaced(i)
  BY <1>2, <1>3 DEF IInv, Answered
<1>6. QED
  BY <1>2, <1>4, <1>5

LEMMA BeginBlockStep == ASSUME IInv, BeginBlock PROVE IInv'
<1>1. /\ phase = "idle" /\ phase' = "deliver" /\ st' = [st EXCEPT !.gas = GasLimit]
      /\ txsCnt' = 0 /\ feeSum' = 0 /\ resp' = <<>> /\ next' = 1
      /\ UNCHANGED <<height, chReqParams, wk, resultValues, wg, uncredited>>
  BY DEF BeginBlock
<1>2. Good(st)
  BY <1>1 DEF IInv, Phased
<1>3. /\ st' \in AccountSide /\ st'.heap = st.heap /\ st'.cache = st.cache
      /\ st'.newbies = st.newbies /\ st'.tree = st.tree
  <2>1. st \in AccountSide /\ GasLimit \in Int
    BY <1>2, PipelineAssumption DEF Good
  <2>2. st' = [st EXCEPT !.gas = GasLimit]
    BY <1>1
  <2>3. QED
    BY <2>1, <2>2, Zenon DEF AccountSide
<1>4. Safe(st, st')
  BY <1>2, <1>3 DEF Safe, Good, Keeps, At, Current
<1>5. TypeOK'
  BY <1>1, <1>3 DEF IInv, TypeOK
<1>6. Phased'
  BY <1>1, <1>4 DEF Phased, Safe
<1>7. QED
  BY <1>1, <1>4, <1>5, <1>6, PreparerUnchanged, LinkedUnchanged DEF IInv

LEMMA EndBlockWaitStep == ASSUME IInv, EndBlockWait PROVE IInv'
<1>1. /\ phase = "deliver" /\ wg = 0 /\ phase' \in {"exec", "panic"}
      /\ UNCHANGED <<height, chReqParams, wk, resultValues, wg, txsCnt, next, st,
                     feeSum, uncredited, resp>>
  BY DEF EndBlockWait
<1>2. Good(st) /\ Safe(st, st')
  BY <1>1, SafeRefl DEF IInv, Phased
<1>3. TypeOK'
  BY <1>1 DEF IInv, TypeOK
<1>4. Phased'
  BY <1>1, <1>2 DEF Phased
<1>5. QED
  BY <1>1, <1>2, <1>3, <1>4, PreparerUnchanged, LinkedUnchanged DEF IInv

LEMMA EndBlockExecStep == ASSUME IInv, EndBlockExec PROVE IInv'
<1>1. /\ phase = "exec" /\ next <= Len(resultValues)
      /\ UNCHANGED <<height, chReqParams, wk, resultValues, wg, txsCnt>>
  BY DEF EndBlockExec
<1>2. Good(st) /\ wg = 0
  BY <1>1 DEF IInv, Phased
<1>3. resultValues \in Seq({Nil} \cup Result) /\ next \in Nat \ {0}
  BY StateTypes, CountTypes
<1>11. next \in DOMAIN resultValues
  BY <1>1, <1>3
<1>4. ~Misplaced(next)
  BY <1>2, <1>11, NothingPending
<1>5. phase' = phase /\ next' = next + 1
  BY <1>4 DEF EndBlockExec
<1>6. resultValues[next] # Nil
  BY <1>4 DEF Misplaced
<1>7. /\ Safe(st, st') /\ feeSum' \in Int /\ uncredited' \in Int
      /\ resp' \in Seq([ok : BOOLEAN, used : Nat])
  <2>1. resp \in Seq([ok : BOOLEAN, used : Nat]) /\ feeSum \in Int /\ uncredited \in Int
    BY CountTypes
  <2>2. CASE resultValues[next].ctx = Nil
    <3>1. st' = st /\ feeSum' = feeSum /\ uncredited' = uncredited
          /\ resp' = Append(resp, [ok |-> FALSE, used |-> 0])
      BY <1>4, <2>2 DEF EndBlockExec
    <3>2. QED
      BY <1>2, <2>1, <3>1, SafeRefl
  <2>3. CASE resultValues[next].ctx # Nil
    <3> DEFINE c == resultValues[next].ctx
               r == ExecuteSync(st, c)
               a == [ok |-> r.ok, used |-> r.used]
    <3>1. /\ st' = r.s /\ resp' = Append(resp, a)
          /\ feeSum' = IF r.ok THEN feeSum + r.used * GasPrice ELSE feeSum
          /\ uncredited' = IF r.ok THEN uncredited ELSE uncredited + r.used * c.tx.price
      BY <1>4, <2>3 DEF EndBlockExec, ExecTrx
    <3>2. Linked(st, c)
      BY <1>6, <1>11, <2>3 DEF IInv, AllLinked
    <3>3. SafeOutcome(st, r)
      BY <1>2, <3>2, ExecuteSyncSafe
    <3> HIDE DEF r
    <3>4. Safe(st, st') /\ r.ok \in BOOLEAN /\ r.used \in Nat
      BY <3>1, <3>3 DEF SafeOutcome
    <3>5. c.tx.price \in Nat
      BY <3>2, TxFields DEF Linked
    <3> HIDE DEF c
    <3>6. r.used * GasPrice \in Int /\ r.used * c.tx.price \in Int
      BY <3>4, <3>5, ExecAssumption
    <3>7. feeSum' \in Int /\ uncredited' \in Int
      BY <2>1, <3>1, <3>6
    <3>8. a \in [ok : BOOLEAN, used : Nat]
      BY <3>4, Zenon
    <3> HIDE DEF a
    <3>9. resp' \in Seq([ok : BOOLEAN, used : Nat])
      BY <2>1, <3>1, <3>8
    <3>10. QED
      BY <3>4, <3>7, <3>9
  <2>4. QED
    BY <2>2, <2>3
<1>8. TypeOK'
  BY <1>1, <1>3, <1>5, <1>7 DEF IInv, TypeOK, Safe, Good
<1>9. Phased'
  BY <1>1, <1>2, <1>5, <1>7 DEF Phased, Safe
<1>10. QED
  BY <1>1, <1>7, <1>8, <1>9, PreparerUnchanged, LinkedUnchanged DEF IInv

(* The split of the fees comes when no context is left. *)
LEMMA EndBlockFinishStep == ASSUME IInv, EndBlockFinish PROVE IInv'
<1>1. /\ phase = "exec" /\ phase' = "ended" /\ resultValues' = <<>> /\ st' = splitFee(st)
      /\ UNCHANGED <<height, chReqParams, wk, wg, txsCnt, next, feeSum, uncredited, resp>>
  BY DEF EndBlockFinish
<1>2. Good(st) /\ wg = 0
  BY <1>1 DEF IInv, Phased
<1>3. \A w \in Worker : wk[w] = Idle /\ chReqParams[w] = <<>>
  BY <1>2, NothingPending
<1>4. GoodCache(st')
  <2>1. GoodCache(st)
    BY <1>2 DEF Good, GoodCache
  <2>2. feeSum \in Int
    BY CountTypes
  <2>3. (feeSum * TxFeeRewardRate) \div 100 \in Int
    BY <2>2, PipelineAssumption
  <2>4. feeSum - ((feeSum * TxFeeRewardRate) \div 100) \in Int
    BY <2>2, <2>3
  <2>5. Proposer \in Addr /\ DeadAddress \in Addr
    BY ExecAssumption, PipelineAssumption
  <2>6. GoodCache(splitFee(st))
    BY <2>1, <2>3, <2>4, <2>5, AddBalanceAtCache DEF splitFee
  <2>7. QED
    BY <1>1, <2>6
<1>5. TypeOK'
  BY <1>1, <1>4 DEF IInv, TypeOK, GoodCache
<1>6. Dealt'
  BY <1>1, <1>3 DEF Dealt, Idle
<1>7. Counted'
  <2>1. \A w \in Worker : Queued(w)' = {} /\ Busy(w)' = {}
    BY <1>1, <1>3 DEF Queued, Busy, Idle
  <2>2. Pending' = {}
    BY <2>1 DEF Pending
  <2>3. QED
    BY <1>1, <1>2, <2>2, NumberedEmpty DEF Counted
<1>8. Answered' /\ AllLinked'
  <2>1. DOMAIN resultValues' = {}
    BY <1>1
  <2>2. \A w \in Worker : WorkerLinked(w)'
    BY <1>1, <1>3 DEF WorkerLinked, Idle
  <2>3. QED
    BY <2>1, <2>2 DEF Answered, AllLinked
<1>9. Phased'
  BY <1>1 DEF Phased
<1>10. QED
  BY <1>5, <1>6, <1>7, <1>8, <1>9 DEF IInv

LEMMA FreshGood ==
  ASSUME NEW tree \in [Addr -> Acct \cup {NoAcct}], NEW moved \in Int
  PROVE  Good(Fresh(tree, moved))
<1> DEFINE f == Fresh(tree, moved)
<1>1. /\ [a \in Addr |-> <<>>] \in [Addr -> Seq(Acct)]
      /\ EmptyMap \in [Addr -> Ptr \cup {Nil}] /\ GasLimit \in Int
  BY PipelineAssumption DEF EmptyMap
<1>2. f \in AccountSide /\ f.cache = EmptyMap /\ f.newbies = EmptyMap
  BY <1>1 DEF Fresh, AccountSide
<1> HIDE DEF f
<1>3. Good(f)
  BY <1>2 DEF Good, EmptyMap
<1>4. QED
  BY <1>3 DEF f

LEMMA CommitStep == ASSUME IInv, Commit PROVE IInv'
<1>1. /\ phase = "ended" /\ phase' = "idle" /\ height' = height + 1
      /\ st' = Fresh(st.tree, st.moved)
      /\ UNCHANGED <<chReqParams, wk, resultValues, wg, txsCnt, next, feeSum,
                     uncredited, resp>>
  BY DEF Commit
<1>2. st.tree \in [Addr -> Acct \cup {NoAcct}] /\ st.moved \in Int
  BY DEF IInv, TypeOK, AccountSide
<1>3. Good(st')
  BY <1>1, <1>2, FreshGood
<1>4. resultValues = <<>>
  BY <1>1 DEF IInv, Phased
<1>5. \A w \in Worker : wk[w].pc = "idle"
  BY <1>1, BusyMeansDeliver
<1>6. TypeOK'
  BY <1>1, <1>3 DEF IInv, TypeOK, Good
<1>7. \A w \in Worker : wk[w] = Idle
  BY <1>5 DEF IInv, Dealt
<1>8. AllLinked'
  <2>1. DOMAIN resultValues' = {}
    BY <1>1, <1>4
  <2>2. \A w \in Worker : WorkerLinked(w)'
    BY <1>1, <1>7 DEF WorkerLinked, Idle
  <2>3. QED
    BY <2>1, <2>2 DEF AllLinked
<1>9. Phased'
  BY <1>1, <1>3, <1>4 DEF Phased
<1>10. QED
  BY <1>1, <1>6, <1>8, <1>9, PreparerUnchanged DEF IInv

-----------------------------------------------------------------------------
(* The invariant holds in every reachable state. *)
THEOREM IInvHolds == Spec => []IInv
<1>1. IInv /\ [Next]_vars => IInv'
  <2> SUFFICES ASSUME IInv, [Next]_vars PROVE IInv'
    OBVIOUS
  <2>1. ASSUME NEW w \in Worker, WorkerStep(w) PROVE IInv'
    BY <2>1, PrepareSenderStep, PrepareReceiverStep, PreparePayerStep, CountTxStep,
       StoreResultStep, SignalDoneStep DEF WorkerStep
  <2>2. CASE UNCHANGED vars
    <3>1. TypeOK' /\ Phased'
      BY <2>2 DEF vars, IInv, TypeOK, Phased
    <3>2. AllLinked'
      BY <2>2, Zenon DEF vars, IInv, AllLinked, WorkerLinked
    <3>3. QED
      BY <2>2, <3>1, <3>2, PreparerUnchanged DEF vars, IInv
  <2>3. QED
    BY <2>1, <2>2, BeginBlockStep, DeliverTxStep, EndBlockWaitStep, EndBlockExecStep,
       EndBlockFinishStep, CommitStep DEF Next
<1>2. QED
  BY InitIInv, <1>1, PTL DEF Spec

(* Type correctness of the pipeline. *)
THEOREM TypeCorrect == Spec => []TypeOK
<1>1. IInv => TypeOK
  BY DEF IInv
<1>2. QED
  BY <1>1, IInvHolds, PTL

(* EndBlock executes the transactions only when every preparer has         *)
(* answered and every result is at its place, for any number of workers    *)
(* and any capacity of their channels.                                     *)
THEOREM Prepared == Spec => []PreparedBeforeExecution
<1>1. IInv => PreparedBeforeExecution
  BY NothingPending DEF IInv, Phased, PreparedBeforeExecution
<1>2. QED
  BY <1>1, IInvHolds, PTL

(* Contexts that name the same address share its account object, whatever  *)
(* the transactions, the accounts and the interleaving of the preparers.   *)
THEOREM SharedObjects == Spec => []ContextsShareObjects
<1>1. IInv => ContextsShareObjects
  BY LinkedShare
<1>2. QED
  BY <1>1, IInvHolds, PTL
=============================================================================
