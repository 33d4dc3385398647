-------------------------- MODULE TrxCountProofs --------------------------
(***************************************************************************)
(* The second count of EndBlock: txsCnt against the number of results, for *)
(* every set of transactions and accounts, any number of workers and any   *)
(* capacity of their channels.                                             *)
(***************************************************************************)
EXTENDS TrxPipelineProofs

(* A request that is not answered has no result yet. *)
Unstored ==
  \A w \in Worker :
    /\ \A i \in DOMAIN chReqParams[w] : resultValues[chReqParams[w][i].idx + 1] = Nil
    /\ wk[w].pc \notin {"idle", "done"} => resultValues[wk[w].idx + 1] = Nil

(* The transactions counted: their context is stored, or about to be. *)
StoredCtx(n) ==
  n + 1 \in DOMAIN resultValues /\ resultValues[n + 1] # Nil /\ resultValues[n + 1].ctx # Nil
HeldBy(w, n) == wk[w].pc = "store" /\ wk[w].idx = n /\ wk[w].ctx # Nil
HasCtx(n) == StoredCtx(n) \/ \E w \in Worker : HeldBy(w, n)

(* What txsCnt lacks is the number of the others. *)
Uncounted == {n \in 0 .. Len(resultValues) - 1 : ~HasCtx(n)}
CtxCounted ==
  phase = "deliver" =>
    /\ Len(resultValues) - txsCnt \in Nat
    /\ Numbered(Uncounted, Len(resultValues) - txsCnt)

JInv == Unstored /\ CtxCounted /\ PanicExplained

(* A request that is queued has a place in the results. *)
LEMMA QueuedPlace ==
  ASSUME IInv, NEW x \in Worker, NEW i \in DOMAIN chReqParams[x]
  PROVE  /\ chReqParams[x][i].idx \in Nat
         /\ chReqParams[x][i].idx + 1 \in DOMAIN resultValues
<1>1. resultValues \in Seq({Nil} \cup Result) /\ chReqParams[x] \in Seq(Request)
  BY StateTypes
<1>2. chReqParams[x][i] \in Request
  BY <1>1
<1>3. chReqParams[x][i].idx \in Nat /\ chReqParams[x][i].idx < Len(resultValues)
  BY <1>2 DEF Request, IInv, Dealt
<1>4. QED
  BY <1>1, <1>3

(* No other request has the index a worker is working on. *)
LEMMA Apart ==
  ASSUME IInv, NEW w \in Worker, wk[w].pc # "idle"
  PROVE  /\ wk[w].idx \in Nat /\ wk[w].idx + 1 \in DOMAIN resultValues
         /\ \A x \in Worker : x # w /\ wk[x].pc # "idle" => wk[x].idx # wk[w].idx
         /\ \A x \in Worker : \A i \in DOMAIN chReqParams[x] :
              chReqParams[x][i].idx \in Nat /\ chReqParams[x][i].idx # wk[w].idx
<1>1. resultValues \in Seq({Nil} \cup Result) /\ wk[w].idx \in Nat
  BY StateTypes DEF WorkerState
<1>2. wk[w].idx < Len(resultValues) /\ wk[w].idx % NWorkers = w
  BY DEF IInv, Dealt
<1>3. \A x \in Worker : x # w /\ wk[x].pc # "idle" => wk[x].idx # wk[w].idx
  BY <1>2 DEF IInv, Dealt
<1>4. ASSUME NEW x \in Worker, NEW i \in DOMAIN chReqParams[x]
      PROVE  chReqParams[x][i].idx \in Nat /\ chReqParams[x][i].idx # wk[w].idx
  <2>1. chReqParams[x][i].idx \in Nat /\ chReqParams[x][i].idx % NWorkers = x
    BY <1>4, QueuedPlace DEF IInv, Dealt
  <2>2. x = w => wk[w].idx < chReqParams[x][i].idx
    BY <1>4 DEF IInv, Dealt
  <2>3. QED
    BY <1>1, <1>2, <2>1, <2>2
<1>5. QED
  BY <1>1, <1>2, <1>3, <1>4

LEMMA BeginBlockCount ==
  ASSUME IInv, JInv, BeginBlock
  PROVE  JInv'
<1>1. /\ phase = "idle" /\ phase' = "deliver" /\ txsCnt' = 0
      /\ UNCHANGED <<chReqParams, wk, resultValues>>
  BY DEF BeginBlock
<1>2. resultValues = <<>>
  BY <1>1 DEF IInv, Phased
<1>4. Uncounted' = {} /\ Len(resultValues') = 0
  BY <1>1, <1>2 DEF Uncounted
<1>5. CtxCounted'
  BY <1>1, <1>4, NumberedEmpty DEF CtxCounted
<1>6. Unstored' /\ PanicExplained'
  BY <1>1 DEF JInv, Unstored, PanicExplained
<1>7. QED
  BY <1>5, <1>6 DEF JInv

LEMMA DeliverTxCount ==
  ASSUME IInv, JInv, NEW tx \in Txs, DeliverTx(tx)
  PROVE  JInv'
<1> DEFINE idx == Len(resultValues)
           w == idx % NWorkers
           q == [idx |-> idx, req |-> tx]
<1>1. /\ phase = "deliver" /\ UNCHANGED <<phase, wk, txsCnt>>
      /\ resultValues' = Append(resultValues, Nil)
      /\ chReqParams' = [chReqParams EXCEPT ![w] = Append(chReqParams[w], q)]
  BY DEF DeliverTx
<1>2. /\ resultValues \in Seq({Nil} \cup Result) /\ idx \in Nat
      /\ chReqParams \in [Worker -> Seq(Request)] /\ wk \in [Worker -> WorkerState]
  BY StateTypes
<1>3. /\ Len(resultValues') = idx + 1 /\ DOMAIN resultValues' = 1 .. idx + 1
      /\ DOMAIN resultValues = 1 .. idx
      /\ resultValues'[idx + 1] = Nil
      /\ \A i \in 1 .. idx : resultValues'[i] = resultValues[i]
  BY <1>1, <1>2
<1>4. \A x \in Worker : wk[x].pc # "idle" => wk[x].idx + 1 \in 1 .. idx
  BY <1>2, Apart
<1>5. Unstored'
  <2>1. ASSUME NEW x \in Worker, NEW i \in DOMAIN chReqParams'[x]
        PROVE  resultValues'[chReqParams'[x][i].idx + 1] = Nil
    <3>1. \A j \in DOMAIN chReqParams[x] :
            chReqParams[x][j].idx + 1 \in 1 .. idx /\ resultValues[chReqParams[x][j].idx + 1] = Nil
      <4>1. SUFFICES ASSUME NEW j \in DOMAIN chReqParams[x]
                     PROVE  chReqParams[x][j].idx + 1 \in 1 .. idx
        BY DEF JInv, Unstored
      <4>2. QED
        BY <1>2, <4>1, QueuedPlace
    <3>2. CASE i \in DOMAIN chReqParams[x] /\ chReqParams'[x][i] = chReqParams[x][i]
      BY <1>3, <3>1, <3>2
    <3>3. CASE chReqParams'[x][i] = q
      BY <1>3, <3>3
    <3>4. chReqParams[x] \in Seq(Request) /\ q \in Request
      BY <1>2, Zenon DEF Request
    <3>5. chReqParams'[x] = IF x = w THEN Append(chReqParams[x], q) ELSE chReqParams[x]
      BY <1>1, <1>2
    <3> HIDE DEF q, w
    <3>6. QED
      BY <2>1, <3>2, <3>3, <3>4, <3>5
  <2>2. ASSUME NEW x \in Worker, wk[x].pc \notin {"idle", "done"}
        PROVE  resultValues'[wk[x].idx + 1] = Nil
    BY <1>3, <1>4, <2>2 DEF JInv, Unstored
  <2>3. QED
    BY <1>1, <2>1, <2>2, Zenon DEF Unstored
<1>6. Uncounted' = Uncounted \cup {idx}
  <2>1. ASSUME NEW n \in Nat PROVE StoredCtx(n)' <=> StoredCtx(n)
    <3>1. CASE n < idx
      <4>1. n + 1 \in DOMAIN resultValues /\ n + 1 \in DOMAIN resultValues'
        BY <1>2, <1>3, <3>1
      <4>2. resultValues'[n + 1] = resultValues[n + 1]
        BY <1>2, <1>3, <3>1
      <4>3. QED
        BY <4>1, <4>2, Zenon DEF StoredCtx
    <3>2. CASE n >= idx
      <4>1. n + 1 \notin DOMAIN resultValues
        BY <1>2, <1>3, <3>2
      <4>2. n + 1 \in DOMAIN resultValues' => resultValues'[n + 1] = Nil
        BY <1>2, <1>3, <3>2
      <4>3. QED
        BY <4>1, <4>2, Zenon DEF StoredCtx
    <3>3. QED
      BY <1>2, <3>1, <3>2
  <2>2. \A n \in Nat : HasCtx(n)' <=> HasCtx(n)
    BY <1>1, <2>1 DEF HasCtx, HeldBy
  <2>3. ~HasCtx(idx)
    BY <1>2, <1>4 DEF HasCtx, StoredCtx, HeldBy
  <2>4. 0 .. Len(resultValues') - 1 = (0 .. idx - 1) \cup {idx}
    BY <1>2, <1>3
  <2>5. QED
    BY <1>2, <2>2, <2>3, <2>4 DEF Uncounted
<1>7. CtxCounted'
  <2>1. idx \notin Uncounted
    BY <1>2 DEF Uncounted
  <2>2. idx - txsCnt \in Nat /\ Numbered(Uncounted, idx - txsCnt)
    BY <1>1 DEF JInv, CtxCounted
  <2>3. Numbered(Uncounted', (idx - txsCnt) + 1)
    BY <1>6, <2>1, <2>2, NumberedAdd
  <2>4. txsCnt \in Nat
    BY CountTypes
  <2>5. Len(resultValues') - txsCnt' = (idx - txsCnt) + 1
    BY <1>1, <1>2, <1>3, <2>4
  <2>6. QED
    BY <2>2, <2>3, <2>5 DEF CtxCounted
<1>8. PanicExplained'
  BY <1>1 DEF PanicExplained
<1>9. QED
  BY <1>5, <1>7, <1>8 DEF JInv

(* A step of a worker that holds no context before it and none after it. *)
LEMMA WorkerCount ==
  ASSUME IInv, JInv, NEW w \in Worker, UNCHANGED <<phase, resultValues, txsCnt>>,
         \A x \in Worker : x # w => wk'[x] = wk[x] /\ chReqParams'[x] = chReqParams[x],
         \A i \in DOMAIN chReqParams'[w] : resultValues[chReqParams'[w][i].idx + 1] = Nil,
         wk'[w].pc \notin {"idle", "done"} => resultValues[wk'[w].idx + 1] = Nil,
         wk[w].pc # "store", wk'[w].pc = "store" => wk'[w].ctx = Nil
  PROVE  JInv'
<1>1. Unstored'
  BY DEF JInv, Unstored
<1>2. \A n : HasCtx(n)' <=> HasCtx(n)
  BY DEF HasCtx, StoredCtx, HeldBy
<1>3. Uncounted' = Uncounted
  BY <1>2 DEF Uncounted
<1>4. CtxCounted' /\ PanicExplained'
  BY <1>3 DEF JInv, CtxCounted, PanicExplained
<1>5. QED
  BY <1>1, <1>4 DEF JInv

LEMMA PrepareSenderCount ==
  ASSUME IInv, JInv, NEW w \in Worker, PrepareSender(w)
  PROVE  JInv'
<1> DEFINE q == Head(chReqParams[w])
<1>1. /\ wk[w].pc = "idle" /\ chReqParams[w] # <<>>
      /\ chReqParams' = [chReqParams EXCEPT ![w] = Tail(chReqParams[w])]
      /\ UNCHANGED <<phase, resultValues, txsCnt>>
  BY DEF PrepareSender
<1>2. chReqParams \in [Worker -> Seq(Request)] /\ wk \in [Worker -> WorkerState]
  BY StateTypes
<1>3. /\ \A x \in Worker : x # w => wk'[x] = wk[x] /\ chReqParams'[x] = chReqParams[x]
      /\ chReqParams'[w] = Tail(chReqParams[w])
  BY <1>1, <1>2 DEF PrepareSender
<1>4. wk'[w].idx = q.idx /\ (wk'[w].pc = "store" => wk'[w].ctx = Nil)
  BY <1>2 DEF PrepareSender
<1>5. chReqParams[w] \in Seq(Request)
  BY <1>2
<1>6. 1 \in DOMAIN chReqParams[w] /\ q = chReqParams[w][1]
  BY <1>1, <1>5
<1>7. \A i \in DOMAIN Tail(chReqParams[w]) :
        i + 1 \in DOMAIN chReqParams[w] /\ Tail(chReqParams[w])[i] = chReqParams[w][i + 1]
  BY <1>1, <1>5
<1>8. \A i \in DOMAIN chReqParams[w] : resultValues[chReqParams[w][i].idx + 1] = Nil
  BY DEF JInv, Unstored
<1>9. \A i \in DOMAIN chReqParams'[w] : resultValues[chReqParams'[w][i].idx + 1] = Nil
  BY <1>3, <1>7, <1>8
<1>10. resultValues[wk'[w].idx + 1] = Nil
  BY <1>4, <1>6, <1>8
<1>11. QED
  BY <1>1, <1>3, <1>4, <1>9, <1>10, WorkerCount

(* The steps of NewTrxContext after the sender, and Done. *)
LEMMA OtherWorkerCount ==
  ASSUME IInv, JInv, NEW w \in Worker,
         PrepareReceiver(w) \/ PreparePayer(w) \/ SignalDone(w)
  PROVE  JInv'
<1>1. wk \in [Worker -> WorkerState]
  BY StateTypes
<1>2. UNCHANGED <<phase, chReqParams, resultValues, txsCnt>>
  BY DEF PrepareReceiver, PreparePayer, SignalDone
<1>3. /\ \A x \in Worker : x # w => wk'[x] = wk[x]
      /\ wk[w].pc \in {"receiver", "payer", "done"}
      /\ wk'[w].pc = "store" => wk'[w].ctx = Nil
      /\ wk'[w].pc \notin {"idle", "done"} => wk'[w].idx = wk[w].idx /\ wk[w].pc # "done"
  <2>1. CASE PrepareReceiver(w)
    BY <1>1, <2>1 DEF PrepareReceiver, Move, WorkerState
  <2>2. CASE PreparePayer(w)
    BY <1>1, <2>2 DEF PreparePayer, Move, WorkerState
  <2>3. CASE SignalDone(w)
    BY <1>1, <2>3 DEF SignalDone, Idle
  <2>4. QED
    BY <2>1, <2>2, <2>3
<1>4. /\ \A i \in DOMAIN chReqParams[w] : resultValues[chReqParams[w][i].idx + 1] = Nil
      /\ wk'[w].pc \notin {"idle", "done"} => resultValues[wk'[w].idx + 1] = Nil
  BY <1>3 DEF JInv, Unstored
<1>5. QED
  BY <1>2, <1>3, <1>4, WorkerCount

LEMMA CountTxCount ==
  ASSUME IInv, JInv, NEW w \in Worker, CountTx(w)
  PROVE  JInv'
<1> DEFINE n == wk[w].idx
<1>1. /\ wk[w].pc = "count" /\ txsCnt' = txsCnt + 1 /\ Move(w, "store", wk[w].ctx)
      /\ UNCHANGED <<phase, chReqParams, resultValues>>
  BY DEF CountTx
<1>2. wk \in [Worker -> WorkerState] /\ resultValues \in Seq({Nil} \cup Result)
  BY StateTypes
<1>3. /\ \A x \in Worker : x # w => wk'[x] = wk[x]
      /\ wk'[w].pc = "store" /\ wk'[w].ctx = wk[w].ctx /\ wk'[w].idx = n
  BY <1>1, <1>2 DEF Move, WorkerState
<1>4. wk[w].ctx # Nil
  BY <1>1 DEF IInv, AllLinked, WorkerLinked
<1>5. phase = "deliver"
  BY <1>1, BusyMeansDeliver
<1>6. /\ n \in Nat /\ n + 1 \in DOMAIN resultValues
      /\ \A x \in Worker : x # w /\ wk[x].pc # "idle" => wk[x].idx # n
  BY <1>1, Apart
<1>7. resultValues[n + 1] = Nil
  BY <1>1 DEF JInv, Unstored
<1>8. Unstored'
  BY <1>1, <1>3, <1>7 DEF JInv, Unstored
<1>9. n \in Uncounted
  <2>1. n \in 0 .. Len(resultValues) - 1
    BY <1>2, <1>6
  <2>2. ~HasCtx(n)
    BY <1>1, <1>6, <1>7 DEF HasCtx, StoredCtx, HeldBy
  <2>3. QED
    BY <2>1, <2>2 DEF Uncounted
<1>10. Uncounted' = Uncounted \ {n}
  <2>1. \A m \in Nat : m # n => (HasCtx(m)' <=> HasCtx(m))
    BY <1>1, <1>3 DEF HasCtx, StoredCtx, HeldBy
  <2>2. \A m \in Nat : m = n => HasCtx(m)'
    BY <1>3, <1>4 DEF HasCtx, HeldBy
  <2>3. Len(resultValues) \in Nat
    BY <1>2
  <2>4. QED
    BY <1>1, <2>1, <2>2, <2>3 DEF Uncounted
<1>11. CtxCounted'
  <2> DEFINE d == Len(resultValues) - txsCnt
  <2>1. d \in Nat /\ Numbered(Uncounted, d)
    BY <1>5 DEF JInv, CtxCounted
  <2>2. txsCnt \in Nat /\ Len(resultValues) \in Nat
    BY <1>2, StateTypes, CountTypes
  <2>3. Len(resultValues') - txsCnt' = d - 1
    BY <1>1, <2>2
  <2> HIDE DEF d
  <2>4. d - 1 \in Nat /\ Numbered(Uncounted', d - 1)
    BY <1>9, <1>10, <2>1, NumberedRemove
  <2>5. QED
    BY <2>3, <2>4 DEF CtxCounted
<1>12. PanicExplained'
  BY <1>1, <1>5 DEF PanicExplained
<1>13. QED
  BY <1>8, <1>11, <1>12 DEF JInv

LEMMA StoreResultCount ==
  ASSUME IInv, JInv, NEW w \in Worker, StoreResult(w)
  PROVE  JInv'
<1> DEFINE n == wk[w].idx
           r == [idx |-> n, req |-> wk[w].req, ctx |-> wk[w].ctx]
<1>1. /\ wk[w].pc = "store" /\ resultValues' = [resultValues EXCEPT ![n + 1] = r]
      /\ Move(w, "done", Nil) /\ UNCHANGED <<phase, chReqParams, txsCnt>>
  BY DEF StoreResult
<1>2. wk \in [Worker -> WorkerState] /\ resultValues \in Seq({Nil} \cup Result)
  BY StateTypes
<1>3. wk'[w].pc = "done" /\ \A x \in Worker : x # w => wk'[x] = wk[x]
  BY <1>1, <1>2 DEF Move, WorkerState
<1>4. /\ n \in Nat /\ n + 1 \in DOMAIN resultValues
      /\ \A x \in Worker : x # w /\ wk[x].pc # "idle" => wk[x].idx \in Nat /\ wk[x].idx # n
      /\ \A x \in Worker : \A i \in DOMAIN chReqParams[x] :
           chReqParams[x][i].idx \in Nat /\ chReqParams[x][i].idx # n
  BY <1>1, Apart
<1>5. r \in Result /\ r # Nil
  <2>1. wk[w].req \in Txs /\ wk[w].ctx \in WholeCtx \cup {Nil}
    BY <1>1 DEF IInv, AllLinked, WorkerLinked
  <2>2. r \in Result
    BY <1>4, <2>1 DEF Result
  <2>3. QED
    BY <2>2, PipelineAssumption
<1>6. /\ resultValues'[n + 1] = r
      /\ \A m \in DOMAIN resultValues : m # n + 1 => resultValues'[m] = resultValues[m]
      /\ DOMAIN resultValues' = DOMAIN resultValues /\ Len(resultValues') = Len(resultValues)
  <2> HIDE DEF r, n
  <2>1. QED
    BY <1>1, <1>2, <1>4
<1>7. Unstored'
  <2>1. ASSUME NEW x \in Worker
        PROVE  \A i \in DOMAIN chReqParams[x] : resultValues'[chReqParams[x][i].idx + 1] = Nil
    <3>1. \A i \in DOMAIN chReqParams[x] : resultValues[chReqParams[x][i].idx + 1] = Nil
      BY DEF JInv, Unstored
    <3>2. \A i \in DOMAIN chReqParams[x] :
            chReqParams[x][i].idx + 1 \in DOMAIN resultValues /\ chReqParams[x][i].idx + 1 # n + 1
      BY <1>4, QueuedPlace
    <3>3. QED
      BY <1>6, <3>1, <3>2
  <2>2. ASSUME NEW x \in Worker, wk'[x].pc \notin {"idle", "done"}
        PROVE  resultValues'[wk'[x].idx + 1] = Nil
    <3>1. x # w /\ wk'[x] = wk[x]
      BY <1>3, <2>2
    <3>2. wk[x].idx + 1 \in DOMAIN resultValues /\ wk[x].idx + 1 # n + 1
      BY <1>4, <2>2, <3>1, Apart
    <3>3. resultValues[wk[x].idx + 1] = Nil
      BY <2>2, <3>1 DEF JInv, Unstored
    <3>4. QED
      BY <1>6, <3>1, <3>2, <3>3
  <2>3. QED
    BY <1>1, <2>1, <2>2 DEF Unstored
<1>8. Uncounted' = Uncounted
  <2>1. \A x \in Worker, m \in Nat : x # w => (HeldBy(x, m)' <=> HeldBy(x, m))
    BY <1>3 DEF HeldBy
  <2>2. \A m \in Nat : ~HeldBy(w, m)' /\ (HeldBy(w, m) <=> m = n /\ wk[w].ctx # Nil)
    BY <1>1, <1>3 DEF HeldBy
  <2>3. \A m \in Nat : m # n => (StoredCtx(m)' <=> StoredCtx(m))
    BY <1>4, <1>6 DEF StoredCtx
  <2>4. \A m \in Nat : m = n => (StoredCtx(m)' <=> wk[w].ctx # Nil) /\ ~StoredCtx(m)
    <3>1. resultValues[n + 1] = Nil
      BY <1>1 DEF JInv, Unstored
    <3>2. QED
      <4>1. resultValues'[n + 1] # Nil /\ resultValues'[n + 1].ctx = wk[w].ctx
        BY <1>5, <1>6
      <4>2. n + 1 \in DOMAIN resultValues'
        BY <1>4, <1>6
      <4>3. QED
        BY <3>1, <4>1, <4>2 DEF StoredCtx
  <2>5. ASSUME NEW m \in Nat
        PROVE  HasCtx(m)' <=> HasCtx(m)
    <3>1. CASE m = n
      <4>1. \A x \in Worker : x # w => ~HeldBy(x, m)
        BY <1>4, <3>1 DEF HeldBy
      <4>2. QED
        BY <2>1, <2>2, <2>4, <3>1, <4>1, Zenon DEF HasCtx
    <3>2. CASE m # n
      BY <2>1, <2>2, <2>3, <3>2, Zenon DEF HasCtx
    <3>3. QED
      BY <3>1, <3>2
  <2>6. Len(resultValues) \in Nat
    BY <1>2
  <2>7. QED
    BY <1>6, <2>5, <2>6 DEF Uncounted
<1>9. phase = "deliver"
  BY <1>1, BusyMeansDeliver
<1>10. CtxCounted' /\ PanicExplained'
  BY <1>1, <1>6, <1>8, <1>9 DEF JInv, CtxCounted, PanicExplained
<1>11. QED
  BY <1>7, <1>10 DEF JInv

LEMMA EndBlockWaitCount ==
  ASSUME IInv, JInv, EndBlockWait
  PROVE  JInv'
<1>1. /\ phase = "deliver" /\ wg = 0 /\ UNCHANGED <<chReqParams, wk, resultValues, txsCnt>>
      /\ phase' = IF Len(resultValues) = txsCnt THEN "exec" ELSE "panic"
  BY DEF EndBlockWait
<1>2. /\ \A w \in Worker : wk[w] = Idle
      /\ \A i \in DOMAIN resultValues : resultValues[i] # Nil
  BY <1>1, NothingPending DEF Misplaced
<1>3. ASSUME Len(resultValues) # txsCnt
      PROVE  \E i \in DOMAIN resultValues : resultValues[i].ctx = Nil
  <2> DEFINE d == Len(resultValues) - txsCnt
  <2>1. Len(resultValues) \in Nat /\ DOMAIN resultValues = 1 .. Len(resultValues) /\ txsCnt \in Nat
    BY StateTypes, CountTypes
  <2>2. d # 0
    <3>1. \A a, b \in Nat : a # b => a - b # 0
      OBVIOUS
    <3>2. QED
      BY <1>3, <2>1, <3>1, Zenon
  <2>3. d \in Nat /\ Numbered(Uncounted, d)
    BY <1>1 DEF JInv, CtxCounted
  <2> HIDE DEF d
  <2>4. PICK n \in Uncounted : TRUE
    BY <2>2, <2>3, NumberedMore
  <2>5. n + 1 \in DOMAIN resultValues /\ ~StoredCtx(n)
    BY <2>1 DEF Uncounted, HasCtx
  <2>6. resultValues[n + 1].ctx = Nil
    BY <1>2, <2>5 DEF StoredCtx
  <2>7. QED
    BY <2>5, <2>6
<1>4. PanicExplained'
  BY <1>1, <1>2, <1>3 DEF PanicExplained
<1>5. Unstored' /\ CtxCounted'
  BY <1>1 DEF JInv, Unstored, CtxCounted
<1>6. QED
  BY <1>4, <1>5 DEF JInv

(* The loop, the end of the block and Commit: every preparer is idle. *)
LEMMA BlockEndCount ==
  ASSUME IInv, JInv, EndBlockExec \/ EndBlockFinish \/ Commit
  PROVE  JInv'
<1>1. \A w \in Worker : wk[w].pc = "idle" /\ chReqParams[w] = <<>>
  BY BusyMeansDeliver DEF EndBlockExec, EndBlockFinish, Commit
<1>2. UNCHANGED <<chReqParams, wk>>
  BY DEF EndBlockExec, EndBlockFinish, Commit
<1>3. phase' \in {"exec", "ended", "idle"}
  <2>1. CASE EndBlockExec
    <3>1. /\ phase = "exec" /\ next <= Len(resultValues)
          /\ resultValues \in Seq({Nil} \cup Result) /\ next \in Nat \ {0}
      BY <2>1 DEF EndBlockExec, IInv, TypeOK
    <3>2. next \in DOMAIN resultValues
      BY <3>1
    <3>3. ~Misplaced(next)
      BY <3>1, <3>2, NothingPending DEF IInv, Phased
    <3>4. QED
      BY <2>1, <3>1, <3>3 DEF EndBlockExec
  <2>2. CASE EndBlockFinish \/ Commit
    BY <2>2 DEF EndBlockFinish, Commit
  <2>3. QED
    BY <2>1, <2>2
<1>4. Unstored'
  BY <1>1, <1>2 DEF Unstored
<1>5. QED
  BY <1>3, <1>4 DEF JInv, CtxCounted, PanicExplained

(* The transactions without a result, and those with a context, are        *)
(* counted exactly: with IInv the inductive invariant of the pipeline.     *)
THEOREM JInvHolds == Spec => []JInv
<1>1. Init => JInv
  <2> SUFFICES ASSUME Init PROVE JInv
    OBVIOUS
  <2>1. phase = "idle" /\ \A w \in Worker : wk[w].pc = "idle" /\ chReqParams[w] = <<>>
    BY DEF Init, Idle
  <2>2. QED
    BY <2>1 DEF JInv, Unstored, CtxCounted, PanicExplained
<1>2. IInv /\ JInv /\ [Next]_vars => JInv'
  <2> SUFFICES ASSUME IInv, JInv, [Next]_vars PROVE JInv'
    OBVIOUS
  <2>1. ASSUME NEW w \in Worker, WorkerStep(w) PROVE JInv'
    BY <2>1, PrepareSenderCount, OtherWorkerCount, CountTxCount, StoreResultCount DEF WorkerStep
  <2>2. CASE UNCHANGED vars
    BY <2>2, Zenon DEF vars, JInv, Unstored, CtxCounted, Uncounted, HasCtx, StoredCtx, HeldBy,
       PanicExplained
  <2>3. QED
    BY <2>1, <2>2, BeginBlockCount, DeliverTxCount, EndBlockWaitCount, BlockEndCount DEF Next
<1>3. QED
  BY <1>1, <1>2, IInvHolds, PTL DEF Spec

(* EndBlock waits for a preparer only while one has a request, executes    *)
(* only what is prepared, and stops the node only for a transaction        *)
(* without a context: for any number of workers and of transactions, any   *)
(* capacity of the channels and any interleaving of the preparers.         *)
THEOREM EndBlockSafe == Spec => []EndBlockIsSafe
<1>1. IInv => WaitEnds
  <2> SUFFICES ASSUME IInv, wg > 0
               PROVE  \E w \in Worker : chReqParams[w] # <<>> \/ wk[w].pc # "idle"
    BY DEF WaitEnds
  <2>1. wg \in Nat /\ Numbered(Pending, wg)
    BY DEF IInv, Counted
  <2>2. Pending # {}
    BY <2>1, NumberedMore
  <2>3. QED
    BY <2>2 DEF Pending, Queued, Busy
<1>2. JInv => PanicExplained
  BY DEF JInv
<1>3. QED
  BY <1>1, <1>2, IInvHolds, JInvHolds, Prepared, PTL DEF EndBlockIsSafe
=============================================================================
