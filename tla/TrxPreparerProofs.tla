------------------------- MODULE TrxPreparerProofs -------------------------
(***************************************************************************)
(* The inductive invariant of TrxPipeline, and that it is preserved by the *)
(* steps a worker takes inside NewTrxContext and after it.  The other      *)
(* steps and the theorems are in TrxPipelineProofs.                        *)
(***************************************************************************)
EXTENDS TrxPipeline, TrxExecProofs

(* The requests a worker has not answered: queued, or being worked on. *)
Queued(w) == {chReqParams[w][i].idx : i \in DOMAIN chReqParams[w]}
Busy(w) == IF wk[w].pc = "idle" THEN {} ELSE {wk[w].idx}
Pending == {n \in 0 .. Len(resultValues) : \E w \in Worker : n \in Queued(w) \/ n \in Busy(w)}

(* A worker has the requests dealt out to it, in the order of their index. *)
Dealt ==
  \A w \in Worker :
    /\ \A i \in DOMAIN chReqParams[w] :
         /\ chReqParams[w][i].idx % NWorkers = w
         /\ chReqParams[w][i].idx < Len(resultValues)
         /\ \A j \in DOMAIN chReqParams[w] :
              i < j => chReqParams[w][i].idx < chReqParams[w][j].idx
         /\ wk[w].pc # "idle" => wk[w].idx < chReqParams[w][i].idx
    /\ wk[w].pc # "idle" => wk[w].idx % NWorkers = w /\ wk[w].idx < Len(resultValues)
    /\ wk[w].pc = "idle" => wk[w] = Idle

(* The WaitGroup counts the unanswered requests, no more and no fewer.     *)
Counted == wg \in Nat /\ Numbered(Pending, wg)

(* An answered request has its result, at its place. *)
Answered ==
  \A i \in DOMAIN resultValues :
    \/ i - 1 \in UNION {Queued(w) : w \in Worker}
    \/ \E w \in Worker : wk[w].pc \notin {"idle", "done"} /\ wk[w].idx = i - 1
    \/ ~Misplaced(i)

(* What a context under construction holds, by the step it has reached. *)
WorkerLinked(w) ==
  LET c == wk[w].ctx
  IN  /\ wk[w].pc \notin {"idle", "done"} => wk[w].req \in Txs
      /\ wk[w].pc \in {"receiver", "payer"} =>
           c # Nil /\ Points(st, c.tx.from, c.sender) /\ c.payer = Nil
      /\ wk[w].pc = "receiver" => c.receiver = Nil
      /\ wk[w].pc = "payer" => Points(st, c.tx.to, c.receiver)
      /\ wk[w].pc = "count" => c # Nil
      /\ wk[w].pc \in {"count", "store"} /\ c # Nil => c \in WholeCtx /\ Linked(st, c)
      /\ wk[w].pc \in {"idle", "done"} => c = Nil

(* Every context holds the objects of its addresses. *)
AllLinked ==
  /\ \A w \in Worker : WorkerLinked(w)
  /\ \A i \in DOMAIN resultValues :
       resultValues[i] # Nil /\ resultValues[i].ctx # Nil => Linked(st, resultValues[i].ctx)

(* What the phase says: a block is executed when nothing is pending, and   *)
(* only the split of the fees leaves an address with two objects.          *)
Phased ==
  /\ phase \in {"exec", "panic"} => wg = 0
  /\ phase \in {"idle", "ended"} => resultValues = <<>>
  /\ phase # "ended" => Good(st)

IInv == TypeOK /\ Dealt /\ Counted /\ Answered /\ AllLinked /\ Phased

-----------------------------------------------------------------------------
LEMMA StateTypes ==
  ASSUME IInv
  PROVE  /\ chReqParams \in [Worker -> Seq(Request)]
         /\ wk \in [Worker -> WorkerState]
         /\ resultValues \in Seq({Nil} \cup Result)
  BY DEF IInv, TypeOK

LEMMA CountTypes ==
  ASSUME IInv
  PROVE  /\ wg \in Int /\ txsCnt \in Nat /\ next \in Nat \ {0}
         /\ feeSum \in Int /\ uncredited \in Int
         /\ resp \in Seq([ok : BOOLEAN, used : Nat])
  BY DEF IInv, TypeOK

LEMMA CtxFields ==
  ASSUME NEW c \in PartialCtx
  PROVE  /\ c.tx \in Txs /\ c.tx \in Tx
         /\ c.tx.from \in Addr /\ c.tx.to \in Addr /\ PayerOf(c.tx) \in Addr
  BY PipelineAssumption, TxFields DEF PartialCtx

(* Setting the step and the context of a worker. *)
LEMMA MoveFacts ==
  ASSUME wk \in [Worker -> WorkerState], NEW w \in Worker,
         NEW pc \in {"idle", "receiver", "payer", "count", "store", "done"},
         NEW c \in PartialCtx \cup {Nil}, Move(w, pc, c)
  PROVE  /\ wk' \in [Worker -> WorkerState]
         /\ wk'[w].pc = pc /\ wk'[w].ctx = c
         /\ wk'[w].idx = wk[w].idx /\ wk'[w].req = wk[w].req
         /\ \A x \in Worker : x # w => wk'[x] = wk[x]
<1> DEFINE r == [wk[w] EXCEPT !.pc = pc, !.ctx = c]
<1>1. wk[w] \in WorkerState
  OBVIOUS
<1>2. r \in WorkerState /\ r.pc = pc /\ r.ctx = c /\ r.idx = wk[w].idx /\ r.req = wk[w].req
  BY <1>1, Zenon DEF WorkerState
<1>3. wk' = [wk EXCEPT ![w] = r]
  BY Zenon DEF Move
<1> HIDE DEF r
<1>4. QED
  BY <1>2, <1>3

(* The requests pending are those of the queues and the busy workers. *)
LEMMA PendingSame ==
  ASSUME UNCHANGED <<chReqParams, Len(resultValues)>>,
         \A x \in Worker : wk'[x].idx = wk[x].idx /\ (wk'[x].pc = "idle" <=> wk[x].pc = "idle")
  PROVE  Pending' = Pending
<1>1. \A x \in Worker : Queued(x)' = Queued(x)
  BY DEF Queued
<1>2. \A x \in Worker : Busy(x)' = Busy(x)
  BY Zenon DEF Busy
<1>3. QED
  BY <1>1, <1>2 DEF Pending

(* A step that replaces no object keeps the links of everything it does    *)
(* not change.                                                             *)
LEMMA LinksKept ==
  ASSUME Safe(st, st'), NEW x \in Worker, WorkerLinked(x), wk'[x] = wk[x]
  PROVE  WorkerLinked(x)'
  BY SafePoints, LinkedSafe DEF WorkerLinked

LEMMA ResultsKept ==
  ASSUME Safe(st, st'), AllLinked, UNCHANGED resultValues
  PROVE  \A i \in DOMAIN resultValues' :
           resultValues'[i] # Nil /\ resultValues'[i].ctx # Nil =>
             Linked(st', resultValues'[i].ctx)
  BY LinkedSafe DEF AllLinked

(* Contexts that hold the objects of their addresses share them. *)
LEMMA LinkedShare == IInv => ContextsShareObjects
<1> SUFFICES ASSUME IInv, NEW c \in HeldCtx, NEW h \in Holds(c)
             PROVE  h[2] = Current(st, h[1])
  BY DEF ContextsShareObjects
<1>1. c # Nil
  BY DEF HeldCtx
<1>2. CASE \E w \in Worker : c = wk[w].ctx
  <2>1. PICK w \in Worker : c = wk[w].ctx
    BY <1>2
  <2>2. WorkerLinked(w) /\ c \in PartialCtx
    BY <1>1, <2>1, StateTypes DEF IInv, AllLinked, WorkerState
  <2>3. c.tx.from \in Addr /\ c.tx.to \in Addr /\ PayerOf(c.tx) \in Addr
    BY <2>2, CtxFields
  <2>4. wk[w].pc \in {"idle", "receiver", "payer", "count", "store", "done"}
    BY StateTypes DEF WorkerState
  <2>5. /\ c.sender = Current(st, c.tx.from)
        /\ c.receiver # Nil => c.receiver = Current(st, c.tx.to)
        /\ c.payer # Nil => c.payer = Current(st, PayerOf(c.tx))
    BY <1>1, <2>1, <2>2, <2>4 DEF WorkerLinked, Linked, Points
  <2>6. QED
    BY <2>3, <2>5 DEF Holds, PayerOf
<1>3. CASE \E i \in DOMAIN resultValues : resultValues[i] # Nil /\ c = resultValues[i].ctx
  <2>1. Linked(st, c)
    BY <1>1, <1>3 DEF IInv, AllLinked
  <2>2. QED
    BY <2>1 DEF Linked, Points, Holds, PayerOf
<1>4. QED
  BY <1>2, <1>3 DEF HeldCtx

(* A worker that is not idle means that the block is being delivered. *)
LEMMA BusyMeansDeliver ==
  ASSUME IInv, NEW w \in Worker, wk[w].pc # "idle" \/ chReqParams[w] # <<>>
  PROVE  phase = "deliver" /\ Good(st)
<1>1. wg \in Nat /\ Numbered(Pending, wg)
  BY DEF IInv, Counted
<1>2. Len(resultValues) \in Nat
  BY StateTypes
<1>3. PICK n \in Nat : n < Len(resultValues) /\ (n \in Queued(w) \/ n \in Busy(w))
  <2>1. CASE wk[w].pc # "idle"
    <3>1. wk[w].idx \in Nat /\ wk[w].idx < Len(resultValues)
      BY <2>1, StateTypes DEF IInv, Dealt, WorkerState
    <3>2. QED
      BY <2>1, <3>1 DEF Busy
  <2>2. CASE chReqParams[w] # <<>>
    <3>1. chReqParams[w] \in Seq(Request)
      BY StateTypes
    <3>2. 1 \in DOMAIN chReqParams[w] /\ chReqParams[w][1] \in Request
      BY <2>2, <3>1
    <3>3. chReqParams[w][1].idx \in Nat /\ chReqParams[w][1].idx < Len(resultValues)
      BY <3>2 DEF IInv, Dealt, Request
    <3>4. QED
      BY <3>2, <3>3 DEF Queued
  <2>3. QED
    BY <2>1, <2>2
<1>4. n \in Pending /\ resultValues # <<>>
  BY <1>2, <1>3 DEF Pending
<1>5. wg # 0
  BY <1>1, <1>4, NumberedEmpty
<1>6. phase = "deliver"
  BY <1>4, <1>5 DEF IInv, Phased, TypeOK
<1>7. QED
  BY <1>6 DEF IInv, Phased

LEMMA InitIInv == Init => IInv
<1> SUFFICES ASSUME Init PROVE IInv
  OBVIOUS
<1>1. Good(st)
  <2>1. st \in AccountSide /\ st.cache = EmptyMap /\ st.newbies = EmptyMap
    <3>1. /\ [a \in Addr |-> <<>>] \in [Addr -> Seq(Acct)] /\ Genesis \in [Addr -> Acct \cup {NoAcct}]
          /\ EmptyMap \in [Addr -> Ptr \cup {Nil}] /\ GasLimit \in Int
      BY PipelineAssumption DEF EmptyMap
    <3>2. QED
      BY <3>1 DEF Init, Fresh, AccountSide
  <2>2. QED
    BY <2>1 DEF Good, EmptyMap
<1>2. TypeOK
  BY <1>1 DEF Init, TypeOK, Good, Idle, WorkerState
<1>3. Pending = {}
  BY DEF Pending, Queued, Busy, Init, Idle
<1>4. Counted
  BY <1>3, NumberedEmpty DEF Counted, Init
<1>5. Dealt /\ Answered /\ AllLinked /\ Phased
  BY <1>1 DEF Dealt, Answered, AllLinked, WorkerLinked, Phased, Init, Idle
<1>6. QED
  BY <1>2, <1>4, <1>5 DEF IInv

-----------------------------------------------------------------------------
(* Steps of a worker inside NewTrxContext and after it. *)

(* A worker that stays busy keeps its request. *)
LEMMA BusyStays ==
  ASSUME IInv, NEW w \in Worker, wk[w].pc # "idle",
         NEW pc \in {"receiver", "payer", "count", "store", "done"},
         NEW c \in PartialCtx \cup {Nil}, Move(w, pc, c),
         UNCHANGED <<chReqParams, Len(resultValues), wg>>
  PROVE  Dealt' /\ Counted'
<1>1. /\ wk'[w].pc = pc /\ wk'[w].idx = wk[w].idx
      /\ \A x \in Worker : x # w => wk'[x] = wk[x]
  BY MoveFacts, StateTypes
<1>2. Pending' = Pending
  BY <1>1, PendingSame
<1>3. Counted'
  BY <1>2 DEF Counted, IInv
<1>4. Dealt'
  BY <1>1 DEF Dealt, IInv
<1>5. QED
  BY <1>3, <1>4

LEMMA AnsweredKept ==
  ASSUME Answered, UNCHANGED <<chReqParams, resultValues>>,
         \A x \in Worker : wk[x].pc \notin {"idle", "done"} =>
           wk'[x].pc \notin {"idle", "done"} /\ wk'[x].idx = wk[x].idx
  PROVE  Answered'
<1>1. \A x \in Worker : Queued(x)' = Queued(x)
  BY DEF Queued
<1>2. \A i : Misplaced(i)' = Misplaced(i)
  BY DEF Misplaced
<1>3. QED
  BY <1>1, <1>2 DEF Answered

(* What is left to show of a step that moves worker w to pc with context c. *)
LEMMA WorkerMoves ==
  ASSUME IInv, NEW w \in Worker, wk[w].pc \notin {"idle", "done"},
         NEW pc \in {"receiver", "payer", "count", "store"},
         NEW c \in PartialCtx \cup {Nil}, Move(w, pc, c),
         UNCHANGED <<phase, height, chReqParams, resultValues, wg, next, feeSum, uncredited, resp>>,
         txsCnt' \in Nat, Safe(st, st'), WorkerLinked(w)'
  PROVE  IInv'
<1>1. /\ wk' \in [Worker -> WorkerState] /\ wk'[w].pc = pc /\ wk'[w].idx = wk[w].idx
      /\ \A x \in Worker : x # w => wk'[x] = wk[x]
  BY MoveFacts, StateTypes
<1>2. Dealt' /\ Counted'
  BY BusyStays
<1>3. Answered'
  BY <1>1, AnsweredKept DEF IInv
<1>4. TypeOK'
  BY <1>1 DEF IInv, TypeOK, Safe, Good
<1>5. AllLinked'
  <2>1. \A x \in Worker : WorkerLinked(x)'
    BY <1>1, LinksKept DEF IInv, AllLinked
  <2>2. QED
    BY <2>1, ResultsKept DEF AllLinked, IInv
<1>6. Phased'
  BY DEF IInv, Phased, Safe
<1>7. QED
  BY <1>2, <1>3, <1>4, <1>5, <1>6 DEF IInv

LEMMA PrepareReceiverStep ==
  ASSUME IInv, NEW w \in Worker, PrepareReceiver(w)
  PROVE  IInv'
<1> DEFINE c == wk[w].ctx
           d == [c EXCEPT !.receiver = Current(st', c.tx.to)]
<1>1. wk[w].pc = "receiver" /\ st' = FindOrNewAccount(st, c.tx.to) /\ Move(w, "payer", d)
  BY DEF PrepareReceiver
<1>2. Good(st)
  BY <1>1, BusyMeansDeliver
<1>3. /\ c \in PartialCtx /\ Points(st, c.tx.from, c.sender) /\ c.payer = Nil
      /\ wk[w].req \in Txs
  BY <1>1, StateTypes DEF IInv, WorkerState, AllLinked, WorkerLinked
<1>4. Safe(st, st') /\ Points(st', c.tx.to, Current(st', c.tx.to))
  BY <1>1, <1>2, <1>3, CtxFields, FindOrNewAccountSafe
<1>5. Current(st', c.tx.to) \in Ptr
  BY <1>4, PointsAt DEF Safe, At
<1>6. /\ d \in PartialCtx /\ d.tx = c.tx /\ d.sender = c.sender /\ d.payer = c.payer
      /\ d.receiver = Current(st', c.tx.to)
  BY <1>3, <1>5 DEF PartialCtx
<1>7. d # Nil
  BY <1>6, PipelineAssumption
<1> HIDE DEF d, c
<1>8. wk'[w].pc = "payer" /\ wk'[w].ctx = d /\ wk'[w].req = wk[w].req
  BY <1>1, <1>6, MoveFacts, StateTypes
<1>9. WorkerLinked(w)'
  BY <1>3, <1>4, <1>6, <1>7, <1>8, SafePoints DEF WorkerLinked
<1>10. QED
  BY <1>1, <1>4, <1>6, <1>9, WorkerMoves, Zenon DEF PrepareReceiver, IInv, TypeOK

LEMMA PreparePayerStep ==
  ASSUME IInv, NEW w \in Worker, PreparePayer(w)
  PROVE  IInv'
<1> DEFINE c == wk[w].ctx
           p == Found(st', c.tx.payer)
           d == [c EXCEPT !.payer = c.sender]
           e == [c EXCEPT !.payer = p]
<1>1. wk[w].pc = "payer"
  BY DEF PreparePayer
<1>2. Good(st)
  BY <1>1, BusyMeansDeliver
<1>3. /\ c \in PartialCtx /\ Points(st, c.tx.from, c.sender)
      /\ Points(st, c.tx.to, c.receiver) /\ wk[w].req \in Txs
  BY <1>1, StateTypes DEF IInv, WorkerState, AllLinked, WorkerLinked
<1>4. /\ c.tx \in Tx /\ c.tx \in Txs /\ c.sender \in Ptr /\ c.receiver \in Ptr
  BY <1>2, <1>3, CtxFields, PointsAt DEF At
<1>5. CASE c.tx.payer = Nil
  <2>1. Move(w, "count", d) /\ st' = st
    BY <1>5 DEF PreparePayer
  <2>2. /\ d \in WholeCtx /\ d \in PartialCtx /\ d.tx = c.tx /\ d.sender = c.sender
        /\ d.receiver = c.receiver /\ d.payer = c.sender
    BY <1>3, <1>4 DEF PartialCtx, WholeCtx
  <2>3. d # Nil
    BY <2>2, PipelineAssumption
  <2>4. Safe(st, st')
    BY <1>2, <2>1, SafeRefl
  <2>5. Linked(st', d)
    BY <1>3, <1>4, <1>5, <2>1, <2>2 DEF Linked, PayerOf
  <2> HIDE DEF d, c
  <2>6. wk'[w].pc = "count" /\ wk'[w].ctx = d /\ wk'[w].req = wk[w].req
    BY <2>1, <2>2, MoveFacts, StateTypes
  <2>7. WorkerLinked(w)'
    BY <1>3, <2>2, <2>3, <2>5, <2>6 DEF WorkerLinked
  <2>8. QED
    BY <1>1, <2>1, <2>2, <2>4, <2>7, WorkerMoves, Zenon DEF PreparePayer, IInv, TypeOK
<1>6. CASE c.tx.payer # Nil
  <2>1. st' = FindAccount(st, c.tx.payer)
    BY <1>6 DEF PreparePayer
  <2>2. c.tx.payer \in Addr
    BY <1>3, <1>6, CtxFields DEF PayerOf
  <2>3. Safe(st, st') /\ (p # Nil => Points(st', c.tx.payer, p))
    BY <1>2, <2>1, <2>2, FindAccountGood DEF Safe, Points
  <2>4. CASE p # Nil
    <3>1. Move(w, "count", e)
      BY <1>6, <2>4 DEF PreparePayer
    <3>2. p \in Ptr
      BY <2>3, <2>4, PointsAt DEF Safe, At
    <3>3. /\ e \in WholeCtx /\ e \in PartialCtx /\ e.tx = c.tx /\ e.sender = c.sender
          /\ e.receiver = c.receiver /\ e.payer = p
      BY <1>3, <1>4, <3>2 DEF PartialCtx, WholeCtx
    <3>4. e # Nil
      BY <3>3, PipelineAssumption
    <3>5. Linked(st', e)
      BY <1>3, <1>4, <1>6, <2>3, <2>4, <3>3, SafePoints DEF Linked, PayerOf
    <3> HIDE DEF e, c, p
    <3>6. wk'[w].pc = "count" /\ wk'[w].ctx = e /\ wk'[w].req = wk[w].req
      BY <3>1, <3>3, MoveFacts, StateTypes
    <3>7. WorkerLinked(w)'
      BY <1>3, <3>3, <3>4, <3>5, <3>6 DEF WorkerLinked
    <3>8. QED
      BY <1>1, <2>3, <3>1, <3>3, <3>7, WorkerMoves, Zenon DEF PreparePayer, IInv, TypeOK
  <2>5. CASE p = Nil
    <3>1. Move(w, "store", Nil)
      BY <1>6, <2>5 DEF PreparePayer
    <3>2. wk'[w].pc = "store" /\ wk'[w].ctx = Nil /\ wk'[w].req = wk[w].req
      BY <3>1, MoveFacts, StateTypes
    <3>3. WorkerLinked(w)'
      BY <1>3, <3>2 DEF WorkerLinked
    <3>4. QED
      BY <1>1, <2>3, <3>1, <3>3, WorkerMoves, Zenon DEF PreparePayer, IInv, TypeOK
  <2>6. QED
    BY <2>4, <2>5
<1>7. QED
  BY <1>5, <1>6

LEMMA CountTxStep ==
  ASSUME IInv, NEW w \in Worker, CountTx(w)
  PROVE  IInv'
<1>1. /\ wk[w].pc = "count" /\ Move(w, "store", wk[w].ctx) /\ st' = st
      /\ wk[w].ctx \in PartialCtx \cup {Nil} /\ txsCnt' \in Nat
  BY StateTypes, CountTypes DEF CountTx, WorkerState
<1>2. Safe(st, st')
  BY <1>1, BusyMeansDeliver, SafeRefl
<1>3. wk'[w].pc = "store" /\ wk'[w].ctx = wk[w].ctx /\ wk'[w].req = wk[w].req
  BY <1>1, MoveFacts, StateTypes
<1>4. WorkerLinked(w)'
  BY <1>1, <1>3 DEF WorkerLinked, IInv, AllLinked
<1>5. QED
  BY <1>1, <1>2, <1>4, WorkerMoves DEF CountTx

LEMMA StoreResultStep ==
  ASSUME IInv, NEW w \in Worker, StoreResult(w)
  PROVE  IInv'
<1> DEFINE k == wk[w].idx + 1
           r == [idx |-> wk[w].idx, req |-> wk[w].req, ctx |-> wk[w].ctx]
<1>1. /\ wk[w].pc = "store" /\ Move(w, "done", Nil) /\ st' = st
      /\ resultValues' = [resultValues EXCEPT ![k] = r]
      /\ UNCHANGED <<phase, height, chReqParams, wg, txsCnt, next, feeSum, uncredited, resp>>
  BY DEF StoreResult
<1>2. /\ wk[w].idx \in Nat /\ wk[w].idx < Len(resultValues) /\ wk[w].req \in Txs
      /\ wk[w].ctx # Nil => wk[w].ctx \in WholeCtx /\ Linked(st, wk[w].ctx)
  <2>1. wk[w].idx \in Nat
    BY StateTypes DEF WorkerState
  <2>2. wk[w].idx < Len(resultValues)
    BY <1>1 DEF IInv, Dealt
  <2>3. WorkerLinked(w)
    BY DEF IInv, AllLinked
  <2>4. QED
    BY <1>1, <2>1, <2>2, <2>3 DEF WorkerLinked
<1>3. r \in Result /\ r.idx = wk[w].idx /\ r.ctx = wk[w].ctx
  BY <1>2 DEF Result
<1>4. r # Nil
  BY <1>3, PipelineAssumption
<1> HIDE DEF r
<1>5. resultValues \in Seq({Nil} \cup Result) /\ k \in 1 .. Len(resultValues)
  BY <1>2, StateTypes
<1>6. /\ resultValues' \in Seq({Nil} \cup Result) /\ Len(resultValues') = Len(resultValues)
      /\ DOMAIN resultValues' = DOMAIN resultValues
      /\ resultValues'[k] = r
      /\ \A i \in DOMAIN resultValues : i # k => resultValues'[i] = resultValues[i]
  BY <1>1, <1>3, <1>5
<1>7. /\ wk' \in [Worker -> WorkerState] /\ wk'[w].pc = "done" /\ wk'[w].ctx = Nil
      /\ wk'[w].idx = wk[w].idx /\ \A x \in Worker : x # w => wk'[x] = wk[x]
  BY <1>1, MoveFacts, StateTypes
<1>8. Safe(st, st')
  BY <1>1, BusyMeansDeliver, SafeRefl
<1>9. Dealt' /\ Counted'
  BY <1>1, <1>6, BusyStays DEF StoreResult
<1>10. Answered'
  <2> SUFFICES ASSUME NEW i \in DOMAIN resultValues',
                      i - 1 \notin UNION {Queued(x)' : x \in Worker},
                      \A x \in Worker : ~(wk'[x].pc \notin {"idle", "done"} /\ wk'[x].idx = i - 1)
               PROVE  ~Misplaced(i)'
    BY DEF Answered
  <2>1. CASE i = k
    BY <1>2, <1>3, <1>4, <1>6, <2>1 DEF Misplaced
  <2>2. CASE i # k
    <3>1. \A x \in Worker : Queued(x)' = Queued(x)
      BY DEF Queued, StoreResult
    <3>2. i - 1 \notin UNION {Queued(x) : x \in Worker}
      BY <3>1
    <3>3. i - 1 # wk[w].idx
      BY <1>2, <1>5, <1>6, <2>2
    <3>4. \A x \in Worker : ~(wk[x].pc \notin {"idle", "done"} /\ wk[x].idx = i - 1)
      BY <1>7, <3>3
    <3>5. ~Misplaced(i)
      BY <1>6, <3>2, <3>4 DEF IInv, Answered
    <3>6. QED
      BY <1>6, <2>2, <3>5 DEF Misplaced
  <2>3. QED
    BY <2>1, <2>2
<1>11. AllLinked'
  <2>1. \A x \in Worker : x # w => WorkerLinked(x)'
    BY <1>7, <1>8, LinksKept DEF IInv, AllLinked
  <2>2. WorkerLinked(w)'
    BY <1>7 DEF WorkerLinked
  <2>3. \A i \in DOMAIN resultValues' : resultValues'[i] # Nil /\ resultValues'[i].ctx # Nil =>
           Linked(st', resultValues'[i].ctx)
    <3>1. \A i \in DOMAIN resultValues : resultValues[i] # Nil /\ resultValues[i].ctx # Nil =>
             Linked(st, resultValues[i].ctx)
      BY DEF IInv, AllLinked
    <3>2. QED
      BY <1>1, <1>2, <1>3, <1>6, <3>1
  <2>4. QED
    BY <2>1, <2>2, <2>3 DEF AllLinked
<1>12. TypeOK'
  BY <1>1, <1>6, <1>7 DEF IInv, TypeOK
<1>13. Phased'
  BY <1>1, BusyMeansDeliver DEF Phased
<1>14. QED
  BY <1>9, <1>10, <1>11, <1>12, <1>13 DEF IInv

LEMMA SignalDoneStep ==
  ASSUME IInv, NEW w \in Worker, SignalDone(w)
  PROVE  IInv'
<1> DEFINE n == wk[w].idx
<1>1. /\ wk[w].pc = "done" /\ wg' = wg - 1 /\ wk' = [wk EXCEPT ![w] = Idle]
      /\ UNCHANGED <<phase, height, chReqParams, resultValues, txsCnt, next, st,
                     feeSum, uncredited, resp>>
  BY DEF SignalDone
<1>2. wk \in [Worker -> WorkerState] /\ Idle \in WorkerState
  BY StateTypes DEF Idle, WorkerState
<1>3. /\ wk' \in [Worker -> WorkerState] /\ wk'[w] = Idle
      /\ \A x \in Worker : x # w => wk'[x] = wk[x]
  BY <1>1, <1>2
<1>4. n \in Nat /\ n < Len(resultValues) /\ n % NWorkers = w /\ Len(resultValues) \in Nat
  BY <1>1, StateTypes DEF IInv, Dealt, WorkerState
<1>5. n \in Pending
  BY <1>1, <1>4 DEF Pending, Busy
<1>6. \A x \in Worker : Queued(x)' = Queued(x)
  BY <1>1 DEF Queued
<1>7. \A x \in Worker : n \notin Queued(x)
  <2>1. SUFFICES ASSUME NEW x \in Worker, NEW i \in DOMAIN chReqParams[x],
                        chReqParams[x][i].idx = n
                 PROVE  FALSE
    BY DEF Queued
  <2>2. x = w
    BY <1>4, <2>1 DEF IInv, Dealt
  <2>3. n < chReqParams[x][i].idx
    BY <1>1, <2>1, <2>2 DEF IInv, Dealt
  <2>4. QED
    BY <1>4, <2>1, <2>3
<1>8. \A x \in Worker : x # w => n \notin Busy(x)
  BY <1>4 DEF IInv, Dealt, Busy
<1>9. Pending' = Pending \ {n}
  <2>1. \A x \in Worker : x # w => Busy(x)' = Busy(x)
    BY <1>3 DEF Busy
  <2>2. Busy(w)' = {} /\ Busy(w) = {n}
    BY <1>1, <1>3 DEF Busy, Idle
  <2>3. QED
    BY <1>1, <1>6, <1>7, <1>8, <2>1, <2>2 DEF Pending
<1>10. Counted'
  BY <1>1, <1>5, <1>9, NumberedRemove DEF IInv, Counted
<1>11. Dealt'
  BY <1>1, <1>3 DEF IInv, Dealt, Idle
<1>12. Answered'
  BY <1>1, <1>3, AnsweredKept DEF IInv
<1>13. phase = "deliver" /\ Good(st)
  BY <1>1, BusyMeansDeliver
<1>14. Safe(st, st')
  BY <1>1, <1>13, SafeRefl
<1>15. AllLinked'
  <2>1. \A x \in Worker : x # w => WorkerLinked(x)'
    BY <1>3, <1>14, LinksKept DEF IInv, AllLinked
  <2>2. WorkerLinked(w)'
    BY <1>3 DEF WorkerLinked, Idle
  <2>3. QED
    BY <1>1, <1>14, <2>1, <2>2, ResultsKept DEF IInv, AllLinked
<1>16. TypeOK'
  BY <1>1, <1>3 DEF IInv, TypeOK
<1>17. Phased'
  BY <1>1, <1>13 DEF Phased
<1>18. QED
  BY <1>10, <1>11, <1>12, <1>15, <1>16, <1>17 DEF IInv
=============================================================================
