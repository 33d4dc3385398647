------------------------------ MODULE NodeStop ------------------------------
(***************************************************************************)
(* How a node runs and how it stops.  The consensus engine calls the       *)
(* application over several connections (node/client.go), each from a      *)
(* goroutine of its own; all of them share one mutex, cmtx, and most calls *)
(* take the mutex of the application, amtx, as well.  The goroutines of    *)
(* the TrxPreparer make the contexts that DeliverTx asks for, and EndBlock *)
(* waits for them.                                                         *)
(*                                                                         *)
(* A signal stops the application first: every connection calls Stop,      *)
(* which takes amtx only, ends the preparers and closes the controllers.   *)
(* Then the node is stopped and the process exits.                         *)
(***************************************************************************)
EXTENDS Integers

CONSTANTS
  Callers,   \* the goroutines that call, besides that of consensus
  Workers,   \* the number of preparers
  Ctrlers,   \* the number of controllers
  Conns,     \* the number of connections
  MaxAsked,  \* bound: transactions in a block
  MaxCommits, \* bound: blocks
  None

Consensus == "consensus"
Signal == "signal"
Threads == Callers \cup {Consensus}

ASSUME NodeStopAssumption ==
  /\ {Workers, Ctrlers, Conns, MaxAsked} \subseteq Nat \ {0} /\ MaxCommits \in Nat
  /\ Callers \cap {Consensus, Signal, None} = {}
  /\ None \notin {Consensus, Signal}

VARIABLES
  cmtx,     \* who has the mutex of the clients
  amtx,     \* who has that of the application
  pc,       \* where each goroutine is
  call,     \* what consensus calls next
  queue,    \* of every preparer
  gone,     \* the preparers that have ended
  pending,  \* contexts EndBlock has to wait for: the WaitGroup
  asked,    \* DeliverTx in this block
  done,     \* chDone is closed
  version,  \* the version of every controller
  closed,   \* the controllers that are closed
  height,   \* the last block
  stops,    \* calls of Stop that have returned
  exited

stopVars == <<cmtx, amtx, pc, call, queue, gone, pending, asked, done, version, closed,
              height, stops, exited>>
preparer == <<queue, gone, pending, asked, done>>
stores == <<version, closed, height>>

-----------------------------------------------------------------------------
(* Calls. *)

(* BeginBlock, DeliverTx, EndBlock, Commit and CheckTx take the mutex of   *)
(* the application; Query does not.                                        *)
TakesAppMtx(t) == t # "query"

(* A method of the client begins. *)
Enter(t) ==
  /\ ~ exited /\ pc[t] = "idle" /\ cmtx = None
  /\ t = Consensus => height < MaxCommits
  /\ cmtx' = t
  /\ pc' = [pc EXCEPT ![t] = IF TakesAppMtx(t) THEN "client" ELSE "app"]
  /\ UNCHANGED <<amtx, call, preparer, stores, stops, exited>>

Lock(t) ==
  /\ ~ exited /\ pc[t] = "client" /\ amtx = None
  /\ amtx' = t /\ pc' = [pc EXCEPT ![t] = "app"]
  /\ UNCHANGED <<cmtx, call, preparer, stores, stops, exited>>

(* Mutant: the mutex of the application is not released. *)
releaseClient(t) == cmtx' = None /\ amtx' = amtx

(* Both mutexes are released when a call returns or panics. *)
Release(t) ==
  /\ cmtx' = None
  /\ amtx' = IF amtx = t THEN None ELSE amtx

ReturnCall(t) == Release(t) /\ pc' = [pc EXCEPT ![t] = "idle"]

(* CheckTx and Query leave nothing here; the server of the RPC recovers    *)
(* when they panic over a closed controller.                               *)
Serve(t) ==
  /\ ~ exited /\ t # Consensus /\ pc[t] = "app"
  /\ ReturnCall(t)
  /\ UNCHANGED <<call, preparer, stores, stops, exited>>

Executing(c) == ~ exited /\ pc[Consensus] = "app" /\ call = c

(* The call of consensus meets a closed controller, which has no ledger    *)
(* any more: consensus recovers from the panic and calls no more.          *)
Fails ==
  /\ ~ exited /\ pc[Consensus] = "app" /\ closed # {} /\ call # "DeliverTx"
  /\ call = "EndBlock" => pending = 0
  /\ Release(Consensus) /\ pc' = [pc EXCEPT ![Consensus] = "failed"]
  /\ UNCHANGED <<call, preparer, stores, stops, exited>>

ServeBeginBlock ==
  /\ Executing("BeginBlock")
  /\ ReturnCall(Consensus)
  /\ call' \in {"DeliverTx", "EndBlock"}
  /\ UNCHANGED <<preparer, stores, stops, exited>>

(* Add: the preparers take turns. *)
DeliverTx ==
  LET w == (asked % Workers) + 1
  IN  /\ Executing("DeliverTx")
      /\ asked' = asked + 1 /\ pending' = pending + 1
      /\ queue' = [queue EXCEPT ![w] = @ + 1]
      /\ ReturnCall(Consensus)
      /\ call' \in {c \in {"DeliverTx", "EndBlock"} : c = "DeliverTx" => asked' < MaxAsked}
      /\ UNCHANGED <<gone, done, stores, stops, exited>>

(* EndBlock waits for the contexts, holding both mutexes. *)
ServeEndBlock ==
  /\ Executing("EndBlock") /\ closed = {} /\ pending = 0
  /\ asked' = 0 /\ call' = "Commit"
  /\ ReturnCall(Consensus)
  /\ UNCHANGED <<queue, gone, pending, done, stores, stops, exited>>

(* Commit: one controller after the other, then the block is recorded. *)
ServeCommitCtrler(c) ==
  /\ Executing("Commit") /\ closed = {}
  /\ version[c] = height /\ \A b \in 1 .. c - 1 : version[b] = height + 1
  /\ version' = [version EXCEPT ![c] = height + 1]
  /\ UNCHANGED <<cmtx, amtx, pc, call, preparer, closed, height, stops, exited>>

(* Mutant: the block is not recorded as the last. *)
commitUnrecorded ==
  /\ Executing("Commit") /\ closed = {} /\ \A c \in 1 .. Ctrlers : version[c] = height + 1
  /\ height' = height /\ call' = "BeginBlock"
  /\ ReturnCall(Consensus)
  /\ UNCHANGED <<preparer, version, closed, stops, exited>>

CommitDone ==
  /\ Executing("Commit") /\ closed = {} /\ \A c \in 1 .. Ctrlers : version[c] = height + 1
  /\ height' = height + 1 /\ call' = "BeginBlock"
  /\ ReturnCall(Consensus)
  /\ UNCHANGED <<preparer, version, closed, stops, exited>>

-----------------------------------------------------------------------------
(* The preparers. *)

(* A context is made and completed. *)
Prepare(w) ==
  /\ ~ exited /\ w \notin gone /\ queue[w] > 0 /\ closed = {}
  /\ queue' = [queue EXCEPT ![w] = @ - 1] /\ pending' = pending - 1
  /\ UNCHANGED <<cmtx, amtx, pc, call, gone, asked, done, stores, stops, exited>>

(* The account of a context is read from a closed controller: nobody       *)
(* recovers from the panic of a preparer.                                  *)
PrepareFails(w) ==
  /\ ~ exited /\ w \notin gone /\ queue[w] > 0 /\ closed # {}
  /\ exited' = TRUE
  /\ UNCHANGED <<cmtx, amtx, pc, call, preparer, stores, stops>>

(* The preparer ends; which of two channels it reads is not determined. *)
Quit(w) ==
  /\ ~ exited /\ done /\ w \notin gone
  /\ gone' = gone \cup {w}
  /\ UNCHANGED <<cmtx, amtx, pc, call, queue, pending, asked, done, stores, stops, exited>>

-----------------------------------------------------------------------------
(* Stopping. *)

(* A signal: from here on Stop is called for one connection after another. *)
TrapSignal ==
  /\ ~ exited /\ pc[Signal] = "idle"
  /\ pc' = [pc EXCEPT ![Signal] = "stop"]
  /\ UNCHANGED <<cmtx, amtx, call, preparer, stores, stops, exited>>

(* Mutant: Stop takes no mutex. *)
stopUnlocked ==
  /\ ~ exited /\ pc[Signal] = "stop" /\ stops < Conns
  /\ amtx' = amtx /\ pc' = [pc EXCEPT ![Signal] = "closing"] /\ done' = TRUE
  /\ UNCHANGED <<cmtx, call, queue, gone, pending, asked, stores, stops, exited>>

Stop ==
  /\ ~ exited /\ pc[Signal] = "stop" /\ stops < Conns /\ amtx = None
  /\ amtx' = Signal /\ pc' = [pc EXCEPT ![Signal] = "closing"] /\ done' = TRUE
  /\ UNCHANGED <<cmtx, call, queue, gone, pending, asked, stores, stops, exited>>

(* Close of one controller after another; closing again does nothing. *)
Close(c) ==
  /\ ~ exited /\ pc[Signal] = "closing" /\ c \notin closed /\ \A b \in 1 .. c - 1 : b \in closed
  /\ closed' = closed \cup {c}
  /\ UNCHANGED <<cmtx, amtx, pc, call, preparer, version, height, stops, exited>>

Stopped ==
  /\ ~ exited /\ pc[Signal] = "closing" /\ closed = 1 .. Ctrlers
  /\ amtx' = (IF amtx = Signal THEN None ELSE amtx) /\ stops' = stops + 1
  /\ pc' = [pc EXCEPT ![Signal] = "stop"]
  /\ UNCHANGED <<cmtx, call, preparer, stores, exited>>

(* The node, which waits for nothing of the above, and os.Exit. *)
Exit ==
  /\ ~ exited /\ pc[Signal] = "stop" /\ stops = Conns
  /\ exited' = TRUE
  /\ UNCHANGED <<cmtx, amtx, pc, call, preparer, stores, stops>>

StopInit ==
  /\ cmtx = None /\ amtx = None
  /\ pc = [t \in Threads \cup {Signal} |-> "idle"] /\ call = "BeginBlock"
  /\ queue = [w \in 1 .. Workers |-> 0] /\ gone = {} /\ pending = 0 /\ asked = 0
  /\ done = FALSE /\ version = [c \in 1 .. Ctrlers |-> 0] /\ closed = {} /\ height = 0
  /\ stops = 0 /\ exited = FALSE

ConsensusStep ==
  \/ Lock(Consensus) \/ Fails \/ ServeBeginBlock \/ DeliverTx \/ ServeEndBlock \/ CommitDone
  \/ \E c \in 1 .. Ctrlers : ServeCommitCtrler(c)
CallerStep(t) == Lock(t) \/ Serve(t)
WorkerStep(w) == Prepare(w) \/ PrepareFails(w) \/ Quit(w)
StopStep == Stopped \/ Exit \/ \E c \in 1 .. Ctrlers : Close(c)

StopNext ==
  \/ \E t \in Threads : Enter(t)
  \/ ConsensusStep \/ \E t \in Callers : CallerStep(t)
  \/ \E w \in 1 .. Workers : WorkerStep(w)
  \/ TrapSignal \/ Stop \/ StopStep

(* Goroutines go on, and sync.Mutex starves nobody who waits for it. *)
Fairness ==
  /\ SF_stopVars(Enter(Consensus)) /\ SF_stopVars(ConsensusStep)
  /\ \A t \in Callers : SF_stopVars(CallerStep(t))
  /\ \A w \in 1 .. Workers : WF_stopVars(WorkerStep(w))
  /\ SF_stopVars(Stop) /\ WF_stopVars(StopStep)

StopSpec == StopInit /\ [][StopNext]_stopVars
FairSpec == StopSpec /\ Fairness

-----------------------------------------------------------------------------
(* Properties. *)

(* Whoever is in a call has the mutex of the clients and, past Lock, that  *)
(* of the application, which Stop has while it closes.                     *)
StopTypeOK ==
  /\ \A t \in Threads :
       /\ pc[t] \in {"idle", "client", "app", "failed"}
       /\ (cmtx = t) <=> (pc[t] \in {"client", "app"})
       /\ (amtx = t) <=> (pc[t] = "app" /\ TakesAppMtx(t))
  /\ pc[Signal] \in {"idle", "stop", "closing"}
  /\ (amtx = Signal) <=> (pc[Signal] = "closing")
  /\ call \in {"BeginBlock", "DeliverTx", "EndBlock", "Commit"}
  /\ gone \subseteq 1 .. Workers /\ closed \subseteq 1 .. Ctrlers
  /\ stops \in 0 .. Conns /\ asked \in 0 .. MaxAsked /\ {done, exited} \subseteq BOOLEAN

(* No block is torn by a stop: Stop waits for the mutex that Commit holds, *)
(* so that the controllers are closed with all of them at the same block,  *)
(* the one that is recorded as the last.  Nor is a preparer at work when   *)
(* the controllers are committed, for this block or an earlier one.        *)
StopKeepsBlocks ==
  /\ StopTypeOK
  /\ closed # {} => \A c \in 1 .. Ctrlers : version[c] = height
  /\ pc[Consensus] = "app" /\ call = "Commit" =>
       pending = 0 /\ \A w \in 1 .. Workers : queue[w] = 0

(* Whatever else is called, the node goes from block to block until it    *)
(* gets a signal: no call waits for one that waits for it.                 *)
BlocksProceed ==
  \A h \in 0 .. MaxCommits - 1 : (height = h) ~> (height > h \/ pc[Signal] # "idle")

(* EndBlock waits for contexts that no preparer is left to make. *)
WaitsForGone ==
  pc[Consensus] = "app" /\ call = "EndBlock" /\ \E w \in gone : queue[w] > 0

(* "Stop upon receiving SIGTERM or CTRL-C." (cmd/commands/run_node.go): a  *)
(* node that has got a signal exits.  One thing alone can keep it from     *)
(* that: the first Stop has ended a preparer with contexts in its queue,   *)
(* EndBlock waits for them, and holds the mutex the next Stop needs.       *)
SignalEnds == (pc[Signal] # "idle") ~> (exited \/ WaitsForGone)
=============================================================================
