----------------------------- MODULE AppCommit -----------------------------
(***************************************************************************)
(* The life of a node, node/app.go: start, InitChain, BeginBlock, EndBlock *)
(* and Commit, with a crash between any two writes to disk.                *)
(*                                                                         *)
(* Every controller has a tree of its own, saved one after the other, and  *)
(* the metaDB is written after them.  A tree is modelled by the blocks     *)
(* that were executed on it, 0 for the genesis; its version counts the     *)
(* times it was saved.  The consensus engine keeps a block before it is    *)
(* executed, and after a start executes the blocks the application does    *)
(* not report.  Every block has one transaction that pays one unit of fee. *)
(* The block gas limit stands for the parameters of governance the engine  *)
(* is to follow.                                                           *)
(***************************************************************************)
EXTENDS Integers, Sequences

CONSTANTS
  MaxHeight,    \* bound: the last block
  MaxCrashes,   \* bound: crashes
  MaxStarts,    \* bound: starts of the process
  GasLimits     \* the values governance gives the block gas limit

ASSUME AppCommitAssumption ==
  MaxHeight \in Nat /\ MaxCrashes \in Nat /\ MaxStarts \in Nat /\ GasLimits # {}

(* The order of the controllers in Commit. *)
Order == <<"gov", "acct", "supply", "vpow", "vm">>
Ctrler == {"gov", "acct", "supply", "vpow", "vm"}

VARIABLES
  tree,      \* on disk: the blocks executed on the saved tree of a controller
  ver,       \* on disk: the version of the tree
  meta,      \* on disk: the metaDB, the last block context and the totals
  store,     \* on disk: the last block the consensus engine has
  work,      \* in memory: the tree being worked on
  last,      \* in memory: the height of lastBlockCtx
  phase,     \* what the process does next
  at,        \* the next controller of Commit
  limit,     \* the block gas limit, where it is known
  crashes, starts

disk == <<tree, ver, meta, store>>
bounds == <<crashes, starts>>
appVars == <<disk, work, last, phase, at, limit, bounds>>

(* NewBeatozApp and Info; without a last block the chain is initialised. *)
Start ==
  /\ phase = "down" /\ starts < MaxStarts /\ starts' = starts + 1
  /\ work' = tree
  /\ last' = meta.height
  /\ phase' = IF meta.height = 0 THEN "init" ELSE "idle"
  /\ limit' = [limit EXCEPT !.gov = limit.saved, !.new = limit.saved]
  /\ UNCHANGED <<disk, at, crashes>>

InitChain ==
  /\ phase = "init" /\ phase' = "idle"
  /\ work' = [c \in Ctrler |-> Append(work[c], 0)]
  /\ UNCHANGED <<disk, last, at, limit, bounds>>

(* The consensus engine decides on a block. *)
NewBlock ==
  /\ phase = "idle" /\ last = store /\ store < MaxHeight
  /\ store' = store + 1
  /\ UNCHANGED <<tree, ver, meta, work, last, phase, at, limit, bounds>>

(* Mutant: the EVM controller compares with its last height. *)
BeginBlockOffByOne ==
  /\ phase = "idle" /\ last < store
  /\ phase' = IF ver["vm"] = last + 1 THEN "block" ELSE "down"
  /\ limit' = [limit EXCEPT !.ctx = limit.gov]
  /\ UNCHANGED <<disk, work, last, at, bounds>>

(* The EVM controller refuses a block that does not follow its own last    *)
(* one, and BeginBlock panics.                                             *)
BeginBlock ==
  /\ phase = "idle" /\ last < store
  /\ phase' = IF ver["vm"] + 1 = last + 1 THEN "block" ELSE "down"
  /\ limit' = [limit EXCEPT !.ctx = limit.gov]
  /\ UNCHANGED <<disk, work, last, at, bounds>>

(* Mutant: the limit governance has just decided on is compared. *)
EndBlockTellsNew ==
  /\ phase = "block" /\ phase' = "commit" /\ at' = 1
  /\ work' = [c \in Ctrler |-> Append(work[c], last + 1)]
  /\ \E g \in GasLimits :
       limit' = [limit EXCEPT !.new = g, !.engine = IF g # limit.ctx THEN g ELSE @]
  /\ UNCHANGED <<disk, last, bounds>>

(* The transactions and EndBlock of the controllers; governance may decide *)
(* on a new limit, which it uses from its Commit on.  The engine is told   *)
(* of a limit that differs from the one BeginBlock read.                   *)
EndBlock ==
  /\ phase = "block" /\ phase' = "commit" /\ at' = 1
  /\ work' = [c \in Ctrler |-> Append(work[c], last + 1)]
  /\ \E g \in GasLimits :
       limit' = [limit EXCEPT !.new = g, !.engine = IF limit.gov # limit.ctx THEN limit.gov ELSE @]
  /\ UNCHANGED <<disk, last, bounds>>

(* Mutant: the version is not compared with the height. *)
CommitUnchecked ==
  LET c == Order[at]
  IN  /\ phase = "commit" /\ at \in 1 .. 5
      /\ tree' = [tree EXCEPT ![c] = work[c]]
      /\ ver' = [ver EXCEPT ![c] = @ + 1]
      /\ limit' = IF c = "gov" THEN [limit EXCEPT !.gov = limit.new, !.saved = limit.new] ELSE limit
      /\ at' = at + 1
      /\ UNCHANGED <<meta, store, work, last, phase, bounds>>

(* One controller of the loop in Commit: the tree is saved before its      *)
(* version is compared.                                                    *)
CommitCtrler ==
  LET c == Order[at]
  IN  /\ phase = "commit" /\ at \in 1 .. 5
      /\ tree' = [tree EXCEPT ![c] = work[c]]
      /\ ver' = [ver EXCEPT ![c] = @ + 1]
      /\ limit' = IF c = "gov" THEN [limit EXCEPT !.gov = limit.new, !.saved = limit.new] ELSE limit
      /\ phase' = IF ver[c] + 1 = last + 1 THEN "commit" ELSE "down"
      /\ at' = at + 1
      /\ UNCHANGED <<meta, store, work, last, bounds>>

(* Mutant: the transactions are counted with the block as well. *)
PutAndCount ==
  /\ phase = "commit" /\ at = 6
  /\ meta' = [meta EXCEPT !.height = last + 1, !.hash = tree, !.txn = @ + 1]
  /\ last' = last + 1
  /\ phase' = "txn"
  /\ UNCHANGED <<tree, ver, store, work, at, limit, bounds>>

(* PutLastBlockContext, with the hash of all trees. *)
PutLastBlockContext ==
  /\ phase = "commit" /\ at = 6
  /\ meta' = [meta EXCEPT !.height = last + 1, !.hash = tree]
  /\ last' = last + 1
  /\ phase' = "txn"
  /\ UNCHANGED <<tree, ver, store, work, at, limit, bounds>>

PutTxn ==
  /\ phase = "txn" /\ phase' = "fee"
  /\ meta' = [meta EXCEPT !.txn = @ + 1]
  /\ UNCHANGED <<tree, ver, store, work, last, at, limit, bounds>>

PutTotalTxFee ==
  /\ phase = "fee" /\ phase' = "idle"
  /\ meta' = [meta EXCEPT !.fee = @ + 1]
  /\ UNCHANGED <<tree, ver, store, work, last, at, limit, bounds>>

Crash ==
  /\ phase # "down" /\ crashes < MaxCrashes
  /\ phase' = "down" /\ crashes' = crashes + 1
  /\ UNCHANGED <<disk, work, last, at, limit, starts>>

AppInit ==
  /\ tree = [c \in Ctrler |-> <<>>] /\ ver = [c \in Ctrler |-> 0] /\ work = tree
  /\ meta = [height |-> 0, hash |-> tree, txn |-> 0, fee |-> 0]
  /\ store = 0 /\ last = 0 /\ phase = "down" /\ at = 1
  /\ \E g \in GasLimits : limit = [gov |-> g, new |-> g, saved |-> g, ctx |-> g, engine |-> g]
  /\ crashes = 0 /\ starts = 0

Step ==
  \/ Start \/ InitChain \/ NewBlock \/ BeginBlock \/ EndBlock
  \/ CommitCtrler \/ PutLastBlockContext \/ PutTxn \/ PutTotalTxFee

AppNext == Step \/ Crash

(* The process is started again and works as long as it is not killed; the *)
(* consensus engine goes on.                                               *)
AppSpec == AppInit /\ [][AppNext]_appVars /\ WF_appVars(Step)

-----------------------------------------------------------------------------
(* Properties. *)

Blocks(h) == [i \in 1 .. h + 1 |-> i - 1]

(* The values on disk and in memory have the types of their Go values.     *)
AppTypeOK ==
  /\ tree \in [Ctrler -> Seq(Nat)] /\ ver \in [Ctrler -> Nat] /\ work \in [Ctrler -> Seq(Nat)]
  /\ meta \in [height : Nat, hash : [Ctrler -> Seq(Nat)], txn : Nat, fee : Nat]
  /\ store \in Nat /\ last \in Nat /\ at \in 1 .. 6
  /\ phase \in {"down", "init", "idle", "block", "commit", "txn", "fee"}
  /\ limit \in [{"gov", "new", "saved", "ctx", "engine"} -> GasLimits]
  /\ crashes \in 0 .. MaxCrashes /\ starts \in 0 .. MaxStarts

(* What a node reports for a height is the state after executing every     *)
(* block up to it exactly once, in order, on every controller, wherever it *)
(* crashed before: a block executed again on a tree that already has it    *)
(* never gets past the check of the version.                               *)
ReportedStateIsExact ==
  meta.height > 0 => meta.hash = [c \in Ctrler |-> Blocks(meta.height)]

(* The totals of transactions and fees never count a block twice, though   *)
(* it may be executed again after a crash.                                 *)
TotalsNotOver == AppTypeOK /\ meta.txn <= meta.height /\ meta.fee <= meta.height

Whole == \A c \in Ctrler : ver[c] = meta.height

(* A crash outside of Commit is survived: a node whose trees are those of  *)
(* the last block gets past it, unless it is killed inside a Commit.       *)
RecoversWhenWhole ==
  \A h \in 0 .. MaxHeight - 1 :
    phase = "down" /\ Whole /\ meta.height = h ~> meta.height > h \/ (phase = "down" /\ ~ Whole)

(* "Update BlockParams": EndBlock compares the limit of governance with    *)
(* the one BeginBlock took from it, and governance only changes it in      *)
(* Commit; so the consensus engine keeps the limit it has, whatever        *)
(* governance decides and whenever the node is killed.                     *)
EngineKeepsLimit == [][limit'.engine = limit.engine]_appVars
=============================================================================
