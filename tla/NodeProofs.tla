----------------------------- MODULE NodeProofs -----------------------------
(***************************************************************************)
(* What the node promises as a process, for every value of the constants:  *)
(*   AppCommit  the state a node reports is exact, whatever the number of  *)
(*              blocks, crashes and starts;                                *)
(*   BlockGas   the gas of a block is accounted for, whatever the limits,  *)
(*              the gas of the transactions and the parameters of the EVM; *)
(*   SFilePV    the private validator never double-signs, for any heights, *)
(*              rounds, values and timestamps.                             *)
(***************************************************************************)
EXTENDS AppCommit, BlockGas, SFilePV, TLAPS

-----------------------------------------------------------------------------
(* What Commit saves and a start reports, AppCommit. *)

Saved(h) == IF h = 0 THEN <<>> ELSE Blocks(h)

Trees == [Ctrler -> Seq(Nat)]
MetaType == [height : Nat, hash : Trees, txn : Nat, fee : Nat]

AppTypes ==
  /\ tree \in Trees /\ ver \in [Ctrler -> Nat] /\ work \in Trees
  /\ meta \in MetaType
  /\ last \in Nat /\ at \in 1 .. 6
  /\ phase \in {"down", "init", "idle", "block", "commit", "txn", "fee"}

(* On disk, at any time. *)
DiskInv ==
  \A c \in Ctrler :
    /\ ver[c] >= meta.height
    /\ ver[c] = meta.height => tree[c] = Saved(meta.height)

(* In memory, by what the process does next. *)
UpInv ==
  /\ phase # "down" => last = meta.height
  /\ phase = "init" => meta.height = 0 /\ work = tree
  /\ phase \in {"idle", "block"} => \A c \in Ctrler : ver[c] = last => work[c] = Blocks(last)
  /\ phase = "commit" =>
       \A i \in 1 .. 5 :
         IF i < at THEN ver[Order[i]] = last + 1 /\ tree[Order[i]] = Blocks(last + 1)
         ELSE ver[Order[i]] = last => work[Order[i]] = Blocks(last + 1)
  /\ phase \in {"txn", "fee"} => \A c \in Ctrler : ver[c] = last /\ work[c] = Blocks(last)

(* Together with the trees the loop of Commit has saved. *)
SavedInv ==
  phase = "commit" => \A i \in 1 .. 5 : i < at => tree[Order[i]] = work[Order[i]]

AppIInv == AppTypes /\ DiskInv /\ UpInv /\ SavedInv /\ ReportedStateIsExact

(* InitChain is only reached with nothing on record, NewBeatozApp with     *)
(* empty trees.                                                            *)
LEMMA AppInitIInv == AppInit => AppIInv
  BY DEF AppInit, AppIInv, AppTypes, Trees, MetaType, DiskInv, UpInv, SavedInv, ReportedStateIsExact, Saved

(* Every step of the node keeps the invariant. *)
LEMMA AppNextIInv == AppIInv /\ [AppNext]_appVars => AppIInv'
(* Commit visits every controller exactly once. *)
<1>OrderOnce. /\ \A i \in 1 .. 5 : Order[i] \in Ctrler
              /\ \A i, j \in 1 .. 5 : Order[i] = Order[j] => i = j
              /\ \A c \in Ctrler : \E i \in 1 .. 5 : Order[i] = c
  <2>1. \A i \in 1 .. 5 : i = 1 \/ i = 2 \/ i = 3 \/ i = 4 \/ i = 5
    OBVIOUS
  <2>2. /\ Order[1] = "gov" /\ Order[2] = "acct" /\ Order[3] = "supply" /\ Order[4] = "vpow"
        /\ Order[5] = "vm"
    BY DEF Order
  <2>3. \A i \in 1 .. 5 : Order[i] \in Ctrler
    BY <2>1, <2>2 DEF Ctrler
  <2>4. \A i, j \in 1 .. 5 : Order[i] = Order[j] => i = j
    BY <2>1, <2>2
  <2>5. \A c \in Ctrler : \E i \in 1 .. 5 : Order[i] = c
    BY <2>2 DEF Ctrler
  <2> QED
    BY <2>3, <2>4, <2>5
(* Executing the next block, EndBlock's part of the content of a tree. *)
<1>NextBlock. /\ Append(<<>>, 0) = Blocks(0)
              /\ \A h \in Nat : Append(Blocks(h), h + 1) = Blocks(h + 1) /\ Blocks(h) \in Seq(Nat)
  <2>1. \A h \in Nat : Blocks(h) \in Seq(Nat) /\ Len(Blocks(h)) = h + 1
    BY DEF Blocks
  <2>2. ASSUME NEW h \in Nat PROVE Append(Blocks(h), h + 1) = Blocks(h + 1)
    BY <2>1 DEF Blocks
  <2>3. Append(<<>>, 0) = Blocks(0)
    BY DEF Blocks
  <2> QED
    BY <2>1, <2>2, <2>3, Zenon
<1> SUFFICES ASSUME AppIInv, [AppNext]_appVars PROVE AppIInv'
  OBVIOUS
<1> USE DEF AppIInv
<1>1. CASE Start
  <2>1. AppTypes' /\ DiskInv' /\ ReportedStateIsExact' /\ SavedInv'
    BY <1>1 DEF Start, AppTypes, MetaType, DiskInv, ReportedStateIsExact, SavedInv, disk
  <2>2. UpInv'
    BY <1>1 DEF Start, AppTypes, Trees, MetaType, DiskInv, UpInv, disk, Saved
  <2> QED BY <2>1, <2>2
<1>2. CASE InitChain
  <2>1. AppTypes'
    BY <1>2 DEF InitChain, AppTypes, Trees, disk
  <2>2. DiskInv' /\ ReportedStateIsExact' /\ SavedInv'
    BY <1>2 DEF InitChain, AppTypes, DiskInv, ReportedStateIsExact, SavedInv, disk
  <2>3. \A c \in Ctrler : ver[c] = last => work'[c] = Blocks(last)
    BY <1>2, <1>NextBlock, Zenon DEF InitChain, AppTypes, Trees, DiskInv, UpInv, Saved
  <2>4. UpInv'
    <3>1. phase' = "idle" /\ ver' = ver /\ last' = last /\ meta' = meta /\ last = meta.height
      BY <1>2 DEF InitChain, UpInv, disk
    <3> QED BY <3>1, <2>3 DEF UpInv
  <2> QED BY <2>1, <2>2, <2>4
<1>3. CASE NewBlock
  BY <1>3 DEF NewBlock, AppTypes, DiskInv, UpInv, SavedInv, ReportedStateIsExact
<1>4. CASE BeginBlock
  BY <1>4 DEF BeginBlock, AppTypes, DiskInv, UpInv, SavedInv, ReportedStateIsExact, disk
<1>5. CASE EndBlock
  <2>1. AppTypes'
    BY <1>5 DEF EndBlock, AppTypes, Trees, disk
  <2>2. DiskInv' /\ ReportedStateIsExact' /\ SavedInv'
    BY <1>5 DEF EndBlock, AppTypes, DiskInv, ReportedStateIsExact, SavedInv, disk
  <2>3. \A c \in Ctrler : ver[c] = last => work'[c] = Blocks(last + 1)
    BY <1>5, <1>NextBlock DEF EndBlock, AppTypes, Trees, UpInv
  <2>4. UpInv'
    <3>1. /\ phase' = "commit" /\ ver' = ver /\ last' = last /\ meta' = meta /\ at' = 1
          /\ last = meta.height
      BY <1>5 DEF EndBlock, UpInv, disk
    <3>2. \A i \in 1 .. 5 : ver[Order[i]] = last => work'[Order[i]] = Blocks(last + 1)
      BY <2>3, <1>OrderOnce
    <3>3. \A i \in 1 .. 5 : ~ i < 1
      OBVIOUS
    <3> QED BY <3>1, <3>2, <3>3 DEF UpInv
  <2> QED BY <2>1, <2>2, <2>4
<1>6. CASE CommitCtrler
  <2> DEFINE c == Order[at]
  <2>1. c \in Ctrler /\ at \in 1 .. 5 /\ phase = "commit" /\ last = meta.height
    BY <1>6, <1>OrderOnce DEF CommitCtrler, UpInv
  <2>2. /\ tree' = [tree EXCEPT ![c] = work[c]] /\ ver' = [ver EXCEPT ![c] = @ + 1]
        /\ phase' = IF ver[c] + 1 = last + 1 THEN "commit" ELSE "down"
        /\ at' = at + 1 /\ UNCHANGED <<meta, store, work, last, bounds>>
    BY <1>6 DEF CommitCtrler
  <2> HIDE DEF c
  <2>3. AppTypes'
    <3>1. tree' \in Trees /\ ver' \in [Ctrler -> Nat]
      BY <2>1, <2>2 DEF AppTypes, Trees
    <3>2. at' \in 1 .. 6 /\ phase' \in {"down", "commit"}
      BY <2>1, <2>2
    <3> QED BY <3>1, <3>2, <2>2 DEF AppTypes
  <2>4. DiskInv' /\ ReportedStateIsExact'
    BY <2>1, <2>2, SMTT(30) DEF AppTypes, Trees, MetaType, DiskInv, ReportedStateIsExact
  <2>5. \A i \in 1 .. 5 : i # at => Order[i] # c /\ Order[i] \in Ctrler
    BY <2>1, <1>OrderOnce DEF c
  <2>6. \A i \in 1 .. 5 : i # at => ver'[Order[i]] = ver[Order[i]] /\ tree'[Order[i]] = tree[Order[i]]
    BY <2>2, <2>5, Zenon DEF AppTypes, Trees
  <2>7. ver'[c] = ver[c] + 1 /\ tree'[c] = work[c]
    BY <2>1, <2>2 DEF AppTypes, Trees
  <2>8. ver[c] = last => work[c] = Blocks(last + 1)
    BY <2>1 DEF UpInv, c
  <2>9. CASE ver[c] = last
    <3>1. \A i \in 1 .. 5 : i < at' => ver'[Order[i]] = last + 1 /\ tree'[Order[i]] = Blocks(last + 1)
                                        /\ tree'[Order[i]] = work[Order[i]]
      <4> SUFFICES ASSUME NEW i \in 1 .. 5, i < at + 1
                   PROVE ver'[Order[i]] = last + 1 /\ tree'[Order[i]] = Blocks(last + 1)
                         /\ tree'[Order[i]] = work[Order[i]]
        BY <2>2
      <4>1. CASE i = at
        BY <4>1, <2>7, <2>8, <2>9 DEF c
      <4>2. CASE i # at
        BY <4>2, <2>1, <2>6 DEF UpInv, SavedInv
      <4> QED BY <4>1, <4>2
    <3>2. \A i \in 1 .. 5 : ~ i < at' => i # at /\ ~ i < at
      BY <2>1, <2>2
    <3>3. \A i \in 1 .. 5 : ~ i < at' => (ver'[Order[i]] = last => work[Order[i]] = Blocks(last + 1))
      BY <2>1, <2>6, <3>2 DEF UpInv
    <3>4. UpInv'
      BY <3>1, <3>3, <2>1, <2>2, <2>9 DEF UpInv
    <3>5. SavedInv'
      BY <3>1, <2>2 DEF SavedInv
    <3> QED BY <3>4, <3>5, <2>3, <2>4
  <2>10. CASE ver[c] # last
    <3>1. phase' = "down"
      BY <2>10, <2>1, <2>2 DEF AppTypes
    <3> QED BY <3>1, <2>3, <2>4 DEF UpInv, SavedInv
  <2> QED BY <2>9, <2>10
<1>7. CASE PutLastBlockContext
  <2>1. \A c \in Ctrler : ver[c] = last + 1 /\ tree[c] = Blocks(last + 1) /\ work[c] = tree[c]
    <3>1. \A i \in 1 .. 5 : i < at
      BY <1>7 DEF PutLastBlockContext
    <3> QED BY <1>7, <3>1, <1>OrderOnce DEF PutLastBlockContext, UpInv, SavedInv
  <2>2. AppTypes'
    <3>1. meta' \in MetaType
      <4>1. meta' = [meta EXCEPT !.height = last + 1, !.hash = tree]
        BY <1>7 DEF PutLastBlockContext
      <4>2. last + 1 \in Nat /\ tree \in Trees /\ meta \in MetaType
        BY DEF AppTypes
      <4> HIDE DEF AppIInv
      <4> QED BY <4>1, <4>2, Zenon DEF MetaType
    <3>2. /\ last' \in Nat /\ phase' = "txn" /\ tree' = tree /\ ver' = ver /\ work' = work
          /\ at' = at
      BY <1>7 DEF PutLastBlockContext, AppTypes
    <3> QED BY <3>1, <3>2 DEF AppTypes
  <2>3. meta'.height = last + 1 /\ meta'.hash = tree
    BY <1>7 DEF PutLastBlockContext, AppTypes, MetaType
  <2>4. DiskInv'
    BY <1>7, <2>1, <2>3 DEF PutLastBlockContext, DiskInv, AppTypes, Trees, Saved
  <2>5. tree = [c \in Ctrler |-> Blocks(last + 1)]
    BY <2>1 DEF AppTypes, Trees
  <2>6. ReportedStateIsExact'
    BY <2>3, <2>5 DEF ReportedStateIsExact
  <2>7. UpInv' /\ SavedInv'
    <3>1. phase' = "txn" /\ ver' = ver /\ work' = work /\ last' = last + 1
      BY <1>7 DEF PutLastBlockContext
    <3>2. \A c \in Ctrler : ver[c] = last + 1 /\ work[c] = Blocks(last + 1)
      BY <2>1
    <3> QED BY <3>1, <3>2, <2>3 DEF UpInv, SavedInv
  <2> QED BY <2>2, <2>4, <2>6, <2>7
<1>8. CASE PutTxn \/ PutTotalTxFee
  <2>1. /\ AppTypes' /\ meta'.height = meta.height /\ meta'.hash = meta.hash
        /\ tree' = tree /\ ver' = ver /\ work' = work /\ last' = last
        /\ phase \in {"txn", "fee"} /\ phase' \in {"fee", "idle"}
    <3>1. /\ tree' = tree /\ ver' = ver /\ work' = work /\ last' = last /\ at' = at
          /\ phase \in {"txn", "fee"} /\ phase' \in {"fee", "idle"}
      BY <1>8 DEF PutTxn, PutTotalTxFee
    <3>2. CASE PutTxn
      BY <3>1, <3>2 DEF PutTxn, AppTypes, MetaType
    <3>3. CASE PutTotalTxFee
      BY <3>1, <3>3 DEF PutTotalTxFee, AppTypes, MetaType
    <3> QED BY <1>8, <3>2, <3>3
  <2>2. DiskInv' /\ ReportedStateIsExact'
    BY <2>1 DEF DiskInv, ReportedStateIsExact
  <2>3. UpInv' /\ SavedInv'
    BY <2>1 DEF UpInv, SavedInv
  <2> QED BY <2>1, <2>2, <2>3
<1>9. CASE Crash
  BY <1>9 DEF Crash, AppTypes, DiskInv, UpInv, SavedInv, ReportedStateIsExact, disk
<1>10. CASE UNCHANGED appVars
  BY <1>10 DEF appVars, disk, AppTypes, DiskInv, UpInv, SavedInv, ReportedStateIsExact
<1> QED
  BY <1>1, <1>2, <1>3, <1>4, <1>5, <1>6, <1>7, <1>8, <1>9, <1>10 DEF AppNext, Step

(* However often a node is killed, wherever in Commit, what it reports to  *)
(* the consensus engine is the state after every block up to its height,   *)
(* executed exactly once and in order on every controller.                 *)
THEOREM ReportedStateExact == AppSpec => []ReportedStateIsExact
<1>1. AppIInv => ReportedStateIsExact
  BY DEF AppIInv
<1> QED
  BY <1>1, AppInitIInv, AppNextIInv, PTL DEF AppSpec

-----------------------------------------------------------------------------
(* A block whose total is still to be put is not counted in it yet. *)
Counts ==
  /\ meta.txn <= meta.height /\ meta.fee <= meta.height
  /\ phase = "txn" => meta.txn < meta.height
  /\ phase \in {"txn", "fee"} => meta.fee < meta.height

(* While a block is executed the limit is still the one BeginBlock read. *)
LimitsKept ==
  /\ limit \in [{"gov", "new", "saved", "ctx", "engine"} -> GasLimits]
  /\ phase = "block" => limit.ctx = limit.gov

Bounded == store \in Nat /\ crashes \in 0 .. MaxCrashes /\ starts \in 0 .. MaxStarts

(* Every step keeps the limits: those of BeginBlock and of governance are  *)
(* one until Commit.                                                       *)
LEMMA NextLimits == ASSUME LimitsKept, [AppNext]_appVars PROVE LimitsKept'
<1>1. CASE Start
  BY <1>1, Zenon DEF Start, LimitsKept
<1>2. CASE BeginBlock
  BY <1>2 DEF BeginBlock, LimitsKept
<1>3. CASE EndBlock
  BY <1>3, Zenon DEF EndBlock, LimitsKept
<1>4. CASE CommitCtrler
  BY <1>4, Zenon DEF CommitCtrler, LimitsKept
<1>5. CASE \/ InitChain \/ NewBlock \/ PutLastBlockContext \/ PutTxn \/ PutTotalTxFee
           \/ Crash
  <2>1. limit' = limit /\ phase' # "block"
    BY <1>5 DEF InitChain, NewBlock, PutLastBlockContext, PutTxn, PutTotalTxFee, Crash
  <2> QED BY <2>1 DEF LimitsKept
<1>6. CASE UNCHANGED appVars
  BY <1>6 DEF appVars, LimitsKept
<1> QED BY <1>1, <1>2, <1>3, <1>4, <1>5, <1>6 DEF AppNext, Step

(* The totals of the metaDB never count a block twice, for any number of   *)
(* blocks, crashes and starts: a block is counted after its height is put. *)
THEOREM TotalsAreNotOver == AppSpec => []TotalsNotOver
(* Every step keeps the counts. *)
<1>NextCounts. ASSUME AppIInv, Counts, [AppNext]_appVars PROVE Counts'
  <2> USE <1>NextCounts
  <2>0. /\ meta \in MetaType /\ last \in Nat
        /\ meta.height \in Nat /\ meta.txn \in Nat /\ meta.fee \in Nat
    BY DEF AppIInv, AppTypes, MetaType
  <2>1. CASE PutLastBlockContext
    <3>1. meta' = [meta EXCEPT !.height = last + 1, !.hash = tree] /\ phase = "commit"
      BY <2>1 DEF PutLastBlockContext
    <3>2. last = meta.height
      BY <3>1 DEF AppIInv, UpInv
    <3>3. meta'.height = meta.height + 1 /\ meta'.txn = meta.txn /\ meta'.fee = meta.fee
      BY <2>0, <3>1, <3>2 DEF MetaType
    <3> QED BY <2>0, <3>3 DEF Counts
  <2>2. CASE PutTxn
    <3>1. /\ phase = "txn" /\ phase' = "fee"
          /\ meta'.height = meta.height /\ meta'.txn = meta.txn + 1 /\ meta'.fee = meta.fee
      BY <2>0, <2>2 DEF PutTxn, MetaType
    <3> QED BY <2>0, <3>1 DEF Counts
  <2>3. CASE PutTotalTxFee
    <3>1. /\ phase = "fee" /\ phase' = "idle"
          /\ meta'.height = meta.height /\ meta'.txn = meta.txn /\ meta'.fee = meta.fee + 1
      BY <2>0, <2>3 DEF PutTotalTxFee, MetaType
    <3> QED BY <2>0, <3>1 DEF Counts
  <2>4. CASE Start \/ InitChain \/ NewBlock \/ BeginBlock \/ EndBlock \/ CommitCtrler \/ Crash
    <3>1. meta' = meta /\ phase' \notin {"txn", "fee"}
      BY <2>4, Zenon DEF Start, InitChain, NewBlock, BeginBlock, EndBlock, CommitCtrler, Crash, disk
    <3> QED BY <3>1 DEF Counts
  <2>5. CASE UNCHANGED appVars
    BY <2>5 DEF appVars, disk, Counts
  <2> QED BY <2>1, <2>2, <2>3, <2>4, <2>5 DEF AppNext, Step
(* The bounds of the model are kept. *)
<1>NextBounded. ASSUME Bounded, [AppNext]_appVars PROVE Bounded'
  <2> USE <1>NextBounded
  <2>1. CASE Start
    BY <2>1, AppCommitAssumption DEF Start, Bounded, disk
  <2>2. CASE NewBlock
    BY <2>2 DEF NewBlock, Bounded, bounds
  <2>3. CASE Crash
    BY <2>3, AppCommitAssumption DEF Crash, Bounded, disk
  <2>4. CASE \/ InitChain \/ BeginBlock \/ EndBlock \/ CommitCtrler
             \/ PutLastBlockContext \/ PutTxn \/ PutTotalTxFee
    BY <2>4, Zenon DEF InitChain, BeginBlock, EndBlock, CommitCtrler, PutLastBlockContext, PutTxn,
       PutTotalTxFee, Bounded, disk, bounds
  <2>5. CASE UNCHANGED appVars
    BY <2>5 DEF appVars, disk, bounds, Bounded
  <2> QED BY <2>1, <2>2, <2>3, <2>4, <2>5 DEF AppNext, Step
<1>1. AppInit => AppIInv /\ Counts /\ LimitsKept /\ Bounded
  <2>1. AppInit => Counts
    BY DEF AppInit, Counts
  <2>2. AppInit => LimitsKept
    BY DEF AppInit, LimitsKept
  <2>3. AppInit => Bounded
    BY AppCommitAssumption DEF AppInit, Bounded
  <2> QED BY <2>1, <2>2, <2>3, AppInitIInv
<1>2. AppIInv /\ Counts /\ LimitsKept /\ Bounded /\ [AppNext]_appVars => (AppIInv /\ Counts /\ LimitsKept /\ Bounded)'
  BY AppNextIInv, <1>NextCounts, NextLimits, <1>NextBounded
<1>3. AppIInv /\ Counts /\ LimitsKept /\ Bounded => TotalsNotOver
  BY DEF AppIInv, AppTypes, Trees, MetaType, Counts, LimitsKept, Bounded, TotalsNotOver, AppTypeOK
<1> QED BY <1>1, <1>2, <1>3, PTL DEF AppSpec

(* EndBlock never tells the consensus engine of another block gas limit,   *)
(* whatever governance decides and whenever the node is killed.            *)
THEOREM EngineLimitIsKept == AppSpec => EngineKeepsLimit
<1>1. AppInit => LimitsKept
  BY DEF AppInit, LimitsKept
<1>2. LimitsKept /\ [AppNext]_appVars => LimitsKept'
  BY NextLimits
<1>3. LimitsKept /\ [AppNext]_appVars => [limit'.engine = limit.engine]_appVars
  <2> SUFFICES ASSUME LimitsKept, AppNext PROVE limit'.engine = limit.engine
    OBVIOUS
  <2>1. CASE Start
    BY <2>1 DEF Start, LimitsKept
  <2>2. CASE BeginBlock
    BY <2>2 DEF BeginBlock, LimitsKept
  <2>3. CASE EndBlock
    BY <2>3 DEF EndBlock, LimitsKept
  <2>4. CASE CommitCtrler
    BY <2>4 DEF CommitCtrler, LimitsKept
  <2>5. CASE \/ InitChain \/ NewBlock \/ PutLastBlockContext \/ PutTxn \/ PutTotalTxFee
             \/ Crash
    BY <2>5 DEF InitChain, NewBlock, PutLastBlockContext, PutTxn, PutTotalTxFee, Crash
  <2> QED BY <2>1, <2>2, <2>3, <2>4, <2>5 DEF AppNext, Step
<1> QED BY <1>1, <1>2, <1>3, PTL DEF AppSpec, EngineKeepsLimit

-----------------------------------------------------------------------------
(* The private validator, SFilePV. *)

(* A state names what it signed, and the signature fits. *)
Honest(s) ==
  s.signBytes # Nil =>
    /\ s.signature = s.signBytes
    /\ s.signBytes.height = s.height /\ s.signBytes.round = s.round
    /\ s.signBytes.step = s.step

(* A state covers a signed message: it is later, or it is what was signed. *)
Covers(s, x) ==
  /\ x.sig = x.msg
  /\ \/ Before(x.msg.height, x.msg.round, x.msg.step, s.height, s.round, s.step)
     \/ s.signBytes = x.msg

(* The files: a state only beside a key, and it covers all that was handed *)
(* out.                                                                    *)
FilesInv ==
  /\ keyFile = "absent" => stateFile = Nil
  /\ stateFile = Nil => out = {}
  /\ stateFile # Nil => Honest(stateFile) /\ \A x \in out : Covers(stateFile, x)

(* The process: between saves it agrees with the file; a new signature is  *)
(* ahead of the file until it is saved, and is handed out only then.       *)
ProcessInv ==
  /\ stage \in {"truncateKey", "rewriteKey", "saveState", "ready", "save", "return"}
       => keyFile # "absent"
  /\ stage \in {"saveKey", "truncateKey", "rewriteKey", "saveState"} =>
       pv = IF stateFile = Nil THEN Fresh ELSE stateFile
  /\ stage = "ready" => pv # Nil /\ pv = stateFile
  /\ stage \in {"save", "return"} =>
       /\ vote \in Msg /\ stateFile # Nil
       /\ pv = [height |-> vote.height, round |-> vote.round, step |-> vote.step,
                signBytes |-> vote, signature |-> vote]
  /\ stage = "save" =>
       Before(stateFile.height, stateFile.round, stateFile.step,
              pv.height, pv.round, pv.step)
  /\ stage = "return" => stateFile = pv

PVIInv == PVTypeOK /\ FilesInv /\ ProcessInv /\ NoDoubleSign

-----------------------------------------------------------------------------
(* The invariant is inductive: signing, saving, answering, starting and    *)
(* dying keep it.                                                          *)
THEOREM PVIInvHolds == PVSpec => []PVIInv
(* What CheckHRS says: a new HRS is later than the last one signed, and    *)
(* the same HRS is equal to it and comes with the bytes.                   *)
<1>CheckHRSMeans. ASSUME NEW s \in SignState, NEW m \in Msg
                  PROVE  /\ CheckHRS(s, m) = "new" =>
                              Before(s.height, s.round, s.step, m.height, m.round, m.step)
                         /\ CheckHRS(s, m) = "same" =>
                              /\ s.height = m.height /\ s.round = m.round /\ s.step = m.step
                              /\ s.signBytes # Nil
  <2> USE <1>CheckHRSMeans
  <2>1. /\ s.height \in Int /\ s.round \in Int /\ s.step \in Int
        /\ m.height \in Int /\ m.round \in Int /\ m.step \in Int
    BY PVAssumption DEF SignState, Msg, stepNone, stepPropose, stepPrecommit
  <2> DEFINE back == Before(m.height, m.round, m.step, s.height, s.round, s.step)
             forth == Before(s.height, s.round, s.step, m.height, m.round, m.step)
  <2>2. CASE back
    <3>0. ~forth
      BY <2>1, <2>2 DEF Before
    <3>1. CheckHRS(s, m) = "err"
      BY <2>2, <3>0 DEF CheckHRS
    <3> QED BY <3>1
  <2>3. CASE ~back /\ forth
    <3>1. CheckHRS(s, m) = "new"
      BY <2>3 DEF CheckHRS
    <3> QED BY <3>1, <2>3
  <2>4. CASE ~back /\ ~forth
    <3>1. s.height = m.height /\ s.round = m.round /\ s.step = m.step
      BY <2>1, <2>4 DEF Before
    <3>2. CheckHRS(s, m) = IF s.signBytes # Nil THEN "same" ELSE "err"
      BY <2>4 DEF CheckHRS
    <3> QED BY <3>1, <3>2
  <2> QED BY <2>2, <2>3, <2>4
(* A state that is later than another covers what the other covers. *)
<1>CoversLater. ASSUME NEW s \in SignState, NEW t \in SignState, NEW x \in [msg : Msg, sig : Msg],
                       Honest(s), Covers(s, x),
                       Before(s.height, s.round, s.step, t.height, t.round, t.step)
                PROVE  Covers(t, x)
  <2> USE <1>CoversLater
  <2>1. /\ s.height \in Int /\ s.round \in Int /\ s.step \in Int
        /\ t.height \in Int /\ t.round \in Int /\ t.step \in Int
        /\ x.msg.height \in Int /\ x.msg.round \in Int /\ x.msg.step \in Int
        /\ x.msg \in Msg
    BY PVAssumption DEF SignState, Msg, stepNone, stepPropose, stepPrecommit
  <2>2. CASE s.signBytes = x.msg
    <3>1. s.signBytes # Nil
      BY <2>1, <2>2, NoneAssumption
    <3>2. x.msg.height = s.height /\ x.msg.round = s.round /\ x.msg.step = s.step
      BY <2>2, <3>1 DEF Honest
    <3> QED BY <3>2 DEF Covers
  <2>3. CASE Before(x.msg.height, x.msg.round, x.msg.step, s.height, s.round, s.step)
    BY <2>1, <2>3 DEF Covers, Before
  <2> QED BY <2>2, <2>3 DEF Covers
(* Handing out exactly what the saved state signed is no double signature. *)
<1>HandOut. ASSUME PVTypeOK, FilesInv, NoDoubleSign, stateFile # Nil, NEW m \in Msg,
                   stateFile.signBytes = m, out' = out \cup {Signed(m, m)},
                   stateFile' = stateFile, keyFile' = keyFile
            PROVE  FilesInv' /\ NoDoubleSign' /\ out' \subseteq [msg : Msg, sig : Msg]
  <2> USE <1>HandOut
  <2> DEFINE n == Signed(m, m)
  <2>1. n \in [msg : Msg, sig : Msg] /\ n.msg = m /\ n.sig = m
    BY DEF Signed
  <2>2. Covers(stateFile, n)
    BY <2>1 DEF Covers
  <2>3. FilesInv'
    BY <2>2 DEF FilesInv
  <2>4. out' \subseteq [msg : Msg, sig : Msg]
    BY <2>1 DEF PVTypeOK
  <2>5. m # Nil
    BY NoneAssumption
  <2>6. Honest(stateFile)
    BY DEF FilesInv
  <2>7. m.height = stateFile.height /\ m.round = stateFile.round /\ m.step = stateFile.step
    BY <2>5, <2>6 DEF Honest
  <2>8. stateFile \in SignState
    BY DEF PVTypeOK
  <2>9. stateFile.height \in Int /\ stateFile.round \in Int /\ stateFile.step \in Int
    BY <2>8, PVAssumption DEF SignState, stepNone, stepPrecommit
  <2>10. ASSUME NEW x \in out,
                x.msg.height = m.height, x.msg.round = m.round, x.msg.step = m.step
         PROVE  x = n
    <3>1. Covers(stateFile, x)
      BY DEF FilesInv
    <3>2. ~Before(x.msg.height, x.msg.round, x.msg.step,
                  stateFile.height, stateFile.round, stateFile.step)
      BY <2>7, <2>9, <2>10 DEF Before
    <3>3. x.msg = m /\ x.sig = m
      BY <3>1, <3>2 DEF Covers
    <3>4. x \in [msg : Msg, sig : Msg]
      BY DEF PVTypeOK
    <3> QED BY <2>1, <3>3, <3>4
  <2>11. NoDoubleSign'
    BY <2>1, <2>10 DEF NoDoubleSign
  <2> QED BY <2>3, <2>4, <2>11
(* The initial state: no files, nothing signed. *)
<1>PVInitIInv. PVInit => PVIInv
  BY DEF PVInit, PVIInv, PVTypeOK, FilesInv, ProcessInv, NoDoubleSign, PC
(* Start-up keeps what the files say. *)
<1>StartKeeps. ASSUME PVIInv,
                      LoadOrGenSFilePV \/ SaveKey \/ TruncateKey \/ RewriteKey \/ SaveState
               PROVE  PVIInv'
  <2> USE <1>StartKeeps
  <2>0. Fresh \in SignState /\ Honest(Fresh) /\ Fresh # Nil
    BY PVAssumption, NoneAssumption DEF Fresh, SignState, Honest, stepNone, stepPrecommit
  <2>1. CASE LoadOrGenSFilePV
    BY <2>0, <2>1, Zenon DEF LoadOrGenSFilePV, PVIInv, PVTypeOK, FilesInv, ProcessInv, NoDoubleSign, PC
  <2>2. CASE SaveKey
    BY <2>2 DEF SaveKey, PVIInv, PVTypeOK, FilesInv, ProcessInv, NoDoubleSign, PC
  <2>3. CASE TruncateKey
    BY <2>3 DEF TruncateKey, PVIInv, PVTypeOK, FilesInv, ProcessInv, NoDoubleSign, PC
  <2>4. CASE RewriteKey
    BY <2>4 DEF RewriteKey, PVIInv, PVTypeOK, FilesInv, ProcessInv, NoDoubleSign, PC
  <2>5. CASE SaveState
    BY <2>0, <2>5 DEF SaveState, PVIInv, PVTypeOK, FilesInv, ProcessInv, NoDoubleSign, PC
  <2> QED BY <2>1, <2>2, <2>3, <2>4, <2>5
(* Answering again hands out what the saved state signed. *)
<1>SignAgainKeeps. ASSUME PVIInv, NEW m \in Msg, SignAgain(m)
                   PROVE  PVIInv'
  <2> USE <1>SignAgainKeeps
  <2>1. pv = stateFile /\ pv # Nil /\ pv \in SignState
    BY DEF SignAgain, PVIInv, PVTypeOK, ProcessInv
  <2>2. pv.signBytes # Nil /\ pv.signBytes \in Msg
    BY <2>1, <1>CheckHRSMeans DEF SignAgain, SignState
  <2>3. pv.signature = pv.signBytes
    BY <2>1, <2>2 DEF PVIInv, FilesInv, Honest
  <2>4. [m EXCEPT !.time = pv.signBytes.time] = pv.signBytes
    BY DEF SignAgain, OnlyDifferByTimestamp
  <2>5. out' = out \cup {Signed(pv.signBytes, pv.signBytes)}
    BY <2>3, <2>4 DEF SignAgain
  <2>6. stateFile' = stateFile /\ keyFile' = keyFile /\ stage' = stage /\ pv' = pv /\ vote' = vote
    BY DEF SignAgain
  <2>7. FilesInv' /\ NoDoubleSign' /\ out' \subseteq [msg : Msg, sig : Msg]
    BY <2>1, <2>2, <2>5, <2>6, <1>HandOut DEF PVIInv
  <2>8. PVTypeOK'
    BY <2>6, <2>7 DEF PVIInv, PVTypeOK
  <2>9. ProcessInv'
    BY <2>6 DEF PVIInv, ProcessInv
  <2> QED BY <2>7, <2>8, <2>9 DEF PVIInv
(* A new signature is ahead of the saved state. *)
<1>SignNewKeeps. ASSUME PVIInv, NEW m \in Msg, SignNew(m)
                 PROVE  PVIInv'
  <2> USE <1>SignNewKeeps
  <2>1. pv = stateFile /\ pv # Nil /\ pv \in SignState
    BY DEF SignNew, PVIInv, PVTypeOK, ProcessInv
  <2>2. Before(pv.height, pv.round, pv.step, m.height, m.round, m.step)
    BY <2>1, <1>CheckHRSMeans DEF SignNew
  <2>3. pv' \in SignState
    BY PVAssumption DEF SignNew, SignState, Msg, stepNone, stepPropose, stepPrecommit
  <2>4. PVTypeOK'
    BY <2>3 DEF SignNew, PVIInv, PVTypeOK, PC
  <2>5. FilesInv' /\ NoDoubleSign'
    BY DEF SignNew, PVIInv, FilesInv, NoDoubleSign
  <2>6. ProcessInv'
    BY <2>1, <2>2 DEF SignNew, PVIInv, ProcessInv
  <2> QED BY <2>4, <2>5, <2>6 DEF PVIInv
(* Saving moves the file forward, so it still covers all that was handed   *)
(* out.                                                                    *)
<1>SaveSignedKeeps. ASSUME PVIInv, SaveSigned
                    PROVE  PVIInv'
  <2> USE <1>SaveSignedKeeps
  <2>1. /\ vote \in Msg /\ stateFile # Nil /\ stateFile \in SignState
        /\ pv = [height |-> vote.height, round |-> vote.round, step |-> vote.step,
                 signBytes |-> vote, signature |-> vote]
        /\ Before(stateFile.height, stateFile.round, stateFile.step,
                  pv.height, pv.round, pv.step)
    BY DEF SaveSigned, PVIInv, PVTypeOK, ProcessInv
  <2>2. pv \in SignState
    BY <2>1, PVAssumption DEF SignState, Msg, stepNone, stepPropose, stepPrecommit
  <2>3. Honest(pv) /\ pv # Nil
    BY <2>1, <2>2, NoneAssumption DEF Honest
  <2>4. \A x \in out : Covers(pv, x)
    <3> SUFFICES ASSUME NEW x \in out PROVE Covers(pv, x)
      OBVIOUS
    <3>1. Honest(stateFile) /\ Covers(stateFile, x)
      BY <2>1 DEF PVIInv, FilesInv
    <3>2. x \in [msg : Msg, sig : Msg]
      BY DEF PVIInv, PVTypeOK
    <3> QED BY <2>1, <2>2, <3>1, <3>2, <1>CoversLater
  <2>5. stateFile' = pv /\ out' = out /\ keyFile' = keyFile /\ pv' = pv /\ vote' = vote
        /\ stage' = "return" /\ keyFile # "absent"
    BY DEF SaveSigned, PVIInv, ProcessInv
  <2>6. FilesInv'
    BY <2>3, <2>4, <2>5 DEF FilesInv
  <2>7. PVTypeOK' /\ NoDoubleSign'
    BY <2>2, <2>5 DEF PVIInv, PVTypeOK, NoDoubleSign, PC
  <2>8. ProcessInv'
    BY <2>1, <2>3, <2>5 DEF ProcessInv
  <2> QED BY <2>6, <2>7, <2>8 DEF PVIInv
(* The answer hands out what was saved. *)
<1>ReturnKeeps. ASSUME PVIInv, ReturnSigned
                PROVE  PVIInv'
  <2> USE <1>ReturnKeeps
  <2>1. /\ vote \in Msg /\ stateFile # Nil /\ stateFile = pv
        /\ pv.signature = vote /\ pv.signBytes = vote
    BY DEF ReturnSigned, PVIInv, ProcessInv
  <2>2. stateFile' = stateFile /\ keyFile' = keyFile /\ pv' = pv /\ stage' = "ready" /\ vote' = Nil
    BY DEF ReturnSigned
  <2>3. out' = out \cup {Signed(vote, vote)}
    BY <2>1 DEF ReturnSigned
  <2>4. FilesInv' /\ NoDoubleSign' /\ out' \subseteq [msg : Msg, sig : Msg]
    BY <2>1, <2>2, <2>3, <1>HandOut DEF PVIInv
  <2>5. PVTypeOK'
    BY <2>2, <2>4 DEF PVIInv, PVTypeOK, PC
  <2>6. ProcessInv'
    BY <2>1, <2>2 DEF PVIInv, ProcessInv, ReturnSigned
  <2> QED BY <2>4, <2>5, <2>6 DEF PVIInv
(* A crash leaves the files, and they still cover all that was handed out. *)
<1>CrashKeeps. ASSUME PVIInv, PVCrash
               PROVE  PVIInv'
  BY <1>CrashKeeps DEF PVCrash, PVIInv, PVTypeOK, FilesInv, ProcessInv, NoDoubleSign, PC
<1>1. ASSUME PVIInv, [PVNext]_pvVars PROVE PVIInv'
  <2>1. CASE PVNext
    BY <1>1, <2>1, <1>StartKeeps, <1>SignAgainKeeps, <1>SignNewKeeps, <1>SaveSignedKeeps,
       <1>ReturnKeeps, <1>CrashKeeps DEF PVNext
  <2>2. CASE UNCHANGED pvVars
    BY <1>1, <2>2 DEF pvVars, PVIInv, PVTypeOK, FilesInv, ProcessInv, NoDoubleSign
  <2> QED BY <1>1, <2>1, <2>2
<1> QED BY <1>1, <1>PVInitIInv, PTL DEF PVSpec

(* The validator never double-signs. *)
THEOREM NeverDoubleSigns == PVSpec => []NoDoubleSign
<1>1. PVIInv => NoDoubleSign
  BY DEF PVIInv
<1> QED BY <1>1, PVIInvHolds, PTL

(* Every signature handed out verifies for the message it comes with. *)
THEOREM SignaturesFit == PVSpec => []SignatureFits
<1>1. PVIInv => SignatureFits
  BY DEF PVIInv, FilesInv, SignatureFits, Covers
<1> QED BY <1>1, PVIInvHolds, PTL

(* The saved height, round and step never go back, restarts included. *)
THEOREM SavedAdvances == PVSpec => SavedStateAdvances
<1> DEFINE A == stateFile # Nil =>
        /\ stateFile' # Nil
        /\ ~Before(stateFile'.height, stateFile'.round, stateFile'.step,
                   stateFile.height, stateFile.round, stateFile.step)
<1>1. ASSUME PVIInv, [PVNext]_pvVars, stateFile # Nil PROVE A
  <2>1. stateFile \in SignState
    BY <1>1 DEF PVIInv, PVTypeOK
  <2>2. stateFile.height \in Int /\ stateFile.round \in Int /\ stateFile.step \in Int
    BY <2>1, PVAssumption DEF SignState, stepNone, stepPrecommit
  <2>3. CASE stateFile' = stateFile
    BY <1>1, <2>2, <2>3 DEF Before
  <2>4. CASE SaveState
    BY <1>1, <2>3, <2>4 DEF SaveState, PVIInv, ProcessInv
  <2>5. CASE SaveSigned
    <3>1. stateFile' = pv /\ pv \in SignState
          /\ Before(stateFile.height, stateFile.round, stateFile.step,
                    pv.height, pv.round, pv.step)
      <4>1. vote \in Msg /\ pv = [height |-> vote.height, round |-> vote.round,
                 step |-> vote.step, signBytes |-> vote, signature |-> vote]
        BY <1>1, <2>5 DEF SaveSigned, PVIInv, ProcessInv
      <4>2. pv \in SignState
        BY <4>1, PVAssumption DEF SignState, Msg, stepNone, stepPropose, stepPrecommit
      <4> QED BY <1>1, <2>5, <4>2 DEF SaveSigned, PVIInv, ProcessInv
    <3>2. pv.height \in Int /\ pv.round \in Int /\ pv.step \in Int /\ pv # Nil
      BY <3>1, PVAssumption, NoneAssumption DEF SignState, stepNone, stepPrecommit
    <3> QED BY <2>2, <3>1, <3>2 DEF Before
  <2>6. \/ stateFile' = stateFile \/ SaveState \/ SaveSigned
    BY <1>1, Zenon DEF PVNext, pvVars, LoadOrGenSFilePV, SaveKey, TruncateKey, RewriteKey,
       SignAgain, SignNew, ReturnSigned, PVCrash
  <2> QED BY <2>3, <2>4, <2>5, <2>6
<1>2. ASSUME PVIInv, [PVNext]_pvVars PROVE A
  BY <1>1, <1>2
<1> QED BY <1>2, PVIInvHolds, PTL DEF PVSpec, SavedStateAdvances

-----------------------------------------------------------------------------
(* The gas of a block, BlockGas. *)

(* The EVM controller has the pool of the BlockContext, and gas is counted *)
(* exactly in the block and in the last one.                               *)
GasIInv == GasTypeOK /\ evmPool = bctxPool /\ PoolExact /\ LastExact

(* The context InitChain makes has a full pool. *)
LEMMA GasInitIInv == GasInit => GasIInv
<1> SUFFICES ASSUME GasInit PROVE GasIInv
  OBVIOUS
<1>1. params \in Nat
  BY BlockGasAssumption DEF GasInit
<1>2. pools \in [1 .. 2 -> Nat] /\ pools[2] = params
  BY <1>1 DEF GasInit
<1>3. lastBlockCtx \in [limit : Limits, pool : Nat] /\ lastBlockCtx.limit = params /\ lastBlockCtx.pool = params
  BY <1>1 DEF GasInit
<1>4. GasTypeOK
  <2>1. open \in BOOLEAN
    BY Zenon DEF GasInit
  <2>2. params \in Limits /\ blockGasLimit \in Limits
    BY DEF GasInit
  <2>3. bctxPool \in 1 .. 2 /\ evmPool \in 1 .. 2
    BY DEF GasInit
  <2>4. gasUsed \in Nat /\ lost \in Nat /\ txs \in Nat /\ lastUsed \in Nat /\ blocks \in Nat
    BY DEF GasInit
  <2> QED  BY <1>2, <1>3, <2>1, <2>2, <2>3, <2>4 DEF GasTypeOK
<1>5. PoolExact /\ LastExact
  BY <1>1, <1>2, <1>3 DEF GasInit, PoolExact, LastExact, pool
<1> QED  BY <1>4, <1>5 DEF GasInit, GasIInv

(* Every step keeps the invariant, and no step in a block fills its pool. *)
LEMMA GasNextIInv ==
  ASSUME GasIInv, [GasNext]_gasVars
  PROVE  GasIInv' /\ (open /\ open' => pools'[bctxPool'] <= pools[bctxPool])
(* A part of a number, as refundGas computes it, is no more than it. *)
<1>PartOf. ASSUME NEW n \in Nat, NEW q \in Nat \ {0}
           PROVE  n \div q \in 0 .. n
  <2> USE <1>PartOf
  <2> DEFINE d == n \div q
  <2>1. /\ d \in Int /\ q * d <= n /\ n < q * d + q
    BY Z3
  <2>2. d >= 0
    BY <2>1, Z3
  <2>3. d <= q * d
    BY <2>1, <2>2, Z3
  <2> QED  BY <2>1, <2>2, <2>3
(* What a run of the EVM leaves and what is refunded is part of the gas    *)
(* bought: refundGas never makes gas.                                      *)
<1>RefundBounded. ASSUME NEW used \in Nat, NEW counter \in Nat
                  PROVE  refundGas(used, counter) \in 0 .. used
  <2> USE <1>RefundBounded
  <2>1. used \div RefundQuotient \in 0 .. used
    BY <1>PartOf, BlockGasAssumption
  <2> QED  BY <2>1 DEF refundGas
(* TransitionDb takes from the pool what it reports as used, or, when it   *)
(* fails, reports none; it never puts gas in.                              *)
<1>Transition. ASSUME NEW p \in Nat, NEW t \in Tx, NEW left \in Nat, left <= t.gas, NEW counter \in Nat
               PROVE  LET r == TransitionDb(p, t, left, counter)
                      IN  /\ r.pool \in Nat /\ r.used \in Nat /\ r.pool <= p
                          /\ r.err => r.used = 0
                          /\ ~ r.err => r.pool + r.used = p
  <2> USE <1>Transition
  <2> DEFINE f == refundGas(t.gas - left, counter)
             r == TransitionDb(p, t, left, counter)
  <2>1. t.gas \in Nat
    BY BlockGasAssumption, Zenon DEF Tx
  <2>2. f \in 0 .. t.gas - left
    <3>1. t.gas - left \in Nat
      BY <2>1
    <3> QED  BY <3>1, <1>RefundBounded, Zenon
  <2> HIDE DEF f
  <2>3. CASE ~ buyGas(p, t)
    BY <2>3 DEF TransitionDb
  <2>4. CASE buyGas(p, t) /\ (t.gas < IntrinsicGas \/ t.big)
    BY <2>1, <2>4 DEF TransitionDb, buyGas
  <2>5. CASE buyGas(p, t) /\ ~ (t.gas < IntrinsicGas \/ t.big)
    <3>1. r = [err |-> FALSE, pool |-> p - t.gas + (left + f), used |-> t.gas - (left + f)]
      BY <2>5 DEF TransitionDb, f
    <3> HIDE DEF r
    <3>2. ~ r.err /\ r.pool = p - t.gas + (left + f) /\ r.used = t.gas - (left + f)
      BY <3>1
    <3>3. r.pool \in Nat /\ r.used \in Nat /\ r.pool <= p /\ r.pool + r.used = p
      BY <2>1, <2>2, <2>5, <3>2 DEF buyGas
    <3> QED  BY <3>2, <3>3 DEF r
  <2> QED  BY <2>3, <2>4, <2>5
(* One transaction of the EVM. *)
<1>EVMStep. ASSUME GasIInv, NEW t \in Tx, NEW left \in Nat, left <= t.gas, NEW counter \in Nat,
                   ExecEVM(t, left, counter)
            PROVE  GasIInv' /\ pools'[bctxPool'] <= pools[bctxPool]
  <2> USE <1>EVMStep
  <2> DEFINE p == pools[evmPool]
             r == TransitionDb(p, t, left, counter)
  <2>1. p \in Nat
    BY DEF GasIInv, GasTypeOK
  <2>2. /\ r.pool \in Nat /\ r.used \in Nat /\ r.pool <= p
        /\ r.err => r.used = 0
        /\ ~ r.err => r.pool + r.used = p
    BY <2>1, <1>Transition
  <2>3. /\ pools' = [pools EXCEPT ![evmPool] = r.pool]
        /\ gasUsed' = gasUsed + r.used
        /\ lost' = lost + (IF r.err THEN p - r.pool ELSE 0)
        /\ txs' = txs + 1
        /\ UNCHANGED <<params, open, blockGasLimit, bctxPool, evmPool, lastBlockCtx, lastUsed, blocks>>
    BY DEF ExecEVM
  <2> HIDE DEF r
  <2>4. pools' \in [1 .. 2 -> Nat] /\ pools'[bctxPool'] = r.pool
    BY <2>2, <2>3 DEF GasIInv, GasTypeOK
  <2>5. gasUsed' \in Nat /\ lost' \in Nat /\ gasUsed' + lost' = gasUsed + lost + (p - r.pool)
    BY <2>1, <2>2, <2>3 DEF GasIInv, GasTypeOK
  <2>6. GasTypeOK'
    BY <2>3, <2>4, <2>5 DEF GasIInv, GasTypeOK
  <2>7. blockGasLimit \in Int /\ blockGasLimit - p = gasUsed + lost
    BY BlockGasAssumption DEF GasIInv, GasTypeOK, PoolExact, pool
  <2>8. PoolExact'
    BY <2>1, <2>2, <2>3, <2>4, <2>5, <2>7 DEF GasIInv, GasTypeOK, PoolExact, pool
  <2>9. LastExact' /\ evmPool' = bctxPool'
    BY <2>3 DEF GasIInv, LastExact
  <2>10. pools'[bctxPool'] <= pools[bctxPool]
    BY <2>2, <2>4 DEF GasIInv
  <2> QED  BY <2>6, <2>8, <2>9, <2>10 DEF GasIInv
(* One transaction of another controller: the check of commonValidation    *)
(* makes sure that UseBlockGas succeeds.                                   *)
<1>NativeStep. ASSUME GasIInv, NEW t \in Tx, ExecNative(t)
               PROVE  GasIInv' /\ pools'[bctxPool'] <= pools[bctxPool]
  <2> USE <1>NativeStep
  <2>1. t.gas \in Nat /\ pool \in Nat /\ pool >= t.gas
    BY BlockGasAssumption, Zenon DEF Tx, GasIInv, GasTypeOK, pool, ExecNative, validateTrx
  <2>2. /\ pools' = [pools EXCEPT ![bctxPool] = pool - t.gas]
        /\ gasUsed' = gasUsed + t.gas /\ txs' = txs + 1
        /\ UNCHANGED <<params, open, blockGasLimit, bctxPool, evmPool, lost, lastBlockCtx, lastUsed, blocks>>
    <3>1. SubGas(pools[bctxPool], t.gas) = pool - t.gas
      BY <2>1 DEF SubGas, pool
    <3> QED  BY <3>1 DEF ExecNative
  <2>3. pools' \in [1 .. 2 -> Nat] /\ pools'[bctxPool'] = pool - t.gas
    BY <2>1, <2>2 DEF GasIInv, GasTypeOK
  <2>4. GasTypeOK'
    BY <2>1, <2>2, <2>3 DEF GasIInv, GasTypeOK
  <2>5. blockGasLimit \in Int /\ blockGasLimit - pool = gasUsed + lost
    BY BlockGasAssumption DEF GasIInv, GasTypeOK, PoolExact
  <2>6. blockGasLimit' - pools'[bctxPool'] = gasUsed' + lost'
    BY <2>1, <2>2, <2>3, <2>5 DEF GasIInv, GasTypeOK
  <2>7. LastExact' /\ evmPool' = bctxPool'
    BY <2>2 DEF GasIInv, LastExact
  <2>8. pools'[bctxPool'] <= pools[bctxPool]
    BY <2>1, <2>3 DEF pool
  <2> QED  BY <2>4, <2>6, <2>7, <2>8 DEF GasIInv, PoolExact, pool
<1> USE DEF GasIInv
<1>0. pool \in Nat /\ blockGasLimit \in Nat
  BY BlockGasAssumption DEF GasTypeOK, pool
<1>1. CASE GasBeginBlock
  <2>1. params \in Nat /\ pools' \in [1 .. 2 -> Nat] /\ pools'[2] = params
    BY <1>1, BlockGasAssumption DEF GasBeginBlock, GasTypeOK
  <2>2. GasTypeOK'
    BY <1>1, <2>1 DEF GasBeginBlock, GasTypeOK
  <2>3. PoolExact' /\ LastExact' /\ evmPool' = bctxPool'
    BY <1>1, <2>1 DEF GasBeginBlock, PoolExact, LastExact, pool
  <2>4. ~ open
    BY <1>1 DEF GasBeginBlock
  <2> QED  BY <2>2, <2>3, <2>4
<1>2. CASE \E t \in Tx : Refuse(t)
  <2>1. /\ txs' = txs + 1
        /\ UNCHANGED <<params, open, blockGasLimit, pools, bctxPool, evmPool, gasUsed, lost, lastBlockCtx, lastUsed, blocks>>
    BY <1>2 DEF Refuse
  <2> QED  BY <1>0, <2>1 DEF GasTypeOK, PoolExact, LastExact, pool
<1>3. CASE \E t \in Tx : ExecNative(t)
  BY <1>3, <1>NativeStep
<1>4. CASE \E t \in Tx : \E left \in 0 .. t.gas - IntrinsicGas : \E counter \in 0 .. t.gas : ExecEVM(t, left, counter)
  <2>1. PICK t \in Tx : \E left \in 0 .. t.gas - IntrinsicGas : \E counter \in 0 .. t.gas : ExecEVM(t, left, counter)
    BY <1>4
  <2>2. PICK left \in 0 .. t.gas - IntrinsicGas : \E counter \in 0 .. t.gas : ExecEVM(t, left, counter)
    BY <2>1
  <2>3. PICK counter \in 0 .. t.gas : ExecEVM(t, left, counter)
    BY <2>2
  <2>4. t.gas \in Nat /\ left \in Nat /\ left <= t.gas /\ counter \in Nat
    <3>1. t.gas \in Nat /\ IntrinsicGas \in Nat
      BY BlockGasAssumption, Zenon DEF Tx
    <3> QED  BY <3>1
  <2> QED  BY <2>3, <2>4, <1>EVMStep
<1>5. CASE \E t \in Tx : t.gas < IntrinsicGas /\ ExecEVM(t, 0, 0)
  <2>1. PICK t \in Tx : ExecEVM(t, 0, 0)
    BY <1>5
  <2>2. t.gas \in Nat
    BY BlockGasAssumption, Zenon DEF Tx
  <2> QED  BY <2>1, <2>2, <1>EVMStep
<1>6. CASE \E p \in Limits : Commit(p)
  <2>1. PICK p \in Limits : Commit(p)
    BY <1>6
  <2>2. /\ ~ open' /\ params' = p /\ blocks' = blocks + 1
        /\ lastBlockCtx' = [limit |-> blockGasLimit, pool |-> pool] /\ lastUsed' = gasUsed + lost
        /\ UNCHANGED <<blockGasLimit, pools, bctxPool, evmPool, gasUsed, lost, txs>>
    BY <2>1 DEF Commit
  <2>3. GasTypeOK'
    <3>1. lastBlockCtx' \in [limit : Limits, pool : Nat]
      BY <1>0, <2>2 DEF GasTypeOK
    <3>2. open' \in BOOLEAN /\ params' \in Limits
      BY <2>1, Zenon DEF Commit
    <3>3. lastUsed' \in Nat /\ blocks' \in Nat
      BY <2>2 DEF GasTypeOK
    <3> QED  BY <2>2, <3>1, <3>2, <3>3 DEF GasTypeOK
  <2> QED  BY <1>0, <2>2, <2>3 DEF PoolExact, LastExact, pool
<1>7. CASE Restart
  <2>1. lastBlockCtx.limit \in Nat /\ lastBlockCtx.pool \in Nat /\ lastBlockCtx = [limit |-> lastBlockCtx.limit, pool |-> lastBlockCtx.pool]
    BY BlockGasAssumption, Zenon DEF GasTypeOK
  <2>2. lastBlockCtx' = lastBlockCtx
    BY <1>7, <2>1 DEF Restart, Marshal, Unmarshal
  <2>3. ~ open' /\ UNCHANGED <<params, blockGasLimit, pools, bctxPool, evmPool, gasUsed, lost, txs, lastUsed, blocks>>
    BY <1>7 DEF Restart
  <2>4. GasTypeOK'
    BY <1>7, <2>2, <2>3, Zenon DEF GasTypeOK, Restart
  <2> QED  BY <2>2, <2>3, <2>4 DEF PoolExact, LastExact, pool
<1>8. CASE UNCHANGED gasVars
  BY <1>0, <1>8 DEF GasTypeOK, PoolExact, LastExact, pool, gasVars
<1> QED  BY <1>1, <1>2, <1>3, <1>4, <1>5, <1>6, <1>7, <1>8 DEF GasNext

(* Whatever transactions a block has had, the gas missing in its pool is   *)
(* what they were charged and what failed transitions have kept; and no    *)
(* block goes beyond its limit.                                            *)
THEOREM GasAccounted == GasSpec => [](PoolExact /\ LastExact /\ gasUsed + lost <= blockGasLimit)
<1>1. GasInit => GasIInv
  BY GasInitIInv
<1>2. GasIInv /\ [GasNext]_gasVars => GasIInv'
  BY GasNextIInv
<1>3. GasIInv => PoolExact /\ LastExact /\ gasUsed + lost <= blockGasLimit
  <2> SUFFICES ASSUME GasIInv PROVE gasUsed + lost <= blockGasLimit
    BY DEF GasIInv
  <2>1. pool \in Nat /\ blockGasLimit \in Nat /\ gasUsed \in Nat /\ lost \in Nat
    BY BlockGasAssumption DEF GasIInv, GasTypeOK, pool
  <2> QED  BY <2>1 DEF GasIInv, PoolExact
<1> QED  BY <1>1, <1>2, <1>3, PTL DEF GasSpec

(* No transaction of either kind gives a pool back more than it took. *)
THEOREM PoolOnlyShrinks == GasSpec => PoolShrinks
<1>1. GasInit => GasIInv
  BY GasInitIInv
<1>2. GasIInv /\ [GasNext]_gasVars => GasIInv'
  BY GasNextIInv
<1>3. GasIInv /\ [GasNext]_gasVars => [open /\ open' => pools'[bctxPool'] <= pools[bctxPool]]_gasVars
  BY GasNextIInv
<1> QED  BY <1>1, <1>2, <1>3, PTL DEF GasSpec, PoolShrinks

=============================================================================
