------------------------------- MODULE Ledger -------------------------------
(***************************************************************************)
(* A state ledger, ledger/v1: a StateLedger with its two sides.            *)
(*                                                                         *)
(* The deliver side (exec = true) is a MutableLedger: a versioned tree,    *)
(* the cache of decoded objects, and the list of revisions that undoes     *)
(* changes.  The check side (exec = false) is a MemLedger: the tree of the *)
(* last committed version, read only, under a map of changed values that   *)
(* is thrown away at every commit.                                         *)
(*                                                                         *)
(* Values stand for encoded items; none encodes to nothing.  Decoding      *)
(* gives back the item, so an object in the cache is written as its value. *)
(* The tree is the external IAVL tree: a map with saved versions, of which *)
(* the last survives a crash.                                              *)
(***************************************************************************)
EXTENDS Integers, Sequences

CONSTANTS
  Key, Val,
  Absent,       \* nil bytes: no such key
  NotIn,        \* no entry in a Go map
  MaxVersion,   \* bound: commits
  MaxRevs,      \* bound: length of the revision list of the deliver side
  MaxMarks,     \* bound: snapshots of the deliver side
  MaxMemRevs,   \* bound: length of the revision list of the check side
  MaxMemMarks   \* bound: snapshots of the check side

ASSUME LedgerAssumption ==
  /\ Absent \notin Val /\ NotIn \notin Val /\ NotIn # Absent
  /\ MaxVersion \in Nat /\ MaxRevs \in Nat /\ MaxMarks \in Nat
  /\ MaxMemRevs \in Nat /\ MaxMemMarks \in Nat

VARIABLES
  tree,        \* the working tree
  versions,    \* the saved versions, oldest first
  cachedObjs,  \* MutableLedger.cachedObjs
  revs,        \* MutableLedger.revisions
  marks,       \* the snapshots taken of the deliver side: number and map
  memStorage,  \* MemLedger.memStorage
  memRevs,     \* MemLedger.revisions
  memMarks     \* the snapshots taken of the check side

deliver == <<tree, versions, cachedObjs, revs, marks>>
check == <<memStorage, memRevs, memMarks>>
vars == <<deliver, check>>

Map == [Key -> Val \cup {Absent}]
Empty == [k \in Key |-> Absent]
NoEntries == [k \in Key |-> NotIn]

Version == Len(versions)

(* The read-only tree of the check side: the last saved version. *)
immuTree == IF versions = <<>> THEN Empty ELSE versions[Version]

Rev(k, v) == [key |-> k, val |-> v]

(* NewStateLedger on an empty database. *)
Init ==
  /\ tree = Empty /\ versions = <<>>
  /\ cachedObjs = NoEntries /\ revs = <<>> /\ marks = <<>>
  /\ memStorage = NoEntries /\ memRevs = <<>> /\ memMarks = <<>>

-----------------------------------------------------------------------------
(* The deliver side: MutableLedger. *)

(* What Get hands out: the cached object, or what the tree decodes to. *)
getItem(k) == IF cachedObjs[k] # NotIn THEN cachedObjs[k] ELSE tree[k]

(* What Iterate and Seek pass to their callback: they never look into the  *)
(* cache, but decode the working tree, unsaved changes included.           *)
seekItem(k) == tree[k]

(* Get: a decoded object stays in the cache; a missing key is an error. *)
Get(k) ==
  /\ cachedObjs[k] = NotIn /\ tree[k] # Absent
  /\ cachedObjs' = [cachedObjs EXCEPT ![k] = tree[k]]
  /\ UNCHANGED <<tree, versions, revs, marks, check>>

(* Set: the old value is recorded if the new one differs. *)
Set(k, v) ==
  /\ tree[k] # v => Len(revs) < MaxRevs
  /\ tree' = [tree EXCEPT ![k] = v]
  /\ revs' = IF tree[k] # v THEN Append(revs, Rev(k, tree[k])) ELSE revs
  /\ cachedObjs' = [cachedObjs EXCEPT ![k] = v]
  /\ UNCHANGED <<versions, marks, check>>

(* Mutant: the object stays in the cache. *)
DelKeepsObject(k) ==
  /\ tree[k] # Absent => Len(revs) < MaxRevs
  /\ tree' = [tree EXCEPT ![k] = Absent]
  /\ revs' = IF tree[k] # Absent THEN Append(revs, Rev(k, tree[k])) ELSE revs
  /\ UNCHANGED <<versions, cachedObjs, marks, check>>

(* Del: the removed value is recorded, the object leaves the cache. *)
Del(k) ==
  /\ tree[k] # Absent => Len(revs) < MaxRevs
  /\ tree' = [tree EXCEPT ![k] = Absent]
  /\ revs' = IF tree[k] # Absent THEN Append(revs, Rev(k, tree[k])) ELSE revs
  /\ cachedObjs' = [cachedObjs EXCEPT ![k] = NotIn]
  /\ UNCHANGED <<versions, marks, check>>

(* Snapshot: the number of a snapshot is the length of the list. *)
Snapshot ==
  /\ Len(marks) < MaxMarks
  /\ marks' = Append(marks, [snap |-> Len(revs), kv |-> tree])
  /\ UNCHANGED <<tree, versions, cachedObjs, revs, check>>

(* Mutant: undone oldest first. *)
UndoneForward(list, snap, m, k) ==
  LET is == {i \in snap + 1 .. Len(list) : list[i].key = k}
  IN  IF is = {} THEN m[k]
      ELSE list[CHOOSE i \in is : \A j \in is : i >= j].val

(* What undoing the revisions from snap on leaves at key k: the oldest of  *)
(* them for k wins, since they are undone newest first.                    *)
Undone(list, snap, m, k) ==
  LET is == {i \in snap + 1 .. Len(list) : list[i].key = k}
  IN  IF is = {} THEN m[k]
      ELSE list[CHOOSE i \in is : \A j \in is : i <= j].val

Touched(list, snap) == {list[i].key : i \in snap + 1 .. Len(list)}

(* RevertToSnapshot: tree and cache follow the list, which is then cut. *)
RevertToSnapshot(i) ==
  LET snap == marks[i].snap
      t    == [k \in Key |-> Undone(revs, snap, tree, k)]
  IN  /\ tree' = t
      /\ cachedObjs' = [k \in Key |->
                          IF k \notin Touched(revs, snap) THEN cachedObjs[k]
                          ELSE IF t[k] = Absent THEN NotIn ELSE t[k]]
      /\ revs' = SubSeq(revs, 1, snap)
      /\ marks' = SubSeq(marks, 1, i)
      /\ UNCHANGED <<versions, check>>

-----------------------------------------------------------------------------
(* The check side: MemLedger. Before the first commit there is no tree to  *)
(* read, and nothing is asked of it.                                       *)

memGet(k) == IF memStorage[k] # NotIn THEN memStorage[k] ELSE immuTree[k]

(* Iterate and Seek of the check side walk the saved tree only. *)
memSeek(k) == immuTree[k]

(* Mutant: only values that are in memStorage are recorded, as in Del. *)
MemSetForgetsNew(k, v) ==
  /\ Version > 0 /\ (memGet(k) # v => Len(memRevs) < MaxMemRevs)
  /\ memStorage' = [memStorage EXCEPT ![k] = v]
  /\ memRevs' = IF memStorage[k] \notin {v, NotIn} THEN Append(memRevs, Rev(k, memStorage[k]))
                ELSE memRevs
  /\ UNCHANGED <<deliver, memMarks>>

MemSet(k, v) ==
  /\ Version > 0 /\ (memGet(k) # v => Len(memRevs) < MaxMemRevs)
  /\ memStorage' = [memStorage EXCEPT ![k] = v]
  /\ memRevs' = IF memGet(k) # v THEN Append(memRevs, Rev(k, memGet(k))) ELSE memRevs
  /\ UNCHANGED <<deliver, memMarks>>

(* Del records the old value only if it is in memStorage. *)
MemDel(k) ==
  /\ Version > 0 /\ (memStorage[k] # NotIn => Len(memRevs) < MaxMemRevs)
  /\ memStorage' = [memStorage EXCEPT ![k] = Absent]
  /\ memRevs' = IF memStorage[k] # NotIn THEN Append(memRevs, Rev(k, memStorage[k]))
                ELSE memRevs
  /\ UNCHANGED <<deliver, memMarks>>

MemSnapshot ==
  /\ Version > 0 /\ Len(memMarks) < MaxMemMarks
  /\ memMarks' = Append(memMarks, [snap |-> Len(memRevs), kv |-> [k \in Key |-> memGet(k)]])
  /\ UNCHANGED <<deliver, memStorage, memRevs>>

MemRevertToSnapshot(i) ==
  LET snap == memMarks[i].snap
  IN  /\ memStorage' = [k \in Key |-> Undone(memRevs, snap, memStorage, k)]
      /\ memRevs' = SubSeq(memRevs, 1, snap)
      /\ memMarks' = SubSeq(memMarks, 1, i)
      /\ UNCHANGED deliver

-----------------------------------------------------------------------------
(* Mutant: the check side keeps what it wrote. *)
CommitKeepsMem ==
  /\ Version < MaxVersion
  /\ versions' = Append(versions, tree)
  /\ cachedObjs' = NoEntries /\ marks' = <<>> /\ memMarks' = <<>>
  /\ UNCHANGED <<tree, revs, memStorage, memRevs>>

(* MutableLedger.Commit.  The revision list stays: revisionList.reset      *)
(* works on a copy.                                                        *)
saveVersion ==
  /\ versions' = Append(versions, tree)
  /\ cachedObjs' = NoEntries /\ marks' = <<>>
  /\ UNCHANGED <<tree, revs>>

(* StateLedger.Commit: save a version, start a new check side on it. *)
Commit ==
  /\ Version < MaxVersion
  /\ saveVersion
  /\ memStorage' = NoEntries /\ memRevs' = <<>> /\ memMarks' = <<>>

(* The process dies and NewStateLedger opens the database again: what was  *)
(* not saved is gone.                                                      *)
Restart ==
  /\ tree' = immuTree /\ UNCHANGED versions
  /\ cachedObjs' = NoEntries /\ revs' = <<>> /\ marks' = <<>>
  /\ memStorage' = NoEntries /\ memRevs' = <<>> /\ memMarks' = <<>>

(* Every operation goes to the side its exec argument names. *)
Next ==
  \/ \E k \in Key : Get(k) \/ Del(k) \/ MemDel(k)
  \/ \E k \in Key : \E v \in Val : Set(k, v) \/ MemSet(k, v)
  \/ Snapshot \/ MemSnapshot
  \/ \E i \in DOMAIN marks : RevertToSnapshot(i)
  \/ \E i \in DOMAIN memMarks : MemRevertToSnapshot(i)
  \/ Commit \/ Restart

Spec == Init /\ [][Next]_vars

-----------------------------------------------------------------------------
(* Properties. *)

Revision == [key : Key, val : Val \cup {Absent}]
Marked == [snap : Nat, kv : Map]

(* Every variable has the shape of the Go value it stands for. *)
TypeOK ==
  /\ tree \in Map /\ versions \in Seq(Map)
  /\ cachedObjs \in [Key -> Val \cup {NotIn}]
  /\ revs \in Seq(Revision) /\ memRevs \in Seq(Revision)
  /\ marks \in Seq(Marked) /\ memMarks \in Seq(Marked)
  /\ memStorage \in [Key -> Val \cup {Absent, NotIn}]

(* Whatever was set, deleted and reverted, Get hands out exactly what Seek *)
(* and Iterate find in the tree: never a stale or a deleted object.        *)
CacheCoherent == \A k \in Key : getItem(k) = seekItem(k)

(* A snapshot taken on the deliver side can be reverted to exactly: undoing *)
(* the revisions made since gives the map it was taken of.                 *)
SnapshotsRestorable ==
  \A i \in DOMAIN marks :
    /\ marks[i].snap <= Len(revs)
    /\ marks[i].kv = [k \in Key |-> Undone(revs, marks[i].snap, tree, k)]

(* "MemLedger cannot be committed, everything else is like MutableLedger." *)
(* (ledger/v1/mem_ledger.go): a snapshot of the check side can be reverted *)
(* to as well, but for one thing: a key that was only in the saved tree    *)
(* when it was deleted stays deleted.                                      *)
MemSnapshotsRestorable ==
  \A i \in DOMAIN memMarks : \A k \in Key :
    LET v    == Undone(memRevs, memMarks[i].snap, memStorage, k)
        left == IF v # NotIn THEN v ELSE immuTree[k]
    IN  left = memMarks[i].kv[k] \/ (left = Absent /\ memMarks[i].kv[k] = immuTree[k])

(* Snapshots keep their promise on both sides, whose parts have the shapes *)
(* of their Go values.                                                     *)
BothSidesRestorable == TypeOK /\ SnapshotsRestorable /\ MemSnapshotsRestorable

(* The check side starts every version from what the deliver side holds    *)
(* when it commits: what CheckTx changed before is forgotten, and from     *)
(* then on Get, Seek and Iterate of the check side agree.                  *)
CheckSideFollows ==
  [][ Version' # Version =>
        \A k \in Key : memGet(k)' = seekItem(k) /\ memSeek(k)' = seekItem(k) ]_vars

DeliverSide == INSTANCE SnapshotStore WITH
  kv <- tree, saved <- [i \in DOMAIN marks |-> marks[i].kv]

(* MutableLedger implements the snapshot store. *)
MutableImplementsStore == DeliverSide!Spec

=============================================================================
