---------------------------- MODULE LedgerProofs ----------------------------
(***************************************************************************)
(* A ledger, for any keys and values and any number of changes and         *)
(* snapshots.  On the deliver side the cache agrees with the tree, every   *)
(* snapshot that can still be reverted to is restored exactly, and the     *)
(* whole implements SnapshotStore.  On the check side: what a revert       *)
(* brings back, and that every version starts from what was committed.     *)
(***************************************************************************)
EXTENDS Ledger, TLAPS, WellFoundedInduction

(* The revisions of key k made after snapshot snap. *)
Later(list, snap, k) == {i \in snap + 1 .. Len(list) : list[i].key = k}

(* i is the first of the numbers is. *)
First(i, is) == i \in is /\ \A j \in is : i <= j

(* Later snapshots have larger numbers. *)
Ordered == \A i, j \in DOMAIN marks : i <= j => marks[i].snap <= marks[j].snap

(* The types of the deliver side's variables. *)
DeliverType ==
  /\ tree \in Map /\ versions \in Seq(Map)
  /\ cachedObjs \in [Key -> Val \cup {NotIn}]
  /\ revs \in Seq(Revision) /\ marks \in Seq(Marked)

IInv == DeliverType /\ CacheCoherent /\ SnapshotsRestorable /\ Ordered

-----------------------------------------------------------------------------
(* A set of natural numbers that is not empty has a first element. *)
LEMMA FirstExists ==
  ASSUME NEW T, T \subseteq Nat, T # {}
  PROVE  \E i : First(i, T)
<1>1. \E x \in T : \A y \in T : ~(<<y, x>> \in OpToRel(<, Nat))
  BY WFMin, NatLessThanWellFounded, Zenon
<1>2. PICK x \in T : \A y \in T : ~(<<y, x>> \in OpToRel(<, Nat))
  BY <1>1, Zenon
<1>3. \A y \in T : x <= y
  <2> SUFFICES ASSUME NEW y \in T PROVE x <= y
    OBVIOUS
  <2>1. x \in Nat /\ y \in Nat
    OBVIOUS
  <2>2. ~(y < x)
    BY <1>2, <2>1, Zenon DEF OpToRel
  <2> QED BY <2>1, <2>2
<1> QED BY <1>3 DEF First

(* Undone reads the first later revision of the key. *)
LEMMA UndoneFirst ==
  ASSUME NEW list \in Seq(Revision), NEW snap \in Nat, NEW m, NEW k,
         NEW i, First(i, Later(list, snap, k))
  PROVE  Undone(list, snap, m, k) = list[i].val
<1> DEFINE is == {x \in snap + 1 .. Len(list) : list[x].key = k}
           c  == CHOOSE x \in is : \A j \in is : x <= j
<1>1. i \in is /\ \A j \in is : i <= j
  BY DEF First, Later
<1>2. c \in is /\ \A j \in is : c <= j
  BY <1>1
<1>3. is \subseteq Int
  OBVIOUS
<1>4. c = i
  BY <1>1, <1>2, <1>3
<1>5. Undone(list, snap, m, k) = list[c].val
  BY <1>1 DEF Undone
<1> QED BY <1>4, <1>5, Zenon

(* Without a later revision the key is as it is. *)
LEMMA UndoneNone ==
  ASSUME NEW list, NEW snap, NEW m, NEW k, Later(list, snap, k) = {}
  PROVE  Undone(list, snap, m, k) = m[k]
BY DEF Undone, Later

(* Recording the old value of a key that is changed keeps what undoing     *)
(* gives.                                                                  *)
LEMMA UndoneAppend ==
  ASSUME NEW list \in Seq(Revision), NEW snap \in Nat, snap <= Len(list),
         NEW m \in Map, NEW a \in Key, NEW v \in Val \cup {Absent}, NEW k \in Key
  PROVE  Undone(Append(list, Rev(a, m[a])), snap, [m EXCEPT ![a] = v], k)
           = Undone(list, snap, m, k)
<1> DEFINE new == Append(list, Rev(a, m[a]))
           n == Len(list) + 1
<1>0. Rev(a, m[a]) \in Revision
  BY DEF Rev, Revision, Map
<1>1. new \in Seq(Revision) /\ Len(new) = n /\ \A i \in 1 .. Len(list) : new[i] = list[i]
  BY <1>0
<1>2. new[n] = Rev(a, m[a])
  OBVIOUS
<1>3. Len(list) \in Nat
  OBVIOUS
<1> HIDE DEF new
<1>4. Later(list, snap, k) \subseteq Nat
  BY <1>3 DEF Later
<1>5. CASE Later(list, snap, k) # {}
  <2>1. PICK i : First(i, Later(list, snap, k))
    BY <1>4, <1>5, FirstExists
  <2>2. i \in 1 .. Len(list) /\ i \in Later(new, snap, k)
    BY <1>1, <1>3, <2>1 DEF First, Later
  <2>3. ASSUME NEW j \in Later(new, snap, k) PROVE i <= j
    <3>1. j \in snap + 1 .. n /\ new[j].key = k
      BY <1>1 DEF Later
    <3>2. CASE j = n
      BY <1>3, <2>2, <3>2
    <3>3. CASE j # n
      <4>1. j \in snap + 1 .. Len(list) /\ j \in 1 .. Len(list)
        BY <1>3, <3>1, <3>3
      <4>2. j \in Later(list, snap, k)
        BY <1>1, <3>1, <4>1 DEF Later
      <4> QED BY <2>1, <4>2 DEF First
    <3> QED BY <3>2, <3>3
  <2>4. First(i, Later(new, snap, k))
    BY <2>2, <2>3 DEF First
  <2>5. Undone(new, snap, [m EXCEPT ![a] = v], k) = new[i].val
    BY <1>1, <2>4, UndoneFirst
  <2>6. Undone(list, snap, m, k) = list[i].val
    BY <2>1, UndoneFirst
  <2> QED BY <1>1, <2>2, <2>5, <2>6 DEF new
<1>6. CASE Later(list, snap, k) = {} /\ k = a
  <2>1. n \in Later(new, snap, k)
    BY <1>1, <1>2, <1>3, <1>6 DEF Later, Rev
  <2>2. ASSUME NEW j \in Later(new, snap, k) PROVE n <= j
    <3>1. j \in snap + 1 .. n /\ new[j].key = k
      BY <1>1 DEF Later
    <3>2. CASE j # n
      <4>1. j \in snap + 1 .. Len(list) /\ j \in 1 .. Len(list)
        BY <1>3, <3>1, <3>2
      <4>2. j \in Later(list, snap, k)
        BY <1>1, <3>1, <4>1 DEF Later
      <4> QED BY <1>6, <4>2
    <3> QED BY <1>3, <3>2
  <2>3. First(n, Later(new, snap, k))
    BY <2>1, <2>2 DEF First
  <2>4. Undone(new, snap, [m EXCEPT ![a] = v], k) = new[n].val
    BY <1>1, <2>3, UndoneFirst
  <2>5. Undone(list, snap, m, k) = m[k]
    BY <1>6, UndoneNone
  <2> QED BY <1>2, <1>6, <2>4, <2>5 DEF new, Rev
<1>7. CASE Later(list, snap, k) = {} /\ k # a
  <2>1. Later(new, snap, k) = {}
    <3> SUFFICES ASSUME NEW j \in Later(new, snap, k) PROVE FALSE
      OBVIOUS
    <3>1. j \in snap + 1 .. n /\ new[j].key = k
      BY <1>1 DEF Later
    <3>2. j # n
      BY <1>2, <1>7, <3>1 DEF Rev
    <3>3. j \in snap + 1 .. Len(list) /\ j \in 1 .. Len(list)
      BY <1>3, <3>1, <3>2
    <3>4. j \in Later(list, snap, k)
      BY <1>1, <3>1, <3>3 DEF Later
    <3> QED BY <1>7, <3>4
  <2>2. Undone(new, snap, [m EXCEPT ![a] = v], k) = [m EXCEPT ![a] = v][k]
    BY <2>1, Zenon DEF Undone, Later
  <2>3. Undone(list, snap, m, k) = m[k]
    BY <1>7, UndoneNone
  <2> QED BY <1>7, <2>2, <2>3 DEF new, Map
<1> QED BY <1>5, <1>6, <1>7

(* Undoing in two stages is undoing at once. *)
LEMMA UndoneCut ==
  ASSUME NEW list \in Seq(Revision), NEW cut \in Nat, NEW snap \in Nat,
         snap <= cut, cut <= Len(list), NEW m \in Map, NEW k \in Key,
         NEW t \in Map, t = [x \in Key |-> Undone(list, cut, m, x)]
  PROVE  Undone(SubSeq(list, 1, cut), snap, t, k) = Undone(list, snap, m, k)
<1> DEFINE new == SubSeq(list, 1, cut)
<1>1. new \in Seq(Revision) /\ Len(new) = cut /\ \A i \in 1 .. cut : new[i] = list[i]
  OBVIOUS
<1>2. Len(list) \in Nat
  OBVIOUS
<1> HIDE DEF new
<1>3. CASE Later(new, snap, k) # {}
  <2>1. Later(new, snap, k) \subseteq Nat
    BY <1>1 DEF Later
  <2>2. PICK i : First(i, Later(new, snap, k))
    BY <1>3, <2>1, FirstExists
  <2>3. i \in snap + 1 .. cut /\ i \in 1 .. cut /\ new[i].key = k
    BY <1>1, <2>2 DEF First, Later
  <2>4. i \in Later(list, snap, k)
    BY <1>1, <1>2, <2>3 DEF Later
  <2>5. ASSUME NEW j \in Later(list, snap, k) PROVE i <= j
    <3>1. j \in snap + 1 .. Len(list) /\ list[j].key = k
      BY DEF Later
    <3>2. CASE j <= cut
      <4>1. j \in snap + 1 .. cut /\ j \in 1 .. cut
        BY <1>2, <3>1, <3>2
      <4>2. j \in Later(new, snap, k)
        BY <1>1, <3>1, <4>1 DEF Later
      <4> QED BY <2>2, <4>2 DEF First
    <3>3. CASE ~(j <= cut)
      BY <1>2, <2>3, <3>1, <3>3
    <3> QED BY <3>2, <3>3
  <2>6. First(i, Later(list, snap, k))
    BY <2>4, <2>5 DEF First
  <2>7. Undone(new, snap, t, k) = new[i].val /\ Undone(list, snap, m, k) = list[i].val
    BY <1>1, <2>2, <2>6, UndoneFirst
  <2> QED BY <1>1, <2>3, <2>7 DEF new
<1>4. CASE Later(new, snap, k) = {}
  <2>1. Later(list, snap, k) = Later(list, cut, k)
    <3>1. ASSUME NEW j \in Later(list, snap, k) PROVE j \in Later(list, cut, k)
      <4>1. j \in snap + 1 .. Len(list) /\ list[j].key = k
        BY <3>1 DEF Later
      <4>2. CASE j <= cut
        <5>1. j \in snap + 1 .. cut /\ j \in 1 .. cut
          BY <1>2, <4>1, <4>2
        <5>2. j \in Later(new, snap, k)
          BY <1>1, <4>1, <5>1 DEF Later
        <5> QED BY <1>4, <5>2
      <4>3. CASE ~(j <= cut)
        BY <1>2, <4>1, <4>3 DEF Later
      <4> QED BY <4>2, <4>3
    <3>2. ASSUME NEW j \in Later(list, cut, k) PROVE j \in Later(list, snap, k)
      BY <1>2, <3>2 DEF Later
    <3> QED BY <3>1, <3>2, Zenon
  <2>2. Undone(list, snap, m, k) = Undone(list, cut, m, k)
    <3>1. CASE Later(list, snap, k) = {}
      <4>1. Undone(list, snap, m, k) = m[k]
        BY <3>1, UndoneNone
      <4>2. Undone(list, cut, m, k) = m[k]
        BY <2>1, <3>1, UndoneNone, Zenon
      <4> QED BY <4>1, <4>2
    <3>2. CASE Later(list, snap, k) # {}
      <4>1. Later(list, snap, k) \subseteq Nat
        BY <1>2 DEF Later
      <4>2. PICK i : First(i, Later(list, snap, k))
        BY <3>2, <4>1, FirstExists
      <4> QED BY <2>1, <4>2, UndoneFirst
    <3> QED BY <3>1, <3>2
  <2>3. Undone(new, snap, t, k) = t[k]
    BY <1>4, UndoneNone
  <2> QED BY <2>2, <2>3 DEF new
<1> QED BY <1>3, <1>4

(* What Undone returns is a value or nothing. *)
LEMMA UndoneType ==
  ASSUME NEW list \in Seq(Revision), NEW snap \in Nat, NEW m \in Map, NEW k \in Key
  PROVE  Undone(list, snap, m, k) \in Val \cup {Absent}
<1>1. CASE Later(list, snap, k) = {}
  BY <1>1, UndoneNone DEF Map
<1>2. CASE Later(list, snap, k) # {}
  <2>1. Len(list) \in Nat
    OBVIOUS
  <2>2. Later(list, snap, k) \subseteq Nat
    BY <2>1 DEF Later
  <2>3. PICK i : First(i, Later(list, snap, k))
    BY <1>2, <2>2, FirstExists
  <2>4. i \in 1 .. Len(list)
    BY <2>1, <2>3 DEF First, Later
  <2>5. list[i].val \in Val \cup {Absent}
    <3>1. list[i] \in Revision
      BY <2>4
    <3> QED BY <3>1 DEF Revision
  <2> QED BY <2>3, <2>5, UndoneFirst
<1> QED BY <1>1, <1>2

-----------------------------------------------------------------------------
(* The initial state of an empty database. *)
LEMMA InitIInv == Init => IInv
BY LedgerAssumption DEF Init, IInv, DeliverType, CacheCoherent, getItem, seekItem, SnapshotsRestorable, Ordered,
   Map, Empty, NoEntries

(* A change of one key that records its old value keeps the snapshots.     *)
LEMMA ChangeKeeps ==
  ASSUME DeliverType, SnapshotsRestorable, NEW a \in Key, NEW v \in Val \cup {Absent},
         tree' = [tree EXCEPT ![a] = v], marks' = marks,
         revs' = IF tree[a] # v THEN Append(revs, Rev(a, tree[a])) ELSE revs
  PROVE  /\ SnapshotsRestorable'
         /\ tree' \in Map /\ revs' \in Seq(Revision)
<1>1. tree \in Map /\ revs \in Seq(Revision) /\ marks \in Seq(Marked)
  BY DEF DeliverType
<1>2. tree' \in Map
  BY <1>1 DEF Map
<1>3. CASE tree[a] = v
  <2>1. tree' = tree
    BY <1>1, <1>3 DEF Map
  <2>2. revs' = revs
    BY <1>3
  <2>3. SnapshotsRestorable'
    BY <2>1, <2>2, Zenon DEF SnapshotsRestorable
  <2> QED BY <1>1, <2>1, <2>2, <2>3
<1>4. CASE tree[a] # v
  <2>1. revs' = Append(revs, Rev(a, tree[a]))
    BY <1>4
  <2>2. Rev(a, tree[a]) \in Revision
    BY <1>1 DEF Rev, Revision, Map
  <2>3. revs' \in Seq(Revision) /\ Len(revs') = Len(revs) + 1 /\ Len(revs) \in Nat
    BY <1>1, <2>1, <2>2
  <2>4. ASSUME NEW i \in DOMAIN marks
        PROVE  /\ marks[i].snap <= Len(revs')
               /\ marks[i].kv = [k \in Key |-> Undone(revs', marks[i].snap, tree', k)]
    <3>0. marks[i] \in Marked
      BY <1>1
    <3>1. marks[i].snap \in Nat
      BY <3>0 DEF Marked
    <3>2. marks[i].snap <= Len(revs)
      BY Zenon DEF SnapshotsRestorable
    <3>3. \A k \in Key : Undone(revs', marks[i].snap, tree', k)
                           = Undone(revs, marks[i].snap, tree, k)
      <4> SUFFICES ASSUME NEW k \in Key
                   PROVE  Undone(Append(revs, Rev(a, tree[a])), marks[i].snap,
                                 [tree EXCEPT ![a] = v], k)
                            = Undone(revs, marks[i].snap, tree, k)
        BY <2>1, Zenon
      <4> QED BY <1>1, <3>1, <3>2, UndoneAppend, Zenon
    <3>4. marks[i].kv = [k \in Key |-> Undone(revs, marks[i].snap, tree, k)]
      BY DEF SnapshotsRestorable
    <3>5. marks[i].snap <= Len(revs')
      BY <2>3, <3>1, <3>2
    <3>6. [k \in Key |-> Undone(revs, marks[i].snap, tree, k)]
            = [k \in Key |-> Undone(revs', marks[i].snap, tree', k)]
      BY <3>3, Zenon
    <3> QED BY <3>4, <3>5, <3>6, Zenon
  <2>5. SnapshotsRestorable'
    BY <2>4, Zenon DEF SnapshotsRestorable
  <2> QED BY <1>2, <2>3, <2>5
<1> QED BY <1>3, <1>4

(* Get keeps the invariant: a decoded object is what the tree holds. *)
LEMMA GetKeeps == ASSUME IInv, NEW k \in Key, Get(k) PROVE IInv'
<1>1. tree[k] \in Val
  BY DEF Get, IInv, DeliverType, Map
<1>2. DeliverType'
  BY <1>1 DEF Get, IInv, DeliverType, check
<1>3. CacheCoherent'
  BY DEF Get, IInv, DeliverType, CacheCoherent, getItem, seekItem
<1>4. SnapshotsRestorable' /\ Ordered'
  BY DEF Get, IInv, SnapshotsRestorable, Ordered
<1> QED BY <1>2, <1>3, <1>4 DEF IInv

(* Set keeps it: the tree and the cache get the same value. *)
LEMMA SetKeeps == ASSUME IInv, NEW k \in Key, NEW v \in Val, Set(k, v) PROVE IInv'
<1>1. /\ tree' = [tree EXCEPT ![k] = v] /\ marks' = marks
      /\ revs' = IF tree[k] # v THEN Append(revs, Rev(k, tree[k])) ELSE revs
      /\ cachedObjs' = [cachedObjs EXCEPT ![k] = v]
      /\ UNCHANGED <<versions, memStorage, memRevs, memMarks>>
  BY DEF Set, check
<1>2. SnapshotsRestorable' /\ tree' \in Map /\ revs' \in Seq(Revision)
  BY <1>1, ChangeKeeps, Zenon DEF IInv
<1>3. DeliverType'
  BY <1>1, <1>2 DEF IInv, DeliverType
<1>4. CacheCoherent'
  BY <1>1 DEF IInv, DeliverType, CacheCoherent, getItem, seekItem, Map
<1>5. Ordered'
  BY <1>1 DEF IInv, Ordered
<1> QED BY <1>2, <1>3, <1>4, <1>5 DEF IInv

(* Del keeps it: the object leaves the cache with the key. *)
LEMMA DelKeeps == ASSUME IInv, NEW k \in Key, Del(k) PROVE IInv'
<1>1. /\ tree' = [tree EXCEPT ![k] = Absent] /\ marks' = marks
      /\ revs' = IF tree[k] # Absent THEN Append(revs, Rev(k, tree[k])) ELSE revs
      /\ cachedObjs' = [cachedObjs EXCEPT ![k] = NotIn]
      /\ UNCHANGED <<versions, memStorage, memRevs, memMarks>>
  BY DEF Del, check
<1>2. SnapshotsRestorable' /\ tree' \in Map /\ revs' \in Seq(Revision)
  BY <1>1, ChangeKeeps, Zenon DEF IInv
<1>3. DeliverType'
  BY <1>1, <1>2 DEF IInv, DeliverType
<1>4. CacheCoherent'
  BY <1>1 DEF IInv, DeliverType, CacheCoherent, getItem, seekItem, Map
<1>5. Ordered'
  BY <1>1 DEF IInv, Ordered
<1> QED BY <1>2, <1>3, <1>4, <1>5 DEF IInv

(* A new snapshot restores the present map. *)
LEMMA SnapshotKeeps == ASSUME IInv, Snapshot PROVE IInv'
<1> DEFINE n == Len(marks) + 1
           new == [snap |-> Len(revs), kv |-> tree]
<1>0. /\ marks' = Append(marks, new)
      /\ UNCHANGED <<tree, versions, cachedObjs, revs, memStorage, memRevs, memMarks>>
  BY DEF Snapshot, check
<1>1. tree \in Map /\ revs \in Seq(Revision) /\ marks \in Seq(Marked)
  BY DEF IInv, DeliverType
<1>2. new \in Marked /\ Len(revs) \in Nat /\ Len(marks) \in Nat
  BY <1>1 DEF Marked
<1> HIDE DEF new
<1>3. /\ marks' \in Seq(Marked) /\ DOMAIN marks' = 1 .. n /\ marks'[n] = new
      /\ \A i \in 1 .. Len(marks) : marks'[i] = marks[i]
      /\ DOMAIN marks = 1 .. Len(marks)
  BY <1>0, <1>1, <1>2
<1>4. DeliverType'
  BY <1>0, <1>3 DEF IInv, DeliverType
<1>5. CacheCoherent'
  BY <1>0 DEF IInv, CacheCoherent, getItem, seekItem
<1>6. ASSUME NEW i \in DOMAIN marks'
      PROVE  /\ marks'[i].snap <= Len(revs)
             /\ marks'[i].kv = [k \in Key |-> Undone(revs, marks'[i].snap, tree, k)]
  <2>1. CASE i = n
    <3>1. marks'[i].snap = Len(revs) /\ marks'[i].kv = tree
      BY <1>3, <2>1 DEF new
    <3>2. \A k \in Key : Undone(revs, Len(revs), tree, k) = tree[k]
      <4> SUFFICES ASSUME NEW k \in Key PROVE Undone(revs, Len(revs), tree, k) = tree[k]
        OBVIOUS
      <4>1. Later(revs, Len(revs), k) = {}
        BY <1>2 DEF Later
      <4> QED BY <4>1, UndoneNone
    <3>3. tree = [k \in Key |-> tree[k]]
      BY <1>1 DEF Map
    <3>4. tree = [k \in Key |-> Undone(revs, Len(revs), tree, k)]
      BY <3>2, <3>3, Zenon
    <3> QED BY <1>2, <3>1, <3>4
  <2>2. CASE i # n
    <3>1. i \in DOMAIN marks /\ marks'[i] = marks[i]
      BY <1>2, <1>3, <2>2
    <3> QED BY <3>1 DEF IInv, SnapshotsRestorable
  <2> QED BY <2>1, <2>2
<1>7. SnapshotsRestorable'
  BY <1>0, <1>6 DEF SnapshotsRestorable
<1>8. Ordered'
  <2> SUFFICES ASSUME NEW i \in DOMAIN marks', NEW j \in DOMAIN marks', i <= j
               PROVE  marks'[i].snap <= marks'[j].snap
    BY DEF Ordered
  <2>1. CASE j = n
    <3>1. marks'[j].snap = Len(revs)
      BY <1>3, <2>1 DEF new
    <3> QED BY <1>6, <3>1, Zenon
  <2>2. CASE j # n
    <3>1. /\ i \in DOMAIN marks /\ j \in DOMAIN marks
          /\ marks'[i] = marks[i] /\ marks'[j] = marks[j]
      BY <1>2, <1>3, <2>2
    <3> QED BY <3>1 DEF IInv, Ordered
  <2> QED BY <2>1, <2>2
<1> QED BY <1>4, <1>5, <1>7, <1>8 DEF IInv

(* A revert restores its snapshot, and the snapshots before it stay        *)
(* restorable.                                                             *)
LEMMA RevertKeeps ==
  ASSUME IInv, NEW n \in DOMAIN marks, RevertToSnapshot(n)
  PROVE  IInv'
<1> DEFINE snap == marks[n].snap
           t == [k \in Key |-> Undone(revs, snap, tree, k)]
<1>0. /\ tree' = t
      /\ cachedObjs' = [k \in Key |->
                          IF k \notin Touched(revs, snap) THEN cachedObjs[k]
                          ELSE IF t[k] = Absent THEN NotIn ELSE t[k]]
      /\ revs' = SubSeq(revs, 1, snap) /\ marks' = SubSeq(marks, 1, n)
      /\ UNCHANGED <<versions, memStorage, memRevs, memMarks>>
  BY DEF RevertToSnapshot, check
<1>1. /\ tree \in Map /\ revs \in Seq(Revision) /\ marks \in Seq(Marked)
      /\ cachedObjs \in [Key -> Val \cup {NotIn}]
  BY DEF IInv, DeliverType
<1>2. marks[n] \in Marked /\ snap \in Nat /\ Len(revs) \in Nat
  <2>1. marks[n] \in Marked /\ Len(revs) \in Nat
    BY <1>1
  <2> QED BY <2>1 DEF Marked
<1>3. snap <= Len(revs)
  BY Zenon DEF IInv, SnapshotsRestorable
<1>4. \A k \in Key : Undone(revs, snap, tree, k) \in Val \cup {Absent}
  BY <1>1, <1>2, UndoneType
<1> HIDE DEF snap
<1>5. t \in Map /\ \A k \in Key : t[k] = Undone(revs, snap, tree, k)
  BY <1>4 DEF Map
<1> HIDE DEF t
<1>6. /\ revs' \in Seq(Revision) /\ Len(revs') = snap
      /\ marks' \in Seq(Marked) /\ DOMAIN marks' = 1 .. n
      /\ \A i \in 1 .. n : marks'[i] = marks[i] /\ i \in DOMAIN marks
  BY <1>0, <1>1, <1>2, <1>3
<1>7. cachedObjs' \in [Key -> Val \cup {NotIn}]
  BY <1>0, <1>1, <1>5 DEF Map
<1>8. DeliverType'
  BY <1>0, <1>5, <1>6, <1>7 DEF IInv, DeliverType
<1>9. CacheCoherent'
  <2> SUFFICES ASSUME NEW k \in Key, cachedObjs'[k] # NotIn
               PROVE  cachedObjs'[k] = t[k]
    BY <1>0 DEF CacheCoherent, getItem, seekItem
  <2>1. CASE k \in Touched(revs, snap)
    BY <1>0, <2>1
  <2>2. CASE k \notin Touched(revs, snap)
    <3>1. Later(revs, snap, k) = {}
      BY <2>2 DEF Later, Touched
    <3>2. t[k] = tree[k]
      BY <1>5, <3>1, UndoneNone
    <3>3. cachedObjs'[k] = cachedObjs[k]
      BY <1>0, <2>2
    <3> QED BY <3>2, <3>3 DEF IInv, CacheCoherent, getItem, seekItem
  <2> QED BY <2>1, <2>2
<1>10. ASSUME NEW i \in DOMAIN marks'
       PROVE  /\ marks'[i].snap <= Len(revs')
              /\ marks'[i].kv = [k \in Key |-> Undone(revs', marks'[i].snap, t, k)]
  <2>1. i \in 1 .. n /\ marks'[i] = marks[i] /\ i \in DOMAIN marks
    BY <1>6
  <2>2. marks[i] \in Marked
    BY <1>1, <2>1
  <2>3. marks[i].snap \in Nat
    BY <2>2 DEF Marked
  <2>4. marks[i].snap <= snap
    BY <2>1 DEF IInv, Ordered, snap
  <2>5. \A k \in Key : Undone(revs', marks[i].snap, t, k)
                        = Undone(revs, marks[i].snap, tree, k)
    <3> SUFFICES ASSUME NEW k \in Key
                 PROVE  Undone(SubSeq(revs, 1, snap), marks[i].snap, t, k)
                          = Undone(revs, marks[i].snap, tree, k)
      BY <1>0
    <3> QED BY <1>1, <1>2, <1>3, <1>5, <2>3, <2>4, UndoneCut DEF t
  <2>6. marks[i].kv = [k \in Key |-> Undone(revs, marks[i].snap, tree, k)]
    BY <2>1 DEF IInv, SnapshotsRestorable
  <2>7. marks[i].kv = [k \in Key |-> Undone(revs', marks[i].snap, t, k)]
    BY <2>5, <2>6, Zenon
  <2> QED BY <1>6, <2>1, <2>4, <2>7
<1>11. SnapshotsRestorable'
  BY <1>0, <1>10, Zenon DEF SnapshotsRestorable
<1>12. Ordered'
  BY <1>6 DEF IInv, Ordered
<1> QED BY <1>8, <1>9, <1>11, <1>12 DEF IInv

(* A commit empties the cache and forgets the snapshots. *)
LEMMA CommitKeeps == ASSUME IInv, Commit PROVE IInv'
<1>1. DeliverType'
  BY LedgerAssumption DEF Commit, saveVersion, IInv, DeliverType, NoEntries
<1>2. CacheCoherent' /\ SnapshotsRestorable' /\ Ordered'
  BY DEF Commit, saveVersion, CacheCoherent, getItem, seekItem, NoEntries, SnapshotsRestorable, Ordered
<1> QED BY <1>1, <1>2 DEF IInv

(* A restart begins from the last saved version. *)
LEMMA RestartKeeps == ASSUME IInv, Restart PROVE IInv'
<1>1. immuTree \in Map
  BY DEF IInv, DeliverType, immuTree, Empty, Map, Version
<1>2. DeliverType'
  BY <1>1, LedgerAssumption DEF Restart, IInv, DeliverType, NoEntries
<1>3. CacheCoherent' /\ SnapshotsRestorable' /\ Ordered'
  BY DEF Restart, CacheCoherent, getItem, seekItem, NoEntries, SnapshotsRestorable, Ordered
<1> QED BY <1>2, <1>3 DEF IInv

(* The actions of the check side leave the deliver side as it is. *)
LEMMA CheckSideKeeps == ASSUME IInv, UNCHANGED deliver PROVE IInv'
  BY DEF deliver, IInv, DeliverType, CacheCoherent, getItem, seekItem, SnapshotsRestorable, Ordered

(* Every step keeps the invariant. *)
LEMMA NextKeeps == ASSUME IInv, [Next]_vars PROVE IInv'
<1>1. CASE \E k \in Key : Get(k)
  BY <1>1, GetKeeps
<1>2. CASE \E k \in Key : Del(k)
  BY <1>2, DelKeeps
<1>3. CASE \E k \in Key : \E v \in Val : Set(k, v)
  BY <1>3, SetKeeps
<1>4. CASE \/ \E k \in Key : MemDel(k)
           \/ \E k \in Key : \E v \in Val : MemSet(k, v)
           \/ MemSnapshot
           \/ \E i \in DOMAIN memMarks : MemRevertToSnapshot(i)
  <2>1. UNCHANGED deliver
    BY <1>4 DEF MemDel, MemSet, MemSnapshot, MemRevertToSnapshot
  <2> QED BY <2>1, CheckSideKeeps
<1>5. CASE Snapshot
  BY <1>5, SnapshotKeeps
<1>6. CASE \E i \in DOMAIN marks : RevertToSnapshot(i)
  BY <1>6, RevertKeeps
<1>7. CASE Commit
  BY <1>7, CommitKeeps
<1>8. CASE Restart
  BY <1>8, RestartKeeps
<1>9. CASE UNCHANGED vars
  BY <1>9, CheckSideKeeps DEF vars
<1> QED BY <1>1, <1>2, <1>3, <1>4, <1>5, <1>6, <1>7, <1>8, <1>9, Zenon DEF Next

(* The inductive invariant holds in every state of the ledger. *)
THEOREM IInvHolds == Spec => []IInv
  BY InitIInv, NextKeeps, PTL DEF Spec

(* For every set of keys and values, and any number of versions and        *)
(* snapshots: what a Get of the deliver side takes from cachedObjs is what *)
(* the tree holds.                                                         *)
THEOREM CacheIsCoherent == Spec => []CacheCoherent
<1>1. IInv => CacheCoherent
  BY DEF IInv
<1> QED BY <1>1, IInvHolds, PTL

(* Reverting to any snapshot of the block that is still valid restores the *)
(* map the deliver side had when the snapshot was taken.                   *)
THEOREM SnapshotsRestore == Spec => []SnapshotsRestorable
<1>1. IInv => SnapshotsRestorable
  BY DEF IInv
<1> QED BY <1>1, IInvHolds, PTL

-----------------------------------------------------------------------------
(* The maps of the snapshots, as the abstract store holds them. *)
Kvs(ms) == [i \in DOMAIN ms |-> ms[i].kv]

(* The store's maps are a sequence, as long as the list of snapshots. *)
LEMMA KvsSeq ==
  ASSUME NEW ms \in Seq(Marked)
  PROVE  /\ Kvs(ms) \in Seq(Map) /\ Len(Kvs(ms)) = Len(ms)
         /\ DOMAIN Kvs(ms) = 1 .. Len(ms)
         /\ \A i \in 1 .. Len(ms) : Kvs(ms)[i] = ms[i].kv
<1>1. Len(ms) \in Nat /\ DOMAIN ms = 1 .. Len(ms)
  OBVIOUS
<1>2. \A i \in 1 .. Len(ms) : ms[i].kv \in Map
  <2> SUFFICES ASSUME NEW i \in 1 .. Len(ms) PROVE ms[i].kv \in Map
    OBVIOUS
  <2>1. ms[i] \in Marked
    OBVIOUS
  <2> QED BY <2>1 DEF Marked
<1> QED BY <1>1, <1>2 DEF Kvs

(* A snapshot of the ledger is a mark of the store. *)
LEMMA KvsAppend ==
  ASSUME NEW ms \in Seq(Marked), NEW m \in Marked
  PROVE  Kvs(Append(ms, m)) = Append(Kvs(ms), m.kv)
<1> DEFINE new == Append(ms, m)
<1>1. /\ new \in Seq(Marked) /\ Len(new) = Len(ms) + 1 /\ Len(ms) \in Nat
      /\ new[Len(ms) + 1] = m /\ \A i \in 1 .. Len(ms) : new[i] = ms[i]
  OBVIOUS
<1>2. m.kv \in Map
  BY DEF Marked
<1> HIDE DEF new
<1>3. /\ Kvs(new) \in Seq(Map) /\ Len(Kvs(new)) = Len(new)
      /\ \A i \in 1 .. Len(new) : Kvs(new)[i] = new[i].kv
  BY <1>1, KvsSeq
<1>4. /\ Kvs(ms) \in Seq(Map) /\ Len(Kvs(ms)) = Len(ms)
      /\ \A i \in 1 .. Len(ms) : Kvs(ms)[i] = ms[i].kv
  BY KvsSeq
<1>5. /\ Append(Kvs(ms), m.kv) \in Seq(Map) /\ Len(Append(Kvs(ms), m.kv)) = Len(new)
      /\ \A i \in 1 .. Len(new) : Append(Kvs(ms), m.kv)[i] = new[i].kv
  BY <1>1, <1>2, <1>4
<1>6. Kvs(new) = Append(Kvs(ms), m.kv)
  BY <1>3, <1>5
<1> QED BY <1>6 DEF new

(* Cutting the list of snapshots cuts the store's. *)
LEMMA KvsCut ==
  ASSUME NEW ms \in Seq(Marked), NEW n \in 1 .. Len(ms)
  PROVE  Kvs(SubSeq(ms, 1, n)) = SubSeq(Kvs(ms), 1, n)
<1> DEFINE new == SubSeq(ms, 1, n)
<1>1. /\ new \in Seq(Marked) /\ Len(new) = n /\ Len(ms) \in Nat
      /\ \A i \in 1 .. n : new[i] = ms[i]
  OBVIOUS
<1> HIDE DEF new
<1>2. /\ Kvs(new) \in Seq(Map) /\ Len(Kvs(new)) = n
      /\ \A i \in 1 .. n : Kvs(new)[i] = new[i].kv
  BY <1>1, KvsSeq
<1>3. /\ Kvs(ms) \in Seq(Map) /\ Len(Kvs(ms)) = Len(ms)
      /\ \A i \in 1 .. Len(ms) : Kvs(ms)[i] = ms[i].kv
  BY KvsSeq
<1>4. /\ SubSeq(Kvs(ms), 1, n) \in Seq(Map) /\ Len(SubSeq(Kvs(ms), 1, n)) = n
      /\ \A i \in 1 .. n : SubSeq(Kvs(ms), 1, n)[i] = ms[i].kv
  BY <1>1, <1>3
<1>5. Kvs(new) = SubSeq(Kvs(ms), 1, n)
  BY <1>1, <1>2, <1>4
<1> QED BY <1>5 DEF new

(* Every step of the ledger is a step of the store, or none. *)
LEMMA StepRefines ==
  ASSUME IInv, [Next]_vars
  PROVE  [DeliverSide!Next]_<<tree, Kvs(marks)>>
<1>0. /\ tree \in Map /\ revs \in Seq(Revision) /\ marks \in Seq(Marked)
      /\ versions \in Seq(Map)
  BY DEF IInv, DeliverType
<1>1. ASSUME NEW k \in Key, Get(k) PROVE UNCHANGED <<tree, Kvs(marks)>>
  BY <1>1 DEF Get
<1>2. ASSUME NEW k \in Key, Del(k) PROVE DeliverSide!Remove(k)
  BY <1>2 DEF Del, DeliverSide!Remove
<1>3. ASSUME NEW k \in Key, NEW v \in Val, Set(k, v) PROVE DeliverSide!Put(k, v)
  BY <1>3 DEF Set, DeliverSide!Put
<1>4. CASE \/ \E k \in Key : MemDel(k)
           \/ \E k \in Key : \E v \in Val : MemSet(k, v)
           \/ MemSnapshot
           \/ \E i \in DOMAIN memMarks : MemRevertToSnapshot(i)
           \/ UNCHANGED vars
  <2>1. UNCHANGED deliver
    BY <1>4 DEF MemDel, MemSet, MemSnapshot, MemRevertToSnapshot, vars
  <2> QED BY <2>1 DEF deliver
<1>5. ASSUME Snapshot PROVE DeliverSide!Mark
  <2> DEFINE m == [snap |-> Len(revs), kv |-> tree]
  <2>1. marks' = Append(marks, m) /\ tree' = tree
    BY <1>5 DEF Snapshot
  <2>2. m \in Marked /\ m.kv = tree
    BY <1>0 DEF Marked
  <2>3. Kvs(marks') = Append(Kvs(marks), tree)
    BY <1>0, <2>1, <2>2, KvsAppend
  <2> QED BY <2>1, <2>3 DEF DeliverSide!Mark, Kvs
<1>6. ASSUME NEW i \in DOMAIN marks, RevertToSnapshot(i)
      PROVE  i \in DOMAIN Kvs(marks) /\ DeliverSide!Back(i)
  <2>1. /\ tree' = [k \in Key |-> Undone(revs, marks[i].snap, tree, k)]
        /\ marks' = SubSeq(marks, 1, i)
    BY <1>6 DEF RevertToSnapshot
  <2>2. i \in 1 .. Len(marks)
    BY <1>0
  <2>3. tree' = marks[i].kv
    BY <2>1 DEF IInv, SnapshotsRestorable
  <2>4. Kvs(marks)[i] = marks[i].kv /\ i \in DOMAIN Kvs(marks)
    BY <1>0, <2>2, KvsSeq
  <2>5. Kvs(marks') = SubSeq(Kvs(marks), 1, i)
    BY <1>0, <2>1, <2>2, KvsCut
  <2> QED BY <2>3, <2>4, <2>5 DEF DeliverSide!Back, Kvs
<1>7. ASSUME Commit \/ Restart PROVE DeliverSide!Forget
  <2>1. marks' = <<>>
    BY <1>7 DEF Commit, saveVersion, Restart
  <2>2. Kvs(marks') = <<>>
    BY <2>1 DEF Kvs
  <2>3. immuTree \in Map
    BY <1>0 DEF immuTree, Empty, Map, Version
  <2>4. tree' \in Map
    BY <1>0, <1>7, <2>3 DEF Commit, saveVersion, Restart
  <2> QED BY <2>2, <2>4 DEF DeliverSide!Forget, Kvs, Map
<1> QED
  BY <1>1, <1>2, <1>3, <1>4, <1>5, <1>6, <1>7 DEF Next, DeliverSide!Next, Kvs

(* MutableLedger, with its cache and its list of revisions, implements the *)
(* snapshot store for every set of keys and values and any number of       *)
(* changes, snapshots, commits and restarts.                               *)
THEOREM LedgerImplementsStore == Spec => MutableImplementsStore
<1>1. Init => DeliverSide!Init
  BY DEF Init, DeliverSide!Init, Empty
<1>2. IInv /\ [Next]_vars => [DeliverSide!Next]_<<tree, [i \in DOMAIN marks |-> marks[i].kv]>>
  BY StepRefines DEF Kvs
<1> QED BY <1>1, <1>2, IInvHolds, PTL DEF Spec, MutableImplementsStore, DeliverSide!Spec

-----------------------------------------------------------------------------
(* The check side: mem_ledger.go. *)

MemMap == [Key -> Val \cup {Absent, NotIn}]

(* The types of the check side's variables. *)
CheckType ==
  /\ memStorage \in MemMap
  /\ memRevs \in Seq(Revision) /\ memMarks \in Seq(Marked)

(* Later snapshots have larger numbers, and none is beyond the list. *)
MemOrdered ==
  /\ \A i, j \in DOMAIN memMarks : i <= j => memMarks[i].snap <= memMarks[j].snap
  /\ \A i \in DOMAIN memMarks : memMarks[i].snap <= Len(memRevs)

(* What MemGet finds after v was left in memStorage. *)
Found(v, k) == IF v # NotIn THEN v ELSE immuTree[k]

(* A key read as left is as the snapshot's map m had it, or was deleted    *)
(* from the saved tree.                                                    *)
Kept(left, m, k) == left = m[k] \/ (left = Absent /\ m[k] = immuTree[k])

MInv == CheckType /\ MemOrdered /\ MemSnapshotsRestorable

-----------------------------------------------------------------------------
(* The invariant in terms of Found and Kept. *)
LEMMA Restorable ==
  MemSnapshotsRestorable <=>
    \A i \in DOMAIN memMarks : \A k \in Key :
      Kept(Found(Undone(memRevs, memMarks[i].snap, memStorage, k), k), memMarks[i].kv, k)
BY Zenon DEF MemSnapshotsRestorable, Kept, Found

(* A revision at the end of the list counts for its own key only, and only *)
(* where there is no earlier one.                                          *)
LEMMA UndoneWith ==
  ASSUME NEW list \in Seq(Revision), NEW snap \in Nat, snap <= Len(list),
         NEW r \in Revision, NEW n, NEW k
  PROVE  /\ Later(list, snap, k) # {} =>
              Undone(Append(list, r), snap, n, k) = Undone(list, snap, n, k)
         /\ Later(list, snap, k) = {} /\ k = r.key =>
              Undone(Append(list, r), snap, n, k) = r.val
         /\ Later(list, snap, k) = {} /\ k # r.key =>
              Undone(Append(list, r), snap, n, k) = n[k]
<1> DEFINE new == Append(list, r)
           e == Len(list) + 1
<1>1. /\ new \in Seq(Revision) /\ Len(new) = e /\ new[e] = r
      /\ \A i \in 1 .. Len(list) : new[i] = list[i]
  OBVIOUS
<1>2. Len(list) \in Nat
  OBVIOUS
<1> HIDE DEF new
<1>3. ASSUME NEW j, j # e
      PROVE  j \in Later(new, snap, k) <=> j \in Later(list, snap, k)
  <2>1. j \in snap + 1 .. e <=> j \in snap + 1 .. Len(list)
    BY <1>2, <1>3
  <2>2. j \in snap + 1 .. Len(list) => j \in 1 .. Len(list)
    BY <1>2
  <2> QED BY <1>1, <2>1, <2>2 DEF Later
<1>4. e \in Later(new, snap, k) <=> r.key = k
  BY <1>1, <1>2 DEF Later
<1>5. CASE Later(list, snap, k) # {}
  <2>0. Later(list, snap, k) \subseteq Nat
    BY <1>2 DEF Later
  <2>1. PICK i : First(i, Later(list, snap, k))
    BY <1>5, <2>0, FirstExists
  <2>2. i \in 1 .. Len(list) /\ i # e
    BY <1>2, <2>1 DEF First, Later
  <2>3. i \in Later(new, snap, k)
    BY <1>3, <2>1, <2>2 DEF First
  <2>4. ASSUME NEW j \in Later(new, snap, k) PROVE i <= j
    <3>1. CASE j = e
      BY <1>2, <2>2, <3>1
    <3>2. CASE j # e
      BY <1>3, <2>1, <3>2 DEF First
    <3> QED BY <3>1, <3>2
  <2>5. First(i, Later(new, snap, k))
    BY <2>3, <2>4 DEF First
  <2>6. Undone(new, snap, n, k) = new[i].val
    BY <1>1, <2>5, UndoneFirst
  <2>7. Undone(list, snap, n, k) = list[i].val
    BY <2>1, UndoneFirst
  <2> QED BY <1>1, <1>5, <2>2, <2>6, <2>7 DEF new
<1>6. CASE Later(list, snap, k) = {} /\ k = r.key
  <2>1. First(e, Later(new, snap, k))
    BY <1>2, <1>3, <1>4, <1>6 DEF First
  <2>2. Undone(new, snap, n, k) = new[e].val
    BY <1>1, <2>1, UndoneFirst
  <2> QED BY <1>1, <1>6, <2>2 DEF new
<1>7. CASE Later(list, snap, k) = {} /\ k # r.key
  <2>1. Later(new, snap, k) = {}
    BY <1>3, <1>4, <1>7
  <2>2. Undone(new, snap, n, k) = n[k]
    BY <2>1, UndoneNone
  <2> QED BY <1>7, <2>2 DEF new
<1> QED BY <1>5, <1>6, <1>7

(* A later revision of the key hides what the map holds. *)
LEMMA UndoneHides ==
  ASSUME NEW list \in Seq(Revision), NEW snap \in Nat, NEW m, NEW n, NEW k,
         Later(list, snap, k) # {}
  PROVE  Undone(list, snap, m, k) = Undone(list, snap, n, k)
<1>1. Later(list, snap, k) \subseteq Nat
  <2>1. Len(list) \in Nat
    OBVIOUS
  <2> QED BY <2>1 DEF Later
<1>2. PICK i : First(i, Later(list, snap, k))
  BY <1>1, FirstExists
<1>3. Undone(list, snap, m, k) = list[i].val
  BY <1>2, UndoneFirst
<1>4. Undone(list, snap, n, k) = list[i].val
  BY <1>2, UndoneFirst
<1> QED BY <1>3, <1>4

(* What undoing leaves in memStorage has its type. *)
LEMMA UndoneMemType ==
  ASSUME NEW list \in Seq(Revision), NEW snap \in Nat, NEW m \in MemMap, NEW k \in Key
  PROVE  Undone(list, snap, m, k) \in Val \cup {Absent, NotIn}
<1>1. CASE Later(list, snap, k) = {}
  BY <1>1, UndoneNone DEF MemMap
<1>2. CASE Later(list, snap, k) # {}
  <2>1. Undone(list, snap, m, k) = Undone(list, snap, Empty, k)
    BY <1>2, UndoneHides
  <2>2. Empty \in Map
    BY DEF Empty, Map
  <2> QED BY <2>1, <2>2, UndoneType
<1> QED BY <1>1, <1>2

(* Undoing in two stages is undoing at once, on the check side, too. *)
LEMMA UndoneMemCut ==
  ASSUME NEW list \in Seq(Revision), NEW cut \in Nat, NEW snap \in Nat,
         snap <= cut, cut <= Len(list), NEW m, NEW k \in Key
  PROVE  Undone(SubSeq(list, 1, cut), snap, [x \in Key |-> Undone(list, cut, m, x)], k)
           = Undone(list, snap, m, k)
<1> DEFINE new == SubSeq(list, 1, cut)
           t == [x \in Key |-> Undone(list, cut, m, x)]
           et == [x \in Key |-> Undone(list, cut, Empty, x)]
<1>1. new \in Seq(Revision) /\ Len(new) = cut /\ \A i \in 1 .. cut : new[i] = list[i]
  OBVIOUS
<1>2. Len(list) \in Nat
  OBVIOUS
<1>3. Empty \in Map /\ \A x \in Key : Undone(list, cut, Empty, x) \in Val \cup {Absent}
  <2>1. Empty \in Map
    BY DEF Empty, Map
  <2> QED BY <2>1, UndoneType
<1>4. et \in Map
  BY <1>3 DEF Map
<1>5. Undone(new, snap, et, k) = Undone(list, snap, Empty, k)
  BY <1>3, <1>4, UndoneCut
<1> HIDE DEF new
<1>6. ASSUME NEW j \in Later(new, snap, k) PROVE j \in Later(list, snap, k)
  <2>1. j \in snap + 1 .. cut /\ new[j].key = k
    BY <1>1 DEF Later
  <2>2. j \in 1 .. cut /\ j \in snap + 1 .. Len(list)
    BY <1>2, <2>1
  <2> QED BY <1>1, <2>1, <2>2 DEF Later
<1>7. ASSUME NEW j \in Later(list, cut, k) PROVE j \in Later(list, snap, k)
  BY <1>2 DEF Later
<1>8. CASE Later(new, snap, k) # {}
  <2>1. Later(list, snap, k) # {}
    BY <1>6, <1>8
  <2>2. Undone(new, snap, t, k) = Undone(new, snap, et, k)
    BY <1>1, <1>8, UndoneHides
  <2>3. Undone(list, snap, m, k) = Undone(list, snap, Empty, k)
    BY <2>1, UndoneHides
  <2> QED BY <1>5, <2>2, <2>3 DEF new
<1>9. CASE Later(new, snap, k) = {}
  <2>1. Undone(new, snap, t, k) = Undone(list, cut, m, k)
    BY <1>9, UndoneNone
  <2>2. CASE Later(list, cut, k) # {}
    <3>1. Undone(list, cut, m, k) = Undone(list, cut, Empty, k)
      BY <2>2, UndoneHides
    <3>2. Undone(new, snap, et, k) = Undone(list, cut, Empty, k)
      BY <1>9, UndoneNone
    <3>3. Later(list, snap, k) # {}
      BY <1>7, <2>2
    <3>4. Undone(list, snap, m, k) = Undone(list, snap, Empty, k)
      BY <3>3, UndoneHides
    <3> QED BY <1>5, <2>1, <3>1, <3>2, <3>4 DEF new
  <2>3. CASE Later(list, cut, k) = {}
    <3>1. ASSUME NEW j \in Later(list, snap, k) PROVE FALSE
      <4>1. j \in snap + 1 .. Len(list) /\ list[j].key = k
        BY DEF Later
      <4>2. CASE j <= cut
        <5>1. j \in snap + 1 .. cut /\ j \in 1 .. cut
          BY <1>2, <4>1, <4>2
        <5>2. j \in Later(new, snap, k)
          BY <1>1, <4>1, <5>1 DEF Later
        <5> QED BY <1>9, <5>2
      <4>3. CASE ~(j <= cut)
        <5>1. j \in Later(list, cut, k)
          BY <1>2, <4>1, <4>3 DEF Later
        <5> QED BY <2>3, <5>1
      <4> QED BY <4>2, <4>3
    <3>2. Undone(list, snap, m, k) = m[k] /\ Undone(list, cut, m, k) = m[k]
      BY <2>3, <3>1, UndoneNone
    <3> QED BY <2>1, <3>2 DEF new
  <2> QED BY <2>2, <2>3
<1> QED BY <1>8, <1>9

-----------------------------------------------------------------------------
(* The parts of the invariant that speak of one snapshot. *)
LEMMA MarkFacts ==
  ASSUME MInv, NEW i \in DOMAIN memMarks
  PROVE  /\ memMarks[i].snap \in Nat /\ memMarks[i].snap <= Len(memRevs)
         /\ memMarks[i].kv \in Map
<1>1. memMarks[i] \in Marked
  BY DEF MInv, CheckType
<1>2. memMarks[i].snap <= Len(memRevs)
  BY DEF MInv, MemOrdered
<1> QED BY <1>1, <1>2 DEF Marked

(* The saved tree changes with the saved versions only. *)
LEMMA SameTree == ASSUME versions' = versions PROVE immuTree' = immuTree
BY DEF immuTree, Version

(* A change of one key of memStorage keeps the invariant when it records   *)
(* what was found there, or leaves it, or deletes it from the saved tree.  *)
LEMMA MemChangeKeeps ==
  ASSUME MInv, immuTree \in Map, versions' = versions, memMarks' = memMarks,
         NEW a \in Key, NEW v \in Val \cup {Absent},
         memStorage' = [memStorage EXCEPT ![a] = v],
         \/ memRevs' = Append(memRevs, Rev(a, Found(memStorage[a], a)))
         \/ memRevs' = memRevs /\ v = Found(memStorage[a], a)
         \/ memRevs' = memRevs /\ v = Absent /\ memStorage[a] = NotIn
  PROVE  MInv'
<1> DEFINE r == Rev(a, Found(memStorage[a], a))
<1>1. memStorage \in MemMap /\ memRevs \in Seq(Revision) /\ memMarks \in Seq(Marked)
  BY DEF MInv, CheckType
<1>2. r \in Revision /\ r.key = a /\ r.val = Found(memStorage[a], a)
  BY <1>1 DEF Rev, Revision, Found, MemMap, Map
<1>3. /\ memStorage' \in MemMap /\ memStorage'[a] = v
      /\ \A k \in Key : k # a => memStorage'[k] = memStorage[k]
  BY <1>1 DEF MemMap
<1> HIDE DEF r
<1>4. memRevs' \in Seq(Revision) /\ Len(memRevs') >= Len(memRevs) /\ Len(memRevs) \in Nat
  <2>1. CASE memRevs' = Append(memRevs, r)
    BY <1>1, <1>2, <2>1
  <2>2. CASE memRevs' = memRevs
    BY <1>1, <2>2
  <2> QED BY <2>1, <2>2 DEF r
<1>5. CheckType'
  BY <1>1, <1>3, <1>4 DEF CheckType
<1>6. MemOrdered'
  <2>1. ASSUME NEW i \in DOMAIN memMarks PROVE memMarks[i].snap <= Len(memRevs')
    BY <1>4, MarkFacts
  <2> QED BY <2>1 DEF MInv, MemOrdered
<1>7. ASSUME NEW i \in DOMAIN memMarks, NEW k \in Key
      PROVE  Kept(Found(Undone(memRevs', memMarks[i].snap, memStorage', k), k), memMarks[i].kv, k)
  <2> DEFINE snap == memMarks[i].snap
             old == Undone(memRevs, snap, memStorage, k)
             new == Undone(memRevs', snap, memStorage', k)
  <2>1. snap \in Nat /\ snap <= Len(memRevs)
    BY MarkFacts
  <2>2. Kept(Found(old, k), memMarks[i].kv, k)
    BY Restorable DEF MInv
  <2> HIDE DEF snap
  <2>3. CASE memRevs' = Append(memRevs, r)
    <3>1. new = IF Later(memRevs, snap, k) # {} THEN old
                ELSE IF k = r.key THEN r.val ELSE memStorage'[k]
      <4> DEFINE n == [memStorage EXCEPT ![a] = v]
                 list == Append(memRevs, r)
      <4>1. new = Undone(list, snap, n, k) /\ n[k] = memStorage'[k]
        BY <2>3
      <4> HIDE DEF n, new
      <4>2. CASE Later(memRevs, snap, k) # {}
        <5>1. Undone(list, snap, n, k) = Undone(memRevs, snap, n, k)
          BY <1>1, <1>2, <2>1, <4>2, UndoneWith
        <5>2. Undone(memRevs, snap, n, k) = Undone(memRevs, snap, memStorage, k)
          BY <1>1, <2>1, <4>2, UndoneHides
        <5> QED BY <4>1, <4>2, <5>1, <5>2
      <4>3. CASE Later(memRevs, snap, k) = {} /\ k = r.key
        <5>1. Undone(list, snap, n, k) = r.val
          BY <1>1, <1>2, <2>1, <4>3, UndoneWith
        <5> QED BY <4>1, <4>3, <5>1
      <4>4. CASE Later(memRevs, snap, k) = {} /\ k # r.key
        <5>1. Undone(list, snap, n, k) = n[k]
          BY <1>1, <1>2, <2>1, <4>4, UndoneWith
        <5> QED BY <4>1, <4>4, <5>1
      <4> QED BY <4>2, <4>3, <4>4
    <3>2. CASE Later(memRevs, snap, k) # {}
      BY <2>2, <3>1, <3>2 DEF snap
    <3>3. CASE Later(memRevs, snap, k) = {}
      <4>1. old = memStorage[k]
        BY <3>3, UndoneNone
      <4>2. CASE k = a
        <5>1. new = Found(old, k)
          BY <1>2, <3>1, <3>3, <4>1, <4>2
        <5>2. Found(new, k) = new
          BY <1>1, <4>1, <5>1, LedgerAssumption DEF Found, MemMap, Map
        <5> QED BY <2>2, <5>1, <5>2 DEF snap
      <4>3. CASE k # a
        <5>1. new = old
          BY <1>2, <1>3, <3>1, <3>3, <4>1, <4>3
        <5> QED BY <2>2, <5>1 DEF snap
      <4> QED BY <4>2, <4>3
    <3> QED BY <3>2, <3>3
  <2>4. CASE memRevs' = memRevs
    <3>1. CASE Later(memRevs, snap, k) # {}
      <4>1. new = old
        BY <1>1, <2>1, <2>4, <3>1, UndoneHides
      <4> QED BY <2>2, <4>1 DEF snap
    <3>2. CASE Later(memRevs, snap, k) = {}
      <4>1. old = memStorage[k] /\ new = memStorage'[k]
        <5>1. old = memStorage[k]
          BY <3>2, UndoneNone
        <5>2. Undone(memRevs, snap, [memStorage EXCEPT ![a] = v], k)
                = [memStorage EXCEPT ![a] = v][k]
          <6> DEFINE n == [memStorage EXCEPT ![a] = v]
          <6> HIDE DEF n
          <6>1. Undone(memRevs, snap, n, k) = n[k]
            BY <3>2, UndoneNone
          <6> QED BY <6>1 DEF n
        <5> QED BY <2>4, <5>1, <5>2
      <4>2. CASE k # a
        BY <1>3, <2>2, <4>1, <4>2 DEF snap
      <4>3. CASE k = a /\ v = Found(memStorage[a], a)
        <5>1. Found(new, k) = Found(old, k)
          BY <1>1, <1>3, <4>1, <4>3, LedgerAssumption DEF Found, MemMap, Map
        <5> QED BY <2>2, <5>1 DEF snap
      <4>4. CASE k = a /\ v = Absent /\ memStorage[a] = NotIn
        <5>1. Found(old, k) = immuTree[k]
          BY <4>1, <4>4 DEF Found
        <5>2. memMarks[i].kv[k] = immuTree[k]
          BY <2>2, <5>1 DEF Kept
        <5>3. Found(new, k) = Absent
          BY <1>3, <4>1, <4>4, LedgerAssumption DEF Found
        <5> QED BY <5>2, <5>3 DEF Kept, snap
      <4>5. memRevs' # Append(memRevs, r)
        BY <1>1, <1>2, <2>4
      <4> QED BY <4>2, <4>3, <4>4, <4>5 DEF r
    <3> QED BY <3>1, <3>2
  <2> QED BY <2>3, <2>4 DEF r
<1>8. MemSnapshotsRestorable'
  <2>1. immuTree' = immuTree
    BY SameTree
  <2> QED BY <1>7, <2>1, Zenon DEF MemSnapshotsRestorable, Kept, Found
<1> QED BY <1>5, <1>6, <1>8 DEF MInv

(* A new snapshot brings back what MemGet finds now. *)
LEMMA MemSnapshotKeeps ==
  ASSUME MInv, immuTree \in Map, MemSnapshot
  PROVE  MInv'
<1> DEFINE n == Len(memMarks) + 1
           new == [snap |-> Len(memRevs), kv |-> [k \in Key |-> memGet(k)]]
<1>0. /\ memMarks' = Append(memMarks, new) /\ versions' = versions
      /\ UNCHANGED <<memStorage, memRevs>>
  BY DEF MemSnapshot, deliver
<1>1. memStorage \in MemMap /\ memRevs \in Seq(Revision) /\ memMarks \in Seq(Marked)
  BY DEF MInv, CheckType
<1>2. [k \in Key |-> memGet(k)] \in Map
  BY <1>1 DEF memGet, MemMap, Map
<1>3. new \in Marked /\ Len(memRevs) \in Nat /\ Len(memMarks) \in Nat
  BY <1>1, <1>2 DEF Marked
<1>4. new.snap = Len(memRevs) /\ \A k \in Key : new.kv[k] = Found(memStorage[k], k)
  BY DEF memGet, Found
<1> HIDE DEF new
<1>5. /\ memMarks' \in Seq(Marked) /\ DOMAIN memMarks' = 1 .. n /\ memMarks'[n] = new
      /\ \A i \in 1 .. Len(memMarks) : memMarks'[i] = memMarks[i]
      /\ DOMAIN memMarks = 1 .. Len(memMarks)
  BY <1>0, <1>1, <1>3
<1>6. CheckType'
  BY <1>0, <1>1, <1>5 DEF CheckType
<1>7. ASSUME NEW i \in DOMAIN memMarks'
      PROVE  i = n \/ (i \in DOMAIN memMarks /\ memMarks'[i] = memMarks[i])
  BY <1>3, <1>5
<1>8. MemOrdered'
  <2>1. ASSUME NEW i \in DOMAIN memMarks' PROVE memMarks'[i].snap <= Len(memRevs)
    <3>1. CASE i = n
      BY <1>3, <1>4, <1>5, <3>1
    <3>2. CASE i # n
      BY <1>7, <3>2, MarkFacts
    <3> QED BY <3>1, <3>2
  <2>2. ASSUME NEW i \in DOMAIN memMarks', NEW j \in DOMAIN memMarks', i <= j
        PROVE  memMarks'[i].snap <= memMarks'[j].snap
    <3>1. CASE j = n
      BY <1>4, <1>5, <2>1, <3>1
    <3>2. CASE j # n
      <4>1. /\ i \in DOMAIN memMarks /\ j \in DOMAIN memMarks
            /\ memMarks'[i] = memMarks[i] /\ memMarks'[j] = memMarks[j]
        BY <1>3, <1>5, <2>2, <3>2
      <4> QED BY <2>2, <4>1 DEF MInv, MemOrdered
    <3> QED BY <3>1, <3>2
  <2> QED BY <1>0, <2>1, <2>2 DEF MemOrdered
<1>9. ASSUME NEW i \in DOMAIN memMarks', NEW k \in Key
      PROVE  Kept(Found(Undone(memRevs, memMarks'[i].snap, memStorage, k), k),
                  memMarks'[i].kv, k)
  <2>1. CASE i = n
    <3>1. memMarks'[i].snap = Len(memRevs) /\ memMarks'[i].kv[k] = Found(memStorage[k], k)
      BY <1>4, <1>5, <2>1
    <3>2. Later(memRevs, Len(memRevs), k) = {}
      BY <1>3 DEF Later
    <3>3. Undone(memRevs, Len(memRevs), memStorage, k) = memStorage[k]
      BY <3>2, UndoneNone
    <3> QED BY <3>1, <3>3 DEF Kept
  <2>2. CASE i # n
    <3>1. i \in DOMAIN memMarks /\ memMarks'[i] = memMarks[i]
      BY <1>7, <2>2
    <3> QED BY <3>1, Restorable DEF MInv
  <2> QED BY <2>1, <2>2
<1>10. MemSnapshotsRestorable'
  <2>1. immuTree' = immuTree
    BY <1>0, SameTree
  <2> QED BY <1>0, <1>9, <2>1, Zenon DEF MemSnapshotsRestorable, Kept, Found
<1> QED BY <1>6, <1>8, <1>10 DEF MInv

(* A revert cuts the list at its snapshot; the snapshots before it find    *)
(* the same as before.                                                     *)
LEMMA MemRevertKeeps ==
  ASSUME MInv, NEW n \in DOMAIN memMarks, MemRevertToSnapshot(n)
  PROVE  MInv'
<1> DEFINE snap == memMarks[n].snap
           t == [k \in Key |-> Undone(memRevs, snap, memStorage, k)]
<1>0. /\ memStorage' = t /\ memRevs' = SubSeq(memRevs, 1, snap)
      /\ memMarks' = SubSeq(memMarks, 1, n) /\ versions' = versions
  BY DEF MemRevertToSnapshot, deliver
<1>1. memStorage \in MemMap /\ memRevs \in Seq(Revision) /\ memMarks \in Seq(Marked)
  BY DEF MInv, CheckType
<1>2. snap \in Nat /\ snap <= Len(memRevs) /\ Len(memRevs) \in Nat
  BY <1>1, MarkFacts
<1> HIDE DEF snap
<1>3. \A k \in Key : Undone(memRevs, snap, memStorage, k) \in Val \cup {Absent, NotIn}
  BY <1>1, <1>2, UndoneMemType
<1>4. t \in MemMap
  BY <1>3 DEF MemMap
<1> HIDE DEF t
<1>5. /\ memRevs' \in Seq(Revision) /\ Len(memRevs') = snap
      /\ memMarks' \in Seq(Marked) /\ DOMAIN memMarks' = 1 .. n
      /\ \A i \in 1 .. n : memMarks'[i] = memMarks[i] /\ i \in DOMAIN memMarks
  BY <1>0, <1>1, <1>2
<1>6. CheckType'
  BY <1>0, <1>4, <1>5 DEF CheckType
<1>7. ASSUME NEW i \in DOMAIN memMarks' PROVE memMarks[i].snap <= snap
  BY <1>5 DEF MInv, MemOrdered, snap
<1>8. MemOrdered'
  BY <1>5, <1>7 DEF MInv, MemOrdered
<1>9. ASSUME NEW i \in DOMAIN memMarks', NEW k \in Key
      PROVE  Kept(Found(Undone(memRevs', memMarks'[i].snap, memStorage', k), k),
                  memMarks'[i].kv, k)
  <2>1. memMarks'[i] = memMarks[i] /\ i \in DOMAIN memMarks
    BY <1>5
  <2>2. memMarks[i].snap \in Nat
    BY <2>1, MarkFacts
  <2>3. Undone(SubSeq(memRevs, 1, snap), memMarks[i].snap, t, k)
          = Undone(memRevs, memMarks[i].snap, memStorage, k)
    BY <1>1, <1>2, <1>7, <2>2, UndoneMemCut DEF t
  <2>4. Kept(Found(Undone(memRevs, memMarks[i].snap, memStorage, k), k), memMarks[i].kv, k)
    BY <2>1, Restorable DEF MInv
  <2> QED BY <1>0, <2>1, <2>3, <2>4, Zenon
<1>10. MemSnapshotsRestorable'
  <2>1. immuTree' = immuTree
    BY <1>0, SameTree
  <2> QED BY <1>9, <2>1, Zenon DEF MemSnapshotsRestorable, Kept, Found
<1> QED BY <1>6, <1>8, <1>10 DEF MInv

(* A new check side has no changes and no snapshots. *)
LEMMA NewSideKeeps ==
  ASSUME memStorage' = NoEntries, memRevs' = <<>>, memMarks' = <<>>
  PROVE  MInv'
BY DEF MInv, CheckType, MemOrdered, MemSnapshotsRestorable, NoEntries, MemMap

(* The deliver side does not touch the check side before it commits. *)
LEMMA DeliverKeeps ==
  ASSUME MInv, UNCHANGED <<check, versions>>
  PROVE  MInv'
<1>1. immuTree' = immuTree
  BY SameTree
<1> QED BY <1>1 DEF MInv, CheckType, MemOrdered, MemSnapshotsRestorable, check

(* Set of the check side records what MemGet finds, or changes nothing. *)
LEMMA MemSetKeeps ==
  ASSUME MInv, immuTree \in Map, NEW k \in Key, NEW v \in Val, MemSet(k, v)
  PROVE  MInv'
<1>1. memGet(k) = Found(memStorage[k], k)
  BY DEF memGet, Found
<1>2. /\ versions' = versions /\ memMarks' = memMarks
      /\ memStorage' = [memStorage EXCEPT ![k] = v]
      /\ \/ memRevs' = Append(memRevs, Rev(k, Found(memStorage[k], k)))
         \/ memRevs' = memRevs /\ v = Found(memStorage[k], k)
  BY <1>1 DEF MemSet, deliver
<1> QED BY <1>2, MemChangeKeeps, Zenon

(* Del records what is in memStorage, and nothing for the saved tree. *)
LEMMA MemDelKeeps ==
  ASSUME MInv, immuTree \in Map, NEW k \in Key, MemDel(k)
  PROVE  MInv'
<1>1. memStorage[k] # NotIn => Found(memStorage[k], k) = memStorage[k]
  BY DEF Found
<1>2. /\ versions' = versions /\ memMarks' = memMarks
      /\ memStorage' = [memStorage EXCEPT ![k] = Absent]
      /\ \/ memRevs' = Append(memRevs, Rev(k, Found(memStorage[k], k)))
         \/ memRevs' = memRevs /\ memStorage[k] = NotIn
  BY <1>1 DEF MemDel, deliver
<1> QED BY <1>2, MemChangeKeeps, Zenon

(* The last saved version is a map. *)
LEMMA TreeType == ASSUME IInv PROVE immuTree \in Map
BY DEF IInv, DeliverType, immuTree, Empty, Map, Version

(* Every step keeps the invariant of the check side. *)
LEMMA MemNextKeeps == ASSUME IInv, MInv, [Next]_vars PROVE MInv'
<1>0. immuTree \in Map
  BY TreeType
<1>1. CASE \E k \in Key : Get(k) \/ Del(k)
  BY <1>1, DeliverKeeps DEF Get, Del
<1>2. CASE \E k \in Key : \E v \in Val : Set(k, v)
  BY <1>2, DeliverKeeps DEF Set
<1>3. CASE \E k \in Key : MemDel(k)
  BY <1>0, <1>3, MemDelKeeps
<1>4. CASE \E k \in Key : \E v \in Val : MemSet(k, v)
  BY <1>0, <1>4, MemSetKeeps
<1>5. CASE Snapshot
  BY <1>5, DeliverKeeps DEF Snapshot
<1>6. CASE MemSnapshot
  BY <1>0, <1>6, MemSnapshotKeeps
<1>7. CASE \E i \in DOMAIN marks : RevertToSnapshot(i)
  BY <1>7, DeliverKeeps DEF RevertToSnapshot
<1>8. CASE \E i \in DOMAIN memMarks : MemRevertToSnapshot(i)
  BY <1>8, MemRevertKeeps
<1>9. CASE Commit
  BY <1>9, NewSideKeeps DEF Commit
<1>10. CASE Restart
  BY <1>10, NewSideKeeps DEF Restart
<1>11. CASE UNCHANGED vars
  BY <1>11, DeliverKeeps DEF vars, deliver
<1> QED
  BY <1>1, <1>2, <1>3, <1>4, <1>5, <1>6, <1>7, <1>8, <1>9, <1>10, <1>11, Zenon DEF Next

(* The invariant of the check side holds in every state. *)
THEOREM MInvHolds == Spec => []MInv
<1>1. Init => MInv
  BY DEF Init, MInv, CheckType, MemOrdered, MemSnapshotsRestorable, NoEntries, MemMap
<1> QED BY <1>1, MemNextKeeps, IInvHolds, PTL DEF Spec

(* A revert brings back the map its snapshot was taken of, on both sides   *)
(* of a StateLedger, for any keys, values and nesting; on the check side,  *)
(* but for keys deleted from the saved tree, which MemLedger.Del does not  *)
(* record.                                                                 *)
THEOREM SnapshotsOfBothSides == Spec => []BothSidesRestorable
<1>1. IInv /\ MInv => BothSidesRestorable
  BY DEF IInv, DeliverType, MInv, CheckType, MemMap, BothSidesRestorable, TypeOK
<1> QED BY <1>1, IInvHolds, MInvHolds, PTL

(* After StateLedger.Commit every key reads on the check side as the       *)
(* deliver side committed it, whatever CheckTx did there before.           *)
THEOREM CheckSideStartsFromCommit == Spec => CheckSideFollows
<1> DEFINE Follows ==
      Version' # Version =>
        \A k \in Key : memGet(k)' = seekItem(k) /\ memSeek(k)' = seekItem(k)
<1>1. ASSUME IInv, [Next]_vars PROVE [Follows]_vars
  <2>1. CASE Commit
    <3>1. versions \in Seq(Map) /\ tree \in Map
      BY <1>1 DEF IInv, DeliverType
    <3>2. versions' = Append(versions, tree) /\ memStorage' = NoEntries
      BY <2>1 DEF Commit, saveVersion
    <3>3. versions' # <<>> /\ versions'[Len(versions')] = tree
      BY <3>1, <3>2
    <3>4. immuTree' = tree
      BY <3>3 DEF immuTree, Version
    <3> QED BY <3>2, <3>4 DEF memGet, memSeek, seekItem, NoEntries
  <2>2. CASE ~Commit
    <3>1. versions' = versions
      <4>1. CASE \/ \E k \in Key : Get(k) \/ Del(k)
                 \/ \E k \in Key : \E v \in Val : Set(k, v)
                 \/ Snapshot \/ Restart
        BY <4>1 DEF Get, Del, Set, Snapshot, Restart
      <4>2. CASE \E i \in DOMAIN marks : RevertToSnapshot(i)
        BY <4>2 DEF RevertToSnapshot
      <4>3. CASE \/ \E k \in Key : MemDel(k)
                 \/ \E k \in Key : \E v \in Val : MemSet(k, v)
                 \/ MemSnapshot
                 \/ \E i \in DOMAIN memMarks : MemRevertToSnapshot(i)
                 \/ UNCHANGED vars
        BY <4>3 DEF MemDel, MemSet, MemSnapshot, MemRevertToSnapshot, vars, deliver
      <4> QED BY <1>1, <2>2, <4>1, <4>2, <4>3, Zenon DEF Next
    <3> QED BY <3>1 DEF Version
  <2> QED BY <2>1, <2>2
<1> QED BY <1>1, IInvHolds, PTL DEF Spec, CheckSideFollows
=============================================================================
