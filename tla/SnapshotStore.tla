--------------------------- MODULE SnapshotStore ---------------------------
(***************************************************************************)
(* What a ledger promises (ISettable and IGettable of ledger/v1/types.go): *)
(* a map from keys to values in which a snapshot can be taken at any time, *)
(* and a revert to a snapshot brings back exactly the map it was taken of. *)
(* A revert forgets the snapshots taken later; Forget is the start of a    *)
(* new ledger or a new version, whose snapshots start afresh.              *)
(***************************************************************************)
EXTENDS Sequences

CONSTANTS Key, Val, Absent

VARIABLES kv, saved

Init == kv = [k \in Key |-> Absent] /\ saved = <<>>

Put(k, v) == kv' = [kv EXCEPT ![k] = v] /\ UNCHANGED saved

Remove(k) == kv' = [kv EXCEPT ![k] = Absent] /\ UNCHANGED saved

Mark == saved' = Append(saved, kv) /\ UNCHANGED kv

Back(i) ==
  /\ kv' = saved[i]
  /\ saved' = SubSeq(saved, 1, i)

Forget ==
  /\ saved' = <<>>
  /\ kv' \in [Key -> Val \cup {Absent}]

Next ==
  \/ \E k \in Key : Remove(k) \/ \E v \in Val : Put(k, v)
  \/ Mark \/ Forget
  \/ \E i \in DOMAIN saved : Back(i)

Spec == Init /\ [][Next]_<<kv, saved>>
=============================================================================
