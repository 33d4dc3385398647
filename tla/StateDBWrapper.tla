--------------------------- MODULE StateDBWrapper ---------------------------
(***************************************************************************)
(* Contract execution, ctrlers/vm/evm: ExecuteTrx around the EVM, and the  *)
(* wrapper that makes the balances and nonces of the account ledger those  *)
(* of the EVM's own state.                                                 *)
(*                                                                         *)
(* An address is loaded from the ledger the first time it is accessed, and *)
(* the addresses loaded are written back at the end.  What was loaded      *)
(* within a call that fails has to be forgotten: the wrapper notes for     *)
(* every address the number of the snapshot after its loading.             *)
(*                                                                         *)
(* The state of the EVM (go-ethereum's StateDB) is modelled from its use:  *)
(* objects, a journal that snapshots refer to, numbers of snapshots that   *)
(* are never used again, and the access list.  What contracts do is        *)
(* arbitrary: access, call with value, create, return, fail.               *)
(***************************************************************************)
EXTENDS Integers, FiniteSets, Sequences, SequencesExt

CONSTANTS
  Addr, Coinbase,
  Genesis,   \* the accounts at the start
  Amounts,   \* bound: the amounts that are sent
  MaxTxs,    \* bound: contract transactions and transfers
  MaxDepth,  \* bound: calls in progress
  MaxCalls,  \* bound: calls in a transaction
  MaxSnaps   \* bound: snapshots of one StateDB

ASSUME StateDBAssumption ==
  /\ Coinbase \in Addr /\ Amounts \subseteq Nat
  /\ Genesis \in [Addr -> [bal : Nat, nonce : Nat, code : BOOLEAN]]
  /\ {MaxTxs, MaxDepth, MaxCalls, MaxSnaps} \subseteq Nat

VARIABLES
  acct,    \* the account ledger
  db,      \* the StateDBWrapper
  frames,  \* the calls in progress: snapshot, address, and whether it creates
  snap,    \* the snapshot ExecuteTrx takes
  calls, txs

vars == <<acct, db, frames, snap, calls, txs>>

NotAccessed == -1

-----------------------------------------------------------------------------
(* go-ethereum's StateDB. *)

(* NewStateDBWrapper on the trie of the last block. *)
NewStateDBWrapper(objs) ==
  [objs |-> objs, acl |-> {}, journal |-> <<>>, revs |-> <<>>, next |-> 0,
   accessed |-> [a \in Addr |-> NotAccessed], snapshot |-> 0]

SetObject(s, a, o) ==
  [s EXCEPT !.objs[a] = o, !.journal = Append(@, [addr |-> a, prev |-> s.objs[a], acl |-> FALSE])]
SetNonce(s, a, n) == SetObject(s, a, [s.objs[a] EXCEPT !.nonce = n])
SetBalance(s, a, b) == SetObject(s, a, [s.objs[a] EXCEPT !.bal = b])
SetCode(s, a) == SetObject(s, a, [s.objs[a] EXCEPT !.code = TRUE])

AddAddress(s, a) ==
  IF a \in s.acl THEN s
  ELSE [s EXCEPT !.acl = @ \cup {a},
                 !.journal = Append(@, [addr |-> a, prev |-> s.objs[a], acl |-> TRUE])]

(* The journal from its end back to length n. *)
Undone(s, n) ==
  FoldRight(LAMBDA e, t : IF e.acl THEN [t EXCEPT !.acl = @ \ {e.addr}]
                          ELSE [t EXCEPT !.objs[e.addr] = e.prev],
            SubSeq(s.journal, n + 1, Len(s.journal)),
            [s EXCEPT !.journal = SubSeq(@, 1, n)])

LengthAt(s, id) == (CHOOSE r \in Range(s.revs) : r.id = id).len

-----------------------------------------------------------------------------
(* The wrapper. *)

addAccessedObjAddr(s, a) ==
  IF s.accessed[a] # NotAccessed THEN s
  ELSE [SetBalance(SetNonce(s, a, acct[a].nonce), a, acct[a].bal)
          EXCEPT !.accessed[a] = s.snapshot + 1]

AddAddressToAccessList(s, a) == AddAddress(addAccessedObjAddr(s, a), a)

Snapshot(s) ==
  [s EXCEPT !.revs = Append(@, [id |-> s.next, len |-> Len(s.journal)]),
            !.next = @ + 1, !.snapshot = s.next]

(* revertAccessedObjAddr, and the StateDB's own. *)
RevertToSnapshot(s, id) ==
  [Undone(s, LengthAt(s, id)) EXCEPT
     !.revs = SelectSeq(@, LAMBDA r : r.id < id),
     !.accessed = [a \in Addr |-> IF id < s.accessed[a] THEN NotAccessed ELSE s.accessed[a]]]

Initiate(s, from, to, create) ==
  LET t == AddAddressToAccessList(s, from)
  IN  IF create THEN t ELSE AddAddressToAccessList(t, to)

(* Mutant: the addresses are loaded, but not those of the access list. *)
PrepareCallOnly(s, from, to, create) ==
  LET t == addAccessedObjAddr(s, from)
      u == IF create THEN t ELSE addAccessedObjAddr(t, to)
  IN  [u EXCEPT !.acl = {from, Coinbase} \cup (IF create THEN {} ELSE {to})]

(* Prepare: the access list starts anew. *)
Prepare(s, from, to, create) ==
  LET t == addAccessedObjAddr(s, from)
      u == IF create THEN t ELSE addAccessedObjAddr(t, to)
  IN  [addAccessedObjAddr(u, Coinbase) EXCEPT
         !.acl = {from, Coinbase} \cup (IF create THEN {} ELSE {to})]

(* Finish: the accounts with what was accessed written back. *)
Written(s) ==
  [a \in Addr |->
     IF s.accessed[a] = NotAccessed THEN acct[a]
     ELSE [bal   |-> s.objs[a].bal,
           code  |-> acct[a].code \/ s.objs[a].code,
           nonce |-> IF s.objs[a].code THEN s.objs[a].nonce ELSE acct[a].nonce]]

(* Mutant: the addresses accessed are kept for the next transaction. *)
forgottenNot(s) == s

Forgotten(s) == [s EXCEPT !.accessed = [a \in Addr |-> NotAccessed]]

(* Finalise: journal and snapshots go. *)
Finalise(s) == [s EXCEPT !.journal = <<>>, !.revs = <<>>]

-----------------------------------------------------------------------------
(* The EVM. *)

Transfer(s, a, b, amt) ==
  LET t == SetBalance(s, a, s.objs[a].bal - amt)
  IN  SetBalance(t, b, t.objs[b].bal + amt)

Fresh(s, a) == ~ s.objs[a].code /\ s.objs[a].nonce = 0

(* evm.Call: a snapshot, then the value. *)
EnterCall(s, a, b, amt) ==
  LET t == Snapshot(s)
  IN  [s |-> Transfer(t, a, b, amt), rev |-> t.snapshot, ok |-> amt <= s.objs[a].bal]

(* evm.Create: nonce and access list come before the snapshot.  Addresses  *)
(* of new contracts do not collide with those of others.                   *)
EnterCreate(s, a, b, amt) ==
  LET t == AddAddressToAccessList(SetNonce(s, a, s.objs[a].nonce + 1), b)
      u == Snapshot(t)
  IN  [s |-> Transfer(SetNonce(u, b, 1), a, b, amt), rev |-> u.snapshot,
       ok |-> amt <= s.objs[a].bal /\ Fresh(t, b)]

Entered(e, b, create) ==
  /\ e.ok
  /\ db' = e.s
  /\ frames' = Append(frames, [rev |-> e.rev, addr |-> b, create |-> create])
  /\ calls' = calls + 1

Running == frames # <<>>

(* ExecuteTrx up to execVM. *)
Started(from, to, create) ==
  LET s == Snapshot(db)
  IN  [s |-> Initiate(s, from, to, create), snap |-> s.snapshot]

(* A contract transaction begins, with TransitionDb up to the outermost    *)
(* call; a sender has no code.                                             *)
Begin(from, to, amt, create) ==
  LET b == Started(from, to, create)
      s == Prepare(b.s, from, to, create)
  IN  /\ ~ Running /\ txs < MaxTxs /\ txs' = txs + 1 /\ db.next + 1 < MaxSnaps
      /\ ~ acct[from].code /\ from # to /\ (create \/ acct[to].code)
      /\ snap' = b.snap
      /\ IF create THEN Entered(EnterCreate(s, from, to, amt), to, TRUE)
         ELSE Entered(EnterCall(SetNonce(s, from, s.objs[from].nonce + 1), from, to, amt), to, FALSE)
      /\ UNCHANGED acct

(* preCheck refuses: an error of TransitionDb. *)
Refused(from, to, create) ==
  LET b == Started(from, to, create)
      r == RevertToSnapshot(b.s, b.snap)
  IN  /\ ~ Running /\ db.next < MaxSnaps
      /\ acct' = Written(r) /\ db' = Forgotten(r)
      /\ UNCHANGED <<frames, snap, calls, txs>>

(* An instruction accesses an account. *)
Access(a) ==
  /\ Running /\ a \notin db.acl
  /\ db' = AddAddressToAccessList(db, a)
  /\ UNCHANGED <<acct, frames, snap, calls, txs>>

Self == Last(frames).addr

May == Running /\ calls < MaxCalls /\ Len(frames) < MaxDepth /\ db.next < MaxSnaps

Call(to, amt) ==
  LET s == IF to \in db.acl THEN db ELSE AddAddressToAccessList(db, to)
  IN  /\ May /\ Entered(EnterCall(s, Self, to, amt), to, FALSE)
      /\ UNCHANGED <<acct, snap, txs>>

Create(to, amt) ==
  /\ May /\ to # Self
  /\ Entered(EnterCreate(db, Self, to, amt), to, TRUE)
  /\ UNCHANGED <<acct, snap, txs>>

(* An inner call returns; a creation leaves its code. *)
Left(s) == IF Last(frames).create THEN SetCode(s, Self) ELSE s

Return ==
  /\ Len(frames) > 1
  /\ db' = Left(db) /\ frames' = Front(frames)
  /\ UNCHANGED <<acct, snap, calls, txs>>

(* An inner call fails. *)
Fail ==
  /\ Len(frames) > 1
  /\ db' = RevertToSnapshot(db, Last(frames).rev) /\ frames' = Front(frames)
  /\ UNCHANGED <<acct, snap, calls, txs>>

(* ExecuteTrx after a successful execVM. *)
Succeed ==
  /\ Len(frames) = 1
  /\ acct' = Written(Left(db)) /\ db' = Finalise(Forgotten(Left(db)))
  /\ frames' = <<>> /\ calls' = 0
  /\ UNCHANGED <<snap, txs>>

(* ExecuteTrx after a failed one: the EVM reverts the call, ExecuteTrx     *)
(* what came before.                                                       *)
Failed ==
  LET r == RevertToSnapshot(RevertToSnapshot(db, Last(frames).rev), snap)
  IN  /\ Len(frames) = 1
      /\ acct' = Written(r) /\ db' = Forgotten(r)
      /\ frames' = <<>> /\ calls' = 0
      /\ UNCHANGED <<snap, txs>>

(* A transfer the EVM has no part in: its objects are stale afterwards. *)
Native(a, b, amt) ==
  /\ ~ Running /\ txs < MaxTxs /\ txs' = txs + 1
  /\ a # b /\ ~ acct[a].code /\ ~ acct[b].code /\ amt <= acct[a].bal
  /\ acct' = [acct EXCEPT ![a].bal = @ - amt, ![b].bal = @ + amt]
  /\ UNCHANGED <<db, frames, snap, calls>>

(* Commit: a new wrapper on what the old one has. *)
Commit ==
  /\ ~ Running
  /\ db' = NewStateDBWrapper(db.objs)
  /\ UNCHANGED <<acct, frames, snap, calls, txs>>

Init ==
  /\ acct = Genesis
  /\ db = NewStateDBWrapper([a \in Addr |-> [bal |-> 0, nonce |-> Genesis[a].nonce,
                                             code |-> Genesis[a].code]])
  /\ frames = <<>> /\ snap = 0 /\ calls = 0 /\ txs = 0

Next ==
  \/ \E from, to \in Addr, create \in BOOLEAN :
       Refused(from, to, create) \/ \E amt \in Amounts : Begin(from, to, amt, create)
  \/ \E a \in Addr : Access(a) \/ \E amt \in Amounts : Call(a, amt) \/ Create(a, amt)
  \/ Return \/ Fail \/ Succeed \/ Failed \/ Commit
  \/ \E a, b \in Addr, amt \in Amounts : Native(a, b, amt)

Spec == Init /\ [][Next]_vars

-----------------------------------------------------------------------------
(* Properties. *)

Account == [bal : Nat, nonce : Nat, code : BOOLEAN]

(* The parts of the wrapper and of the ledger have their types; balances   *)
(* are never negative.                                                     *)
TypeOK ==
  /\ acct \in [Addr -> Account] /\ db.objs \in [Addr -> Account]
  /\ db.acl \subseteq Addr /\ db.accessed \in [Addr -> {NotAccessed} \cup Nat]
  /\ Range(db.journal) \subseteq [addr : Addr, prev : Account, acl : BOOLEAN]
  /\ Range(db.revs) \subseteq [id : Nat, len : Nat]
  /\ db.next \in Nat /\ db.snapshot \in Nat /\ snap \in Nat
  /\ Range(frames) \subseteq [rev : Nat, addr : Addr, create : BOOLEAN]

(* An address the EVM takes for accessed, and will read without asking     *)
(* again, has been loaded from the ledger and not been forgotten since:    *)
(* the access list of the StateDB and the addresses of the wrapper are     *)
(* reverted alike.  Between transactions nothing is left of the one        *)
(* before, failed or not: no address is taken for loaded, no change can be *)
(* reverted.                                                               *)
WarmIsLoaded ==
  /\ TypeOK
  /\ Running => \A a \in db.acl : db.accessed[a] # NotAccessed
  /\ ~ Running => /\ \A a \in Addr : db.accessed[a] = NotAccessed
                  /\ db.journal = <<>> /\ db.revs = <<>>

(* The accounts as they were at snapshot id: the objects the journal leads *)
(* back to where the address had been accessed, the ledger elsewhere.      *)
AccountsAt(id) ==
  LET o == Undone(db, LengthAt(db, id)).objs
  IN  [a \in Addr |-> IF db.accessed[a] # NotAccessed /\ db.accessed[a] <= id THEN o[a] ELSE acct[a]]

AccountsNow ==
  [a \in Addr |-> IF db.accessed[a] # NotAccessed THEN db.objs[a] ELSE acct[a]]

Stack ==
  IF ~ Running THEN <<>>
  ELSE Append([k \in DOMAIN frames |-> AccountsAt(frames[k].rev)], AccountsNow)

Selfs == [k \in DOMAIN frames |-> [addr |-> frames[k].addr, create |-> frames[k].create]]

NC == INSTANCE NestedCalls WITH stack <- Stack, selfs <- Selfs

(* Loading on first access, forgetting on failure and writing back at the  *)
(* end make the account ledger the state contracts work on: calls, failed  *)
(* calls, creations and transfers outside of the EVM have the effect they  *)
(* have on the accounts themselves.                                        *)
ImplementsNestedCalls == NC!Spec
=============================================================================
