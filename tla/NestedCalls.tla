----------------------------- MODULE NestedCalls -----------------------------
(***************************************************************************)
(* What a contract transaction promises: a call works on the accounts as   *)
(* they are, a call that fails leaves them as they were when it was made,  *)
(* and the accounts at the end of the transaction are those the outermost  *)
(* call leaves.                                                            *)
(*                                                                         *)
(* An account is its balance, its nonce and whether it has code.  Every    *)
(* call in progress has the accounts as they were before it on a stack;    *)
(* the last element of the stack is the accounts as they are.              *)
(***************************************************************************)
EXTENDS Integers, Sequences, SequencesExt

CONSTANTS
  Addr,
  Amounts,   \* bound: the amounts that are sent
  MaxTxs,    \* bound: contract transactions and transfers
  MaxDepth,  \* bound: calls in progress
  MaxCalls   \* bound: calls in a transaction

VARIABLES
  acct,   \* the accounts between transactions
  stack,  \* before every call in progress, and now
  selfs,  \* whose code runs: [addr, create] for every call in progress
  calls,  \* calls made by the transaction
  txs     \* transactions so far

vars == <<acct, stack, selfs, calls, txs>>

Move(w, a, b, amt) ==
  [x \in Addr |-> [w[x] EXCEPT !.bal = @ - (IF x = a THEN amt ELSE 0)
                                         + (IF x = b THEN amt ELSE 0)]]
Bump(w, a) == [w EXCEPT ![a].nonce = @ + 1]

(* Only the nonces of contracts are kept: that of a sender is counted by   *)
(* the transaction executor.                                               *)
Settle(w) ==
  [a \in Addr |-> IF w[a].code THEN w[a] ELSE [w[a] EXCEPT !.nonce = acct[a].nonce]]

May == calls < MaxCalls /\ Len(selfs) < MaxDepth

(* A call with value: w is the accounts before it. *)
Enter(pre, w, a, b, amt, create) ==
  /\ amt <= w[a].bal
  /\ stack' = Append(pre, w)
              \o <<Move(IF create THEN [w EXCEPT ![b].nonce = 1] ELSE w, a, b, amt)>>
  /\ selfs' = Append(selfs, [addr |-> b, create |-> create])
  /\ calls' = calls + 1

Fresh(w, a) == ~ w[a].code /\ w[a].nonce = 0

Begin(from, to, amt, create) ==
  /\ stack = <<>> /\ txs < MaxTxs /\ txs' = txs + 1
  /\ ~ acct[from].code /\ from # to /\ (create \/ acct[to].code)
  /\ create => Fresh(acct, to)
  /\ Enter(<<>>, Bump(acct, from), from, to, amt, create)
  /\ UNCHANGED acct

Call(to, amt, create) ==
  LET self == Last(selfs).addr
      w    == IF create THEN Bump(Last(stack), self) ELSE Last(stack)
  IN  /\ stack # <<>> /\ May
      /\ create => Fresh(Last(stack), to) /\ to # self
      /\ Enter(Front(stack), w, self, to, amt, create)
      /\ UNCHANGED <<acct, txs>>

(* The accounts after the innermost call. *)
Returned ==
  IF Last(selfs).create THEN [Last(stack) EXCEPT ![Last(selfs).addr].code = TRUE]
  ELSE Last(stack)

Leave(w) ==
  /\ stack # <<>>
  /\ IF Len(selfs) > 1
     THEN stack' = Append(Front(Front(stack)), w) /\ UNCHANGED <<acct, calls>>
     ELSE stack' = <<>> /\ acct' = Settle(w) /\ calls' = 0
  /\ selfs' = Front(selfs)
  /\ UNCHANGED txs

Return == stack # <<>> /\ Leave(Returned)
Fail == stack # <<>> /\ Leave(Last(Front(stack)))

(* A transfer that the EVM has no part in. *)
Transfer(a, b, amt) ==
  /\ stack = <<>> /\ txs < MaxTxs /\ txs' = txs + 1
  /\ amt <= acct[a].bal /\ acct' = Move(acct, a, b, amt)
  /\ UNCHANGED <<stack, selfs, calls>>

Init ==
  /\ acct \in [Addr -> [bal : Nat, nonce : Nat, code : BOOLEAN]]
  /\ stack = <<>> /\ selfs = <<>> /\ calls = 0 /\ txs = 0

Next ==
  \/ \E from, to \in Addr, amt \in Amounts, create \in BOOLEAN :
       Begin(from, to, amt, create)
  \/ \E to \in Addr, amt \in Amounts, create \in BOOLEAN : Call(to, amt, create)
  \/ Return \/ Fail
  \/ \E a, b \in Addr, amt \in Amounts : Transfer(a, b, amt)

Spec == Init /\ [][Next]_vars
=============================================================================
