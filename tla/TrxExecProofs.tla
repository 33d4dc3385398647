--------------------------- MODULE TrxExecProofs ---------------------------
(***************************************************************************)
(* Facts about the operators of TrxExec, for every set of addresses and    *)
(* every transaction: which objects they hand out, and that they never     *)
(* replace the object of an address.  And, at the end, how many elements a *)
(* set has that gains or loses one.                                        *)
(***************************************************************************)
EXTENDS TrxExec, TLAPS

(* p points to an object allocated for address a. *)
At(s, a, p) == p \in Ptr /\ p[1] = a /\ p[2] \in 1 .. Len(s.heap[a])

(* A well-formed account side: cached and new objects are allocated, an    *)
(* address has one object, and a new object belongs to an address that the *)
(* ledger does not know.                                                   *)
Good(s) ==
  /\ s \in AccountSide
  /\ \A a \in Addr :
       /\ s.cache[a] # Nil => At(s, a, s.cache[a])
       /\ s.newbies[a] # Nil => At(s, a, s.newbies[a])
       /\ s.cache[a] # Nil /\ s.newbies[a] # Nil => s.newbies[a] = s.cache[a]
       /\ s.cache[a] = Nil /\ s.newbies[a] # Nil => s.tree[a] = NoAcct

(* No object of t is another one than in s. *)
Keeps(s, t) == \A a \in Addr : Current(s, a) # Nil => Current(t, a) = Current(s, a)

(* p is the object of address a. *)
Points(s, a, p) == a \in Addr /\ p # Nil /\ p = Current(s, a)

(* A step between well-formed states that replaces no object. *)
Safe(s, t) == Good(t) /\ Keeps(s, t)

(* Assigning to an allocated object keeps the types, the maps and the tree. *)
LEMMA WriteType ==
  ASSUME NEW s \in AccountSide, NEW a \in Addr, NEW p, At(s, a, p), NEW acct \in Acct
  PROVE  /\ Write(s, p, acct) \in AccountSide
         /\ Write(s, p, acct).cache = s.cache
         /\ Write(s, p, acct).newbies = s.newbies
         /\ Write(s, p, acct).tree = s.tree
         /\ \A x \in Addr : Len(Write(s, p, acct).heap[x]) = Len(s.heap[x])
<1> DEFINE q == s.heap[a]
           r == [q EXCEPT ![p[2]] = acct]
           h == [s.heap EXCEPT ![a] = r]
<1>1. s.heap \in [Addr -> Seq(Acct)] /\ q \in Seq(Acct)
  BY DEF AccountSide
<1>2. r \in Seq(Acct) /\ Len(r) = Len(q)
  BY <1>1 DEF At
<1>3. h \in [Addr -> Seq(Acct)] /\ \A x \in Addr : Len(h[x]) = Len(s.heap[x])
  BY <1>1, <1>2
<1>4. Write(s, p, acct) = [s EXCEPT !.heap = h]
  BY DEF Write, At
<1> HIDE DEF h
<1>5. QED
  BY <1>3, <1>4, Zenon DEF AccountSide

(* Changing an object leaves the maps alone. *)
LEMMA WriteGood ==
  ASSUME NEW s, Good(s), NEW a \in Addr, NEW p, At(s, a, p), NEW acct \in Acct
  PROVE  LET t == Write(s, p, acct)
         IN  Good(t) /\ \A x \in Addr : Current(t, x) = Current(s, x)
<1> DEFINE t == Write(s, p, acct)
<1>1. /\ t \in AccountSide /\ t.cache = s.cache /\ t.newbies = s.newbies /\ t.tree = s.tree
      /\ \A x \in Addr : Len(t.heap[x]) = Len(s.heap[x])
  BY WriteType DEF Good
<1> HIDE DEF t
<1>2. QED
  BY <1>1 DEF Good, At, Current, t

(* The heap of an address is a sequence. *)
LEMMA HeapLen ==
  ASSUME NEW s \in AccountSide, NEW x \in Addr
  PROVE  Len(s.heap[x]) \in Nat
<1>1. s.heap \in [Addr -> Seq(Acct)]
  BY DEF AccountSide
<1>2. s.heap[x] \in Seq(Acct)
  BY <1>1
<1>3. QED
  BY <1>2

(* Allocating an object moves no pointer, and the next pointer is good. *)
LEMMA AllocType ==
  ASSUME NEW s \in AccountSide, NEW a \in Addr, NEW acct \in Acct
  PROVE  LET t == Alloc(s, a, acct)
         IN  /\ t \in AccountSide
             /\ t.cache = s.cache /\ t.newbies = s.newbies /\ t.tree = s.tree
             /\ \A x \in Addr : Len(t.heap[x]) >= Len(s.heap[x])
             /\ At(t, a, NextPtr(s, a)) /\ NextPtr(s, a) \in Ptr
<1> DEFINE t == Alloc(s, a, acct)
           q == Append(s.heap[a], acct)
           h == [s.heap EXCEPT ![a] = q]
<1>1. s.heap \in [Addr -> Seq(Acct)] /\ s.heap[a] \in Seq(Acct)
  BY DEF AccountSide
<1>2. q \in Seq(Acct) /\ Len(q) = Len(s.heap[a]) + 1
  BY <1>1
<1>3. h \in [Addr -> Seq(Acct)] /\ h[a] = q /\ \A x \in Addr : x # a => h[x] = s.heap[x]
  BY <1>1, <1>2
<1>4. t = [s EXCEPT !.heap = h]
  BY DEF Alloc
<1>5. Len(s.heap[a]) \in Nat /\ \A x \in Addr : Len(h[x]) >= Len(s.heap[x])
  BY <1>1, <1>2, <1>3
<1> HIDE DEF h, t
<1>6. /\ t \in AccountSide /\ t.heap = h
      /\ t.cache = s.cache /\ t.newbies = s.newbies /\ t.tree = s.tree
  BY <1>3, <1>4, Zenon DEF AccountSide
<1>7. NextPtr(s, a) \in Ptr /\ At(t, a, NextPtr(s, a))
  BY <1>2, <1>3, <1>5, <1>6 DEF NextPtr, Ptr, At
<1>8. QED
  BY <1>5, <1>6, <1>7 DEF t

(* MutableLedger.Get never replaces an object; afterwards an address that  *)
(* the ledger knows has one.                                               *)
LEMMA FindAccountGood ==
  ASSUME NEW s, Good(s), NEW a \in Addr
  PROVE  LET t == FindAccount(s, a)
         IN  /\ Good(t) /\ Keeps(s, t) /\ t.tree = s.tree
             /\ Found(t, a) = Nil => s.tree[a] = NoAcct
             /\ Found(t, a) # Nil => Found(t, a) = Current(t, a)
<1>1. CASE s.cache[a] # Nil \/ s.tree[a] = NoAcct
  BY <1>1 DEF FindAccount, Keeps, Found, Current
<1>2. CASE ~(s.cache[a] # Nil \/ s.tree[a] = NoAcct)
  <2> DEFINE u == Alloc(s, a, s.tree[a])
             p == NextPtr(s, a)
             t == [u EXCEPT !.cache[a] = p]
  <2>1. s \in AccountSide /\ s.tree[a] \in Acct
    BY <1>2 DEF Good, AccountSide
  <2>2. /\ u \in AccountSide
        /\ u.cache = s.cache /\ u.newbies = s.newbies /\ u.tree = s.tree
        /\ \A x \in Addr : Len(u.heap[x]) >= Len(s.heap[x])
        /\ At(u, a, p) /\ p \in Ptr
    BY <2>1, AllocType
  <2>3. FindAccount(s, a) = t
    BY <1>2 DEF FindAccount
  <2> HIDE DEF u, p
  <2>4. /\ t \in AccountSide /\ t.heap = u.heap /\ t.newbies = s.newbies /\ t.tree = s.tree
        /\ t.cache = [s.cache EXCEPT ![a] = p]
    BY <2>2, Zenon DEF AccountSide
  <2> HIDE DEF t
  <2>5. s.newbies[a] = Nil /\ s.cache \in [Addr -> Ptr \cup {Nil}]
    BY <1>2 DEF Good, AccountSide
  <2>6. p # Nil
    BY <2>2, ExecAssumption
  <2>7. \A x \in Addr : Len(s.heap[x]) \in Nat /\ Len(u.heap[x]) \in Nat
    BY <2>1, <2>2, HeapLen, Zenon
  <2>8. \A x \in Addr : \A y : At(s, x, y) => At(t, x, y)
    BY <2>2, <2>4, <2>7 DEF At, Ptr
  <2>9. At(t, a, p)
    BY <2>2, <2>4 DEF At
  <2>10. Good(t)
    BY <2>4, <2>5, <2>8, <2>9 DEF Good
  <2>11. Keeps(s, t) /\ Found(t, a) = p /\ Current(t, a) = p
    BY <1>2, <2>4, <2>5, <2>6 DEF Keeps, Current, Found
  <2>12. QED
    BY <2>3, <2>4, <2>6, <2>10, <2>11
<1>3. QED
  BY <1>1, <1>2

(* The object of an address is allocated. *)
LEMMA PointsAt ==
  ASSUME NEW s, Good(s), NEW a, NEW p, Points(s, a, p)
  PROVE  At(s, a, p) /\ Deref(s, p) \in Acct
<1>1. At(s, a, p)
  BY DEF Good, Points, Current
<1>2. s.heap[a] \in Seq(Acct)
  BY DEF Good, AccountSide, Points
<1>3. QED
  BY <1>1, <1>2 DEF At, Deref

LEMMA SafeRefl == ASSUME NEW s, Good(s) PROVE Safe(s, s)
  BY DEF Safe, Keeps

LEMMA SafeTrans ==
  ASSUME NEW s, NEW t, NEW u, Safe(s, t), Safe(t, u)
  PROVE  Safe(s, u)
  BY DEF Safe, Keeps

LEMMA SafePoints ==
  ASSUME NEW s, NEW t, Safe(s, t), NEW a, NEW p, Points(s, a, p)
  PROVE  Points(t, a, p)
  BY DEF Safe, Keeps, Points

(* Assigning to the object of an address. *)
LEMMA WriteSafe ==
  ASSUME NEW s, Good(s), NEW a, NEW p, Points(s, a, p), NEW acct \in Acct
  PROVE  Safe(s, Write(s, p, acct))
  BY PointsAt, WriteGood DEF Safe, Keeps, Points

LEMMA ObjectOpsSafe ==
  ASSUME NEW s, Good(s), NEW a, NEW p, Points(s, a, p), NEW n \in Nat
  PROVE  /\ Safe(s, AddBalance(s, p, n)) /\ Safe(s, SubBalance(s, p, n))
         /\ Safe(s, AddNonce(s, p)) /\ Safe(s, SetDoc(s, p, n)) /\ Safe(s, SetCode(s, p))
<1> DEFINE o == Deref(s, p)
<1>1. o \in Acct
  BY PointsAt
<1> HIDE DEF o
<1>2. o.bal \in Int /\ o.nonce \in Nat
  BY <1>1 DEF Acct
<1>3. \A x \in Int : [o EXCEPT !.bal = x] \in Acct
  BY <1>1, Zenon DEF Acct
<1>4. \A x \in Nat : [o EXCEPT !.nonce = x] \in Acct
  BY <1>1, Zenon DEF Acct
<1>5. [o EXCEPT !.doc = n] \in Acct
  BY <1>1, Zenon DEF Acct
<1>6. [o EXCEPT !.code = TRUE, !.nonce = 1] \in Acct
  BY <1>1, 1 \in Nat, Zenon DEF Acct
<1>7. o.bal + n \in Int /\ o.bal - n \in Int /\ o.nonce + 1 \in Nat
  BY <1>2
<1>8. QED
  BY <1>3, <1>4, <1>5, <1>6, <1>7, WriteSafe
     DEF o, AddBalance, SubBalance, AddNonce, SetDoc, SetCode

(* SetAccount of the object of an address caches that object. *)
LEMMA SetAccountSafe ==
  ASSUME NEW s, Good(s), NEW a, NEW p, Points(s, a, p)
  PROVE  Safe(s, SetAccount(s, p))
<1> DEFINE t == SetAccount(s, p)
           o == Deref(s, p)
<1>1. At(s, a, p) /\ o \in Acct /\ a \in Addr /\ p # Nil /\ p \in Ptr
  BY PointsAt DEF At, Points
<1> HIDE DEF o
<1>2. t = [s EXCEPT !.tree = [s.tree EXCEPT ![a] = o], !.cache = [s.cache EXCEPT ![a] = p]]
  BY <1>1 DEF At, SetAccount, o
<1> HIDE DEF t
<1>3. s \in AccountSide
  BY DEF Good
<1>4. /\ t \in AccountSide /\ t.heap = s.heap /\ t.newbies = s.newbies
      /\ t.tree = [s.tree EXCEPT ![a] = o] /\ t.cache = [s.cache EXCEPT ![a] = p]
  BY <1>1, <1>2, <1>3, Zenon DEF AccountSide
<1>5. s.cache \in [Addr -> Ptr \cup {Nil}] /\ s.tree \in [Addr -> Acct \cup {NoAcct}]
  BY <1>3 DEF AccountSide
<1>6. \A x \in Addr : \A y : At(t, x, y) <=> At(s, x, y)
  BY <1>4 DEF At
<1>7. s.newbies[a] # Nil => s.newbies[a] = p
  BY <1>1 DEF Good, Points, Current
<1>8. Good(t)
  BY <1>1, <1>4, <1>5, <1>6, <1>7 DEF Good
<1>9. Keeps(s, t)
  BY <1>1, <1>4, <1>5 DEF Keeps, Points, Current
<1>10. QED
  BY <1>8, <1>9 DEF Safe, t

(* FindOrNewAccount hands out the object of the address, a new one only to *)
(* an address that had none.                                               *)
LEMMA FindOrNewAccountSafe ==
  ASSUME NEW s, Good(s), NEW a \in Addr
  PROVE  LET t == FindOrNewAccount(s, a)
         IN  Safe(s, t) /\ t.tree = s.tree /\ Points(t, a, Current(t, a))
<1> DEFINE t == FindAccount(s, a)
<1>1. /\ Good(t) /\ Keeps(s, t) /\ t.tree = s.tree
      /\ Found(t, a) = Nil => s.tree[a] = NoAcct
      /\ Found(t, a) # Nil => Found(t, a) = Current(t, a)
  BY FindAccountGood
<1>2. CASE Found(t, a) # Nil \/ t.newbies[a] # Nil
  <2>1. FindOrNewAccount(s, a) = t
    BY <1>2 DEF FindOrNewAccount
  <2> HIDE DEF t
  <2>2. QED
    BY <1>1, <1>2, <2>1 DEF Safe, Points, Found, Current
<1>3. CASE ~(Found(t, a) # Nil \/ t.newbies[a] # Nil)
  <2> DEFINE u == Alloc(t, a, NewAccount)
             p == NextPtr(t, a)
             v == [u EXCEPT !.newbies[a] = p]
  <2>1. FindOrNewAccount(s, a) = v
    BY <1>3 DEF FindOrNewAccount
  <2> HIDE DEF t
  <2>2. t \in AccountSide /\ NewAccount \in Acct
    BY <1>1 DEF Good, NewAccount, Acct
  <2>3. /\ u \in AccountSide
        /\ u.cache = t.cache /\ u.newbies = t.newbies /\ u.tree = t.tree
        /\ \A x \in Addr : Len(u.heap[x]) >= Len(t.heap[x])
        /\ At(u, a, p) /\ p \in Ptr
    BY <2>2, AllocType
  <2> HIDE DEF u, p
  <2>4. /\ v \in AccountSide /\ v.heap = u.heap /\ v.cache = t.cache /\ v.tree = t.tree
        /\ v.newbies = [t.newbies EXCEPT ![a] = p]
    BY <2>3, Zenon DEF AccountSide
  <2> HIDE DEF v
  <2>5. t.newbies \in [Addr -> Ptr \cup {Nil}]
    BY <2>2 DEF AccountSide
  <2>6. p # Nil
    BY <2>3, ExecAssumption
  <2>7. \A x \in Addr : Len(t.heap[x]) \in Nat /\ Len(u.heap[x]) \in Nat
    BY <2>2, <2>3, HeapLen, Zenon
  <2>8. \A x \in Addr : \A y : At(t, x, y) => At(v, x, y)
    BY <2>3, <2>4, <2>7 DEF At, Ptr
  <2>9. At(v, a, p)
    BY <2>3, <2>4 DEF At
  <2>10. t.cache[a] = Nil /\ t.newbies[a] = Nil /\ t.tree[a] = NoAcct
    BY <1>1, <1>3 DEF Found
  <2>11. Good(v)
    BY <1>1, <2>4, <2>5, <2>8, <2>9, <2>10 DEF Good
  <2>12. Keeps(t, v) /\ Points(v, a, Current(v, a))
    BY <2>4, <2>5, <2>6, <2>10 DEF Keeps, Current, Points
  <2>13. Keeps(s, v) /\ v.tree = s.tree
    BY <1>1, <2>4, <2>12 DEF Keeps
  <2>14. QED
    BY <2>1, <2>11, <2>12, <2>13 DEF Safe
<1>4. QED
  BY <1>2, <1>3

(* The gas pool and the moved coins are no part of the object maps. *)
LEMMA CountersSafe ==
  ASSUME NEW s, Good(s), NEW n \in Nat
  PROVE  /\ Safe(s, [s EXCEPT !.gas = @ - n])
         /\ Safe(s, [s EXCEPT !.moved = @ + n]) /\ Safe(s, [s EXCEPT !.moved = @ - n])
<1>1. s \in AccountSide /\ s.gas \in Int /\ s.moved \in Int
  BY DEF Good, AccountSide
<1>2. \A x \in Int : Safe(s, [s EXCEPT !.gas = x])
  <2> TAKE x \in Int
  <2> DEFINE t == [s EXCEPT !.gas = x]
  <2>1. /\ t \in AccountSide /\ t.heap = s.heap /\ t.cache = s.cache
        /\ t.newbies = s.newbies /\ t.tree = s.tree
    BY <1>1, Zenon DEF AccountSide
  <2> HIDE DEF t
  <2>2. QED
    BY <2>1 DEF Safe, Good, Keeps, At, Current, t
<1>3. \A x \in Int : Safe(s, [s EXCEPT !.moved = x])
  <2> TAKE x \in Int
  <2> DEFINE t == [s EXCEPT !.moved = x]
  <2>1. /\ t \in AccountSide /\ t.heap = s.heap /\ t.cache = s.cache
        /\ t.newbies = s.newbies /\ t.tree = s.tree
    BY <1>1, Zenon DEF AccountSide
  <2> HIDE DEF t
  <2>2. QED
    BY <2>1 DEF Safe, Good, Keeps, At, Current, t
<1>4. s.gas - n \in Int /\ s.moved + n \in Int /\ s.moved - n \in Int
  BY <1>1
<1>5. QED
  BY <1>2, <1>3, <1>4

-----------------------------------------------------------------------------
(* Handlers. *)

PayerOf(tx) == IF tx.payer = Nil THEN tx.from ELSE tx.payer

(* A context that holds the objects of its three addresses. *)
Linked(s, c) ==
  /\ c.tx \in Tx
  /\ Points(s, c.tx.from, c.sender) /\ Points(s, c.tx.to, c.receiver)
  /\ Points(s, PayerOf(c.tx), c.payer)

LEMMA LinkedSafe ==
  ASSUME NEW s, NEW t, Safe(s, t), NEW c, Linked(s, c)
  PROVE  Linked(t, c)
  BY SafePoints DEF Linked

LEMMA TxFields ==
  ASSUME NEW tx \in Tx
  PROVE  /\ tx.from \in Addr /\ tx.to \in Addr /\ PayerOf(tx) \in Addr
         /\ tx.amount \in Nat /\ tx.gas \in Nat /\ tx.price \in Nat /\ tx.arg \in Nat
         /\ tx.used \in Nat
  BY DEF Tx, PayerOf

LEMMA OutcomeFields ==
  ASSUME NEW s, NEW ok, NEW used
  PROVE  /\ Outcome(s, ok, used).s = s /\ Outcome(s, ok, used).ok = ok
         /\ Outcome(s, ok, used).used = used
  BY DEF Outcome

(* What a handler may do to the objects. *)
SafeOutcome(s, r) == Safe(s, r.s) /\ r.ok \in BOOLEAN /\ r.used \in Nat

LEMMA OutcomeSafe ==
  ASSUME NEW s, NEW t, Safe(s, t), NEW ok \in BOOLEAN, NEW used \in Nat
  PROVE  SafeOutcome(s, Outcome(t, ok, used))
  BY DEF SafeOutcome, Outcome

LEMMA executeAcctSafe ==
  ASSUME NEW s, Good(s), NEW c, Linked(s, c)
  PROVE  SafeOutcome(s, executeAcct(s, c))
<1> DEFINE t0 == SubBalance(s, c.sender, c.tx.amount)
           t1 == AddBalance(t0, c.receiver, c.tx.amount)
           t2 == SetDoc(s, c.sender, c.tx.arg)
           t  == IF c.tx.type = "transfer" THEN t1 ELSE t2
           u  == SetAccount(t, c.sender)
           v  == SetAccount(u, c.receiver)
<1>1. c.tx.amount \in Nat /\ c.tx.arg \in Nat
  BY TxFields DEF Linked
<1>2. Safe(s, t0) /\ Safe(s, t2) /\ Linked(t0, c)
  BY <1>1, ObjectOpsSafe, LinkedSafe DEF Linked
<1>3. Safe(t0, t1)
  BY <1>1, <1>2, ObjectOpsSafe DEF Linked, Safe
<1> HIDE DEF t0, t1, t2
<1>4. Safe(s, t) /\ Linked(t, c)
  BY <1>2, <1>3, SafeTrans, LinkedSafe
<1> HIDE DEF t
<1>5. Safe(t, u) /\ Linked(u, c)
  BY <1>4, SetAccountSafe, LinkedSafe DEF Linked, Safe
<1> HIDE DEF u
<1>6. Safe(u, v)
  BY <1>5, SetAccountSafe DEF Linked, Safe
<1> HIDE DEF v
<1>7. Safe(s, v) /\ Safe(s, s)
  BY <1>4, <1>5, <1>6, SafeTrans, SafeRefl
<1>8. executeAcct(s, c) \in {Outcome(s, FALSE, 0), Outcome(v, TRUE, 0)}
  BY DEF executeAcct, v, u, t, t0, t1, t2
<1>9. QED
  BY <1>7, <1>8, OutcomeSafe, Zenon

LEMMA executeStakingSafe ==
  ASSUME NEW s, Good(s), NEW c, Linked(s, c)
  PROVE  SafeOutcome(s, executeStaking(s, c))
<1> DEFINE t == SubBalance(s, c.sender, c.tx.amount)
           u == SetAccount(t, c.sender)
           v == [u EXCEPT !.moved = @ + c.tx.amount]
<1>1. c.tx.amount \in Nat
  BY TxFields DEF Linked
<1>2. Safe(s, t) /\ Linked(t, c)
  BY <1>1, ObjectOpsSafe, LinkedSafe DEF Linked
<1> HIDE DEF t
<1>3. Safe(t, u)
  BY <1>2, SetAccountSafe DEF Linked, Safe
<1> HIDE DEF u
<1>4. Safe(u, v)
  BY <1>1, <1>3, CountersSafe, Zenon DEF Safe
<1> HIDE DEF v
<1>5. Safe(s, v) /\ Safe(s, s)
  BY <1>2, <1>3, <1>4, SafeTrans, SafeRefl
<1>6. executeStaking(s, c) \in {Outcome(s, FALSE, 0), Outcome(v, TRUE, 0)}
  BY DEF executeStaking, v, u, t
<1>7. QED
  BY <1>5, <1>6, OutcomeSafe, Zenon

LEMMA executeWithdrawSafe ==
  ASSUME NEW s, Good(s), NEW c, Linked(s, c)
  PROVE  SafeOutcome(s, executeWithdraw(s, c))
<1> DEFINE t == FindAccount(s, c.tx.from)
           p == Found(t, c.tx.from)
           u == AddBalance(t, p, c.tx.arg)
           v == SetAccount(u, p)
           w == [v EXCEPT !.moved = @ - c.tx.arg]
<1>1. c.tx.arg \in Nat /\ c.tx.from \in Addr
  BY TxFields DEF Linked
<1>2. Safe(s, t) /\ (p # Nil => Points(t, c.tx.from, p))
  BY <1>1, FindAccountGood DEF Safe, Points
<1>3. Safe(s, s)
  BY SafeRefl
<1>4. CASE p = Nil
  <2>1. executeWithdraw(s, c) = Outcome(s, FALSE, 0)
    BY <1>4 DEF executeWithdraw
  <2>2. QED
    BY <1>3, <2>1, OutcomeSafe, Zenon
<1>5. CASE p # Nil
  <2>1. executeWithdraw(s, c) = Outcome(w, TRUE, 0)
    BY <1>5 DEF executeWithdraw
  <2> HIDE DEF t, p
  <2>2. Safe(t, u)
    BY <1>1, <1>2, <1>5, ObjectOpsSafe DEF Safe
  <2> HIDE DEF u
  <2>3. Safe(u, v)
    BY <1>2, <1>5, <2>2, SetAccountSafe, SafePoints DEF Safe
  <2> HIDE DEF v
  <2>4. Safe(v, w)
    BY <1>1, <2>3, CountersSafe, Zenon DEF Safe
  <2> HIDE DEF w
  <2>5. Safe(s, w)
    BY <1>2, <2>2, <2>3, <2>4, SafeTrans
  <2>6. QED
    BY <2>1, <2>5, OutcomeSafe, Zenon
<1>6. QED
  BY <1>4, <1>5

(* The wrapper of the EVM works on the objects of the accessed addresses. *)
LEMMA FinishSafe ==
  ASSUME NEW s, Good(s), NEW tx, tx \in Tx,
         Points(s, tx.from, Current(s, tx.from)),
         Points(s, Callee(tx), Current(s, Callee(tx))),
         Points(s, Proposer, Current(s, Proposer))
  PROVE  Safe(s, Finish(s, tx))
<1> DEFINE from == Current(s, tx.from)
           callee == Current(s, Callee(tx))
           coinbase == Current(s, Proposer)
           Has(t) == /\ Points(t, tx.from, from) /\ Points(t, Callee(tx), callee)
                     /\ Points(t, Proposer, coinbase)
           t0 == SubBalance(s, from, tx.amount)
           t1 == AddBalance(t0, callee, tx.amount)
           u == IF tx.to = ZeroAddress THEN SetCode(t1, callee) ELSE t1
           v == SetAccount(u, from)
           w == SetAccount(v, callee)
           z == SetAccount(w, coinbase)
<1>1. Finish(s, tx) = z
  BY DEF Finish
<1> HIDE DEF from, callee, coinbase
<1>2. Has(s)
  BY DEF from, callee, coinbase
<1>3. \A x, y : Has(x) /\ Safe(x, y) => Has(y)
  BY SafePoints
<1>4. tx.amount \in Nat
  BY TxFields
<1>5. Safe(s, t0) /\ Has(t0)
  BY <1>2, <1>3, <1>4, ObjectOpsSafe
<1> HIDE DEF t0
<1>6. Safe(t0, t1) /\ Has(t1)
  BY <1>3, <1>4, <1>5, ObjectOpsSafe, Zenon DEF Safe
<1> HIDE DEF t1
<1>7. Safe(t1, u) /\ Has(u)
  BY <1>3, <1>4, <1>6, ObjectOpsSafe, SafeRefl DEF Safe
<1> HIDE DEF u
<1>8. Safe(u, v) /\ Has(v)
  BY <1>3, <1>7, SetAccountSafe DEF Safe
<1> HIDE DEF v
<1>9. Safe(v, w) /\ Has(w)
  BY <1>3, <1>8, SetAccountSafe DEF Safe
<1> HIDE DEF w
<1>10. Safe(w, z)
  BY <1>9, SetAccountSafe DEF Safe
<1> HIDE DEF z
<1>11. QED
  BY <1>1, <1>5, <1>6, <1>7, <1>8, <1>9, <1>10, SafeTrans

LEMMA PointsKept ==
  ASSUME NEW s, NEW t, Safe(s, t), NEW a, Points(s, a, Current(s, a))
  PROVE  Points(t, a, Current(t, a))
  BY DEF Safe, Keeps, Points

LEMMA executeEVMSafe ==
  ASSUME NEW s, Good(s), NEW c, Linked(s, c)
  PROVE  SafeOutcome(s, executeEVM(s, c))
<1> DEFINE tx == c.tx
           i0 == FindOrNewAccount(s, tx.from)
           i  == Initiate(s, tx)
           t0 == FindOrNewAccount(i, Proposer)
           t  == LoadAccessed(i, tx)
           f  == Finish(t, tx)
           ok == [f EXCEPT !.gas = @ - tx.used]
           rv == [t EXCEPT !.gas = @ - tx.used]
           er == [i EXCEPT !.gas = @ - tx.gas]
<1>1. /\ tx \in Tx /\ tx.from \in Addr /\ tx.to \in Addr /\ tx.gas \in Nat /\ tx.used \in Nat
      /\ Callee(tx) \in Addr /\ Proposer \in Addr
  BY TxFields, ExecAssumption DEF Linked, Callee, Tx
<1>2. tx.evm \in {"ok", "revert", "error"}
  BY <1>1 DEF Tx
<1>3. executeEVM(s, c) \in {Outcome(ok, TRUE, tx.used), Outcome(rv, FALSE, tx.used),
                           Outcome(er, FALSE, 0)}
  BY <1>2, Zenon DEF executeEVM
<1>4. Safe(s, i0) /\ Points(i0, tx.from, Current(i0, tx.from))
  BY <1>1, FindOrNewAccountSafe
<1>5. i = i0 \/ i = FindOrNewAccount(i0, tx.to)
  BY DEF Initiate
<1> HIDE DEF i0, i
<1>6. Safe(i0, i)
  BY <1>1, <1>4, <1>5, FindOrNewAccountSafe, SafeRefl DEF Safe
<1>7. Safe(s, i) /\ Points(i, tx.from, Current(i, tx.from))
  BY <1>4, <1>6, SafeTrans, PointsKept
<1>8. Safe(i, t0) /\ Points(t0, Proposer, Current(t0, Proposer))
  BY <1>1, <1>7, FindOrNewAccountSafe DEF Safe
<1>9. t = FindOrNewAccount(t0, Callee(tx))
  BY DEF LoadAccessed
<1> HIDE DEF t0, t
<1>10. Safe(t0, t) /\ Points(t, Callee(tx), Current(t, Callee(tx)))
  BY <1>1, <1>8, <1>9, FindOrNewAccountSafe DEF Safe
<1>11. Safe(s, t) /\ Safe(i, t)
  BY <1>7, <1>8, <1>10, SafeTrans
<1>12. Points(t, tx.from, Current(t, tx.from)) /\ Points(t, Proposer, Current(t, Proposer))
  BY <1>7, <1>8, <1>10, <1>11, PointsKept
<1>13. Safe(t, f)
  BY <1>1, <1>10, <1>11, <1>12, FinishSafe DEF Safe
<1> HIDE DEF f
<1>14. Safe(f, ok) /\ Safe(t, rv) /\ Safe(i, er)
  BY <1>1, <1>7, <1>11, <1>13, CountersSafe, Zenon DEF Safe
<1> HIDE DEF ok, rv, er
<1>15. Safe(s, ok) /\ Safe(s, rv) /\ Safe(s, er)
  BY <1>7, <1>11, <1>13, <1>14, SafeTrans
<1>16. QED
  BY <1>1, <1>3, <1>15, OutcomeSafe, Zenon

LEMMA executeSafe ==
  ASSUME NEW s, Good(s), NEW c, Linked(s, c)
  PROVE  SafeOutcome(s, execute(s, c))
<1>1. c.tx.runs \in BOOLEAN
  BY DEF Linked, Tx
<1>2. SafeOutcome(s, executeElsewhere(s, c))
  BY <1>1, SafeRefl, OutcomeSafe DEF executeElsewhere
<1>3. execute(s, c) \in {executeEVM(s, c), executeStaking(s, c), executeWithdraw(s, c),
                        executeElsewhere(s, c), executeAcct(s, c)}
  BY DEF execute
<1>4. QED
  BY <1>2, <1>3, executeEVMSafe, executeStakingSafe, executeWithdrawSafe, executeAcctSafe

LEMMA postRunTrxSafe ==
  ASSUME NEW s, NEW r, SafeOutcome(s, r), NEW c, Linked(s, c)
  PROVE  SafeOutcome(s, postRunTrx(r, c))
<1> DEFINE evm  == IsHandledByEVM(r.s, c)
           used == IF evm THEN r.used ELSE c.tx.gas
           s1   == IF evm \/ r.s.gas < c.tx.gas THEN r.s ELSE [r.s EXCEPT !.gas = @ - c.tx.gas]
           fee  == used * c.tx.price
           u0   == SubBalance(s1, c.payer, fee)
           u1   == AddNonce(u0, c.sender)
           s2   == SetAccount(u1, c.sender)
           s3   == SetAccount(s2, c.payer)
<1>1. c.tx.gas \in Nat /\ c.tx.price \in Nat
  BY TxFields DEF Linked
<1>2. used \in Nat
  BY <1>1 DEF SafeOutcome
<1>3. postRunTrx(r, c) \in {Outcome(s1, r.ok, used), Outcome(s2, r.ok, used),
                           Outcome(s3, r.ok, used)}
  BY DEF postRunTrx
<1>4. Safe(r.s, s1)
  BY <1>1, CountersSafe, SafeRefl, Zenon DEF SafeOutcome, Safe
<1> HIDE DEF used, s1
<1>5. fee \in Nat
  BY <1>1, <1>2
<1>6. Safe(s, s1) /\ Linked(s1, c)
  BY <1>4, SafeTrans, LinkedSafe DEF SafeOutcome
<1> HIDE DEF fee
<1>7. Safe(s1, u0) /\ Linked(u0, c)
  BY <1>5, <1>6, ObjectOpsSafe, LinkedSafe DEF Linked, Safe
<1> HIDE DEF u0
<1>8. Safe(u0, u1) /\ Linked(u1, c)
  BY <1>5, <1>7, ObjectOpsSafe, LinkedSafe DEF Linked, Safe
<1> HIDE DEF u1
<1>9. Safe(u1, s2) /\ Linked(s2, c)
  BY <1>8, SetAccountSafe, LinkedSafe DEF Linked, Safe
<1> HIDE DEF s2
<1>10. Safe(s2, s3)
  BY <1>9, SetAccountSafe DEF Linked, Safe
<1> HIDE DEF s3
<1>11. Safe(s, s2) /\ Safe(s, s3)
  BY <1>6, <1>7, <1>8, <1>9, <1>10, SafeTrans
<1>12. r.ok \in BOOLEAN
  BY DEF SafeOutcome
<1>13. QED
  BY <1>2, <1>3, <1>6, <1>11, <1>12, OutcomeSafe

(* Executing a transaction never replaces the object of an address, so a   *)
(* context prepared before it still holds the right objects.               *)
THEOREM ExecuteSyncSafe ==
  ASSUME NEW s, Good(s), NEW c, Linked(s, c)
  PROVE  SafeOutcome(s, ExecuteSync(s, c))
<1>1. SafeOutcome(s, runTrx(s, c))
  BY executeSafe, postRunTrxSafe DEF runTrx
<1>2. SafeOutcome(s, Outcome(s, FALSE, 0))
  BY SafeRefl, OutcomeSafe, Zenon
<1>3. QED
  BY <1>1, <1>2, Zenon DEF ExecuteSync

-----------------------------------------------------------------------------
(* The fee split of EndBlock, which works by address and may give an       *)
(* address a second object: only the types and the cache stay.             *)
GoodCache(s) ==
  s \in AccountSide /\ \A a \in Addr : s.cache[a] # Nil => At(s, a, s.cache[a])

LEMMA FindAccountCache ==
  ASSUME NEW s, GoodCache(s), NEW a \in Addr
  PROVE  GoodCache(FindAccount(s, a))
<1>1. CASE s.cache[a] # Nil \/ s.tree[a] = NoAcct
  BY <1>1 DEF FindAccount
<1>2. CASE ~(s.cache[a] # Nil \/ s.tree[a] = NoAcct)
  <2> DEFINE u == Alloc(s, a, s.tree[a])
             p == NextPtr(s, a)
             t == [u EXCEPT !.cache[a] = p]
  <2>1. s \in AccountSide /\ s.tree[a] \in Acct
    BY <1>2 DEF GoodCache, AccountSide
  <2>2. /\ u \in AccountSide /\ u.cache = s.cache
        /\ \A x \in Addr : Len(u.heap[x]) >= Len(s.heap[x])
        /\ At(u, a, p) /\ p \in Ptr
    BY <2>1, AllocType
  <2>3. FindAccount(s, a) = t
    BY <1>2 DEF FindAccount
  <2> HIDE DEF u, p
  <2>4. /\ t \in AccountSide /\ t.heap = u.heap
        /\ t.cache = [s.cache EXCEPT ![a] = p]
    BY <2>2, Zenon DEF AccountSide
  <2> HIDE DEF t
  <2>5. s.cache \in [Addr -> Ptr \cup {Nil}]
    BY <2>1 DEF AccountSide
  <2>6. \A x \in Addr : Len(s.heap[x]) \in Nat /\ Len(u.heap[x]) \in Nat
    BY <2>1, <2>2, HeapLen, Zenon
  <2>7. \A x \in Addr : \A y : At(s, x, y) => At(t, x, y)
    BY <2>2, <2>4, <2>6 DEF At, Ptr
  <2>8. At(t, a, p)
    BY <2>2, <2>4 DEF At
  <2>9. QED
    BY <2>3, <2>4, <2>5, <2>7, <2>8 DEF GoodCache
<1>3. QED
  BY <1>1, <1>2

LEMMA AddBalanceAtCache ==
  ASSUME NEW s, GoodCache(s), NEW a \in Addr, NEW n \in Int
  PROVE  GoodCache(AddBalanceAt(s, a, n))
<1> DEFINE t == FindAccount(s, a)
           p == IF Found(t, a) # Nil THEN Found(t, a) ELSE NextPtr(t, a)
           u == IF Found(t, a) # Nil THEN t ELSE Alloc(t, a, NewAccount)
           o == [Deref(u, p) EXCEPT !.bal = @ + n]
           v == Write(u, p, o)
           w == SetAccount(v, p)
<1>1. AddBalanceAt(s, a, n) = w
  BY DEF AddBalanceAt, AddBalance
<1>2. GoodCache(t)
  BY FindAccountCache
<1> HIDE DEF t
<1>3. GoodCache(u) /\ At(u, a, p)
  <2>1. CASE Found(t, a) # Nil
    BY <1>2, <2>1 DEF GoodCache, Found
  <2>2. CASE Found(t, a) = Nil
    <3>1. t \in AccountSide /\ NewAccount \in Acct
      BY <1>2 DEF GoodCache, NewAccount, Acct
    <3>2. u = Alloc(t, a, NewAccount) /\ p = NextPtr(t, a)
      BY <2>2
    <3> HIDE DEF u, p
    <3>3. /\ u \in AccountSide /\ u.cache = t.cache
          /\ \A x \in Addr : Len(u.heap[x]) >= Len(t.heap[x])
          /\ At(u, a, p)
      BY <3>1, <3>2, AllocType
    <3>4. \A x \in Addr : Len(t.heap[x]) \in Nat /\ Len(u.heap[x]) \in Nat
      BY <3>1, <3>3, HeapLen, Zenon
    <3>5. \A x \in Addr : \A y : At(t, x, y) => At(u, x, y)
      BY <3>3, <3>4 DEF At, Ptr
    <3>6. QED
      BY <1>2, <3>3, <3>5 DEF GoodCache
  <2>3. QED
    BY <2>1, <2>2
<1> HIDE DEF p, u
<1>4. u \in AccountSide /\ p \in Ptr /\ p[1] = a
  BY <1>3 DEF GoodCache, At
<1>5. Deref(u, p) \in Acct
  <2>1. u.heap[a] \in Seq(Acct)
    BY <1>4 DEF AccountSide
  <2>2. QED
    BY <1>3, <2>1 DEF At, Deref
<1>6. o \in Acct
  <2> DEFINE d == Deref(u, p)
  <2>1. d.bal \in Int
    BY <1>5 DEF Acct
  <2>2. d.bal + n \in Int
    BY <2>1
  <2>3. \A x \in Int : [d EXCEPT !.bal = x] \in Acct
    BY <1>5, Zenon DEF Acct
  <2>4. QED
    BY <2>2, <2>3
<1> HIDE DEF o
<1>7. /\ v \in AccountSide /\ v.cache = u.cache
      /\ \A x \in Addr : Len(v.heap[x]) = Len(u.heap[x])
  BY <1>3, <1>4, <1>6, WriteType
<1> HIDE DEF v
<1>8. At(v, a, p) /\ \A x \in Addr : \A y : At(u, x, y) => At(v, x, y)
  BY <1>3, <1>7 DEF At
<1>9. Deref(v, p) \in Acct
  <2>1. v.heap[a] \in Seq(Acct)
    BY <1>7 DEF AccountSide
  <2>2. QED
    BY <1>8, <2>1 DEF At, Deref
<1>10. w = [v EXCEPT !.tree = [v.tree EXCEPT ![a] = Deref(v, p)],
                    !.cache = [v.cache EXCEPT ![a] = p]]
  BY <1>4 DEF SetAccount
<1> HIDE DEF w
<1>11. w \in AccountSide /\ w.heap = v.heap /\ w.cache = [v.cache EXCEPT ![a] = p]
  BY <1>4, <1>7, <1>9, <1>10, Zenon DEF AccountSide
<1>12. v.cache \in [Addr -> Ptr \cup {Nil}]
  BY <1>7 DEF AccountSide
<1>13. \A x \in Addr : \A y : At(v, x, y) => At(w, x, y)
  BY <1>11 DEF At
<1>14. GoodCache(w)
  BY <1>3, <1>7, <1>8, <1>11, <1>12, <1>13 DEF GoodCache
<1>15. QED
  BY <1>1, <1>14

-----------------------------------------------------------------------------
(* S has n elements if the numbers from 1 to n can be given to them, each  *)
(* to one.                                                                 *)
Numbering(S, n, f) ==
  /\ f \in [S -> 1 .. n]
  /\ \A x, y \in S : f[x] = f[y] => x = y
  /\ \A k \in 1 .. n : \E x \in S : f[x] = k
Numbered(S, n) == \E f : Numbering(S, n, f)

LEMMA NumberedAdd ==
  ASSUME NEW S, NEW n \in Nat, Numbered(S, n), NEW x, x \notin S
  PROVE  Numbered(S \cup {x}, n + 1)
<1>1. PICK f : Numbering(S, n, f)
  BY DEF Numbered
<1> DEFINE g == [y \in S \cup {x} |-> IF y = x THEN n + 1 ELSE f[y]]
<1>2. g \in [S \cup {x} -> 1 .. n + 1]
  BY <1>1 DEF Numbering
<1>3. \A y, z \in S \cup {x} : g[y] = g[z] => y = z
  BY <1>1 DEF Numbering
<1>4. ASSUME NEW k \in 1 .. n + 1 PROVE \E y \in S \cup {x} : g[y] = k
  <2>1. CASE k = n + 1
    BY <2>1
  <2>2. CASE k # n + 1
    <3>1. PICK y \in S : f[y] = k
      BY <1>1, <2>2 DEF Numbering
    <3>2. g[y] = k
      BY <3>1
    <3>3. QED
      BY <3>2
  <2>3. QED
    BY <2>1, <2>2
<1> HIDE DEF g
<1>5. QED
  BY <1>2, <1>3, <1>4, Zenon DEF Numbered, Numbering

LEMMA NumberedRemove ==
  ASSUME NEW S, NEW n \in Nat, Numbered(S, n), NEW x \in S
  PROVE  n - 1 \in Nat /\ Numbered(S \ {x}, n - 1)
<1>1. PICK f : Numbering(S, n, f)
  BY DEF Numbered
<1> DEFINE g == [y \in S \ {x} |-> IF f[y] = n THEN f[x] ELSE f[y]]
<1>2. n - 1 \in Nat
  BY <1>1 DEF Numbering
<1>3. \A y \in S \ {x} : g[y] \in 1 .. n - 1
  BY <1>1 DEF Numbering
<1>4. g \in [S \ {x} -> 1 .. n - 1]
  BY <1>3
<1>5. \A y, z \in S \ {x} : g[y] = g[z] => y = z
  BY <1>1 DEF Numbering
<1>6. ASSUME NEW k \in 1 .. n - 1 PROVE \E y \in S \ {x} : g[y] = k
  <2>1. n \in 1 .. n /\ k \in 1 .. n /\ k # n
    BY <1>2
  <2>2. PICK y \in S, z \in S : f[y] = k /\ f[z] = n
    BY <1>1, <2>1 DEF Numbering
  <2>3. CASE y # x
    <3>1. g[y] = k
      BY <2>1, <2>2, <2>3
    <3>2. QED
      BY <2>3, <3>1
  <2>4. CASE y = x
    <3>1. z # x /\ g[z] = k
      BY <2>1, <2>2, <2>4
    <3>2. QED
      BY <3>1
  <2>5. QED
    BY <2>3, <2>4
<1> HIDE DEF g
<1>7. QED
  BY <1>2, <1>4, <1>5, <1>6, Zenon DEF Numbered, Numbering

LEMMA NumberedEmpty ==
  ASSUME NEW S
  PROVE  Numbered({}, 0) /\ (Numbered(S, 0) => S = {})
<1>1. Numbering({}, 0, [y \in {} |-> 1])
  BY DEF Numbering
<1>2. Numbered({}, 0)
  BY <1>1, Zenon DEF Numbered
<1>3. Numbered(S, 0) => S = {}
  BY DEF Numbered, Numbering
<1>4. QED
  BY <1>2, <1>3

LEMMA NumberedMore ==
  ASSUME NEW S, NEW n \in Nat, Numbered(S, n), n # 0
  PROVE  S # {}
<1>1. 1 \in 1 .. n
  OBVIOUS
<1>2. QED
  BY <1>1 DEF Numbered, Numbering
=============================================================================
