----------------------------- MODULE TallyProofs ----------------------------
(***************************************************************************)
(* Facts on finite sums, SumFunctionOnSet of the community modules, and on *)
(* the tally of a proposal: votes, slashing and the decision keep it, for  *)
(* all voters, powers, options and slash rates.                            *)
(*                                                                         *)
(* Induction is stated with a set in the place of a predicate: the set has *)
(* all subsets of a finite set when it has every one from which any        *)
(* element can be taken and what remains is in it.                         *)
(***************************************************************************)
EXTENDS GovProposal, WellFoundedInduction, TLAPS

(* One of any natural numbers is the least. *)
LEMMA Least ==
  ASSUME NEW S \in SUBSET Nat, S # {}
  PROVE  \E x \in S : \A y \in S : x <= y
<1>1. PICK x \in S : \A y \in S : ~ (<<y, x>> \in OpToRel(<, Nat))
  BY WFMin, NatLessThanWellFounded, Zenon
<1>2. \A y \in S : x \in Nat /\ y \in Nat /\ ~ y < x
  BY <1>1, Zenon DEF OpToRel
<1>3. \A y \in S : x <= y
  BY <1>2
<1> QED
  BY <1>3, Zenon

(* A set of natural numbers with 0 and every successor has all. *)
LEMMA NatInduct ==
  ASSUME NEW P, 0 \in P, \A n \in Nat : n \in P => n + 1 \in P
  PROVE  Nat \subseteq P
<1> SUFFICES ASSUME NEW m \in Nat, m \notin P PROVE FALSE
  OBVIOUS
<1> DEFINE T == {n \in Nat : n \notin P}
<1>1. PICK x \in T : \A y \in T : x <= y
  BY Least, Zenon
<1>2. x # 0 /\ x \in Nat /\ x \notin P
  OBVIOUS
<1>3. x - 1 \in Nat /\ ~ x <= x - 1 /\ x - 1 + 1 = x
  BY <1>2
<1>4. x - 1 \in P
  BY <1>1, <1>3
<1> QED
  BY <1>2, <1>3, <1>4

-----------------------------------------------------------------------------
(* Induction over finite sets. *)

(* The subsets of S that can be listed in n places. *)
Listed(S, n) ==
  {s \in SUBSET S : \E m \in 0 .. n : \E e \in [1 .. m -> S] : s \subseteq {e[i] : i \in 1 .. m}}

(* Every subset of a finite set is listed in some number of places, and    *)
(* takes one less without an element.                                      *)
LEMMA AllListed ==
  ASSUME NEW S, IsFiniteSet(S)
  PROVE  /\ \A n : Listed(S, n) \subseteq SUBSET S
         /\ \A s \in Listed(S, 0) : s = {}
         /\ \A n \in Nat : Listed(S, n) \subseteq Listed(S, n + 1)
         /\ \A n \in Nat : \A s \in Listed(S, n + 1) : \A x \in s : s \ {x} \in Listed(S, n)
         /\ \E n \in Nat : SUBSET S = Listed(S, n)
<1>ListedNone. ASSUME NEW s \in Listed(S, 0)
               PROVE  s = {}
  BY <1>ListedNone DEF Listed
<1>ListedMore. ASSUME NEW n \in Nat
               PROVE  Listed(S, n) \subseteq Listed(S, n + 1)
  <2> USE <1>ListedMore
  <2>1. 0 .. n \subseteq 0 .. n + 1
    OBVIOUS
  <2> QED
    BY <2>1 DEF Listed
<1>ListedLess. ASSUME NEW n \in Nat, NEW s \in Listed(S, n + 1), NEW x \in s
               PROVE  s \ {x} \in Listed(S, n)
  <2> USE <1>ListedLess
  <2>1. PICK m \in 0 .. n + 1 : \E e \in [1 .. m -> S] : s \subseteq {e[i] : i \in 1 .. m}
    BY DEF Listed
  <2>2. PICK e \in [1 .. m -> S] : s \subseteq {e[i] : i \in 1 .. m}
    BY <2>1
  <2>3. PICK k \in 1 .. m : e[k] = x
    BY <2>2
  <2> DEFINE d == [i \in 1 .. m - 1 |-> IF i = k THEN e[m] ELSE e[i]]
  <2>4. m - 1 \in 0 .. n /\ d \in [1 .. m - 1 -> S]
    BY <2>3
  <2>5. s \ {x} \subseteq {d[i] : i \in 1 .. m - 1}
    <3> SUFFICES ASSUME NEW y \in s, y # x PROVE \E i \in 1 .. m - 1 : d[i] = y
      OBVIOUS
    <3>1. PICK j \in 1 .. m : e[j] = y
      BY <2>2
    <3>2. CASE j = m
      <4>1. k \in 1 .. m - 1 /\ d[k] = y
        BY <2>3, <3>1, <3>2
      <4> QED BY <4>1
    <3>3. CASE j # m
      <4>1. j \in 1 .. m - 1 /\ d[j] = y
        BY <2>3, <3>1, <3>3
      <4> QED BY <4>1
    <3> QED
      BY <3>2, <3>3
  <2>6. s \ {x} \in SUBSET S
    BY DEF Listed
  <2> HIDE DEF d
  <2> QED
    BY <2>4, <2>5, <2>6, Zenon DEF Listed
<1>ListedAll. \E n \in Nat : SUBSET S = Listed(S, n)
  <2>1. PICK q \in Seq(S) : \A s \in S : \E n \in 1 .. Len(q) : q[n] = s
    BY DEF IsFiniteSet
  <2>2. Len(q) \in Nat /\ q \in [1 .. Len(q) -> S] /\ Len(q) \in 0 .. Len(q)
    OBVIOUS
  <2>3. S \subseteq {q[i] : i \in 1 .. Len(q)}
    BY <2>1
  <2>4. SUBSET S = Listed(S, Len(q))
    BY <2>2, <2>3 DEF Listed
  <2> QED
    BY <2>2, <2>4
<1>1. \A n : Listed(S, n) \subseteq SUBSET S
  BY DEF Listed
<1> QED
  BY <1>1, <1>ListedNone, <1>ListedMore, <1>ListedLess, <1>ListedAll, Zenon

LEMMA FiniteInduct ==
  ASSUME NEW S, IsFiniteSet(S), NEW P,
         \A T \in SUBSET S : (\A x \in T : T \ {x} \in P) => T \in P
  PROVE  SUBSET S \subseteq P
<1> DEFINE Q == {n \in Nat : Listed(S, n) \subseteq P}
<1>1. \A n : Listed(S, n) \subseteq SUBSET S
  BY AllListed
<1>2. 0 \in Q
  BY <1>1, AllListed
<1>3. ASSUME NEW n \in Nat, n \in Q PROVE n + 1 \in Q
  BY <1>1, <1>3, AllListed
<1> HIDE DEF Q
<1>4. Nat \subseteq Q
  BY <1>2, <1>3, NatInduct
<1> QED
  BY <1>4, AllListed DEF Q

(* A subset of a finite set is finite. *)
LEMMA FiniteSubset ==
  ASSUME NEW S, IsFiniteSet(S), NEW T \in SUBSET S
  PROVE  IsFiniteSet(T)
<1>1. PICK q \in Seq(S) : \A s \in S : \E n \in 1 .. Len(q) : q[n] = s
  BY DEF IsFiniteSet
<1>2. CASE T = {}
  <2>1. <<>> \in Seq(T) /\ Len(<<>>) = 0
    OBVIOUS
  <2> QED
    BY <1>2, <2>1, Zenon DEF IsFiniteSet
<1>3. CASE T # {}
  <2>1. PICK t \in T : TRUE
    BY <1>3
  <2> DEFINE d == [i \in 1 .. Len(q) |-> IF q[i] \in T THEN q[i] ELSE t]
  <2>2. d \in Seq(T) /\ Len(d) = Len(q)
    BY <2>1
  <2>3. ASSUME NEW s \in T PROVE \E n \in 1 .. Len(d) : d[n] = s
    <3>1. PICK n \in 1 .. Len(q) : q[n] = s
      BY <1>1
    <3>2. d[n] = s
      BY <3>1
    <3> HIDE DEF d
    <3> QED
      BY <2>2, <3>2, Zenon
  <2> HIDE DEF d
  <2> QED
    BY <2>2, <2>3 DEF IsFiniteSet
<1> QED
  BY <1>2, <1>3

LEMMA FiniteInterval ==
  ASSUME NEW n \in Nat
  PROVE  IsFiniteSet(1 .. n)
<1> DEFINE q == [i \in 1 .. n |-> i]
<1>1. q \in Seq(1 .. n) /\ \A s \in 1 .. n : \E i \in 1 .. Len(q) : q[i] = s
  OBVIOUS
<1> QED
  BY <1>1, Zenon DEF IsFiniteSet

-----------------------------------------------------------------------------
(* The library's sum takes the elements in an order of its own. *)

Any(s) == CHOOSE x \in s : TRUE
SumWith(f, g, s) == IF s = {} THEN 0 ELSE f[Any(s)] + g[s \ {Any(s)}]
IsSum(g, f, S) == g = [s \in SUBSET S |-> SumWith(f, g, s)]

LEMMA SumRec ==
  ASSUME NEW f, NEW U, IsFiniteSet(U)
  PROVE  SumFunctionOnSet(f, U)
           = IF U = {} THEN 0 ELSE f[Any(U)] + SumFunctionOnSet(f, U \ {Any(U)})
<1>SumDefined. ASSUME NEW S, IsFiniteSet(S)
               PROVE  \E g : IsSum(g, f, S)
  <2> USE <1>SumDefined
  <2> DEFINE Q == {n \in Nat : \E g : g = [s \in Listed(S, n) |-> SumWith(f, g, s)]}
  <2>1. 0 \in Q
    <3> DEFINE g == [s \in Listed(S, 0) |-> 0]
    <3>1. g = [s \in Listed(S, 0) |-> SumWith(f, g, s)]
      BY AllListed DEF SumWith
    <3> HIDE DEF g
    <3> QED
      BY <3>1
  <2>2. ASSUME NEW n \in Nat, n \in Q PROVE n + 1 \in Q
    <3>1. PICK g : g = [s \in Listed(S, n) |-> SumWith(f, g, s)]
      BY <2>2
    <3> DEFINE h == [s \in Listed(S, n + 1) |-> SumWith(f, g, s)]
    <3>2. \A s \in Listed(S, n) : g[s] = SumWith(f, g, s)
      BY <3>1, Zenon
    <3>3. \A s \in Listed(S, n) : h[s] = g[s]
      BY <3>2, AllListed
    <3>4. \A s \in Listed(S, n + 1) : s # {} => s \ {Any(s)} \in Listed(S, n)
      BY AllListed, Zenon DEF Any
    <3>5. \A s \in Listed(S, n + 1) : SumWith(f, g, s) = SumWith(f, h, s)
      BY <3>3, <3>4, Zenon DEF SumWith
    <3>6. h = [s \in Listed(S, n + 1) |-> SumWith(f, h, s)]
      BY <3>5
    <3>7. n + 1 \in Nat
      OBVIOUS
    <3> HIDE DEF h
    <3> QED
      BY <3>6, <3>7, Zenon
  <2> HIDE DEF Q
  <2>3. Nat \subseteq Q
    BY <2>1, <2>2, NatInduct
  <2>4. PICK n \in Nat : SUBSET S = Listed(S, n)
    BY AllListed
  <2> QED
    BY <2>3, <2>4, Zenon DEF Q, IsSum
<1>SumIs. ASSUME NEW S, IsFiniteSet(S)
          PROVE  \E g : IsSum(g, f, S) /\ SumFunctionOnSet(f, S) = g[S]
  <2> USE <1>SumIs
  <2> DEFINE it == CHOOSE g : IsSum(g, f, S)
  <2>1. SumFunctionOnSet(f, S) = it[S]
    BY DEF SumFunctionOnSet, FoldFunctionOnSet, MapThenFoldSet, Any, SumWith, IsSum
  <2>2. IsSum(it, f, S)
    BY <1>SumDefined, Zenon
  <2> QED
    BY <2>1, <2>2, Zenon
(* The sum over S is what is computed for S on the way to a larger set. *)
<1>SumAgree. ASSUME NEW S, IsFiniteSet(S), NEW T \in SUBSET S,
                    NEW g, IsSum(g, f, S), NEW h, IsSum(h, f, T)
             PROVE  g[T] = h[T]
  <2> USE <1>SumAgree
  <2> DEFINE P == {s \in SUBSET T : g[s] = h[s]}
  <2>1. ASSUME NEW s \in SUBSET T, \A x \in s : s \ {x} \in P PROVE s \in P
    <3>1. g[s] = SumWith(f, g, s) /\ h[s] = SumWith(f, h, s)
      BY DEF IsSum
    <3>2. s # {} => s \ {Any(s)} \in P
      BY <2>1, Zenon DEF Any
    <3> QED
      BY <3>1, <3>2 DEF SumWith
  <2> HIDE DEF P
  <2>2. SUBSET T \subseteq P
    BY <2>1, FiniteInduct, FiniteSubset, Zenon
  <2> QED
    BY <2>2 DEF P
<1>1. PICK g : IsSum(g, f, U) /\ SumFunctionOnSet(f, U) = g[U]
  BY <1>SumIs
<1> DEFINE T == U \ {Any(U)}
<1>2. T \in SUBSET U /\ IsFiniteSet(T)
  BY FiniteSubset, Zenon
<1> HIDE DEF T
<1>3. PICK h : IsSum(h, f, T) /\ SumFunctionOnSet(f, T) = h[T]
  BY <1>2, <1>SumIs, Zenon
<1>4. g[T] = h[T]
  BY <1>1, <1>2, <1>3, <1>SumAgree
<1>5. g[U] = SumWith(f, g, U)
  BY <1>1 DEF IsSum
<1> QED
  BY <1>1, <1>3, <1>4, <1>5 DEF SumWith, T

-----------------------------------------------------------------------------
(* What a sum over a finite set is, and how it changes. *)

LEMMA SumNone == \A f : SumFunctionOnSet(f, {}) = 0
<1>1. <<>> \in Seq({}) /\ Len(<<>>) = 0
  OBVIOUS
<1>2. IsFiniteSet({})
  BY <1>1, Zenon DEF IsFiniteSet
<1> QED
  BY <1>2, SumRec

IntOn(f, S) == \A x \in S : f[x] \in Int
NatOn(f, S) == \A x \in S : f[x] \in Nat
SameOn(f, g, S) == \A x \in S : g[x] = f[x]
SameBut(f, g, S, y) == \A x \in S \ {y} : g[x] = f[x]

LEMMA SumInt ==
  ASSUME NEW f, NEW S, IsFiniteSet(S), IntOn(f, S)
  PROVE  SumFunctionOnSet(f, S) \in Int
<1> DEFINE P == {T \in SUBSET S : SumFunctionOnSet(f, T) \in Int}
<1>1. ASSUME NEW T \in SUBSET S, \A x \in T : T \ {x} \in P PROVE T \in P
  <2>1. IsFiniteSet(T)
    BY FiniteSubset
  <2>2. T # {} => Any(T) \in T /\ T \ {Any(T)} \in P
    BY <1>1, Zenon DEF Any
  <2>3. SumFunctionOnSet(f, T)
          = IF T = {} THEN 0 ELSE f[Any(T)] + SumFunctionOnSet(f, T \ {Any(T)})
    BY <2>1, SumRec, Zenon
  <2> QED
    BY <2>2, <2>3 DEF IntOn
<1> HIDE DEF P
<1>2. SUBSET S \subseteq P
  BY <1>1, FiniteInduct, Zenon
<1> QED
  BY <1>2 DEF P

LEMMA SumNat ==
  ASSUME NEW f, NEW S, IsFiniteSet(S), NatOn(f, S)
  PROVE  SumFunctionOnSet(f, S) \in Nat
<1> DEFINE P == {T \in SUBSET S : SumFunctionOnSet(f, T) \in Nat}
<1>1. ASSUME NEW T \in SUBSET S, \A x \in T : T \ {x} \in P PROVE T \in P
  <2>1. IsFiniteSet(T)
    BY FiniteSubset
  <2>2. T # {} => Any(T) \in T /\ T \ {Any(T)} \in P
    BY <1>1, Zenon DEF Any
  <2>3. SumFunctionOnSet(f, T)
          = IF T = {} THEN 0 ELSE f[Any(T)] + SumFunctionOnSet(f, T \ {Any(T)})
    BY <2>1, SumRec, Zenon
  <2> QED
    BY <2>2, <2>3 DEF NatOn
<1> HIDE DEF P
<1>2. SUBSET S \subseteq P
  BY <1>1, FiniteInduct, Zenon
<1> QED
  BY <1>2 DEF P

(* Any element can be taken first. *)
LEMMA SumRemove ==
  ASSUME NEW f, NEW S, IsFiniteSet(S), IntOn(f, S), NEW y \in S
  PROVE  SumFunctionOnSet(f, S) = f[y] + SumFunctionOnSet(f, S \ {y})
<1> DEFINE Sum(T) == SumFunctionOnSet(f, T)
           P == {T \in SUBSET S : \A x \in T : Sum(T) = f[x] + Sum(T \ {x})}
<1>1. ASSUME NEW T \in SUBSET S, \A x \in T : T \ {x} \in P PROVE T \in P
  <2> SUFFICES ASSUME NEW x \in T PROVE Sum(T) = f[x] + Sum(T \ {x})
    BY DEF P
  <2> DEFINE a == Any(T)
             fa == f[a]
             fx == f[x]
             all == Sum(T)
             noA == Sum(T \ {a})
             noX == Sum(T \ {x})
             rest == Sum((T \ {a}) \ {x})
  <2>1. a \in T
    BY Zenon DEF Any
  <2>2. IsFiniteSet(T) /\ IsFiniteSet((T \ {a}) \ {x})
    BY FiniteSubset, Zenon
  <2>3. all = fa + noA
    BY <2>1, <2>2, SumRec
  <2>4. CASE x # a
    <3>1. noA = fx + rest
      BY <1>1, <2>1, <2>4
    <3>2. (T \ {a}) \ {x} = (T \ {x}) \ {a}
      BY Zenon
    <3>3. noX = fa + rest
      BY <1>1, <2>1, <2>4, <3>2
    <3>4. rest \in Int
      <4>1. IntOn(f, (T \ {a}) \ {x})
        BY DEF IntOn
      <4> QED
        BY <2>2, <4>1, SumInt
    <3>5. fa \in Int /\ fx \in Int
      BY <2>1 DEF IntOn
    <3> HIDE DEF Sum, a, fa, fx, all, noA, noX, rest
    <3>6. all = fx + noX
      BY <2>3, <3>1, <3>3, <3>4, <3>5
    <3> QED
      BY <3>6, Zenon DEF all, noX, fx
  <2> QED
    BY <2>3, <2>4
<1> HIDE DEF P, Sum
<1>2. SUBSET S \subseteq P
  BY <1>1, FiniteInduct, Zenon
<1> QED
  BY <1>2 DEF P, Sum

(* Functions that agree on a set have the same sum over it. *)
LEMMA SumSame ==
  ASSUME NEW f, NEW g, NEW S, IsFiniteSet(S), SameOn(f, g, S)
  PROVE  SumFunctionOnSet(f, S) = SumFunctionOnSet(g, S)
<1> DEFINE P == {T \in SUBSET S : SumFunctionOnSet(f, T) = SumFunctionOnSet(g, T)}
<1>1. ASSUME NEW T \in SUBSET S, \A x \in T : T \ {x} \in P PROVE T \in P
  <2>1. IsFiniteSet(T)
    BY FiniteSubset
  <2>2. T # {} => Any(T) \in T /\ T \ {Any(T)} \in P
    BY <1>1, Zenon DEF Any
  <2>3. SumFunctionOnSet(f, T)
          = IF T = {} THEN 0 ELSE f[Any(T)] + SumFunctionOnSet(f, T \ {Any(T)})
    BY <2>1, SumRec, Zenon
  <2>4. SumFunctionOnSet(g, T)
          = IF T = {} THEN 0 ELSE g[Any(T)] + SumFunctionOnSet(g, T \ {Any(T)})
    BY <2>1, SumRec, Zenon
  <2> QED
    BY <2>2, <2>3, <2>4 DEF SameOn
<1> HIDE DEF P
<1>2. SUBSET S \subseteq P
  BY <1>1, FiniteInduct, Zenon
<1> QED
  BY <1>2 DEF P

(* A change of one term changes the sum by as much. *)
LEMMA SumUpdate ==
  ASSUME NEW f, NEW g, NEW S, IsFiniteSet(S), NEW y \in S,
         IntOn(f, S), IntOn(g, S), SameBut(f, g, S, y)
  PROVE  SumFunctionOnSet(g, S) = SumFunctionOnSet(f, S) - f[y] + g[y]
<1> DEFINE fRest == SumFunctionOnSet(f, S \ {y})
           gRest == SumFunctionOnSet(g, S \ {y})
<1>1. SumFunctionOnSet(f, S) = f[y] + fRest /\ SumFunctionOnSet(g, S) = g[y] + gRest
  BY SumRemove
<1>2. IsFiniteSet(S \ {y}) /\ IntOn(f, S \ {y})
  BY FiniteSubset, Zenon DEF IntOn
<1>3. SameOn(f, g, S \ {y})
  BY Zenon DEF SameOn, SameBut
<1>4. fRest = gRest
  BY <1>2, <1>3, SumSame, Zenon
<1>5. fRest \in Int /\ f[y] \in Int /\ g[y] \in Int
  BY <1>2, SumInt DEF IntOn
<1> HIDE DEF fRest, gRest
<1> QED
  BY <1>1, <1>4, <1>5

(* A sum of natural numbers is no less than a term of it. *)
LEMMA SumTerm ==
  ASSUME NEW f, NEW S, IsFiniteSet(S), NatOn(f, S), NEW y \in S
  PROVE  f[y] =< SumFunctionOnSet(f, S)
<1> DEFINE rest == SumFunctionOnSet(f, S \ {y})
<1>1. SumFunctionOnSet(f, S) = f[y] + rest
  <2>1. IntOn(f, S)
    BY DEF IntOn, NatOn
  <2> QED
    BY <2>1, SumRemove
<1>2. IsFiniteSet(S \ {y}) /\ NatOn(f, S \ {y})
  BY FiniteSubset, Zenon DEF NatOn
<1>3. rest \in Nat
  BY <1>2, SumNat
<1> HIDE DEF rest
<1>4. f[y] \in Nat
  BY DEF NatOn
<1> QED
  BY <1>1, <1>3, <1>4

LEMMA SumNoTerms ==
  ASSUME NEW f, NEW S, IsFiniteSet(S), \A x \in S : f[x] = 0
  PROVE  SumFunctionOnSet(f, S) = 0
<1> DEFINE P == {T \in SUBSET S : SumFunctionOnSet(f, T) = 0}
<1>1. ASSUME NEW T \in SUBSET S, \A x \in T : T \ {x} \in P PROVE T \in P
  <2>1. IsFiniteSet(T)
    BY FiniteSubset
  <2>2. T # {} => Any(T) \in T /\ T \ {Any(T)} \in P
    BY <1>1, Zenon DEF Any
  <2>3. SumFunctionOnSet(f, T)
          = IF T = {} THEN 0 ELSE f[Any(T)] + SumFunctionOnSet(f, T \ {Any(T)})
    BY <2>1, SumRec, Zenon
  <2> QED
    BY <2>2, <2>3
<1> HIDE DEF P
<1>2. SUBSET S \subseteq P
  BY <1>1, FiniteInduct, Zenon
<1> QED
  BY <1>2 DEF P

(* The sums over two parts of a set make the sum over it. *)
LEMMA SumSplit ==
  ASSUME NEW f, NEW S, IsFiniteSet(S), IntOn(f, S), NEW U
  PROVE  SumFunctionOnSet(f, S) = SumFunctionOnSet(f, S \cap U) + SumFunctionOnSet(f, S \ U)
<1> DEFINE Sum(T) == SumFunctionOnSet(f, T)
           P == {T \in SUBSET S : Sum(T) = Sum(T \cap U) + Sum(T \ U)}
<1>1. ASSUME NEW T \in SUBSET S, \A x \in T : T \ {x} \in P PROVE T \in P
  <2> DEFINE a == Any(T)
             fa == f[a]
             all == Sum(T)
             in == Sum(T \cap U)
             out == Sum(T \ U)
             allRest == Sum(T \ {a})
             inRest == Sum((T \ {a}) \cap U)
             outRest == Sum((T \ {a}) \ U)
  <2>1. CASE T = {}
    <3>1. T \cap U = {} /\ T \ U = {}
      BY <2>1, Zenon
    <3> QED
      BY <2>1, <3>1, SumNone
  <2>2. CASE T # {}
    <3>1. a \in T
      BY <2>2, Zenon DEF Any
    <3>2. /\ IsFiniteSet(T) /\ IsFiniteSet(T \cap U) /\ IsFiniteSet(T \ U)
          /\ IsFiniteSet((T \ {a}) \cap U) /\ IsFiniteSet((T \ {a}) \ U)
      BY FiniteSubset, Zenon
    <3>3. /\ IntOn(f, T) /\ IntOn(f, T \cap U) /\ IntOn(f, T \ U)
          /\ IntOn(f, (T \ {a}) \cap U) /\ IntOn(f, (T \ {a}) \ U)
      BY Zenon DEF IntOn
    <3>4. allRest = inRest + outRest
      BY <1>1, <3>1
    <3>5. all = fa + allRest
      BY <3>1, <3>2, <3>3, SumRemove
    <3>6. fa \in Int
      BY <3>1 DEF IntOn
    <3>7. inRest \in Int /\ outRest \in Int
      BY <3>2, <3>3, SumInt
    <3>8. \/ in = fa + inRest /\ out = outRest
          \/ in = inRest /\ out = fa + outRest
      <4>1. CASE a \in U
        <5>1. (T \ {a}) \cap U = (T \cap U) \ {a} /\ a \in T \cap U /\ (T \ {a}) \ U = T \ U
          BY <3>1, <4>1, Zenon
        <5>2. in = fa + inRest
          BY <3>2, <3>3, <5>1, SumRemove
        <5>3. out = outRest
          BY <5>1, Zenon
        <5> QED
          BY <5>2, <5>3, Zenon
      <4>2. CASE a \notin U
        <5>1. (T \ {a}) \cap U = T \cap U /\ a \in T \ U /\ (T \ {a}) \ U = (T \ U) \ {a}
          BY <3>1, <4>2, Zenon
        <5>2. out = fa + outRest
          BY <3>2, <3>3, <5>1, SumRemove
        <5>3. in = inRest
          BY <5>1, Zenon
        <5> QED
          BY <5>2, <5>3, Zenon
      <4> QED
        BY <4>1, <4>2
    <3> HIDE DEF Sum, a, fa, all, in, out, allRest, inRest, outRest
    <3>9. all = in + out
      BY <3>4, <3>5, <3>6, <3>7, <3>8
    <3> QED
      BY <3>9, Zenon DEF all, in, out
  <2> QED
    BY <2>1, <2>2
<1> HIDE DEF P, Sum
<1>2. SUBSET S \subseteq P
  BY <1>1, FiniteInduct, Zenon
<1> QED
  BY <1>2 DEF P, Sum

(* A sum of natural numbers is no less than the sum over a part, or than   *)
(* those over two parts that have nothing in common.                       *)
LEMMA SumPart ==
  ASSUME NEW f, NEW S, IsFiniteSet(S), NatOn(f, S), NEW U \in SUBSET S
  PROVE  SumFunctionOnSet(f, U) =< SumFunctionOnSet(f, S)
<1> DEFINE all == SumFunctionOnSet(f, S)
           in == SumFunctionOnSet(f, U)
           out == SumFunctionOnSet(f, S \ U)
<1>1. S \cap U = U /\ IsFiniteSet(U) /\ IsFiniteSet(S \ U)
  BY FiniteSubset, Zenon
<1>2. IntOn(f, S) /\ NatOn(f, U) /\ NatOn(f, S \ U)
  BY DEF IntOn, NatOn
<1>3. all = in + out
  BY <1>1, <1>2, SumSplit
<1>4. in \in Nat /\ out \in Nat
  BY <1>1, <1>2, SumNat
<1> HIDE DEF all, in, out
<1>5. in =< all
  BY <1>3, <1>4
<1> QED
  BY <1>5, Zenon DEF all, in

LEMMA SumParts ==
  ASSUME NEW f, NEW S, IsFiniteSet(S), NatOn(f, S),
         NEW U \in SUBSET S, NEW V \in SUBSET S, U \cap V = {}
  PROVE  SumFunctionOnSet(f, U) + SumFunctionOnSet(f, V) =< SumFunctionOnSet(f, S)
<1> DEFINE all == SumFunctionOnSet(f, S)
           u == SumFunctionOnSet(f, U)
           v == SumFunctionOnSet(f, V)
           out == SumFunctionOnSet(f, S \ U)
<1>1. S \cap U = U /\ IsFiniteSet(U) /\ IsFiniteSet(V) /\ IsFiniteSet(S \ U) /\ V \in SUBSET (S \ U)
  BY FiniteSubset, Zenon
<1>2. IntOn(f, S) /\ NatOn(f, U) /\ NatOn(f, V) /\ NatOn(f, S \ U)
  BY DEF IntOn, NatOn
<1>3. all = u + out
  BY <1>1, <1>2, SumSplit
<1>4. v =< out
  BY <1>1, <1>2, SumPart
<1>5. u \in Nat /\ v \in Nat /\ out \in Nat
  BY <1>1, <1>2, SumNat
<1> HIDE DEF all, u, v, out
<1>6. u + v =< all
  BY <1>3, <1>4, <1>5
<1> QED
  BY <1>6, Zenon DEF all, u, v

(* One of finitely many numbers is the largest. *)
LEMMA Largest ==
  ASSUME NEW f, NEW S, IsFiniteSet(S), NatOn(f, S), S # {}
  PROVE  \E x \in S : \A y \in S : f[x] >= f[y]
<1> DEFINE P == {T \in SUBSET S : T # {} => \E x \in T : \A y \in T : f[x] >= f[y]}
<1>1. ASSUME NEW T \in SUBSET S, \A x \in T : T \ {x} \in P PROVE T \in P
  <2> SUFFICES ASSUME NEW a \in T PROVE \E x \in T : \A y \in T : f[x] >= f[y]
    OBVIOUS
  <2>1. \A y \in T : f[y] \in Nat
    BY DEF NatOn
  <2>2. CASE T \ {a} = {}
    BY <2>1, <2>2
  <2>3. CASE T \ {a} # {}
    <3>1. PICK x \in T \ {a} : \A y \in T \ {a} : f[x] >= f[y]
      BY <1>1, <2>3
    <3>2. \A y \in T : f[x] >= f[y] \/ y = a
      BY <3>1
    <3>3. CASE f[x] >= f[a]
      BY <3>2, <3>3
    <3>4. CASE ~ f[x] >= f[a]
      <4>1. \A y \in T : f[a] >= f[y]
        BY <2>1, <3>1, <3>2, <3>4
      <4> QED
        BY <4>1
    <3> QED
      BY <3>3, <3>4
  <2> QED
    BY <2>2, <2>3
<1> HIDE DEF P
<1>2. SUBSET S \subseteq P
  BY <1>1, FiniteInduct, Zenon
<1> QED
  BY <1>2 DEF P

-----------------------------------------------------------------------------
(* Proposals. *)

(* A proposal that is well formed and whose tally is right. *)
Sound(q) ==
  /\ IsProposal(q) /\ IsTallied(q) /\ IsFiniteSet(DOMAIN q.voters)
  /\ \E n \in Nat \ {0} : DOMAIN q.options = 1 .. n

(* r has voters, choices and options that q has. *)
Alike(q, r) ==
  /\ DOMAIN r.voters \subseteq DOMAIN q.voters /\ DOMAIN r.options = DOMAIN q.options
  /\ \A a \in DOMAIN r.voters : r.voters[a].choice = q.voters[a].choice
  /\ \A i \in DOMAIN r.options : r.options[i].option = q.options[i].option
  /\ r.major = q.major

(* The ballots b are what the voters of q have chosen. *)
Follows(q, b) ==
  /\ DOMAIN q.voters \subseteq DOMAIN b
  /\ \A a \in DOMAIN q.voters :
       b[a] = IF q.voters[a].choice = 0 THEN Nil ELSE q.options[q.voters[a].choice].option

-----------------------------------------------------------------------------
(* Votes of options, as they are while a vote is moved. *)

Tally(I) == [I -> [option : Params, votes : Int]]
Voter(I) == [power : Nat \ {0}, choice : {0} \cup I]

LEMMA Cancelled ==
  ASSUME NEW I, 0 \notin I, NEW os \in Tally(I), NEW v \in Voter(I)
  PROVE  /\ cancelVote(os, v) \in Tally(I)
         /\ \A i \in I :
              /\ cancelVote(os, v)[i].option = os[i].option
              /\ cancelVote(os, v)[i].votes = os[i].votes - (IF i = v.choice THEN v.power ELSE 0)
BY DEF cancelVote, Tally, Voter

LEMMA Cast ==
  ASSUME NEW I, NEW os \in Tally(I), NEW v, v.power \in Nat, NEW j \in I
  PROVE  /\ castVote(os, v, j) \in Tally(I)
         /\ \A i \in I :
              /\ castVote(os, v, j)[i].option = os[i].option
              /\ castVote(os, v, j)[i].votes = os[i].votes + (IF i = j THEN v.power ELSE 0)
BY DEF castVote, Tally

(* What a sound proposal has. *)
LEMMA SoundParts ==
  ASSUME NEW q, Sound(q)
  PROVE  /\ 0 \notin DOMAIN q.options /\ DOMAIN q.options # {} /\ IsFiniteSet(DOMAIN q.options)
         /\ q.options \in [DOMAIN q.options -> Option] /\ q.options \in Tally(DOMAIN q.options)
         /\ q.voters \in [DOMAIN q.voters -> Voter(DOMAIN q.options)]
         /\ DOMAIN Powers(q) = DOMAIN q.voters
         /\ \A a \in DOMAIN q.voters : Powers(q)[a] = q.voters[a].power /\ q.voters[a].power \in Nat \ {0}
         /\ \A S \in SUBSET DOMAIN q.voters : IsFiniteSet(S) /\ NatOn(Powers(q), S) /\ IntOn(Powers(q), S)
         /\ \A i : Choosing(q, i) \in SUBSET DOMAIN q.voters
<1>1. PICK n \in Nat \ {0} : DOMAIN q.options = 1 .. n
  BY DEF Sound
<1>2. 0 \notin DOMAIN q.options /\ DOMAIN q.options # {} /\ IsFiniteSet(DOMAIN q.options)
  BY <1>1, FiniteInterval
<1>3. q.options \in [DOMAIN q.options -> Option] /\ q.voters \in [DOMAIN q.voters -> Voter(DOMAIN q.options)]
  BY DEF Sound, IsProposal, Proposal, Voter
<1>4. q.options \in Tally(DOMAIN q.options)
  BY <1>3 DEF Tally, Option
<1>5. /\ DOMAIN Powers(q) = DOMAIN q.voters
      /\ \A a \in DOMAIN q.voters : Powers(q)[a] = q.voters[a].power /\ q.voters[a].power \in Nat \ {0}
  BY <1>3 DEF Powers, Voter
<1>6. \A S \in SUBSET DOMAIN q.voters : IsFiniteSet(S) /\ NatOn(Powers(q), S) /\ IntOn(Powers(q), S)
  BY <1>5, FiniteSubset DEF Sound, NatOn, IntOn
<1>7. \A i : Choosing(q, i) \in SUBSET DOMAIN q.voters
  BY DEF Choosing
<1> QED
  BY <1>2, <1>3, <1>4, <1>5, <1>6, <1>7

(* A proposal whose votes are sums of powers has the type of one. *)
LEMMA SoundAgain ==
  ASSUME NEW q, Sound(q), NEW r, IsTallied(r), DOMAIN r.options = DOMAIN q.options,
         IsFiniteSet(DOMAIN r.voters), r.voters \in [DOMAIN r.voters -> Voter(DOMAIN q.options)],
         r.options \in Tally(DOMAIN q.options),
         DOMAIN r = DOMAIN q, r = [x \in DOMAIN r |-> r[x]],
         r.type = q.type, r.major = q.major, r.start \in Int, r.end \in Int, r.apply \in Int
  PROVE  Sound(r)
<1> DEFINE I == DOMAIN q.options
           W(i) == SumFunctionOnSet(Powers(r), Choosing(r, i))
<1>1. /\ DOMAIN Powers(r) = DOMAIN r.voters
      /\ \A a \in DOMAIN r.voters : Powers(r)[a] \in Nat
  BY DEF Powers, Voter
<1>2. \A S \in SUBSET DOMAIN r.voters : IsFiniteSet(S) /\ NatOn(Powers(r), S)
  BY <1>1, FiniteSubset DEF NatOn
<1>3. \A i : Choosing(r, i) \in SUBSET DOMAIN r.voters
  BY DEF Choosing
<1>4. \A i : W(i) \in Nat
  BY <1>2, <1>3, SumNat
<1>5. \A i \in I : r.options[i].votes \in Nat
  BY <1>4 DEF IsTallied
<1>6. r.options \in [I -> Option]
  BY <1>5 DEF Tally, Option
<1>7. r.total \in Nat
  BY <1>1, <1>2, SumNat DEF IsTallied, SumFunction
<1>8. r.majority \in Nat
  BY <1>7 DEF IsTallied, TwoThirds
<1>9. r \in Proposal(DOMAIN r.voters, I)
  BY <1>6, <1>7, <1>8 DEF Proposal, Sound, IsProposal, Voter
<1> QED
  BY <1>9 DEF Sound, IsProposal

(* DoVote keeps the tally right. *)
LEMMA VoteKeeps ==
  ASSUME NEW q, Sound(q), NEW a \in DOMAIN q.voters, NEW i \in DOMAIN q.options
  PROVE  LET r == DoVote(q, a, i)
         IN  /\ Sound(r) /\ r.major = q.major
             /\ DOMAIN r.voters = DOMAIN q.voters /\ DOMAIN r.options = DOMAIN q.options
             /\ \A b \in DOMAIN r.voters : r.voters[b].choice = IF b = a THEN i ELSE q.voters[b].choice
             /\ \A j \in DOMAIN r.options : r.options[j].option = q.options[j].option
<1> DEFINE r == DoVote(q, a, i)
           I == DOMAIN q.options
           v == q.voters[a]
           os == cancelVote(q.options, v)
           W(j) == SumFunctionOnSet(Powers(q), Choosing(q, j))
           W2(j) == SumFunctionOnSet(Powers(q), Choosing(r, j))
<1>0. /\ 0 \notin I /\ q.options \in Tally(I) /\ q.voters \in [DOMAIN q.voters -> Voter(I)]
      /\ q.options \in [I -> Option]
  BY SoundParts
<1>1. CASE v.choice = i
  BY <1>0, <1>1 DEF DoVote
<1>2. CASE v.choice # i
  <2>1. v \in Voter(I) /\ v.power \in Nat \ {0} /\ v.choice \in {0} \cup I
    BY <1>0 DEF Voter
  <2>2. /\ os \in Tally(I)
        /\ \A j \in I : /\ os[j].option = q.options[j].option
                       /\ os[j].votes = q.options[j].votes - (IF j = v.choice THEN v.power ELSE 0)
    BY <1>0, <2>1, Cancelled
  <2>3. /\ castVote(os, v, i) \in Tally(I)
        /\ \A j \in I : /\ castVote(os, v, i)[j].option = os[j].option
                       /\ castVote(os, v, i)[j].votes = os[j].votes + (IF j = i THEN v.power ELSE 0)
    BY <2>1, <2>2, Cast
  <2>4. r = [q EXCEPT !.options = castVote(os, v, i), !.voters = [q.voters EXCEPT ![a].choice = i]]
    BY <1>2, Zenon DEF DoVote
  <2>5. /\ r.options = castVote(os, v, i) /\ r.voters = [q.voters EXCEPT ![a].choice = i]
        /\ r.type = q.type /\ r.start = q.start /\ r.end = q.end /\ r.apply = q.apply
        /\ r.total = q.total /\ r.majority = q.majority /\ r.major = q.major
        /\ DOMAIN r = DOMAIN q /\ r = [x \in DOMAIN r |-> r[x]]
    BY <2>4, Zenon DEF Sound, IsProposal, Proposal
  <2> HIDE DEF r
  <2>6. /\ DOMAIN r.voters = DOMAIN q.voters /\ r.voters \in [DOMAIN q.voters -> Voter(I)]
        /\ \A b \in DOMAIN q.voters : /\ r.voters[b].choice = IF b = a THEN i ELSE q.voters[b].choice
                                     /\ r.voters[b].power = q.voters[b].power
    BY <1>0, <2>5 DEF Voter
  <2>7. Powers(r) = Powers(q)
    BY <2>6 DEF Powers
  <2>8. ASSUME NEW j \in I PROVE r.options[j].votes = W2(j)
    <3> DEFINE w == W(j)
               w2 == W2(j)
               old == q.options[j].votes
               new == r.options[j].votes
    <3>1. old = w /\ old \in Nat
      BY <1>0 DEF Sound, IsTallied, Option
    <3>2. new = old - (IF j = v.choice THEN v.power ELSE 0) + (IF j = i THEN v.power ELSE 0)
      BY <2>2, <2>3, <2>5
    <3>3. Choosing(q, j) \in SUBSET DOMAIN q.voters /\ Choosing(r, j) \in SUBSET DOMAIN q.voters
      BY <2>6 DEF Choosing
    <3>4. /\ IsFiniteSet(Choosing(q, j)) /\ IsFiniteSet(Choosing(r, j))
          /\ IntOn(Powers(q), Choosing(q, j)) /\ IntOn(Powers(q), Choosing(r, j))
      BY <3>3, SoundParts
    <3>5. Powers(q)[a] = v.power
      BY SoundParts
    <3>6. w2 \in Int
      BY <3>4, SumInt
    <3>7. CASE j = i
      <4>1. a \in Choosing(r, j) /\ Choosing(q, j) = Choosing(r, j) \ {a}
        BY <1>2, <2>6, <3>7 DEF Choosing
      <4>2. w2 = v.power + w
        BY <3>4, <3>5, <4>1, SumRemove
      <4>3. new = old + v.power
        BY <1>2, <2>1, <3>1, <3>2, <3>7
      <4> HIDE DEF w, w2, old, new, v
      <4>4. new = w2
        BY <2>1, <3>1, <4>2, <4>3
      <4> QED
        BY <4>4, Zenon DEF new, w2
    <3>8. CASE j = v.choice
      <4>1. a \in Choosing(q, j) /\ Choosing(r, j) = Choosing(q, j) \ {a}
        BY <1>2, <2>6, <3>8 DEF Choosing
      <4>2. w = v.power + w2
        BY <3>4, <3>5, <4>1, SumRemove
      <4>3. new = old - v.power
        BY <1>2, <2>1, <3>1, <3>2, <3>8
      <4> HIDE DEF w, w2, old, new, v
      <4>4. new = w2
        BY <2>1, <3>1, <3>6, <4>2, <4>3
      <4> QED
        BY <4>4, Zenon DEF new, w2
    <3>9. CASE j # i /\ j # v.choice
      <4>1. Choosing(r, j) = Choosing(q, j)
        BY <2>6, <3>9 DEF Choosing
      <4> QED
        BY <3>1, <3>2, <3>9, <4>1
    <3> QED
      BY <3>7, <3>8, <3>9
  <2>9. IsTallied(r)
    <3>1. DOMAIN r.options = I
      BY <2>3, <2>5 DEF Tally
    <3>2. q.total = SumFunction(Powers(q)) /\ q.majority = TwoThirds(q.total)
      BY DEF Sound, IsTallied
    <3> QED
      BY <2>5, <2>7, <2>8, <3>1, <3>2 DEF IsTallied
  <2>10. IsFiniteSet(DOMAIN q.voters) /\ q.start \in Int /\ q.end \in Int /\ q.apply \in Int
    BY DEF Sound, IsProposal, Proposal
  <2>11. r.options \in Tally(I) /\ DOMAIN r.options = I
    BY <2>3, <2>5 DEF Tally
  <2>12. Sound(r)
    BY <2>5, <2>6, <2>9, <2>10, <2>11, SoundAgain
  <2>13. \A j \in I : r.options[j].option = q.options[j].option
    BY <2>2, <2>3, <2>5
  <2> QED
    BY <2>5, <2>6, <2>11, <2>12, <2>13 DEF r
<1> QED
  BY <1>1, <1>2

-----------------------------------------------------------------------------
(* Slashing. *)

(* A term is reduced by s, or taken out with all of its s. *)
Reduced(f, S, g, T, a, s) ==
  /\ SameBut(f, g, T, a)
  /\ \/ T = S /\ (a \in S => g[a] = f[a] - s)
     \/ T = S \ {a} /\ (a \in S => f[a] = s)

(* What DoSlash makes of the voters and the options of a proposal. *)
SlashedTo(q, a, s, r) ==
  /\ Alike(q, r) /\ DOMAIN r = DOMAIN q /\ r = [x \in DOMAIN r |-> r[x]]
  /\ r.type = q.type /\ r.start = q.start /\ r.end = q.end /\ r.apply = q.apply
  /\ r.total = q.total - s /\ r.majority = TwoThirds(r.total)
  /\ r.options \in Tally(DOMAIN q.options)
  /\ \A i \in DOMAIN q.options :
       r.options[i].votes = q.options[i].votes - (IF a \in Choosing(q, i) THEN s ELSE 0)
  /\ r.voters \in [DOMAIN r.voters -> Voter(DOMAIN q.options)]
  /\ \A b \in DOMAIN r.voters \ {a} : r.voters[b].power = q.voters[b].power
  /\ \/ DOMAIN r.voters = DOMAIN q.voters /\ r.voters[a].power = q.voters[a].power - s
     \/ DOMAIN r.voters = DOMAIN q.voters \ {a} /\ q.voters[a].power = s

LEMMA SlashKeeps ==
  ASSUME NEW q, Sound(q), NEW a
  PROVE  Sound(DoSlash(q, a)) /\ Alike(q, DoSlash(q, a))
(* A voter loses some power, and no more than there is. *)
<1>SlashBounded. ASSUME NEW n \in Nat \ {0}
                 PROVE  Slash(n) \in 1 .. n
  <2> USE <1>SlashBounded
  <2> DEFINE part == (n * SlashRate) \div 100
  <2>1. SlashRate \in 0 .. 100
    BY ProposalAssumption
  <2>2. n * SlashRate \in Nat /\ n * SlashRate <= n * 100
    BY <2>1, Z3
  <2>3. part \in Int /\ 100 * part <= n * SlashRate
    BY <2>2, Z3
  <2>4. part <= n
    BY <2>2, <2>3, Z3
  <2> HIDE DEF part
  <2>5. Slash(n) = IF part <= 0 THEN n ELSE part
    BY DEF Slash, part
  <2> QED
    BY <2>3, <2>4, <2>5
<1>SumReduced. ASSUME NEW f, NEW g, NEW S, IsFiniteSet(S), IntOn(f, S), NEW T, NEW s \in Int,
                      Reduced(f, S, g, T, a, s)
               PROVE  SumFunctionOnSet(g, T) = SumFunctionOnSet(f, S) - (IF a \in S THEN s ELSE 0)
  <2> USE <1>SumReduced
  <2> DEFINE all == SumFunctionOnSet(f, S)
             less == SumFunctionOnSet(g, T)
  <2>0. all \in Int
    BY SumInt
  <2>1. CASE a \notin S
    <3>1. T = S /\ SameOn(f, g, S)
      BY <2>1 DEF Reduced, SameBut, SameOn
    <3>2. all = less
      BY <3>1, SumSame
    <3> HIDE DEF all, less
    <3>3. less = all - 0
      BY <2>0, <3>2
    <3> QED
      BY <2>1, <3>3, Zenon DEF all, less
  <2>2. CASE a \in S /\ T = S /\ g[a] = f[a] - s
    <3>1. f[a] \in Int
      BY <2>2 DEF IntOn
    <3>2. IntOn(g, S)
      BY <2>2, <3>1 DEF Reduced, IntOn, SameBut
    <3>3. less = all - f[a] + g[a]
      <4>1. SameBut(f, g, S, a)
        BY <2>2 DEF Reduced
      <4> QED
        BY <2>2, <3>2, <4>1, SumUpdate
    <3> HIDE DEF all, less
    <3>4. less = all - s
      BY <2>0, <2>2, <3>1, <3>3
    <3> QED
      BY <2>2, <3>4, Zenon DEF all, less
  <2>3. CASE a \in S /\ T = S \ {a} /\ f[a] = s
    <3> DEFINE rest == SumFunctionOnSet(f, T)
    <3>1. all = s + rest
      BY <2>3, SumRemove
    <3>2. SameOn(f, g, T) /\ IsFiniteSet(T) /\ IntOn(f, T)
      BY <2>3, FiniteSubset, Zenon DEF Reduced, SameBut, SameOn, IntOn
    <3>3. rest = less
      BY <3>2, SumSame
    <3>4. rest \in Int
      BY <3>2, SumInt
    <3> HIDE DEF all, less, rest
    <3>5. less = all - s
      BY <3>1, <3>3, <3>4
    <3> QED
      BY <2>3, <3>5, Zenon DEF all, less
  <2> QED
    BY <2>1, <2>2, <2>3, Zenon DEF Reduced
<1>Slashed. ASSUME a \in DOMAIN q.voters, NEW r, r = DoSlash(q, a),
                   NEW s, s = Slash(q.voters[a].power)
            PROVE  SlashedTo(q, a, s, r)
  <2> USE <1>Slashed
  <2> DEFINE I == DOMAIN q.options
             v == q.voters[a]
             left == [v EXCEPT !.power = v.power - s]
             os == cancelVote(q.options, v)
             new == IF v.choice > 0 /\ left.power > 0 THEN castVote(os, left, v.choice) ELSE os
             vs == IF left.power > 0 THEN [q.voters EXCEPT ![a] = left]
                   ELSE Restrict(q.voters, DOMAIN q.voters \ {a})
  <2>1. /\ 0 \notin I /\ q.options \in Tally(I) /\ q.voters \in [DOMAIN q.voters -> Voter(I)]
        /\ I \subseteq Nat
    <3>1. PICK n \in Nat \ {0} : I = 1 .. n
      BY DEF Sound
    <3> QED
      BY <3>1, SoundParts
  <2>2. v \in Voter(I) /\ v.power \in Nat \ {0} /\ v.choice \in {0} \cup I
    BY <2>1 DEF Voter
  <2>3. s \in 1 .. v.power
    BY <2>2, <1>SlashBounded
  <2>4. /\ r.options = new /\ r.voters = vs /\ r.total = q.total - s
        /\ r.type = q.type /\ r.start = q.start /\ r.end = q.end /\ r.apply = q.apply
        /\ r.majority = TwoThirds(q.total - s) /\ r.major = q.major
        /\ DOMAIN r = DOMAIN q /\ r = [x \in DOMAIN r |-> r[x]]
    <3> HIDE DEF os
    <3>1. r = [q EXCEPT !.voters = vs, !.options = new, !.total = q.total - s, !.majority = TwoThirds(q.total - s)]
      BY Zenon DEF DoSlash, os
    <3> HIDE DEF vs, new
    <3> QED
      BY <3>1, Zenon DEF Sound, IsProposal, Proposal
  <2>5. left.power = v.power - s /\ left.choice = v.choice /\ left.power \in Nat
        /\ (left.power > 0 => left \in Voter(I))
    BY <2>2, <2>3 DEF Voter
  <2> HIDE DEF left
  <2>6. /\ os \in Tally(I)
        /\ \A j \in I : /\ os[j].option = q.options[j].option
                       /\ os[j].votes = q.options[j].votes - (IF j = v.choice THEN v.power ELSE 0)
    BY <2>1, <2>2, Cancelled
  <2> HIDE DEF os
  <2>7. /\ new \in Tally(I)
        /\ \A j \in I : /\ new[j].option = q.options[j].option
                       /\ new[j].votes = q.options[j].votes - (IF a \in Choosing(q, j) THEN s ELSE 0)
    <3>0. \A j \in I : a \in Choosing(q, j) <=> j = v.choice
      BY DEF Choosing
    <3>1. CASE v.choice > 0 /\ left.power > 0
      <4>1. v.choice \in I
        BY <2>2, <3>1
      <4>2. /\ new \in Tally(I)
            /\ \A j \in I : /\ new[j].option = os[j].option
                           /\ new[j].votes = os[j].votes + (IF j = v.choice THEN left.power ELSE 0)
        BY <2>5, <2>6, <3>1, <4>1, Cast
      <4>3. \A j \in I : q.options[j].votes \in Int
        BY <2>1 DEF Tally
      <4> HIDE DEF new
      <4> QED
        BY <2>2, <2>3, <2>5, <2>6, <3>0, <4>2, <4>3
    <3>2. CASE ~ (v.choice > 0 /\ left.power > 0)
      <4>1. \A j \in I : j = v.choice => v.power = s
        BY <2>1, <2>2, <2>3, <2>5, <3>2
      <4> QED
        BY <2>6, <3>0, <3>2, <4>1
    <3> QED
      BY <3>1, <3>2
  <2> HIDE DEF new
  <2>8. /\ DOMAIN vs \subseteq DOMAIN q.voters /\ vs \in [DOMAIN vs -> Voter(I)]
        /\ \A b \in DOMAIN vs : vs[b].choice = q.voters[b].choice
        /\ \A b \in DOMAIN vs \ {a} : vs[b].power = q.voters[b].power
        /\ \/ DOMAIN vs = DOMAIN q.voters /\ vs[a].power = v.power - s
           \/ DOMAIN vs = DOMAIN q.voters \ {a} /\ v.power = s
    <3>1. CASE left.power > 0
      BY <2>1, <2>5, <3>1
    <3>2. CASE ~ left.power > 0
      <4>1. v.power = s
        BY <2>2, <2>3, <2>5, <3>2
      <4>2. vs = [x \in DOMAIN q.voters \ {a} |-> q.voters[x]]
        BY <3>2, Zenon DEF Restrict
      <4> HIDE DEF vs
      <4> QED
        BY <2>1, <4>1, <4>2
    <3> QED
      BY <3>1, <3>2, Zenon
  <2> HIDE DEF vs
  <2>9. DOMAIN new = I
    BY <2>7 DEF Tally
  <2> QED
    BY <2>4, <2>7, <2>8, <2>9 DEF Alike, SlashedTo
<1>1. CASE a \notin DOMAIN q.voters
  BY <1>1 DEF DoSlash, Alike
<1>2. CASE a \in DOMAIN q.voters
  <2> DEFINE r == DoSlash(q, a)
             s == Slash(q.voters[a].power)
             I == DOMAIN q.options
  <2>0. SlashedTo(q, a, s, r)
    BY <1>2, <1>Slashed, Zenon
  <2> HIDE DEF r
  <2>2. s \in Int
    BY <1>2, SoundParts, <1>SlashBounded
  <2> HIDE DEF s
  <2>1. /\ Alike(q, r) /\ DOMAIN r = DOMAIN q /\ r = [x \in DOMAIN r |-> r[x]]
        /\ r.type = q.type /\ r.start = q.start /\ r.end = q.end /\ r.apply = q.apply
        /\ r.total = q.total - s /\ r.majority = TwoThirds(r.total)
        /\ r.options \in Tally(I) /\ r.voters \in [DOMAIN r.voters -> Voter(I)]
        /\ \A i \in I :
             r.options[i].votes = q.options[i].votes - (IF a \in Choosing(q, i) THEN s ELSE 0)
        /\ \A b \in DOMAIN r.voters \ {a} : r.voters[b].power = q.voters[b].power
        /\ \/ DOMAIN r.voters = DOMAIN q.voters /\ r.voters[a].power = q.voters[a].power - s
           \/ DOMAIN r.voters = DOMAIN q.voters \ {a} /\ q.voters[a].power = s
    BY <2>0, Zenon DEF SlashedTo
  <2>3. /\ DOMAIN r.voters \subseteq DOMAIN q.voters /\ DOMAIN r.options = I /\ r.major = q.major
        /\ \A b \in DOMAIN r.voters : r.voters[b].choice = q.voters[b].choice
    BY <2>1 DEF Alike
  <2>4. /\ \A b \in DOMAIN r.voters : Powers(r)[b] = r.voters[b].power
        /\ \A b \in DOMAIN q.voters : Powers(q)[b] = q.voters[b].power
        /\ DOMAIN Powers(r) = DOMAIN r.voters /\ DOMAIN Powers(q) = DOMAIN q.voters
    BY DEF Powers
  <2>5. SameBut(Powers(q), Powers(r), DOMAIN r.voters, a)
    BY <2>1, <2>3, <2>4 DEF SameBut
  <2>6. IsFiniteSet(DOMAIN q.voters) /\ IntOn(Powers(q), DOMAIN q.voters) /\ IsFiniteSet(DOMAIN r.voters)
    BY <2>3, SoundParts
  <2>7. SumFunction(Powers(r)) = SumFunction(Powers(q)) - s
    <3>1. Reduced(Powers(q), DOMAIN q.voters, Powers(r), DOMAIN r.voters, a, s)
      BY <1>2, <2>1, <2>4, <2>5 DEF Reduced
    <3>2. SumFunctionOnSet(Powers(r), DOMAIN r.voters)
            = SumFunctionOnSet(Powers(q), DOMAIN q.voters) - (IF a \in DOMAIN q.voters THEN s ELSE 0)
      BY <2>2, <2>6, <3>1, <1>SumReduced
    <3> QED
      BY <1>2, <2>4, <3>2, Zenon DEF SumFunction
  <2>8. ASSUME NEW i \in I
        PROVE  r.options[i].votes = SumFunctionOnSet(Powers(r), Choosing(r, i))
    <3>1. Choosing(q, i) \in SUBSET DOMAIN q.voters /\ Choosing(r, i) \in SUBSET DOMAIN r.voters
      BY DEF Choosing
    <3>2. IsFiniteSet(Choosing(q, i)) /\ IntOn(Powers(q), Choosing(q, i))
      BY <3>1, SoundParts
    <3>3. SameBut(Powers(q), Powers(r), Choosing(r, i), a)
      BY <2>5, <3>1 DEF SameBut
    <3>4. Reduced(Powers(q), Choosing(q, i), Powers(r), Choosing(r, i), a, s)
      <4>1. CASE DOMAIN r.voters = DOMAIN q.voters /\ r.voters[a].power = q.voters[a].power - s
        <5>1. Choosing(r, i) = Choosing(q, i)
          BY <2>3, <4>1 DEF Choosing
        <5> QED
          BY <1>2, <2>4, <3>3, <4>1, <5>1 DEF Reduced
      <4>2. CASE DOMAIN r.voters = DOMAIN q.voters \ {a} /\ q.voters[a].power = s
        <5>1. Choosing(r, i) = Choosing(q, i) \ {a}
          BY <2>3, <4>2 DEF Choosing
        <5> QED
          BY <1>2, <2>4, <3>3, <4>2, <5>1 DEF Reduced
      <4> QED
        BY <2>1, <4>1, <4>2
    <3>5. SumFunctionOnSet(Powers(r), Choosing(r, i))
            = SumFunctionOnSet(Powers(q), Choosing(q, i)) - (IF a \in Choosing(q, i) THEN s ELSE 0)
      BY <2>2, <3>2, <3>4, <1>SumReduced
    <3>6. q.options[i].votes = SumFunctionOnSet(Powers(q), Choosing(q, i))
      BY Zenon DEF Sound, IsTallied
    <3> QED
      BY <2>1, <3>5, <3>6
  <2>9. IsTallied(r)
    <3>1. q.total = SumFunction(Powers(q))
      BY DEF Sound, IsTallied
    <3> QED
      BY <2>1, <2>3, <2>7, <2>8, <3>1 DEF IsTallied
  <2>10. q.start \in Int /\ q.end \in Int /\ q.apply \in Int
    BY DEF Sound, IsProposal, Proposal
  <2>11. Sound(r)
    BY <2>1, <2>3, <2>6, <2>9, <2>10, SoundAgain
  <2> QED
    BY <2>1, <2>11 DEF r
<1> QED
  BY <1>1, <1>2

LEMMA AlikeTransitive ==
  ASSUME NEW q, NEW r, NEW t, Alike(q, r), Alike(r, t)
  PROVE  Alike(q, t)
BY DEF Alike

LEMMA AlikeFollows ==
  ASSUME NEW q, NEW r, NEW b, Sound(r), Alike(q, r), Follows(q, b)
  PROVE  Follows(r, b)
<1>1. \A a \in DOMAIN r.voters : r.voters[a].choice \in {0} \cup DOMAIN r.options
  BY SoundParts DEF Voter
<1> QED
  BY <1>1 DEF Alike, Follows

(* The loop over the evidence. *)
LEMMA SlashAllKeeps ==
  ASSUME NEW q, Sound(q), NEW e, Len(e) \in Nat
  PROVE  Sound(slashAll(q, e)) /\ Alike(q, slashAll(q, e))
<1> DEFINE N == Len(e)
           Step(g, n) == IF n = 0 THEN q ELSE DoSlash(g[n - 1], e[n])
           Is(g, m) == g = [n \in 0 .. m |-> Step(g, n)]
           it == CHOOSE g : Is(g, N)
<1>1. slashAll(q, e) = it[N]
  BY DEF slashAll
<1>2. \E g : Is(g, N)
  <2> DEFINE Q == {m \in Nat : \E g : Is(g, m)}
  <2>1. 0 \in Q
    <3> DEFINE g == [n \in 0 .. 0 |-> q]
    <3>1. Is(g, 0)
      OBVIOUS
    <3> QED
      BY <3>1, Zenon
  <2>2. ASSUME NEW m \in Nat, m \in Q PROVE m + 1 \in Q
    <3>1. PICK g : Is(g, m)
      BY <2>2
    <3> DEFINE h == [n \in 0 .. m + 1 |-> Step(g, n)]
    <3>2. \A n \in 0 .. m : g[n] = Step(g, n)
      BY <3>1, Zenon
    <3>3. \A n \in 0 .. m : h[n] = g[n]
      BY <3>2
    <3>4. \A n \in 0 .. m + 1 : Step(g, n) = Step(h, n)
      <4> TAKE n \in 0 .. m + 1
      <4>1. n # 0 => n - 1 \in 0 .. m
        OBVIOUS
      <4> HIDE DEF h
      <4> QED
        BY <3>3, <4>1
    <3>5. Is(h, m + 1)
      BY <3>4
    <3>6. m + 1 \in Nat
      OBVIOUS
    <3> HIDE DEF h, Is
    <3> QED
      BY <3>5, <3>6
  <2> HIDE DEF Q, Is
  <2>3. Nat \subseteq Q
    BY <2>1, <2>2, NatInduct
  <2> QED
    BY <2>3 DEF Q
<1>3. Is(it, N)
  <2> HIDE DEF Is
  <2> QED
    BY <1>2, Zenon
<1>4. \A n \in 0 .. N : it[n] = Step(it, n)
  BY <1>3, Zenon
<1> HIDE DEF it
<1> DEFINE P == {n \in Nat : n \in 0 .. N => Sound(it[n]) /\ Alike(q, it[n])}
<1>5. 0 \in P
  <2>1. Alike(q, q)
    BY DEF Alike
  <2> QED
    BY <1>4, <2>1
<1>6. ASSUME NEW n \in Nat, n \in P PROVE n + 1 \in P
  <2> SUFFICES ASSUME n + 1 \in 0 .. N PROVE Sound(it[n + 1]) /\ Alike(q, it[n + 1])
    OBVIOUS
  <2>1. n \in 0 .. N /\ n + 1 # 0 /\ n + 1 - 1 = n
    OBVIOUS
  <2>2. it[n + 1] = DoSlash(it[n], e[n + 1])
    BY <1>4, <2>1
  <2>3. Sound(it[n]) /\ Alike(q, it[n])
    BY <1>6, <2>1
  <2> QED
    BY <2>2, <2>3, SlashKeeps, AlikeTransitive
<1> HIDE DEF P
<1>7. Nat \subseteq P
  BY <1>5, <1>6, NatInduct
<1> QED
  BY <1>1, <1>7 DEF P

-----------------------------------------------------------------------------
(* A new proposal, the passing of a block, and the decision. *)

(* NewGovProposal has no votes. *)
LEMMA NewSound ==
  ASSUME NEW vals, vals \in [DOMAIN vals -> Nat \ {0}], IsFiniteSet(DOMAIN vals), NEW pl,
         pl \in [type : {"govparams", "common"}, start : Int, period : Int, apply : Int,
                options : Seq(Params)],
         Len(pl.options) > 0
  PROVE  LET q == NewGovProposal(pl, vals)
         IN  Sound(q) /\ q.major = Nil /\ Follows(q, [a \in DOMAIN vals |-> Nil])
<1> DEFINE q == NewGovProposal(pl, vals)
           I == DOMAIN pl.options
           V == DOMAIN vals
<1>1. vals \in [V -> Nat \ {0}] /\ IsFiniteSet(V)
  OBVIOUS
<1>2. /\ pl.options \in Seq(Params) /\ pl.type \in {"govparams", "common"}
      /\ pl.start \in Int /\ pl.period \in Int /\ pl.apply \in Int
  OBVIOUS
<1>3. I = 1 .. Len(pl.options) /\ Len(pl.options) \in Nat \ {0} /\ pl.options \in [I -> Params]
  BY <1>2
<1>4. /\ q.type = pl.type /\ q.start = pl.start /\ q.end = pl.start + pl.period /\ q.apply = pl.apply
      /\ q.total = SumFunction(vals) /\ q.majority = TwoThirds(SumFunction(vals))
      /\ q.voters = [a \in V |-> [power |-> vals[a], choice |-> 0]]
      /\ q.options = [i \in I |-> [option |-> pl.options[i], votes |-> 0]]
      /\ q.major = Nil
      /\ q = [type |-> q.type, start |-> q.start, end |-> q.end, apply |-> q.apply,
              total |-> q.total, majority |-> q.majority, voters |-> q.voters,
              options |-> q.options, major |-> q.major]
  BY DEF NewGovProposal
<1> HIDE DEF q
<1>5. /\ DOMAIN q.voters = V /\ DOMAIN q.options = I
      /\ \A a \in V : q.voters[a].power = vals[a] /\ q.voters[a].choice = 0
      /\ \A i \in I : q.options[i].votes = 0
  BY <1>4
<1>6. Powers(q) = vals
  BY <1>1, <1>5 DEF Powers
<1>7. IsTallied(q)
  <2>1. ASSUME NEW i \in I PROVE q.options[i].votes = SumFunctionOnSet(Powers(q), Choosing(q, i))
    <3>1. Choosing(q, i) = {}
      BY <1>3, <1>5 DEF Choosing
    <3> QED
      BY <1>5, <3>1, SumNone
  <2> QED
    BY <1>4, <1>5, <1>6, <2>1, Zenon DEF IsTallied
<1>8. q.total \in Nat /\ q.majority \in Nat
  <2>1. NatOn(vals, V)
    BY <1>1 DEF NatOn
  <2>2. q.total \in Nat
    BY <1>1, <1>4, <2>1, SumNat DEF SumFunction
  <2> QED
    BY <1>4, <2>2 DEF TwoThirds
<1>9. q.voters \in [V -> [power : Nat \ {0}, choice : {0} \cup I]] /\ q.options \in [I -> Option]
  BY <1>1, <1>3, <1>4 DEF Option
<1>10. IsProposal(q)
  BY <1>2, <1>4, <1>5, <1>8, <1>9 DEF IsProposal, Proposal
<1>11. Sound(q)
  BY <1>1, <1>3, <1>5, <1>7, <1>10 DEF Sound
<1>12. Follows(q, [a \in V |-> Nil])
  BY <1>5 DEF Follows
<1> QED
  BY <1>4, <1>11, <1>12 DEF q

(* A block later, only the heights are others. *)
LEMMA Later ==
  ASSUME NEW q, q # Nil, IsProposal(q)
  PROVE  LET r == NextHeight(q)
         IN  /\ Sound(q) => Sound(r) /\ Alike(q, r)
             /\ \A b : IsDecided(q, b) => IsProposal(r) /\ IsDecided(r, b)
<1> DEFINE r == NextHeight(q)
<1>1. r = [q EXCEPT !.start = Back(q.start), !.end = Back(q.end), !.apply = Back(q.apply)]
  BY DEF NextHeight
<1> HIDE DEF r
<1>2. q.start \in Int /\ q.end \in Int /\ q.apply \in Int
  BY DEF IsProposal, Proposal
<1>3. Back(q.start) \in Int /\ Back(q.end) \in Int /\ Back(q.apply) \in Int
  BY <1>2 DEF Back
<1>4. /\ r.voters = q.voters /\ r.options = q.options /\ r.major = q.major
      /\ r.total = q.total /\ r.majority = q.majority
  BY <1>1
<1>5. IsProposal(r)
  BY <1>1, <1>3, <1>4, Zenon DEF IsProposal, Proposal
<1>6. Alike(q, r) /\ Powers(r) = Powers(q)
  BY <1>4 DEF Alike, Powers
<1>7. (\A i : Choosing(r, i) = Choosing(q, i)) /\ (\A b, o : Balloted(r, b, o) = Balloted(q, b, o))
  BY <1>4 DEF Choosing, Balloted
<1>8. Sound(q) => Sound(r)
  BY <1>4, <1>5, <1>6, <1>7 DEF Sound, IsTallied
<1>9. \A b : IsDecided(q, b) => IsDecided(r, b)
  BY <1>4, <1>6, <1>7 DEF IsDecided
<1> QED
  BY <1>5, <1>6, <1>8, <1>9 DEF r

(* updateMajorOption decides by the ballots. *)
LEMMA Decision ==
  ASSUME NEW q, Sound(q), NEW b, Follows(q, b), q.major = Nil, updateMajorOption(q) # Nil
  PROVE  LET r == [q EXCEPT !.major = updateMajorOption(q)]
         IN  IsProposal(r) /\ IsDecided(r, b)
(* The least of a set of natural numbers. *)
<1>MinIn. ASSUME NEW S \in SUBSET Nat, S # {}
          PROVE  Min(S) \in S
  BY <1>MinIn, Least, Zenon DEF Min
<1> DEFINE m == updateMajorOption(q)
           r == [q EXCEPT !.major = m]
           I == DOMAIN q.options
           V == DOMAIN q.voters
           k == Lead(q)
           F(o) == SumFunctionOnSet(Powers(q), Balloted(q, b, o))
           W(i) == SumFunctionOnSet(Powers(q), Choosing(q, i))
           L == {i \in I : \A j \in I : q.options[i].votes >= q.options[j].votes}
<1>1. /\ 0 \notin I /\ I # {} /\ IsFiniteSet(I) /\ q.options \in [I -> Option]
      /\ q.voters \in [V -> Voter(I)]
      /\ \A a \in V : Powers(q)[a] = q.voters[a].power /\ q.voters[a].power \in Nat \ {0}
      /\ \A S \in SUBSET V : IsFiniteSet(S) /\ NatOn(Powers(q), S) /\ IntOn(Powers(q), S)
      /\ \A i : Choosing(q, i) \in SUBSET V
  BY SoundParts
<1>2. k \in L
  <2> DEFINE f == [i \in I |-> q.options[i].votes]
  <2>1. NatOn(f, I)
    BY <1>1 DEF NatOn, Option
  <2>2. PICK x \in I : \A y \in I : f[x] >= f[y]
    BY <1>1, <2>1, Largest, Zenon
  <2>3. x \in L
    BY <2>2, Zenon
  <2>4. L \in SUBSET Nat
    <3>1. I \subseteq Nat
      BY DEF Sound
    <3> QED
      BY <3>1
  <2>5. k = Min(L)
    BY DEF Lead
  <2> QED
    BY <2>3, <2>4, <2>5, <1>MinIn, Zenon
<1>3. k \in I /\ \A j \in I : q.options[k].votes >= q.options[j].votes
  BY <1>2
<1>4. m = q.options[k] /\ m.votes >= q.majority
  BY DEF updateMajorOption
<1>5. m \in Option /\ m.votes \in Nat /\ m.option \in Params
  BY <1>1, <1>3, <1>4 DEF Option
<1> HIDE DEF m, k, L
<1>6. /\ r.voters = q.voters /\ r.options = q.options /\ r.total = q.total /\ r.major = m
      /\ IsProposal(r)
  BY <1>5, Zenon DEF Sound, IsProposal, Proposal
<1> HIDE DEF r
<1>7. Powers(r) = Powers(q) /\ \A o : Balloted(r, b, o) = Balloted(q, b, o)
  BY <1>6 DEF Powers, Balloted
<1>8. q.total \in Nat /\ q.total = SumFunctionOnSet(Powers(q), V) /\ q.majority = TwoThirds(q.total)
  BY DEF Sound, IsTallied, IsProposal, Proposal, SumFunction, Powers
<1>9. \A i \in I : q.options[i].votes = W(i)
  BY DEF Sound, IsTallied
<1>10. \A o : Balloted(q, b, o) \in SUBSET V
  BY DEF Balloted
<1>11. \A o : F(o) \in Nat
  BY <1>1, <1>10, SumNat
<1>12. F(m.option) >= m.votes
  <2>1. Choosing(q, k) \in SUBSET Balloted(q, b, m.option)
    BY <1>1, <1>3, <1>4 DEF Choosing, Balloted, Follows
  <2>2. IsFiniteSet(Balloted(q, b, m.option)) /\ NatOn(Powers(q), Balloted(q, b, m.option))
    BY <1>1, <1>10
  <2>3. W(k) <= F(m.option)
    BY <2>1, <2>2, SumPart
  <2>4. m.votes = W(k)
    BY <1>3, <1>4, <1>9
  <2> HIDE DEF F, W
  <2> QED
    BY <1>5, <1>11, <2>3, <2>4
<1>13. ASSUME NEW i \in I PROVE F(q.options[i].option) <= F(m.option)
  <2> DEFINE o == q.options[i].option
             x == F(o)
             y == F(m.option)
             t == q.total
  <2>0. x \in Nat /\ y \in Nat /\ o \in Params
    BY <1>1, <1>11 DEF Option
  <2>1. CASE o = m.option
    BY <2>0, <2>1
  <2>2. CASE o # m.option /\ x # 0
    <3>1. Balloted(q, b, o) \cap Balloted(q, b, m.option) = {}
      BY <2>2 DEF Balloted
    <3>2. IsFiniteSet(V) /\ NatOn(Powers(q), V)
      BY <1>1
    <3>3. x + y <= SumFunctionOnSet(Powers(q), V)
      BY <1>10, <3>1, <3>2, SumParts
    <3>4. PICK a \in Balloted(q, b, o) : TRUE
      BY <2>2, SumNone
    <3> DEFINE c == q.voters[a].choice
    <3>5. a \in V /\ b[a] = o /\ o # Nil
      BY <2>0, <3>4, ProposalAssumption DEF Balloted
    <3>6. c \in I /\ a \in Choosing(q, c)
      BY <1>1, <3>5 DEF Follows, Voter, Choosing
    <3>7. IsFiniteSet(Choosing(q, c)) /\ NatOn(Powers(q), Choosing(q, c))
      BY <1>1
    <3>8. Powers(q)[a] <= W(c)
      BY <3>6, <3>7, SumTerm
    <3>9. q.options[c].votes >= 1
      <4>1. Powers(q)[a] \in Nat \ {0}
        BY <1>1, <3>5
      <4>2. W(c) \in Nat
        BY <3>7, SumNat
      <4>3. q.options[c].votes = W(c)
        BY <1>9, <3>6
      <4> HIDE DEF W
      <4> QED
        BY <3>8, <4>1, <4>2, <4>3
    <3>10. m.votes >= 1
      <4>1. q.options[c].votes \in Nat /\ m.votes >= q.options[c].votes
        BY <1>1, <1>3, <1>4, <3>6 DEF Option
      <4> QED
        BY <1>5, <3>9, <4>1
    <3> HIDE DEF x, y, c
    <3>11. y >= m.votes
      BY <1>12 DEF y
    <3>12. m.votes >= (t * 2) \div 3
      BY <1>4, <1>8 DEF TwoThirds
    <3>13. x + y <= t
      BY <1>8, <3>3
    <3> HIDE DEF t
    <3>14. t \in Nat
      BY <1>8 DEF t
    <3>15. x <= y
      BY <1>5, <2>0, <3>10, <3>11, <3>12, <3>13, <3>14, Z3
    <3> QED
      BY <3>15 DEF x, y
  <2>3. CASE x = 0
    BY <2>0, <2>3
  <2> QED
    BY <2>1, <2>2, <2>3
<1>14. F(m.option) >= TwoThirds(q.total)
  <2> HIDE DEF F
  <2>1. F(m.option) \in Nat /\ m.votes >= TwoThirds(q.total) /\ TwoThirds(q.total) \in Int
    BY <1>4, <1>8, <1>11 DEF TwoThirds
  <2> QED
    BY <1>5, <1>12, <2>1
<1>15. q.total > 1 => m.votes > 0
  BY <1>4, <1>5, <1>8, Z3 DEF TwoThirds
<1>16. IsDecided(r, b)
  <2>1. \A o : SumFunctionOnSet(Powers(r), Balloted(r, b, o)) = F(o)
    BY <1>7
  <2> HIDE DEF F
  <2> QED
    BY <1>6, <1>13, <1>14, <1>15, <2>1 DEF IsDecided, m
<1> QED
  BY <1>6, <1>16 DEF r, m

=============================================================================
