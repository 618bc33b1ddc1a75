---------------------------- MODULE FiniteOrders ----------------------------
(***************************************************************************)
(* Facts the proofs share about numbers and about finite sets in an order: *)
(* least and greatest elements, and listing a set in its order, as sorted()*)
(* does.                                                                   *)
(***************************************************************************)
EXTENDS Integers, FiniteSetTheorems, WellFoundedInduction, TLAPS

-----------------------------------------------------------------------------
(* Least and greatest numbers.                                             *)

\* A set of numbers that is not empty has a least member, and if it is bounded a
\* greatest one.
LEMMA LeastNat ==
  ASSUME NEW S, S \subseteq Nat, S # {}
  PROVE  \E i \in S : \A j \in S : i <= j
<1> DEFINE R == OpToRel(<, Nat)
<1>1. IsWellFoundedOn(R, Nat)
  BY NatLessThanWellFounded
<1>2. \A i, j \in Nat : <<j, i>> \in R <=> j < i
  BY DEF OpToRel
<1> HIDE DEF R
<1>3. PICK i \in S : \A j \in S : ~(<<j, i>> \in R)
  BY <1>1, WFMin
<1>4. ASSUME NEW j \in S PROVE i <= j
  <2>1. i \in Nat /\ j \in Nat /\ ~(j < i)
    BY <1>2, <1>3
  <2> QED BY <2>1
<1> QED BY <1>4

LEMMA GreatestNat ==
  ASSUME NEW n \in Nat, NEW S, S \subseteq 0 .. n, S # {}
  PROVE  \E i \in S : \A j \in S : j <= i
<1> DEFINE T == {n - i : i \in S}
<1>1. T \subseteq Nat
  OBVIOUS
<1>2. PICK s \in S : TRUE
  OBVIOUS
<1>3. n - s \in T
  OBVIOUS
<1>4. PICK t \in T : \A u \in T : t <= u
  BY <1>1, <1>3, LeastNat, Zenon
<1>5. PICK i \in S : t = n - i
  OBVIOUS
<1>6. ASSUME NEW j \in S PROVE j <= i
  <2>1. n - j \in T
    OBVIOUS
  <2> HIDE DEF T
  <2>2. t <= n - j
    BY <1>4, <2>1
  <2>3. i \in Nat /\ j \in Nat
    OBVIOUS
  <2> QED BY <1>5, <2>2, <2>3
<1> QED BY <1>6

-----------------------------------------------------------------------------
(* Finite sets in an order.                                                *)

\* A strict total order of S, as a set of pairs.
Orders(R, S) ==
  /\ \A x, y \in S : x # y => <<x, y>> \in R \/ <<y, x>> \in R
  /\ \A x, y, z \in S : <<x, y>> \in R /\ <<y, z>> \in R => <<x, z>> \in R
  /\ \A x \in S : <<x, x>> \notin R
Preceding(x, R, S) == {y \in S : <<y, x>> \in R}

\* s lists S in the order R.
Lists(s, S, R) ==
  /\ s \in [1 .. Cardinality(S) -> S]
  /\ \A i, j \in 1 .. Cardinality(S) : i < j => <<s[i], s[j]>> \in R

\* Who comes before a later element is more.
LEMMA BeforeGrows ==
  ASSUME NEW R, NEW S, IsFiniteSet(S), Orders(R, S), NEW x \in S, NEW y \in S, <<x, y>> \in R
  PROVE  /\ Preceding(x, R, S) \subseteq Preceding(y, R, S)
         /\ Cardinality(Preceding(x, R, S)) \in Nat /\ Cardinality(Preceding(y, R, S)) \in Nat
         /\ Cardinality(Preceding(x, R, S)) < Cardinality(Preceding(y, R, S))
<1> DEFINE A == Preceding(x, R, S)
           B == Preceding(y, R, S)
<1>1. A \cup {x} \subseteq B /\ x \notin A /\ B \subseteq S
  BY DEF Preceding, Orders
<1>2. IsFiniteSet(B) /\ IsFiniteSet(A)
  BY <1>1, FS_Subset
<1>3. Cardinality(A \cup {x}) = Cardinality(A) + 1 /\ IsFiniteSet(A \cup {x})
  BY <1>1, <1>2, FS_AddElement
<1>4. Cardinality(A \cup {x}) <= Cardinality(B)
  BY <1>1, <1>2, FS_Subset
<1>5. Cardinality(A) \in Nat /\ Cardinality(B) \in Nat
  BY <1>2, FS_CardinalityType
<1> QED BY <1>1, <1>3, <1>4, <1>5

\* In a finite set in an order, each number below its size is how many come before
\* one element.
LEMMA RankFills ==
  ASSUME NEW R, NEW S, IsFiniteSet(S), Orders(R, S)
  PROVE  /\ Cardinality(S) \in Nat
         /\ \A x \in S : Cardinality(Preceding(x, R, S)) + 1 \in 1 .. Cardinality(S)
         /\ \A x, y \in S : Cardinality(Preceding(x, R, S)) = Cardinality(Preceding(y, R, S)) => x = y
         /\ \A i \in 1 .. Cardinality(S) : \E x \in S : Cardinality(Preceding(x, R, S)) + 1 = i
<1> DEFINE n == Cardinality(S)
           rank == [x \in S |-> Cardinality(Preceding(x, R, S)) + 1]
<1>1. n \in Nat
  BY FS_CardinalityType
<1>2. ASSUME NEW x \in S PROVE rank[x] \in 1 .. n /\ Cardinality(Preceding(x, R, S)) \in Nat
  <2>1. Preceding(x, R, S) \subseteq S \ {x}
    BY DEF Preceding, Orders
  <2>2. IsFiniteSet(S \ {x}) /\ Cardinality(S \ {x}) = n - 1
    BY FS_RemoveElement
  <2>3. Cardinality(Preceding(x, R, S)) <= n - 1 /\ IsFiniteSet(Preceding(x, R, S))
    BY <2>1, <2>2, FS_Subset
  <2>4. Cardinality(Preceding(x, R, S)) \in Nat
    BY <2>3, FS_CardinalityType
  <2> HIDE DEF n
  <2> QED BY <1>1, <2>3, <2>4
<1>3. ASSUME NEW x \in S, NEW y \in S, rank[x] = rank[y] PROVE x = y
  <2>1. Cardinality(Preceding(x, R, S)) = Cardinality(Preceding(y, R, S))
    BY <1>2, <1>3
  <2>2. <<x, y>> \notin R /\ <<y, x>> \notin R
    BY <2>1, BeforeGrows
  <2> QED BY <2>2 DEF Orders
<1>4. rank \in Injection(S, 1 .. n)
  BY <1>2, <1>3 DEF Injection, IsInjective
<1>5. rank \in Surjection(S, 1 .. n)
  <2>1. IsFiniteSet(1 .. n) /\ Cardinality(1 .. n) = n
    <3> HIDE DEF n
    <3> QED BY <1>1, FS_Interval
  <2> HIDE DEF rank
  <2> QED BY <1>4, <2>1, FS_Injection
<1>6. \A i \in 1 .. n : \E x \in S : rank[x] = i
  <2> HIDE DEF rank, n
  <2> QED BY <1>5 DEF Surjection
<1> QED BY <1>1, <1>2, <1>3, <1>6

\* The elements of a finite set in its order, and that this lists them.
Sorting(S, R) == [n \in 1 .. Cardinality(S) |-> CHOOSE x \in S : Cardinality(Preceding(x, R, S)) = n - 1]

LEMMA SortingLists ==
  ASSUME NEW R, NEW S, IsFiniteSet(S), Orders(R, S)
  PROVE  Cardinality(S) \in Nat /\ Lists(Sorting(S, R), S, R)
<1> DEFINE size(x) == Cardinality(Preceding(x, R, S))
           N == Cardinality(S)
           s == Sorting(S, R)
<1>1. s = [n \in 1 .. N |-> CHOOSE x \in S : size(x) = n - 1]
  BY DEF Sorting
<1> HIDE DEF s, size
<1>2. /\ N \in Nat
      /\ \A i \in 1 .. N : \E x \in S : size(x) + 1 = i
  BY RankFills DEF size
<1>3. \A x \in S : size(x) \in Nat
  <2> SUFFICES ASSUME NEW x \in S PROVE size(x) \in Nat
    OBVIOUS
  <2>1. IsFiniteSet(Preceding(x, R, S))
    BY FS_Subset DEF Preceding
  <2> QED BY <2>1, FS_CardinalityType DEF size
<1> HIDE DEF N
<1>4. ASSUME NEW n \in 1 .. N PROVE s[n] \in S /\ size(s[n]) = n - 1
  <2>1. PICK x \in S : size(x) + 1 = n
    BY <1>2
  <2>2. size(x) = n - 1
    BY <1>2, <1>3, <2>1
  <2> QED BY <1>1, <2>2
<1>5. s \in [1 .. N -> S]
  BY <1>1, <1>4
<1>6. ASSUME NEW i \in 1 .. N, NEW j \in 1 .. N, i < j PROVE <<s[i], s[j]>> \in R
  <2>1. s[i] \in S /\ s[j] \in S /\ size(s[i]) < size(s[j]) /\ size(s[i]) \in Nat /\ size(s[j]) \in Nat
    BY <1>2, <1>3, <1>4, <1>6
  <2>2. s[i] # s[j]
    BY <2>1
  <2>3. <<s[j], s[i]>> \notin R
    <3>1. ~(size(s[j]) < size(s[i]))
      BY <2>1
    <3> QED BY <2>1, <3>1, BeforeGrows DEF size
  <2> QED BY <2>1, <2>2, <2>3 DEF Orders
<1> QED BY <1>2, <1>5, <1>6 DEF Lists, N, s

\* A finite set in an order can be listed in that order.
LEMMA OrderedListing ==
  ASSUME NEW R, NEW S, IsFiniteSet(S), Orders(R, S)
  PROVE  Cardinality(S) \in Nat /\ \E s : Lists(s, S, R)
BY SortingLists

\* The elements with less than n before them: all of S when they are less than n.
LEMMA ShortBeginning ==
  ASSUME NEW R, NEW S, IsFiniteSet(S), Orders(R, S), NEW n \in Nat,
         NEW B, B = {x \in S : Cardinality(Preceding(x, R, S)) < n}, Cardinality(B) < n
  PROVE  B = S
<1> SUFFICES ASSUME NEW z \in S, z \notin B PROVE FALSE
  OBVIOUS
<1> DEFINE size(x) == Cardinality(Preceding(x, R, S))
           left == {size(x) : x \in S \ B}
<1>1. \A x \in S : Preceding(x, R, S) \subseteq S /\ IsFiniteSet(Preceding(x, R, S)) /\ size(x) \in Nat
  BY FS_Subset, FS_CardinalityType DEF Preceding
<1>2. left \subseteq Nat /\ left # {}
  BY <1>1
<1>3. PICK m \in left : \A k \in left : m <= k
  BY <1>2, LeastNat
<1>4. PICK w \in S \ B : m = size(w)
  OBVIOUS
<1>5. Preceding(w, R, S) \subseteq B
  <2> SUFFICES ASSUME NEW v \in Preceding(w, R, S), v \notin B PROVE FALSE
    OBVIOUS
  <2>1. v \in S /\ <<v, w>> \in R
    BY DEF Preceding
  <2>2. size(v) < size(w) /\ size(v) \in Nat /\ size(w) \in Nat
    BY <2>1, BeforeGrows
  <2>3. size(v) \in left
    BY <2>1
  <2> HIDE DEF left, size
  <2> QED BY <1>3, <1>4, <2>2, <2>3
<1>6. IsFiniteSet(B) /\ Cardinality(B) \in Nat
  BY FS_Subset, FS_CardinalityType
<1>7. size(w) <= Cardinality(B) /\ ~(size(w) < n) /\ size(w) \in Nat
  BY <1>1, <1>5, <1>6, FS_Subset
<1> QED BY <1>6, <1>7

\* A listing in order lists everything once.
LEMMA ListingIsWhole ==
  ASSUME NEW R, NEW S, IsFiniteSet(S), Orders(R, S), NEW s, Lists(s, S, R)
  PROVE  /\ \A i, j \in 1 .. Cardinality(S) : s[i] = s[j] => i = j
         /\ \A x \in S : \E i \in 1 .. Cardinality(S) : s[i] = x
<1>0. PICK n \in Nat : n = Cardinality(S)
  BY FS_CardinalityType
<1> s \in [1 .. n -> S] /\ \A i, j \in 1 .. n : i < j => <<s[i], s[j]>> \in R
  BY <1>0 DEF Lists
<1>1. ASSUME NEW i \in 1 .. n, NEW j \in 1 .. n, s[i] = s[j] PROVE i = j
  <2>1. s[i] \in S /\ <<s[i], s[i]>> \notin R
    BY DEF Orders
  <2>2. ~(i < j) /\ ~(j < i)
    BY <1>1, <2>1
  <2> QED BY <2>2
<1>2. s \in Injection(1 .. n, S)
  BY <1>1 DEF Injection, IsInjective
<1>3. IsFiniteSet(1 .. n) /\ Cardinality(1 .. n) = n
  BY FS_Interval
<1>4. s \in Surjection(1 .. n, S)
  BY <1>0, <1>2, <1>3, FS_Injection
<1> QED BY <1>0, <1>1, <1>4 DEF Surjection

\* Those of a set with less than n before them come before the others.
LEMMA BeginningComesFirst ==
  ASSUME NEW R, NEW S, IsFiniteSet(S), Orders(R, S), NEW n \in Nat,
         NEW x \in S, Cardinality(Preceding(x, R, S)) < n, NEW y \in S, ~(Cardinality(Preceding(y, R, S)) < n)
  PROVE  <<x, y>> \in R
<1>1. x # y
  OBVIOUS
<1>2. CASE <<y, x>> \in R
  BY <1>2, BeforeGrows
<1> QED BY <1>1, <1>2 DEF Orders
=============================================================================
