----------------------------- MODULE OrderLemmas -----------------------------
(***************************************************************************)
(* Lemmas about numbers, finite sets and orders that the proofs share: the *)
(* least element and the least counterexample, and how a finite set is put *)
(* in order.  Queries with ORDER BY and Go's sorts are modelled as the set *)
(* of the lists they may return; the last lemmas here say that there is    *)
(* one, and of a total order exactly one.                                  *)
(***************************************************************************)
EXTENDS Integers, Sequences, FiniteSets, FiniteSetTheorems, WellFoundedInduction, TLAPS

(* Least elements and least counterexamples *)

\* A set of numbers that is not empty has a least one.
LEMMA LeastNumber ==
  ASSUME NEW S, S \subseteq Nat, S # {}
  PROVE  \E n \in S : \A k \in S : n <= k
<1>1. PICK n \in S : \A k \in S : <<k, n>> \notin OpToRel(<, Nat)
  BY WFMin, NatLessThanWellFounded
<1>2. ASSUME NEW k \in S PROVE n <= k
  <2>1. ~(k < n)
    BY <1>1 DEF OpToRel
  <2> QED
    BY <2>1
<1> QED
  BY <1>2

\* A set with zero and with the successor of each of its numbers up to a bound
\* has every number up to the bound.
LEMMA CountUp ==
  ASSUME NEW S, NEW b \in Nat, 0 \in S, \A n \in 0..b : n \in S /\ n < b => n + 1 \in S
  PROVE  \A n \in 0..b : n \in S
<1> DEFINE Out == {n \in 0..b : n \notin S}
<1> SUFFICES ASSUME Out # {} PROVE FALSE
  OBVIOUS
<1>1. PICK n \in Out : \A k \in Out : n <= k
  <2>1. Out \subseteq Nat
    OBVIOUS
  <2> HIDE DEF Out
  <2> QED
    BY <2>1, LeastNumber
<1>2. n # 0 /\ n \in 0..b
  OBVIOUS
<1>3. n - 1 \in 0..b /\ n - 1 \notin Out
  BY <1>1, <1>2
<1> QED
  BY <1>2, <1>3

\* Of some subsets of a finite set, one loses an element only by leaving them.
LEMMA SmallestSet ==
  ASSUME NEW T, IsFiniteSet(T), NEW Bad \in SUBSET SUBSET T, Bad # {}
  PROVE  \E U \in Bad : \A x \in U : U \ {x} \notin Bad
<1> DEFINE Sizes == {Cardinality(U) : U \in Bad}
<1>1. \A U \in Bad : IsFiniteSet(U) /\ Cardinality(U) \in Nat
  BY FS_Subset, FS_CardinalityType
<1>2. PICK n \in Sizes : \A k \in Sizes : n <= k
  <2>1. Sizes \subseteq Nat /\ Sizes # {}
    BY <1>1
  <2> HIDE DEF Sizes
  <2> QED
    BY <2>1, LeastNumber
<1>3. PICK U \in Bad : Cardinality(U) = n
  BY <1>2
<1>4. ASSUME NEW x \in U, U \ {x} \in Bad PROVE FALSE
  <2>1. Cardinality(U \ {x}) = n - 1
    BY <1>1, <1>3, FS_RemoveElement
  <2>2. n - 1 \in Sizes /\ n \in Nat
    BY <1>1, <1>3, <1>4, <2>1
  <2> HIDE DEF Sizes
  <2>3. n <= n - 1
    BY <1>2, <2>2
  <2> QED
    BY <2>2, <2>3
<1> QED
  BY <1>4

-----------------------------------------------------------------------------
(* Orders of finite sets *)

StrictOrder(S, R) ==
  /\ \A x \in S : <<x, x>> \notin R
  /\ \A x, y, z \in S : <<x, y>> \in R /\ <<y, z>> \in R => <<x, z>> \in R

TotalOrder(S, R) ==
  StrictOrder(S, R) /\ \A x, y \in S : x = y \/ <<x, y>> \in R \/ <<y, x>> \in R

\* The lists of a set in which no element comes after one it precedes.
Orders(S, R) ==
  {q \in [1..Cardinality(S) -> S] :
     /\ \A i, j \in 1..Cardinality(S) : i # j => q[i] # q[j]
     /\ \A i, j \in 1..Cardinality(S) : i < j => <<q[j], q[i]>> \notin R}

\* A finite set that is not empty has an element that precedes no other.
LEMMA LastInOrder ==
  ASSUME NEW T, IsFiniteSet(T), T # {}, NEW R, StrictOrder(T, R)
  PROVE  \E x \in T : \A y \in T : <<x, y>> \notin R
<1> DEFINE HasLast(U) == \E x \in U : \A y \in U : <<x, y>> \notin R
           Bad == {U \in SUBSET T : U # {} /\ ~HasLast(U)}
<1> SUFFICES ASSUME Bad # {} PROVE FALSE
  OBVIOUS
<1>1. PICK U \in Bad : \A x \in U : U \ {x} \notin Bad
  <2>1. Bad \in SUBSET SUBSET T
    OBVIOUS
  <2> HIDE DEF Bad
  <2> QED
    BY <2>1, SmallestSet
<1>2. U \subseteq T /\ U # {} /\ ~HasLast(U)
  BY <1>1
<1>3. PICK x \in U : TRUE
  BY <1>2
<1>4. U # {x}
  BY <1>2, <1>3 DEF StrictOrder
<1>5. HasLast(U \ {x})
  <2>1. U \ {x} \in SUBSET T
    BY <1>2
  <2>2. U \ {x} # {}
    BY <1>3, <1>4
  <2>3. U \ {x} \notin Bad
    BY <1>1, <1>3
  <2> QED
    BY <2>1, <2>2, <2>3
<1>6. PICK m \in U \ {x} : \A y \in U \ {x} : <<m, y>> \notin R
  BY <1>5
<1>7. CASE <<m, x>> \notin R
  BY <1>2, <1>6, <1>7
<1>8. CASE <<m, x>> \in R
  <2>1. \A y \in U : <<x, y>> \notin R
    <3> SUFFICES ASSUME NEW y \in U, <<x, y>> \in R PROVE FALSE
      OBVIOUS
    <3>1. x \in T /\ y \in T /\ m \in T
      BY <1>2, <1>3, <1>6
    <3>2. <<m, y>> \in R /\ y # x
      BY <1>8, <3>1 DEF StrictOrder
    <3> QED
      BY <1>6, <3>2
  <2> QED
    BY <1>2, <1>3, <2>1
<1> QED
  BY <1>7, <1>8

\* A finite set of numbers that is not empty has a greatest one.
LEMMA GreatestNumber ==
  ASSUME NEW T, T \subseteq Nat, IsFiniteSet(T), T # {}
  PROVE  \E n \in T : \A k \in T : k <= n
<1> DEFINE R == {p \in T \X T : p[1] < p[2]}
<1>1. \A a, b \in T : <<a, b>> \in R <=> a < b
  OBVIOUS
<1> HIDE DEF R
<1>2. StrictOrder(T, R)
  BY <1>1 DEF StrictOrder
<1>3. PICK n \in T : \A k \in T : <<n, k>> \notin R
  BY <1>2, LastInOrder
<1>4. \A k \in T : ~(n < k) /\ n \in Nat /\ k \in Nat
  BY <1>1, <1>3
<1>5. \A k \in T : k <= n
  BY <1>4
<1> QED
  BY <1>5

\* A finite set can be listed in order.
LEMMA OrderExists ==
  ASSUME NEW T, IsFiniteSet(T), NEW R, StrictOrder(T, R)
  PROVE  Orders(T, R) # {}
<1> DEFINE Bad == {U \in SUBSET T : Orders(U, R) = {}}
<1> SUFFICES ASSUME Bad # {} PROVE FALSE
  OBVIOUS
<1>1. PICK U \in Bad : \A x \in U : U \ {x} \notin Bad
  <2>1. Bad \in SUBSET SUBSET T
    OBVIOUS
  <2> HIDE DEF Bad
  <2> QED
    BY <2>1, SmallestSet
<1>2. U \subseteq T /\ Orders(U, R) = {} /\ IsFiniteSet(U) /\ Cardinality(U) \in Nat
  BY <1>1, FS_Subset, FS_CardinalityType
<1>3. U # {}
  <2> SUFFICES ASSUME U = {} PROVE FALSE
    OBVIOUS
  <2>1. Cardinality(U) = 0
    BY FS_EmptySet
  <2>2. 1..Cardinality(U) = {}
    BY <2>1
  <2>3. [i \in 1..Cardinality(U) |-> i] \in Orders(U, R)
    BY <2>2 DEF Orders
  <2> QED
    BY <1>2, <2>3
<1>4. PICK x \in U : \A y \in U : <<x, y>> \notin R
  <2>1. StrictOrder(U, R)
    BY <1>2 DEF StrictOrder
  <2> QED
    BY <1>2, <1>3, <2>1, LastInOrder
<1>5. PICK n \in Nat : n + 1 = Cardinality(U) /\ Cardinality(U \ {x}) = n
  <2>1. Cardinality(U \ {x}) = Cardinality(U) - 1 /\ Cardinality(U \ {x}) \in Nat
    BY <1>2, <1>4, FS_RemoveElement, FS_Subset, FS_CardinalityType
  <2> QED
    BY <1>2, <2>1
<1>6. PICK q \in Orders(U \ {x}, R) : TRUE
  BY <1>1, <1>2, <1>4
<1>7. /\ q \in [1..n -> U \ {x}]
      /\ \A i, j \in 1..n : i # j => q[i] # q[j]
      /\ \A i, j \in 1..n : i < j => <<q[j], q[i]>> \notin R
  BY <1>5, <1>6 DEF Orders
<1> DEFINE p == [k \in 1..(n + 1) |-> IF k = n + 1 THEN x ELSE q[k]]
<1>8. \A k \in 1..(n + 1) : k = n + 1 \/ k \in 1..n
  OBVIOUS
<1>9. p \in [1..(n + 1) -> U] /\ p[n + 1] = x /\ \A k \in 1..n : p[k] = q[k] /\ p[k] \in U \ {x}
  <2>1. \A k \in 1..n : k \in 1..(n + 1) /\ k # n + 1
    OBVIOUS
  <2>2. \A k \in 1..n : p[k] = q[k] /\ p[k] \in U \ {x}
    BY <1>7, <2>1
  <2>3. n + 1 \in 1..(n + 1)
    OBVIOUS
  <2> QED
    BY <1>8, <2>2, <2>3
<1> HIDE DEF p
<1>10. ASSUME NEW i \in 1..(n + 1), NEW j \in 1..(n + 1), i # j PROVE p[i] # p[j]
  BY <1>7, <1>8, <1>9, <1>10
<1>11. ASSUME NEW i \in 1..(n + 1), NEW j \in 1..(n + 1), i < j PROVE <<p[j], p[i]>> \notin R
  <2>1. i \in 1..n
    BY <1>11
  <2>2. CASE j = n + 1
    BY <1>4, <1>9, <2>1, <2>2
  <2>3. CASE j \in 1..n
    BY <1>7, <1>9, <1>11, <2>1, <2>3
  <2> QED
    BY <1>8, <2>2, <2>3
<1>12. p \in Orders(U, R)
  BY <1>5, <1>9, <1>10, <1>11 DEF Orders
<1> QED
  BY <1>2, <1>12

\* A list of a finite set holds each of its elements.
LEMMA OrderIsOnto ==
  ASSUME NEW T, IsFiniteSet(T), NEW q \in [1..Cardinality(T) -> T],
         \A i, j \in 1..Cardinality(T) : i # j => q[i] # q[j]
  PROVE  \A x \in T : \E i \in 1..Cardinality(T) : q[i] = x
<1>1. PICK n \in Nat : n = Cardinality(T)
  BY FS_CardinalityType
<1> DEFINE D == 1..n
<1>2. IsFiniteSet(D) /\ Cardinality(D) = n
  BY FS_Interval
<1>3. q \in Injection(D, T)
  BY <1>1 DEF Injection, IsInjective
<1> HIDE DEF D
<1>4. q \in Surjection(D, T)
  BY <1>1, <1>2, <1>3, FS_Injection
<1> QED
  BY <1>1, <1>4 DEF Surjection, D

\* The lists in which each element comes after those that precede it.
Sorted(S, R) ==
  {q \in [1..Cardinality(S) -> S] :
     \A i, j \in 1..Cardinality(S) : i < j => <<q[i], q[j]>> \in R}

\* By a total order a finite set is sorted in exactly one way.
LEMMA SortedOnce ==
  ASSUME NEW T, IsFiniteSet(T), NEW R, TotalOrder(T, R)
  PROVE  \E q : Sorted(T, R) = {q}
<1>1. PICK n \in Nat : n = Cardinality(T)
  BY FS_CardinalityType
<1>2. PICK q \in Orders(T, R) : TRUE
  BY OrderExists DEF TotalOrder
<1>3. q \in Sorted(T, R)
  <2>1. /\ q \in [1..n -> T]
        /\ \A i, j \in 1..n : i # j => q[i] # q[j]
        /\ \A i, j \in 1..n : i < j => <<q[j], q[i]>> \notin R
    BY <1>1, <1>2 DEF Orders
  <2>2. \A i, j \in 1..n : i < j => i # j
    OBVIOUS
  <2>3. \A i, j \in 1..n : i < j => <<q[i], q[j]>> \in R
    BY <2>1, <2>2 DEF TotalOrder
  <2> QED
    BY <1>1, <2>1, <2>3 DEF Sorted
<1>4. ASSUME NEW p \in Sorted(T, R), p # q PROVE FALSE
  <2>1. /\ p \in [1..n -> T] /\ \A i, j \in 1..n : i < j => <<p[i], p[j]>> \in R
        /\ q \in [1..n -> T] /\ \A i, j \in 1..n : i < j => <<q[i], q[j]>> \in R
    BY <1>1, <1>3, <1>4 DEF Sorted
  <2>2. /\ \A i, j \in 1..n : i # j => p[i] # p[j]
        /\ \A i, j \in 1..n : i # j => q[i] # q[j]
    <3>1. \A i, j \in 1..n : i = j \/ i < j \/ j < i
      OBVIOUS
    <3>2. \A x \in T : <<x, x>> \notin R
      BY DEF TotalOrder, StrictOrder
    <3>3. ASSUME NEW f \in [1..n -> T], \A i, j \in 1..n : i < j => <<f[i], f[j]>> \in R,
                 NEW i \in 1..n, NEW j \in 1..n, f[i] = f[j]
          PROVE  i = j
      <4>1. f[i] \in T
        OBVIOUS
      <4> QED
        BY <3>1, <3>2, <3>3, <4>1
    <3> QED
      BY <2>1, <3>3
  <2>3. /\ \A x \in T : \E i \in 1..n : p[i] = x
        /\ \A x \in T : \E i \in 1..n : q[i] = x
    BY <1>1, <2>1, <2>2, OrderIsOnto
  <2> DEFINE Off == {k \in 1..n : p[k] # q[k]}
  <2>4. PICK k \in Off : \A i \in Off : k <= i
    <3>1. Off \subseteq Nat /\ Off # {}
      BY <1>4, <2>1
    <3> HIDE DEF Off
    <3> QED
      BY <3>1, LeastNumber
  <2>5. k \in 1..n /\ p[k] # q[k] /\ \A i \in 1..n : i < k => p[i] = q[i]
    BY <2>4
  <2>6. PICK i \in 1..n : q[i] = p[k]
    BY <2>1, <2>3, <2>5
  <2>7. PICK j \in 1..n : p[j] = q[k]
    BY <2>1, <2>3, <2>5
  <2>8. k < i /\ k < j
    <3>1. ~(i < k) /\ ~(j < k) /\ i # k /\ j # k
      BY <2>2, <2>5, <2>6, <2>7
    <3> QED
      BY <2>5, <3>1
  <2>9. <<q[k], p[k]>> \in R /\ <<p[k], q[k]>> \in R /\ p[k] \in T /\ q[k] \in T
    BY <2>1, <2>5, <2>6, <2>7, <2>8
  <2> QED
    BY <2>9 DEF TotalOrder, StrictOrder
<1> QED
  BY <1>3, <1>4

=============================================================================
