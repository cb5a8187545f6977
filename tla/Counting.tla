-------------------------------- MODULE Counting --------------------------------
(***************************************************************************)
(* Lemmas about numbers, counts and sums that the proofs about several     *)
(* modules need.                                                           *)
(***************************************************************************)
EXTENDS Naturals, FiniteSets, FiniteSetTheorems, WellFoundedInduction, TLAPS

\* A set of numbers that is not empty has a least one.  Induction over numbers is
\* done by the least counterexample: the library's induction theorems take an
\* operator, which the provers cannot instantiate.
LEMMA LeastOf ==
    ASSUME NEW T, T \subseteq Nat, T # {}
    PROVE  \E m \in T : \A k \in T : ~(k < m)
<1>1. PICK m \in T : \A k \in T : ~(<<k, m>> \in OpToRel(<, Nat))
  BY WFMin, NatLessThanWellFounded
<1>2. ASSUME NEW k \in T, k < m PROVE FALSE
  <2>1. <<k, m>> \in OpToRel(<, Nat)
    BY <1>2 DEF OpToRel
  <2> QED
    BY <1>1, <2>1
<1> QED
  BY <1>2

\* A bounded set of numbers that is not empty has a largest one.
LEMMA HasLargest ==
    ASSUME NEW D, NEW n \in Nat, D \subseteq 0 .. n, D # {}
    PROVE  \E d \in D : \A e \in D : e <= d
<1> DEFINE back == {n - d : d \in D}
<1>1. \A d \in D : d \in Nat /\ n - d \in Nat
  OBVIOUS
<1>2. back \subseteq Nat /\ back # {}
  BY <1>1
<1>3. PICK x \in back : \A y \in back : ~(y < x)
  BY <1>2, LeastOf
<1> HIDE DEF back
<1>4. x \in Nat /\ \A y \in back : y \in Nat
  BY <1>2, <1>3
<1>5. \A y \in back : x <= y
  BY <1>3, <1>4
<1>6. PICK d \in D : x = n - d
  BY <1>3 DEF back
<1>7. \A e \in D : n - d <= n - e
  BY <1>5, <1>6 DEF back
<1>8. \A e \in D : e <= d
  BY <1>1, <1>7
<1> QED
  BY <1>8

\* How many numbers there are up to n.
LEMMA CountUpTo ==
    ASSUME NEW n \in Nat
    PROVE  IsFiniteSet(1 .. n) /\ Cardinality(1 .. n) = n
<1>1. /\ IsFiniteSet(1 .. n)
      /\ Cardinality(1 .. n) = IF 1 > n THEN 0 ELSE n - 1 + 1
  BY FS_Interval
<1> QED
  BY <1>1

\* g[i] is the sum of f's first i values.
IsSum(f, g, n) == g = [i \in 0 .. n |-> IF i = 0 THEN 0 ELSE g[i - 1] + f[i]]

\* What a sum is at each of its indices.
LEMMA SumValues ==
    ASSUME NEW f, NEW n \in Nat, NEW g, IsSum(f, g, n)
    PROVE  \A i \in 0 .. n : g[i] = IF i = 0 THEN 0 ELSE g[i - 1] + f[i]
<1>1. g = [i \in 0 .. n |-> IF i = 0 THEN 0 ELSE g[i - 1] + f[i]]
  BY DEF IsSum
<1> QED
  BY <1>1, Zenon

\* A recursive function has values only where there is one: there is, for any n.
LEMMA SumsExist ==
    ASSUME NEW f, NEW n \in Nat
    PROVE  \E g : IsSum(f, g, n)
<1> DEFINE T == {k \in Nat : ~\E g : IsSum(f, g, k)}
<1> SUFFICES ASSUME T # {} PROVE FALSE
  OBVIOUS
<1>1. PICK k \in T : \A j \in T : ~(j < k)
  BY LeastOf
<1>2. k # 0
  <2>1. IsSum(f, [i \in 0 .. 0 |-> 0], 0)
    BY DEF IsSum
  <2> QED
    BY <2>1
<1>3. k \in Nat /\ k - 1 \in Nat /\ k - 1 < k
  BY <1>2
<1>4. PICK g : IsSum(f, g, k - 1)
  BY <1>1, <1>3
<1> DEFINE h == [i \in 0 .. k |-> IF i = k THEN g[k - 1] + f[k] ELSE g[i]]
<1>5. \A i \in 0 .. k - 1 : g[i] = IF i = 0 THEN 0 ELSE g[i - 1] + f[i]
  <2> DEFINE m == k - 1
  <2> HIDE DEF h
  <2>1. m \in Nat /\ IsSum(f, g, m)
    BY <1>3, <1>4
  <2> HIDE DEF m
  <2>2. \A i \in 0 .. m : g[i] = IF i = 0 THEN 0 ELSE g[i - 1] + f[i]
    BY <2>1, SumValues
  <2> QED
    BY <2>2 DEF m
<1>6. \A i \in 0 .. k : h[i] = IF i = 0 THEN 0 ELSE h[i - 1] + f[i]
  <2> SUFFICES ASSUME NEW i \in 0 .. k
               PROVE  h[i] = IF i = 0 THEN 0 ELSE h[i - 1] + f[i]
    OBVIOUS
  <2>1. CASE i = 0
    BY <1>2, <1>3, <1>5, <2>1
  <2>2. CASE i = k
    <3>1. k \in 0 .. k /\ k - 1 \in 0 .. k /\ k - 1 # k
      BY <1>3
    <3>2. h[k] = g[k - 1] + f[k] /\ h[k - 1] = g[k - 1]
      BY <3>1
    <3> QED
      BY <1>2, <2>2, <3>2
  <2>3. CASE i # 0 /\ i # k
    <3>1. i \in 0 .. k - 1 /\ i - 1 \in 0 .. k /\ i - 1 # k
      BY <1>3, <2>3
    <3>2. h[i] = g[i] /\ h[i - 1] = g[i - 1]
      BY <2>3, <3>1
    <3> QED
      BY <1>5, <2>3, <3>1, <3>2
  <2> QED
    BY <2>1, <2>2, <2>3
<1>7. h = [i \in 0 .. k |-> h[i]]
  OBVIOUS
<1> HIDE DEF h
<1>8. h = [i \in 0 .. k |-> IF i = 0 THEN 0 ELSE h[i - 1] + f[i]]
  BY <1>6, <1>7, Zenon
<1>9. IsSum(f, h, k)
  BY <1>8 DEF IsSum
<1> QED
  BY <1>1, <1>9

\* Sums of the same values agree as far as both go.
LEMMA SumsAgree ==
    ASSUME NEW f, NEW n \in Nat, NEW m \in Nat, n <= m, NEW g, NEW h,
           IsSum(f, g, n), IsSum(f, h, m)
    PROVE  \A i \in 0 .. n : g[i] = h[i]
<1> DEFINE T == {i \in 0 .. n : g[i] # h[i]}
<1> SUFFICES ASSUME T # {} PROVE FALSE
  OBVIOUS
<1>0. T \subseteq Nat
  OBVIOUS
<1>1. PICK k \in T : \A j \in T : ~(j < k)
  BY <1>0, LeastOf
<1>2. /\ g[k] = IF k = 0 THEN 0 ELSE g[k - 1] + f[k]
      /\ h[k] = IF k = 0 THEN 0 ELSE h[k - 1] + f[k]
  <2>1. k \in 0 .. n /\ k \in 0 .. m
    OBVIOUS
  <2>2. g[k] = IF k = 0 THEN 0 ELSE g[k - 1] + f[k]
    BY <2>1, SumValues
  <2>3. h[k] = IF k = 0 THEN 0 ELSE h[k - 1] + f[k]
    BY <2>1, SumValues
  <2> QED
    BY <2>2, <2>3
<1>3. k # 0 => k - 1 \in 0 .. n /\ k - 1 < k
  OBVIOUS
<1>4. k # 0 => g[k - 1] = h[k - 1]
  BY <1>1, <1>3
<1> QED
  BY <1>2, <1>4

================================================================================
