----------------------------- MODULE HarvestProofs -----------------------------
(***************************************************************************)
(* Theorems about Harvest, Prebuilts and HostGate, for any number of       *)
(* categories, pages, products and threads and for any limits.             *)
(***************************************************************************)
EXTENDS Harvest, Prebuilts, HostGate, Counting, SequenceTheorems, TLAPS

-----------------------------------------------------------------------------
(* Sums.                                                                   *)

\* What SumTo computes.
LEMMA SumToIs ==
    ASSUME NEW f, NEW n \in Nat
    PROVE  SumTo(f, 0) = 0 /\ SumTo(f, n + 1) = SumTo(f, n) + f[n + 1]
<1> DEFINE c(k) == CHOOSE g : IsSum(f, g, k)
<1>1. \A k \in Nat : IsSum(f, c(k), k)
  BY SumsExist
<1>2. \A k : SumTo(f, k) = c(k)[k]
  BY DEF SumTo, IsSum
<1> HIDE DEF c
<1>3. SumTo(f, 0) = 0
  <2>1. IsSum(f, c(0), 0) /\ 0 \in 0 .. 0 /\ 0 \in Nat
    BY <1>1
  <2>2. \A i \in 0 .. 0 : c(0)[i] = IF i = 0 THEN 0 ELSE c(0)[i - 1] + f[i]
    BY <2>1, SumValues
  <2>3. c(0)[0] = 0
    BY <2>1, <2>2
  <2> QED
    BY <1>2, <2>3
<1>4. n + 1 \in Nat /\ n + 1 # 0 /\ (n + 1) - 1 = n /\ n + 1 \in 0 .. n + 1 /\ n \in 0 .. n
      /\ n <= n + 1
  OBVIOUS
<1>5. IsSum(f, c(n), n) /\ IsSum(f, c(n + 1), n + 1)
  BY <1>1, <1>4
<1>6. c(n + 1)[n + 1] = c(n + 1)[n] + f[n + 1]
  BY <1>4, <1>5, SumValues
<1>7. c(n)[n] = c(n + 1)[n]
  BY <1>4, <1>5, SumsAgree
<1> QED
  BY <1>2, <1>3, <1>6, <1>7

\* A sum of natural numbers, and of more of them.
LEMMA SumGrows ==
    ASSUME NEW f, NEW n \in Nat, \A i \in 1 .. n : f[i] \in Nat
    PROVE  /\ \A i \in 0 .. n : SumTo(f, i) \in Nat
           /\ \A i, j \in 0 .. n : i <= j => SumTo(f, i) <= SumTo(f, j)
<1> DEFINE Good(k) == SumTo(f, k) \in Nat /\ \A i \in 0 .. k : SumTo(f, i) <= SumTo(f, k)
           T == {k \in 0 .. n : ~Good(k)}
<1>1. T = {}
  <2> SUFFICES ASSUME T # {} PROVE FALSE
    OBVIOUS
  <2>0. T \subseteq Nat
    OBVIOUS
  <2>1. PICK k \in T : \A j \in T : ~(j < k)
    BY <2>0, LeastOf
  <2>2. CASE k = 0
    <3>1. SumTo(f, 0) = 0 /\ \A i \in 0 .. 0 : i = 0
      BY SumToIs
    <3> QED
      BY <2>1, <2>2, <3>1
  <2>3. CASE k # 0
    <3> DEFINE m == k - 1
    <3>1. m \in 0 .. n /\ m \in Nat /\ m < k /\ m + 1 = k /\ k \in 1 .. n
      BY <2>3
    <3>2. Good(m)
      BY <2>1, <3>1
    <3> HIDE DEF m
    <3>3. SumTo(f, k) = SumTo(f, m) + f[k] /\ f[k] \in Nat
      BY <3>1, SumToIs
    <3>4. \A i \in 0 .. k : i = k \/ i \in 0 .. m
      BY <3>1
    <3> HIDE DEF T
    <3>5. SumTo(f, k) \in Nat /\ SumTo(f, m) <= SumTo(f, k)
      BY <3>2, <3>3
    <3>6. ASSUME NEW i \in 0 .. k PROVE SumTo(f, i) <= SumTo(f, k)
      <4>1. CASE i = k
        BY <3>5, <4>1
      <4>2. CASE i \in 0 .. m
        <5>1. SumTo(f, i) <= SumTo(f, m) /\ SumTo(f, m) \in Nat
          BY <3>2, <4>2
        <5>2. SumTo(f, i) \in Nat
          <6>1. i \in 0 .. n /\ i < k
            BY <3>1, <4>2
          <6> QED
            BY <2>1, <6>1 DEF T
        <5> QED
          BY <3>5, <5>1, <5>2
      <4> QED
        BY <3>4, <4>1, <4>2
    <3>7. Good(k)
      BY <3>5, <3>6
    <3> QED
      BY <2>1, <3>7 DEF T
  <2> QED
    BY <2>2, <2>3
<1>2. \A k \in 0 .. n : Good(k)
  BY <1>1
<1> HIDE DEF T
<1> QED
  BY <1>2

-----------------------------------------------------------------------------
(* Shelves.                                                                *)

On(s, c, p)   == {<<c, p, i>> : i \in s[p].items}
Seen(s, c, n) == UNION {On(s, c, p) : p \in {q \in 1 .. Len(s) : q <= n}}

\* What a shelf is: pages of cards, some of them sold out.
LEMMA ShelfFacts ==
    ASSUME NEW s \in Shelves
    PROVE  /\ Len(s) \in Nat /\ DOMAIN s = 1 .. Len(s)
           /\ \A p \in 1 .. Len(s) : /\ s[p].cards \in Nat /\ s[p].cards <= PerPage
                                     /\ s[p].items \subseteq 1 .. s[p].cards
                                     /\ Cards(s)[p] = s[p].cards
<1>1. s \in Seq([cards : 0 .. PerPage, items : SUBSET (1 .. PerPage)])
  BY PagesAssumption
<1>2. \A p \in 1 .. Len(s) : /\ s[p] \in [cards : 0 .. PerPage, items : SUBSET (1 .. PerPage)]
                             /\ s[p].items \subseteq 1 .. s[p].cards
  <2>1. \A p \in 1 .. Len(s) : s[p].items \subseteq 1 .. s[p].cards
    BY FullPagesAssumption
  <2> DEFINE R == [cards : 0 .. PerPage, items : SUBSET (1 .. PerPage)]
  <2>2. s \in Seq(R)
    BY <1>1
  <2> HIDE DEF R
  <2>3. \A p \in 1 .. Len(s) : s[p] \in R
    BY <2>2
  <2> QED
    BY <2>1, <2>3 DEF R
<1>3. \A p \in 1 .. Len(s) : s[p].cards \in 0 .. PerPage
  BY <1>2
<1>4. PerPage \in Nat
  BY HarvestAssumption
<1>5. Len(s) \in Nat /\ DOMAIN s = 1 .. Len(s)
  BY <1>1
<1> QED
  BY <1>2, <1>3, <1>4, <1>5 DEF Cards

\* A page adds its products to what was seen.
LEMMA SeenNext ==
    ASSUME NEW s \in Shelves, NEW c, NEW p \in 1 .. Len(s)
    PROVE  Seen(s, c, p) = Seen(s, c, p - 1) \cup On(s, c, p)
<1>1. \A q \in 1 .. Len(s) : q <= p <=> q <= p - 1 \/ q = p
  BY ShelfFacts
<1>2. {q \in 1 .. Len(s) : q <= p} = {q \in 1 .. Len(s) : q <= p - 1} \cup {p}
  BY <1>1
<1> QED
  BY <1>2, Zenon DEF Seen

\* There is nothing past the last page.
LEMMA SeenAll ==
    ASSUME NEW s \in Shelves, NEW c, NEW n \in Nat, n >= Len(s)
    PROVE  Seen(s, c, n) = Seen(s, c, Len(s))
<1>1. {q \in 1 .. Len(s) : q <= n} = {q \in 1 .. Len(s) : q <= Len(s)}
  BY ShelfFacts
<1> QED
  BY <1>1, Zenon DEF Seen

\* Nothing was seen before page 1.
LEMMA SeenNone ==
    ASSUME NEW s \in Shelves, NEW c
    PROVE  Seen(s, c, 0) = {}
<1>1. {q \in 1 .. Len(s) : q <= 0} = {}
  BY ShelfFacts
<1> QED
  BY <1>1 DEF Seen

\* A page holds no more products than cards.
LEMMA OnCounts ==
    ASSUME NEW s \in Shelves, NEW c, NEW p \in 1 .. Len(s)
    PROVE  IsFiniteSet(On(s, c, p)) /\ Cardinality(On(s, c, p)) <= s[p].cards
<1> DEFINE n == s[p].cards
           f == [x \in On(s, c, p) |-> x[3]]
<1>1. n \in Nat /\ s[p].items \subseteq 1 .. n
  BY ShelfFacts
<1>2. f \in Injection(On(s, c, p), 1 .. n)
  <2>1. \A x \in On(s, c, p) : x = <<c, p, x[3]>> /\ x[3] \in 1 .. n
    BY <1>1 DEF On
  <2>2. f \in [On(s, c, p) -> 1 .. n] /\ \A x, y \in On(s, c, p) : f[x] = f[y] => x = y
    BY <2>1
  <2> HIDE DEF f, n
  <2> QED
    BY <2>2 DEF Injection, IsInjective
<1>3. IsFiniteSet(1 .. n) /\ Cardinality(1 .. n) = n
  BY <1>1, CountUpTo
<1>4. IsFiniteSet(On(s, c, p)) /\ Cardinality(On(s, c, p)) <= Cardinality(1 .. n)
  BY <1>2, <1>3, FS_Injection
<1> QED
  BY <1>1, <1>3, <1>4

\* No more products were seen than cards shown.
LEMMA SeenCounts ==
    ASSUME NEW s \in Shelves, NEW c
    PROVE  \A n \in 0 .. Len(s) : /\ IsFiniteSet(Seen(s, c, n))
                                  /\ Cardinality(Seen(s, c, n)) \in Nat
                                  /\ Cardinality(Seen(s, c, n)) <= SumTo(Cards(s), n)
<1> DEFINE Good(n) == /\ IsFiniteSet(Seen(s, c, n))
                      /\ Cardinality(Seen(s, c, n)) \in Nat
                      /\ Cardinality(Seen(s, c, n)) <= SumTo(Cards(s), n)
           T == {n \in 0 .. Len(s) : ~Good(n)}
<1> SUFFICES T = {}
  OBVIOUS
<1> SUFFICES ASSUME T # {} PROVE FALSE
  OBVIOUS
<1>0. Len(s) \in Nat /\ T \subseteq Nat
  BY ShelfFacts
<1>1. PICK n \in T : \A j \in T : ~(j < n)
  BY <1>0, LeastOf
<1>2. CASE n = 0
  <2>1. Seen(s, c, 0) = {} /\ SumTo(Cards(s), 0) = 0
    BY SeenNone, SumToIs
  <2>2. IsFiniteSet({}) /\ Cardinality({}) = 0
    BY FS_EmptySet
  <2>3. IsFiniteSet(Seen(s, c, 0)) /\ Cardinality(Seen(s, c, 0)) = 0
    BY <2>1, <2>2, Zenon
  <2>4. Good(0)
    BY <2>1, <2>3
  <2> QED
    BY <1>1, <1>2, <2>4
<1>3. CASE n # 0
  <2> DEFINE m == n - 1
             A == Seen(s, c, m)
             B == On(s, c, n)
  <2>1. m \in 0 .. Len(s) /\ m \in Nat /\ m < n /\ m + 1 = n /\ n \in 1 .. Len(s)
    BY <1>0, <1>3
  <2>2. Good(m)
    BY <1>1, <2>1
  <2>3. Seen(s, c, n) = A \cup B
    BY <2>1, SeenNext
  <2>4. IsFiniteSet(B) /\ Cardinality(B) <= s[n].cards /\ s[n].cards \in Nat
    BY <2>1, OnCounts, ShelfFacts
  <2>5. SumTo(Cards(s), n) = SumTo(Cards(s), m) + s[n].cards
    <3>1. Cards(s)[n] = s[n].cards
      BY <2>1, ShelfFacts
    <3> HIDE DEF m
    <3>2. SumTo(Cards(s), m + 1) = SumTo(Cards(s), m) + Cards(s)[m + 1]
      BY <2>1, SumToIs
    <3> QED
      BY <2>1, <3>1, <3>2
  <2>6. SumTo(Cards(s), m) \in Nat
    <3>1. \A i \in 1 .. Len(s) : Cards(s)[i] \in Nat
      BY ShelfFacts
    <3> QED
      BY <1>0, <2>1, <3>1, SumGrows
  <2> HIDE DEF T, m
  <2>7. IsFiniteSet(A) /\ Cardinality(A) \in Nat /\ Cardinality(A) <= SumTo(Cards(s), m)
    BY <2>2
  <2> HIDE DEF A, B
  <2>8. /\ IsFiniteSet(A \cup B) /\ Cardinality(A \cup B) \in Nat /\ Cardinality(B) \in Nat
        /\ Cardinality(A \cup B) = Cardinality(A) + Cardinality(B) - Cardinality(A \cap B)
        /\ Cardinality(A \cap B) \in Nat
    <3>1. IsFiniteSet(A \cap B)
      BY <2>4, FS_Intersection
    <3> QED
      BY <2>4, <2>7, <3>1, FS_Union, FS_CardinalityType
  <2>9. Cardinality(A \cup B) <= SumTo(Cards(s), n)
    BY <2>4, <2>5, <2>6, <2>7, <2>8
  <2>10. Good(n)
    BY <2>3, <2>8, <2>9
  <2> QED
    BY <1>1, <2>10 DEF T
<1> QED
  BY <1>2, <1>3

\* Where the cards so far are all the cards there are, nothing is left.
LEMMA CountedOut ==
    ASSUME NEW s \in Shelves, NEW c, NEW n \in 0 .. Len(s),
           SumTo(Cards(s), n) >= SumTo(Cards(s), Len(s))
    PROVE  Seen(s, c, n) = Seen(s, c, Len(s))
<1>0. Len(s) \in Nat /\ n \in Nat
  BY ShelfFacts
<1>1. \A i \in 1 .. Len(s) : Cards(s)[i] \in Nat
  BY ShelfFacts
<1>2. /\ \A i \in 0 .. Len(s) : SumTo(Cards(s), i) \in Nat
      /\ \A i, j \in 0 .. Len(s) : i <= j => SumTo(Cards(s), i) <= SumTo(Cards(s), j)
  BY <1>0, <1>1, SumGrows
<1>3. ASSUME NEW q \in 1 .. Len(s), ~(q <= n) PROVE On(s, c, q) = {}
  <2>1. q - 1 \in 0 .. Len(s) /\ q \in 0 .. Len(s) /\ n <= q - 1 /\ q - 1 \in Nat
        /\ (q - 1) + 1 = q /\ q <= Len(s) /\ Len(s) \in 0 .. Len(s)
    BY <1>0, <1>3
  <2>2. SumTo(Cards(s), q) = SumTo(Cards(s), q - 1) + Cards(s)[q]
    <3> DEFINE m == q - 1
    <3>1. m \in Nat /\ m + 1 = q
      BY <2>1
    <3> HIDE DEF m
    <3>2. SumTo(Cards(s), m + 1) = SumTo(Cards(s), m) + Cards(s)[m + 1]
      BY <3>1, SumToIs
    <3>3. SumTo(Cards(s), q) = SumTo(Cards(s), m) + Cards(s)[q]
      BY <3>1, <3>2
    <3> QED
      BY <3>3 DEF m
  <2>3. /\ SumTo(Cards(s), n) <= SumTo(Cards(s), q - 1)
        /\ SumTo(Cards(s), q) <= SumTo(Cards(s), Len(s))
    BY <1>2, <2>1
  <2>4. /\ SumTo(Cards(s), n) \in Nat /\ SumTo(Cards(s), q - 1) \in Nat
        /\ SumTo(Cards(s), q) \in Nat /\ SumTo(Cards(s), Len(s)) \in Nat
        /\ Cards(s)[q] \in Nat
    BY <1>1, <1>2, <2>1
  <2>5. s[q].cards = 0
    <3>1. Cards(s)[q] = 0
      BY <2>2, <2>3, <2>4
    <3> QED
      BY <3>1, ShelfFacts
  <2>6. s[q].items \subseteq 1 .. 0
    BY <2>5, ShelfFacts
  <2> QED
    BY <2>6 DEF On
<1>4. \A x : x \in Seen(s, c, Len(s)) <=> \E q \in 1 .. Len(s) : x \in On(s, c, q)
  BY <1>0 DEF Seen
<1>5. \A x : x \in Seen(s, c, n) <=> \E q \in 1 .. Len(s) : q <= n /\ x \in On(s, c, q)
  BY DEF Seen
<1>6. \A x : x \in Seen(s, c, Len(s)) => x \in Seen(s, c, n)
  BY <1>3, <1>4, <1>5
<1>7. \A x : x \in Seen(s, c, n) => x \in Seen(s, c, Len(s))
  BY <1>4, <1>5
<1> QED
  BY <1>6, <1>7

\* Where as many products are found as there are cards, all are found.
LEMMA FoundOut ==
    ASSUME NEW s \in Shelves, NEW c, NEW n \in 0 .. Len(s),
           Cardinality(Seen(s, c, n)) >= SumTo(Cards(s), Len(s))
    PROVE  Seen(s, c, n) = Seen(s, c, Len(s))
<1>0. Len(s) \in Nat /\ n \in Nat /\ Len(s) \in 0 .. Len(s)
  BY ShelfFacts
<1>1. \A i \in 1 .. Len(s) : Cards(s)[i] \in Nat
  BY ShelfFacts
<1>2. \A i \in 0 .. Len(s) : SumTo(Cards(s), i) \in Nat
  BY <1>0, <1>1, SumGrows
<1>3. /\ Cardinality(Seen(s, c, n)) \in Nat
      /\ Cardinality(Seen(s, c, n)) <= SumTo(Cards(s), n)
  BY SeenCounts
<1>4. SumTo(Cards(s), n) >= SumTo(Cards(s), Len(s))
  <2>1. SumTo(Cards(s), n) \in Nat /\ SumTo(Cards(s), Len(s)) \in Nat
    BY <1>0, <1>2
  <2> QED
    BY <1>3, <2>1
<1> QED
  BY <1>4, CountedOut

-----------------------------------------------------------------------------
(* The walk of a listing.  n pages were answered so far: k cards were on   *)
(* them, and the last r of them were sold out.                             *)

Stock(s, c) == Seen(s, c, Len(s))

CountsOf(s, n, k, r) ==
    /\ n <= Len(s) => k = SumTo(Cards(s), n)
    /\ n > Len(s)  => k >= SumTo(Cards(s), Len(s))
    /\ r <= n /\ n - r <= Len(s)
    /\ r > 0 => n - r < Len(s)
    /\ \A q \in 1 .. Len(s) : q > n - r /\ q <= n => SoldOut(s[q])
    /\ n - r > 0 => ~SoldOut(s[n - r])

\* Page n + 1, or what is shown for it past the end.
ShownAt(s, n) == IF n + 1 <= Len(s) THEN {n + 1}
                 ELSE {0} \cup (IF Len(s) = 0 THEN {} ELSE {Len(s)})
CardsAt(s, p)    == IF p = 0 THEN 0 ELSE s[p].cards
OnPage(s, c, p)  == IF p = 0 THEN {} ELSE On(s, c, p)
SoldAt(s, p)     == p # 0 /\ SoldOut(s[p])
MoreAt(total, s, k, r, p) == IF total THEN k + CardsAt(s, p) < SumTo(Cards(s), Len(s))
                                      ELSE r + 1 < MaxSkippedPages
EndsAt(total, s, c, n, k, r, p) ==
    LET f   == Seen(s, c, n)
        all == f \cup OnPage(s, c, p)
    IN \/ SoldAt(s, p) /\ ~MoreAt(total, s, k, r, p)
       \/ ~SoldAt(s, p) /\ all = f
       \/ ~SoldAt(s, p) /\ total /\ Cardinality(all) >= SumTo(Cards(s), Len(s))

\* The cards shown so far, page by page.
LEMMA CardSums ==
    ASSUME NEW s \in Shelves
    PROVE  /\ Len(s) \in Nat
           /\ \A n \in 0 .. Len(s) : SumTo(Cards(s), n) \in Nat
           /\ \A n \in Nat : n + 1 <= Len(s) =>
                 SumTo(Cards(s), n + 1) = SumTo(Cards(s), n) + s[n + 1].cards
           /\ SumTo(Cards(s), 0) = 0
<1>0. Len(s) \in Nat
  BY ShelfFacts
<1>1. \A i \in 1 .. Len(s) : Cards(s)[i] \in Nat /\ Cards(s)[i] = s[i].cards
  BY ShelfFacts
<1>2. \A n \in 0 .. Len(s) : SumTo(Cards(s), n) \in Nat
  BY <1>0, <1>1, SumGrows
<1>3. ASSUME NEW n \in Nat, n + 1 <= Len(s)
      PROVE  SumTo(Cards(s), n + 1) = SumTo(Cards(s), n) + s[n + 1].cards
  <2>1. n + 1 \in 1 .. Len(s)
    BY <1>0, <1>3
  <2>2. Cards(s)[n + 1] = s[n + 1].cards
    BY <1>1, <2>1
  <2>3. SumTo(Cards(s), n + 1) = SumTo(Cards(s), n) + Cards(s)[n + 1]
    BY SumToIs
  <2> QED
    BY <2>2, <2>3
<1>4. SumTo(Cards(s), 0) = 0
  BY <1>0, SumToIs
<1> QED
  BY <1>0, <1>2, <1>3, <1>4

\* Before the first page.
LEMMA CountsBegin == ASSUME NEW s \in Shelves PROVE CountsOf(s, 0, 0, 0)
<1>1. Len(s) \in Nat /\ SumTo(Cards(s), 0) = 0
  BY CardSums
<1> QED
  BY <1>1 DEF CountsOf

\* A page past the end adds nothing.
LEMMA PastTheEnd ==
    ASSUME NEW s \in Shelves, NEW c, NEW n \in Nat, n >= Len(s), NEW p \in ShownAt(s, n)
    PROVE  /\ p = 0 \/ (p = Len(s) /\ p \in 1 .. Len(s))
           /\ OnPage(s, c, p) \subseteq Stock(s, c)
           /\ Seen(s, c, n) = Stock(s, c)
<1>1. Len(s) \in Nat
  BY ShelfFacts
<1>2. p = 0 \/ (p = Len(s) /\ p \in 1 .. Len(s))
  BY <1>1 DEF ShownAt
<1>3. Seen(s, c, n) = Stock(s, c)
  BY SeenAll DEF Stock
<1>4. p \in 1 .. Len(s) => On(s, c, p) \subseteq Seen(s, c, Len(s))
  BY <1>1 DEF Seen
<1>5. OnPage(s, c, p) \subseteq Stock(s, c)
  BY <1>2, <1>4 DEF OnPage, Stock
<1> QED
  BY <1>2, <1>3, <1>5

\* Whatever page is shown, the walk has seen what is on the pages up to it.
LEMMA SeenWithShown ==
    ASSUME NEW s \in Shelves, NEW c, NEW n \in Nat, NEW p \in ShownAt(s, n)
    PROVE  Seen(s, c, n + 1) = Seen(s, c, n) \cup OnPage(s, c, p)
<1>1. Len(s) \in Nat
  BY ShelfFacts
<1>2. CASE n + 1 <= Len(s)
  <2>1. p = n + 1 /\ p \in 1 .. Len(s) /\ p - 1 = n /\ p # 0
    BY <1>1, <1>2 DEF ShownAt
  <2>2. Seen(s, c, p) = Seen(s, c, p - 1) \cup On(s, c, p)
    BY <2>1, SeenNext
  <2> QED
    BY <2>1, <2>2 DEF OnPage
<1>3. CASE ~(n + 1 <= Len(s))
  <2>1. n >= Len(s) /\ n + 1 \in Nat /\ n + 1 >= Len(s)
    BY <1>1, <1>3
  <2>2. Seen(s, c, n) = Stock(s, c) /\ OnPage(s, c, p) \subseteq Stock(s, c)
    BY <2>1, PastTheEnd
  <2>3. Seen(s, c, n + 1) = Stock(s, c)
    BY <2>1, SeenAll DEF Stock
  <2> QED
    BY <2>2, <2>3
<1> QED
  BY <1>2, <1>3

\* A page that adds nothing and is not sold out is the last one, or past it.
LEMMA NothingNew ==
    ASSUME NEW s \in Shelves, NEW c, NEW n \in Nat, NEW p \in ShownAt(s, n),
           ~SoldAt(s, p), Seen(s, c, n) \cup OnPage(s, c, p) = Seen(s, c, n)
    PROVE  Seen(s, c, n) = Stock(s, c)
<1>1. Len(s) \in Nat
  BY ShelfFacts
<1>2. CASE n + 1 <= Len(s)
  <2>1. p = n + 1 /\ p \in 1 .. Len(s) /\ p # 0
    BY <1>1, <1>2 DEF ShownAt
  <2>2. s[p].items = {}
    <3> SUFFICES ASSUME NEW i \in s[p].items PROVE FALSE
      OBVIOUS
    <3>1. <<c, p, i>> \in Seen(s, c, n)
      BY <2>1 DEF OnPage, On
    <3>2. PICK q \in 1 .. Len(s) : q <= n /\ <<c, p, i>> \in On(s, c, q)
      BY <3>1 DEF Seen
    <3>3. p = q
      BY <3>2 DEF On
    <3> QED
      BY <1>1, <2>1, <3>2, <3>3
  <2>3. s[p].cards = 0
    <3>1. s[p].cards \in Nat
      BY <2>1, ShelfFacts
    <3>2. ~(s[p].cards > 0)
      BY <2>1, <2>2 DEF SoldAt, SoldOut
    <3> QED
      BY <3>1, <3>2
  <2>4. p = Len(s)
    <3>1. PerPage \in Nat \ {0}
      BY HarvestAssumption
    <3>2. p < Len(s) => s[p].cards = PerPage
      BY <2>1, FullPagesAssumption
    <3> QED
      BY <1>1, <2>1, <2>3, <3>1, <3>2
  <2>5. Seen(s, c, n + 1) = Seen(s, c, n)
    BY SeenWithShown
  <2> QED
    BY <2>1, <2>4, <2>5 DEF Stock
<1>3. CASE ~(n + 1 <= Len(s))
  BY <1>1, <1>3, PastTheEnd
<1> QED
  BY <1>2, <1>3

\* Where the walk ends, all that is in stock was seen.
LEMMA EndIsTheEnd ==
    ASSUME NEW s \in Shelves, NEW c, NEW n \in Nat, NEW k \in Nat, NEW r \in Nat,
           NEW p \in ShownAt(s, n), NEW total \in BOOLEAN, CountsOf(s, n, k, r),
           EndsAt(total, s, c, n, k, r, p)
    PROVE  Seen(s, c, n) \cup OnPage(s, c, p) = Stock(s, c)
<1>0. Seen(s, c, n + 1) = Seen(s, c, n) \cup OnPage(s, c, p)
  BY SeenWithShown
<1>1. Len(s) \in Nat /\ MaxSkippedPages \in Nat \ {0}
  BY ShelfFacts, HarvestAssumption
<1>2. CASE ~(n + 1 <= Len(s))
  <2>1. n + 1 \in Nat /\ n + 1 >= Len(s)
    BY <1>1, <1>2
  <2> QED
    BY <1>0, <2>1, SeenAll DEF Stock
<1>3. CASE n + 1 <= Len(s)
  <2>1. p = n + 1 /\ p \in 1 .. Len(s) /\ p # 0 /\ n + 1 \in 0 .. Len(s) /\ n \in 0 .. Len(s)
    BY <1>1, <1>3 DEF ShownAt
  <2>2. /\ k = SumTo(Cards(s), n) /\ SumTo(Cards(s), n + 1) = k + CardsAt(s, p)
        /\ SumTo(Cards(s), n + 1) \in Nat /\ SumTo(Cards(s), Len(s)) \in Nat
    <3>1. k = SumTo(Cards(s), n)
      BY <1>1, <2>1 DEF CountsOf
    <3>2. SumTo(Cards(s), n + 1) = SumTo(Cards(s), n) + s[n + 1].cards
      BY <1>3, CardSums
    <3>3. \A m \in 0 .. Len(s) : SumTo(Cards(s), m) \in Nat
      BY CardSums
    <3>4. CardsAt(s, p) = s[n + 1].cards
      BY <2>1 DEF CardsAt
    <3> QED
      BY <1>1, <2>1, <3>1, <3>2, <3>3, <3>4
  <2>3. CASE SoldAt(s, p) /\ ~MoreAt(total, s, k, r, p)
    <3>1. CASE total
      <4>1. SumTo(Cards(s), n + 1) >= SumTo(Cards(s), Len(s))
        <5>1. ~(k + CardsAt(s, p) < SumTo(Cards(s), Len(s)))
          BY <2>3, <3>1 DEF MoreAt
        <5> QED
          BY <2>2, <5>1
      <4>2. Seen(s, c, n + 1) = Seen(s, c, Len(s))
        BY <2>1, <4>1, CountedOut
      <4> QED
        BY <1>0, <4>2 DEF Stock
    <3>2. CASE ~total
      <4> DEFINE b == n - r
      <4>1. r + 1 >= MaxSkippedPages
        BY <1>1, <2>3, <3>2 DEF MoreAt
      <4>2. /\ r <= n
            /\ \A q \in 1 .. Len(s) : q > n - r /\ q <= n => SoldOut(s[q])
        BY DEF CountsOf
      <4>3. b \in 0 .. Len(s) /\ b + MaxSkippedPages <= n + 1 /\ b + MaxSkippedPages <= Len(s)
        BY <1>1, <1>3, <4>1, <4>2
      <4>4. \A q \in 1 .. Len(s) : q > b /\ q <= n + 1 => SoldOut(s[q])
        <5>1. SoldOut(s[n + 1])
          BY <2>1, <2>3 DEF SoldAt
        <5>2. \A q \in 1 .. Len(s) : q <= n + 1 => q <= n \/ q = n + 1
          BY <1>1
        <5> QED
          BY <4>2, <5>1, <5>2
      <4> HIDE DEF b
      <4>5. PICK q \in b + 1 .. b + MaxSkippedPages : ~SoldOut(s[q])
        BY <4>3, SoldOutRunsAssumption
      <4>6. q \in 1 .. Len(s) /\ q > b /\ q <= n + 1
        BY <1>1, <4>3
      <4> QED
        BY <4>4, <4>5, <4>6
    <3> QED
      BY <3>1, <3>2
  <2>4. CASE ~SoldAt(s, p) /\ Seen(s, c, n) \cup OnPage(s, c, p) = Seen(s, c, n)
    BY <2>4, NothingNew
  <2>5. CASE Cardinality(Seen(s, c, n) \cup OnPage(s, c, p)) >= SumTo(Cards(s), Len(s))
    <3>1. Cardinality(Seen(s, c, n + 1)) >= SumTo(Cards(s), Len(s))
      BY <1>0, <2>5
    <3>2. Seen(s, c, n + 1) = Seen(s, c, Len(s))
      BY <2>1, <3>1, FoundOut
    <3> QED
      BY <1>0, <3>2 DEF Stock
  <2> QED
    BY <2>3, <2>4, <2>5 DEF EndsAt
<1> QED
  BY <1>2, <1>3

\* Where it does not end, the counts go on.
LEMMA CountsGoOn ==
    ASSUME NEW s \in Shelves, NEW c, NEW n \in Nat, NEW k \in Nat, NEW r \in Nat,
           NEW p \in ShownAt(s, n), NEW total \in BOOLEAN, CountsOf(s, n, k, r),
           ~EndsAt(total, s, c, n, k, r, p)
    PROVE  CountsOf(s, n + 1, k + CardsAt(s, p), IF SoldAt(s, p) THEN r + 1 ELSE 0)
<1>1. Len(s) \in Nat
  BY ShelfFacts
<1>2. CASE n + 1 <= Len(s)
  <2>1. p = n + 1 /\ p \in 1 .. Len(s) /\ p # 0 /\ CardsAt(s, p) = s[n + 1].cards
    BY <1>1, <1>2 DEF ShownAt, CardsAt
  <2>2. k + CardsAt(s, p) = SumTo(Cards(s), n + 1)
    <3>1. k = SumTo(Cards(s), n)
      BY <1>1, <1>2 DEF CountsOf
    <3> QED
      BY <1>2, <2>1, <3>1, CardSums
  <2>3. CASE SoldAt(s, p)
    <3>1. SoldOut(s[n + 1])
      BY <2>1, <2>3 DEF SoldAt
    <3>2. /\ r <= n /\ n - r <= Len(s)
          /\ \A q \in 1 .. Len(s) : q > n - r /\ q <= n => SoldOut(s[q])
          /\ n - r > 0 => ~SoldOut(s[n - r])
      BY DEF CountsOf
    <3>3. (n + 1) - (r + 1) = n - r /\ r + 1 <= n + 1 /\ n - r < Len(s)
      BY <1>1, <1>2, <3>2
    <3>4. \A q \in 1 .. Len(s) : q > n - r /\ q <= n + 1 => SoldOut(s[q])
      <4>1. \A q \in 1 .. Len(s) : q <= n + 1 => q <= n \/ q = n + 1
        BY <1>1
      <4> QED
        BY <3>1, <3>2, <4>1
    <3>5. CountsOf(s, n + 1, k + CardsAt(s, p), r + 1)
      BY <1>1, <1>2, <2>2, <3>2, <3>3, <3>4 DEF CountsOf
    <3> QED
      BY <2>3, <3>5
  <2>4. CASE ~SoldAt(s, p)
    <3>1. ~SoldOut(s[n + 1])
      BY <2>1, <2>4 DEF SoldAt
    <3>2. (n + 1) - 0 = n + 1 /\ 0 <= n + 1
          /\ \A q \in 1 .. Len(s) : ~(q > n + 1 /\ q <= n + 1)
      BY <1>1
    <3>3. CountsOf(s, n + 1, k + CardsAt(s, p), 0)
      BY <1>1, <1>2, <2>2, <3>1, <3>2 DEF CountsOf
    <3> QED
      BY <2>4, <3>3
  <2> QED
    BY <2>3, <2>4
<1>3. CASE ~(n + 1 <= Len(s))
  <2>1. n >= Len(s)
    BY <1>1, <1>3
  <2>2. p = 0 \/ (p = Len(s) /\ p \in 1 .. Len(s))
    BY <2>1, PastTheEnd
  <2>3. SoldAt(s, p)
    <3>1. SUFFICES ASSUME ~SoldAt(s, p) PROVE FALSE
      OBVIOUS
    <3>2. Seen(s, c, n) \cup OnPage(s, c, p) = Seen(s, c, n)
      BY <2>1, PastTheEnd
    <3> QED
      BY <3>1, <3>2 DEF EndsAt
  <2>4. p = Len(s) /\ p \in 1 .. Len(s) /\ SoldOut(s[Len(s)])
    BY <2>2, <2>3 DEF SoldAt
  <2>5. /\ n <= Len(s) => k = SumTo(Cards(s), n)
        /\ n > Len(s)  => k >= SumTo(Cards(s), Len(s))
        /\ r <= n /\ n - r <= Len(s)
        /\ r > 0 => n - r < Len(s)
        /\ \A q \in 1 .. Len(s) : q > n - r /\ q <= n => SoldOut(s[q])
        /\ n - r > 0 => ~SoldOut(s[n - r])
    BY DEF CountsOf
  <2>6. r > 0 /\ n - r < Len(s)
    <3>1. SUFFICES ASSUME ~(r > 0) PROVE FALSE
      BY <2>5
    <3>2. n - r = Len(s) /\ Len(s) > 0
      BY <1>1, <2>1, <2>4, <2>5, <3>1
    <3> QED
      BY <2>4, <2>5, <3>2
  <2>7. k + CardsAt(s, p) >= SumTo(Cards(s), Len(s))
    <3>1. CardsAt(s, p) \in Nat
      BY <2>4, ShelfFacts DEF CardsAt
    <3>2. SumTo(Cards(s), Len(s)) \in Nat
      BY <1>1, CardSums
    <3>3. k >= SumTo(Cards(s), Len(s))
      <4>1. CASE n = Len(s)
        BY <2>5, <3>2, <4>1
      <4>2. CASE n > Len(s)
        BY <2>5, <4>2
      <4> QED
        BY <1>1, <2>1, <4>1, <4>2
    <3> QED
      BY <3>1, <3>2, <3>3
  <2>8. (n + 1) - (r + 1) = n - r /\ r + 1 <= n + 1 /\ ~(n + 1 <= Len(s))
    BY <1>1, <1>3, <2>5
  <2>9. \A q \in 1 .. Len(s) : q > n - r => SoldOut(s[q])
    BY <1>1, <2>1, <2>5
  <2>10. CountsOf(s, n + 1, k + CardsAt(s, p), r + 1)
    BY <2>5, <2>6, <2>7, <2>8, <2>9 DEF CountsOf
  <2> QED
    BY <2>3, <2>10
<1> QED
  BY <1>2, <1>3

\* No walk of a listing whose pages all come reaches the page cap.
LEMMA CapIsFar ==
    ASSUME NEW s \in Shelves, NEW c, NEW n \in Nat, NEW k \in Nat, NEW r \in Nat,
           NEW p \in ShownAt(s, n), NEW total \in BOOLEAN, CountsOf(s, n, k, r),
           n + 1 = MaxPages
    PROVE  EndsAt(total, s, c, n, k, r, p)
<1>1. Len(s) \in Nat /\ Len(s) < MaxPages /\ MaxPages \in Nat
      /\ MaxSkippedPages \in Nat \ {0}
  BY ShelfFacts, PagesAssumption, HarvestAssumption
<1>2. n >= Len(s) /\ n + 1 > Len(s)
  BY <1>1
<1>3. SUFFICES ASSUME ~EndsAt(total, s, c, n, k, r, p) PROVE FALSE
  OBVIOUS
<1>4. p = 0 \/ (p = Len(s) /\ p \in 1 .. Len(s))
  BY <1>2, PastTheEnd
<1>5. SoldAt(s, p) /\ MoreAt(total, s, k, r, p)
  <2>1. Seen(s, c, n) \cup OnPage(s, c, p) = Seen(s, c, n)
    BY <1>2, PastTheEnd
  <2> QED
    BY <1>3, <2>1 DEF EndsAt
<1>6. p = Len(s) /\ p \in 1 .. Len(s) /\ SoldOut(s[Len(s)])
  BY <1>4, <1>5 DEF SoldAt
<1>7. /\ n <= Len(s) => k = SumTo(Cards(s), n)
      /\ n > Len(s)  => k >= SumTo(Cards(s), Len(s))
      /\ r <= n /\ n - r <= Len(s)
      /\ r > 0 => n - r < Len(s)
      /\ \A q \in 1 .. Len(s) : q > n - r /\ q <= n => SoldOut(s[q])
      /\ n - r > 0 => ~SoldOut(s[n - r])
  BY DEF CountsOf
<1>8. CASE total
  <2>1. k + CardsAt(s, p) < SumTo(Cards(s), Len(s))
    BY <1>5, <1>8 DEF MoreAt
  <2>2. CardsAt(s, p) \in Nat /\ SumTo(Cards(s), Len(s)) \in Nat
    <3>1. CardsAt(s, p) \in Nat
      BY <1>6, ShelfFacts DEF CardsAt
    <3>2. SumTo(Cards(s), Len(s)) \in Nat
      BY <1>1, CardSums
    <3> QED
      BY <3>1, <3>2
  <2>3. k >= SumTo(Cards(s), Len(s))
    <3>1. CASE n = Len(s)
      BY <1>7, <2>2, <3>1
    <3>2. CASE n > Len(s)
      BY <1>7, <3>2
    <3> QED
      BY <1>1, <1>2, <3>1, <3>2
  <2> QED
    BY <2>1, <2>2, <2>3
<1>9. CASE ~total
  <2> DEFINE b == n - r
  <2>1. r + 1 < MaxSkippedPages
    BY <1>5, <1>9 DEF MoreAt
  <2>2. b < Len(s)
    <3>1. SUFFICES ASSUME ~(r > 0) PROVE FALSE
      BY <1>7
    <3>2. n - r = Len(s) /\ Len(s) > 0
      BY <1>1, <1>2, <1>6, <1>7, <3>1
    <3> QED
      BY <1>6, <1>7, <3>2
  <2>3. b \in 0 .. Len(s)
    BY <1>1, <1>7
  <2>4. \A q \in b + 1 .. Len(s) : SoldOut(s[q])
    BY <1>1, <1>2, <1>7, <2>3
  <2>5. b > 0 => ~SoldOut(s[b])
    BY <1>7
  <2>6. b + MaxSkippedPages > MaxPages
    BY <1>1, <1>7, <2>1
  <2> HIDE DEF b
  <2>7. b + MaxSkippedPages <= MaxPages
    BY <2>2, <2>3, <2>4, <2>5, SoldOutEndsAssumption
  <2> QED
    BY <1>1, <2>3, <2>6, <2>7
<1> QED
  BY <1>8, <1>9

\* A short page is the last one, or past it.
LEMMA ShortIsLast ==
    ASSUME NEW s \in Shelves, NEW c, NEW n \in Nat, NEW p,
           p = IF n + 1 \in DOMAIN s THEN n + 1 ELSE 0
    PROVE  /\ p \in ShownAt(s, n)
           /\ CardsAt(s, p) < PerPage => Seen(s, c, n) \cup OnPage(s, c, p) = Stock(s, c)
           /\ ~(CardsAt(s, p) < PerPage) => n + 1 < MaxPages
           /\ p = 0 => Seen(s, c, n) = Stock(s, c)
           /\ p # 0 => n + 1 < MaxPages
           /\ p # 0 /\ Cardinality(Seen(s, c, n + 1)) >= SumTo(Cards(s), Len(s)) =>
                 Seen(s, c, n) \cup OnPage(s, c, p) = Stock(s, c)
<1>1. Len(s) \in Nat /\ DOMAIN s = 1 .. Len(s) /\ Len(s) < MaxPages /\ MaxPages \in Nat
      /\ PerPage \in Nat \ {0}
  BY ShelfFacts, PagesAssumption, HarvestAssumption
<1>2. p \in ShownAt(s, n)
  BY <1>1 DEF ShownAt
<1>3. Seen(s, c, n + 1) = Seen(s, c, n) \cup OnPage(s, c, p)
  BY <1>2, SeenWithShown
<1>4. CASE p = 0
  <2>1. ~(n + 1 <= Len(s)) /\ n >= Len(s) /\ n + 1 \in Nat /\ n + 1 >= Len(s)
    BY <1>1, <1>4
  <2>2. Seen(s, c, n) = Stock(s, c) /\ Seen(s, c, n + 1) = Stock(s, c)
    BY <2>1, SeenAll DEF Stock
  <2>3. CardsAt(s, p) < PerPage
    BY <1>1, <1>4 DEF CardsAt
  <2> QED
    BY <1>2, <1>3, <1>4, <2>2, <2>3
<1>5. CASE p # 0
  <2>1. p = n + 1 /\ n + 1 \in 1 .. Len(s) /\ n + 1 \in 0 .. Len(s) /\ n + 1 < MaxPages
    BY <1>1, <1>5
  <2>2. ASSUME CardsAt(s, p) < PerPage
        PROVE  Seen(s, c, n) \cup OnPage(s, c, p) = Stock(s, c)
    <3>1. s[p].cards # PerPage
      BY <1>1, <1>5, <2>2 DEF CardsAt
    <3>2. p < Len(s) => s[p].cards = PerPage
      BY <2>1, FullPagesAssumption
    <3>3. n + 1 = Len(s)
      <4>1. ~(n + 1 < Len(s))
        BY <2>1, <3>1, <3>2
      <4>2. n + 1 <= Len(s) /\ Len(s) \in Int /\ n + 1 \in Int
        BY <1>1, <2>1
      <4> QED
        BY <4>1, <4>2
    <3> QED
      BY <1>3, <3>3 DEF Stock
  <2>3. ASSUME Cardinality(Seen(s, c, n + 1)) >= SumTo(Cards(s), Len(s))
        PROVE  Seen(s, c, n) \cup OnPage(s, c, p) = Stock(s, c)
    BY <1>3, <2>1, <2>3, FoundOut DEF Stock
  <2> QED
    BY <1>2, <1>5, <2>1, <2>2, <2>3
<1> QED
  BY <1>4, <1>5

-----------------------------------------------------------------------------
(* The inductive invariant of a source's run.                              *)

HarvestTypes ==
    /\ kind \in Kinds /\ shelf \in [Cats -> Shelves] /\ counted \in BOOLEAN
    /\ fail403 \in [Hosts -> Nat] /\ fail429 \in [Hosts -> Nat]
    /\ blocked \in [Hosts -> BOOLEAN]
    /\ page \in 1 .. MaxPages /\ cat \in 1 .. NumCats + 1
    /\ failures \in 0 .. MaxFailures - 1
    /\ cardsSeen \in Nat /\ soldOutRun \in Nat
    /\ missed \subseteq Cats /\ hidden \subseteq Cats
    /\ pc \in {"token", "page", "report", "done"}

FlagTypes == skipped \in BOOLEAN /\ clean \in BOOLEAN /\ ok \in BOOLEAN

\* Where the wrapper's loop and the walk's are.
PlaceInv ==
    /\ pc \in {"token", "page"}  => cat \in Cats
    /\ pc \in {"report", "done"} => cat = NumCats + 1
    /\ pc = "token" => /\ kind = "junaid"
                       /\ page = 1 /\ ~skipped /\ found = {}
    /\ kind # "listing" => ~skipped

\* A walk without a failed page has found all that is on the pages before this
\* one, and its counts are those of these pages.
WalkInv ==
    pc = "page" /\ ~skipped =>
        /\ found = Seen(shelf[cat], cat, page - 1)
        /\ kind = "listing" => CountsOf(shelf[cat], page - 1, cardsSeen, soldOutRun)

\* What is behind the wrapper was seen, reported, or lost to a swallowed loss.
KeptInv ==
    \A c \in Cats : c < cat /\ c \notin missed \cup hidden => Stock(shelf[c], c) \subseteq kept

BlockInv ==
    kind # "junaid" /\ blocked["site"] => missed # {} \/ (pc = "page" /\ skipped)

VerdictInv ==
    /\ pc # "done" => ~ok
    /\ pc = "done" => (ok <=> kept # {} /\ missed = {} /\ ~LabelBlocked)

StockBefore(sh, n) == UNION {Stock(sh[c], c) : c \in {d \in Cats : d < n}}

\* True answers leave no trace but the stock.
CleanInv ==
    clean => /\ missed = {} /\ hidden = {} /\ ~skipped
             /\ \A h \in Hosts : ~blocked[h]
             /\ kept = StockBefore(shelf, cat)

HarvestInv == /\ HarvestTypes /\ FlagTypes /\ PlaceInv /\ WalkInv /\ KeptInv
              /\ BlockInv /\ VerdictInv /\ CleanInv

\* The stock of the categories walked so far, category by category.
LEMMA StockNext ==
    ASSUME NEW sh, NEW n \in Cats
    PROVE  StockBefore(sh, n + 1) = StockBefore(sh, n) \cup Stock(sh[n], n)
<1>1. \A c \in Cats : c < n + 1 <=> c < n \/ c = n
  BY HarvestAssumption DEF Cats
<1>2. ASSUME NEW x PROVE x \in StockBefore(sh, n + 1)
                             <=> x \in StockBefore(sh, n) \cup Stock(sh[n], n)
  <2>1. \A m : x \in StockBefore(sh, m) <=> \E c \in Cats : c < m /\ x \in Stock(sh[c], c)
    BY Zenon DEF StockBefore
  <2> QED
    BY <1>1, <2>1
<1> QED
  BY <1>2

\* Nothing has been walked at the start.
LEMMA HarvestInitInv == Init => HarvestInv
<1> SUFFICES ASSUME Init PROVE HarvestInv
  OBVIOUS
<1>1. /\ NumCats \in Nat \ {0} /\ MaxPages \in Nat \ {0} /\ MaxFailures \in Nat \ {0}
      /\ 1 \in Cats /\ 1 - 1 = 0
  BY HarvestAssumption DEF Cats
<1>2. HarvestTypes
  BY <1>1 DEF HarvestTypes, Init, Start, Hosts
<1>3. FlagTypes
  BY DEF FlagTypes, Init
<1>4. PlaceInv
  BY <1>1 DEF PlaceInv, Init, Start
<1>5. WalkInv
  <2>1. shelf[1] \in Shelves
    BY <1>1 DEF Init
  <2>2. Seen(shelf[1], 1, 0) = {} /\ CountsOf(shelf[1], 0, 0, 0)
    BY <2>1, SeenNone, CountsBegin
  <2> QED
    BY <1>1, <2>2 DEF WalkInv, Init
<1>6. \A c \in Cats : ~(c < 1)
  BY <1>1 DEF Cats
<1>7. KeptInv
  BY <1>6 DEF KeptInv, Init
<1>8. BlockInv
  BY DEF BlockInv, Init, Hosts
<1>9. VerdictInv
  BY DEF VerdictInv, Init, Start
<1>10. CleanInv
  <2>1. {d \in Cats : d < 1} = {}
    BY <1>6
  <2>2. StockBefore(shelf, cat) = {}
    BY <2>1 DEF Init, StockBefore
  <2> QED
    BY <2>2 DEF CleanInv, Init, Hosts
<1> QED
  BY <1>2, <1>3, <1>4, <1>5, <1>7, <1>8, <1>9, <1>10 DEF HarvestInv

\* A category is left behind: seen, reported, or lost to a swallowed loss.
LEMMA EndStep ==
    ASSUME HarvestInv, pc \in {"token", "page"}, NextCategory,
           fail403' \in [Hosts -> Nat], fail429' \in [Hosts -> Nat],
           blocked' \in [Hosts -> BOOLEAN],
           kept \subseteq kept', missed \subseteq missed', hidden \subseteq hidden',
           missed' \subseteq Cats, hidden' \subseteq Cats, clean' \in BOOLEAN,
           cat \in missed' \cup hidden' \/ Stock(shelf[cat], cat) \subseteq kept',
           kind # "junaid" /\ blocked'["site"] => missed' # {},
           clean' => /\ clean /\ missed' = {} /\ hidden' = {}
                     /\ \A h \in Hosts : ~blocked'[h]
                     /\ kept' = kept \cup Stock(shelf[cat], cat)
    PROVE  HarvestInv'
<1> USE DEF HarvestInv
<1>1. /\ NumCats \in Nat \ {0} /\ MaxPages \in Nat \ {0} /\ MaxFailures \in Nat \ {0}
  BY HarvestAssumption
<1>2. cat \in Cats /\ cat \in 1 .. NumCats
  BY DEF PlaceInv, Cats
<1>3. /\ cat' = cat + 1
      /\ pc' = IF cat = NumCats THEN "report" ELSE Start(kind)
      /\ page' = 1 /\ failures' = 0 /\ skipped' = FALSE
      /\ cardsSeen' = 0 /\ soldOutRun' = 0 /\ found' = {}
      /\ kind' = kind /\ shelf' = shelf /\ counted' = counted /\ ok' = ok
  BY DEF NextCategory, shop
<1>4. ~ok /\ kind \in Kinds /\ shelf \in [Cats -> Shelves]
  BY DEF VerdictInv, HarvestTypes
<1>5. /\ cat' = NumCats + 1 => pc' = "report"
      /\ cat' # NumCats + 1 => pc' = Start(kind) /\ cat' \in Cats
      /\ cat' \in 1 .. NumCats + 1
  BY <1>1, <1>2, <1>3 DEF Cats
<1>6. pc' \in {"token", "page", "report"}
  BY <1>5 DEF Start
<1>7. HarvestTypes'
  <2>1. page' \in 1 .. MaxPages /\ failures' \in 0 .. MaxFailures - 1
    BY <1>1, <1>3
  <2> QED
    BY <1>3, <1>5, <1>6, <2>1 DEF HarvestTypes
<1>8. FlagTypes'
  BY <1>3 DEF FlagTypes
<1>9. PlaceInv'
  BY <1>3, <1>5, <1>6 DEF PlaceInv, Start
<1>10. WalkInv'
  <2> SUFFICES ASSUME (pc = "page")' PROVE WalkInv'
    BY DEF WalkInv
  <2>1. cat' \in Cats
    BY <1>5
  <2>2. shelf'[cat'] \in Shelves /\ page' - 1 = 0
    BY <1>3, <1>4, <2>1
  <2>3. Seen(shelf'[cat'], cat', 0) = {} /\ CountsOf(shelf'[cat'], 0, 0, 0)
    BY <2>2, SeenNone, CountsBegin
  <2> QED
    BY <1>3, <2>2, <2>3 DEF WalkInv
<1>11. \A c \in Cats : c < cat' <=> c < cat \/ c = cat
  BY <1>1, <1>2, <1>3 DEF Cats
<1>12. KeptInv'
  <2> SUFFICES ASSUME NEW c \in Cats, c < cat', c \notin missed' \cup hidden'
               PROVE  Stock(shelf'[c], c) \subseteq kept'
    BY DEF KeptInv
  <2>1. CASE c < cat
    <3>1. c \notin missed \cup hidden
      OBVIOUS
    <3>2. Stock(shelf[c], c) \subseteq kept
      BY <2>1, <3>1 DEF KeptInv
    <3> QED
      BY <1>3, <3>2
  <2>2. CASE c = cat
    BY <1>3, <2>2
  <2> QED
    BY <1>11, <2>1, <2>2
<1>13. BlockInv'
  BY <1>3 DEF BlockInv
<1>14. VerdictInv'
  BY <1>3, <1>4, <1>6 DEF VerdictInv
<1>15. CleanInv'
  <2> SUFFICES ASSUME clean' PROVE CleanInv'
    BY DEF CleanInv
  <2>1. /\ clean /\ missed' = {} /\ hidden' = {} /\ \A h \in Hosts : ~blocked'[h]
        /\ kept' = kept \cup Stock(shelf[cat], cat)
    OBVIOUS
  <2>2. kept = StockBefore(shelf, cat)
    BY <2>1 DEF CleanInv
  <2>3. StockBefore(shelf, cat + 1) = StockBefore(shelf, cat) \cup Stock(shelf[cat], cat)
    BY <1>2, StockNext
  <2>5. kept' = StockBefore(shelf', cat')
    BY <1>3, <2>1, <2>2, <2>3
  <2> QED
    BY <1>3, <2>1, <2>5 DEF CleanInv
<1> QED
  BY <1>7, <1>8, <1>9, <1>10, <1>12, <1>13, <1>14, <1>15

\* The walk turns to the next page of the category.
LEMMA GoOnStep ==
    ASSUME HarvestInv, pc = "page", Stay, page' \in 1 .. MaxPages,
           fail403' \in [Hosts -> Nat], fail429' \in [Hosts -> Nat],
           blocked' \in [Hosts -> BOOLEAN],
           failures' \in 0 .. MaxFailures - 1, cardsSeen' \in Nat, soldOutRun' \in Nat,
           hidden' = hidden, clean' \in BOOLEAN, skipped' \in BOOLEAN,
           kind # "listing" => ~skipped',
           ~skipped' => /\ found' = Seen(shelf[cat], cat, page' - 1)
                        /\ kind = "listing" =>
                              CountsOf(shelf[cat], page' - 1, cardsSeen', soldOutRun'),
           kind # "junaid" /\ blocked'["site"] => missed # {} \/ skipped',
           clean' => clean /\ ~skipped' /\ \A h \in Hosts : ~blocked'[h]
    PROVE  HarvestInv'
<1> USE DEF HarvestInv
<1>1. /\ kind' = kind /\ shelf' = shelf /\ counted' = counted /\ cat' = cat
      /\ kept' = kept /\ missed' = missed /\ pc' = pc /\ ok' = ok
  BY DEF Stay, shop
<1>2. HarvestTypes'
  BY <1>1 DEF HarvestTypes
<1>3. FlagTypes'
  BY <1>1 DEF FlagTypes
<1>4. PlaceInv'
  BY <1>1 DEF PlaceInv
<1>5. WalkInv'
  BY <1>1 DEF WalkInv
<1>6. KeptInv'
  BY <1>1 DEF KeptInv
<1>7. BlockInv'
  BY <1>1 DEF BlockInv
<1>8. VerdictInv'
  BY <1>1 DEF VerdictInv
<1>9. CleanInv'
  BY <1>1 DEF CleanInv
<1> QED
  BY <1>2, <1>3, <1>4, <1>5, <1>6, <1>7, <1>8, <1>9

BreakerTypes == /\ fail403 \in [Hosts -> Nat] /\ fail429 \in [Hosts -> Nat]
                /\ blocked \in [Hosts -> BOOLEAN]

\* A fetch that is served comes from a host that was not blocked, and still is not.
LEMMA ServedKeeps ==
    ASSUME HarvestTypes, NEW h \in Hosts, Served(h)
    PROVE  BreakerTypes' /\ blocked' = blocked /\ ~blocked[h]
BY Zenon, 0 \in Nat DEF HarvestTypes, Served, BreakerTypes

\* A fetch that fails keeps the types; a 404 blocks nobody.
LEMMA FailsKeeps ==
    ASSUME HarvestTypes, NEW h \in Hosts, NEW o, Fails(h, o)
    PROVE  /\ BreakerTypes'
           /\ o = "404" => blocked' = blocked
<1>0. /\ fail403 \in [Hosts -> Nat] /\ fail429 \in [Hosts -> Nat]
      /\ blocked \in [Hosts -> BOOLEAN]
  BY DEF HarvestTypes
<1>1. CASE UNCHANGED breaker
  BY <1>0, <1>1 DEF breaker, BreakerTypes
<1>2. ASSUME NEW f \in [Hosts -> Nat], NEW g, NEW l, g = [f EXCEPT ![h] = @ + 1],
             blocked' = [blocked EXCEPT ![h] = f[h] + 1 >= l]
      PROVE  g \in [Hosts -> Nat] /\ blocked' \in [Hosts -> BOOLEAN]
  <2>1. g \in [Hosts -> Nat]
    BY <1>2
  <2>2. (f[h] + 1 >= l) \in BOOLEAN
    OBVIOUS
  <2>3. blocked' \in [Hosts -> BOOLEAN]
    BY <1>0, <1>2, <2>2, Zenon
  <2> QED
    BY <2>1, <2>3
<1>3. CASE o = "403" /\ Count(fail403, h, ForbiddenLimit) /\ UNCHANGED fail429
  BY <1>0, <1>2, <1>3 DEF Count, BreakerTypes
<1>4. CASE o = "429" /\ Count(fail429, h, ThrottledLimit) /\ UNCHANGED fail403
  BY <1>0, <1>2, <1>4 DEF Count, BreakerTypes
<1> QED
  BY <1>1, <1>3, <1>4 DEF Fails, breaker

\* A category ends and is reported complete: it is hidden, or all of it was seen.
LEMMA CompleteStep ==
    ASSUME HarvestInv, pc \in {"token", "page"}, NEW products, Complete(products),
           BreakerTypes', hidden' \in {hidden, hidden \cup {cat}}, clean' \in BOOLEAN,
           cat \in hidden' \/ products = Stock(shelf[cat], cat),
           kind = "junaid" \/ ~blocked'["site"],
           clean' => clean /\ hidden' = hidden /\ blocked' = blocked
    PROVE  HarvestInv'
<1>1. cat \in Cats
  BY DEF HarvestInv, PlaceInv
<1>2. NextCategory /\ kept' = kept \cup products /\ missed' = missed
  BY DEF Complete
<1>3. hidden \subseteq Cats /\ missed \subseteq Cats
  BY DEF HarvestInv, HarvestTypes
<1>4. hidden \subseteq hidden' /\ hidden' \subseteq Cats /\ missed' \subseteq Cats
  BY <1>1, <1>2, <1>3
<1>5. cat \in missed' \cup hidden' \/ Stock(shelf[cat], cat) \subseteq kept'
  BY <1>2
<1>6. ASSUME clean'
      PROVE  /\ clean /\ missed' = {} /\ hidden' = {} /\ \A h \in Hosts : ~blocked'[h]
             /\ kept' = kept \cup Stock(shelf[cat], cat)
  <2>1. clean /\ hidden' = hidden /\ blocked' = blocked
    BY <1>6
  <2>2. missed = {} /\ hidden = {} /\ \A h \in Hosts : ~blocked[h]
    BY <2>1 DEF HarvestInv, CleanInv
  <2>3. products = Stock(shelf[cat], cat)
    BY <2>1, <2>2
  <2> QED
    BY <1>2, <2>1, <2>2, <2>3
<1>7. kept \subseteq kept' /\ missed \subseteq missed'
  BY <1>2
<1>8. kind # "junaid" /\ blocked'["site"] => missed' # {}
  OBVIOUS
<1>9. fail403' \in [Hosts -> Nat] /\ fail429' \in [Hosts -> Nat] /\ blocked' \in [Hosts -> BOOLEAN]
  BY DEF BreakerTypes
<1> QED
  BY <1>2, <1>4, <1>5, <1>6, <1>7, <1>8, <1>9, EndStep

\* A category ends and is reported incomplete.
LEMMA IncompleteStep ==
    ASSUME HarvestInv, pc \in {"token", "page"}, NEW partial, Incomplete(partial),
           BreakerTypes', hidden' \in {hidden, hidden \cup {cat}}, clean' = FALSE
    PROVE  HarvestInv'
<1>1. cat \in Cats
  BY DEF HarvestInv, PlaceInv
<1>2. NextCategory /\ kept \subseteq kept' /\ missed' = missed \cup {cat}
  BY DEF Incomplete
<1>3. hidden \subseteq Cats /\ missed \subseteq Cats
  BY DEF HarvestInv, HarvestTypes
<1>4. hidden \subseteq hidden' /\ hidden' \subseteq Cats /\ missed' \subseteq Cats
      /\ missed' # {} /\ cat \in missed' \cup hidden' /\ missed \subseteq missed'
  BY <1>1, <1>2, <1>3
<1>5. fail403' \in [Hosts -> Nat] /\ fail429' \in [Hosts -> Nat] /\ blocked' \in [Hosts -> BOOLEAN]
  BY DEF BreakerTypes
<1>6. clean' \in BOOLEAN /\ ~clean'
  OBVIOUS
<1> QED
  BY <1>2, <1>4, <1>5, <1>6, EndStep

\* A category is lost without a report: only where the code swallows the loss.
LEMMA SwallowedStep ==
    ASSUME HarvestInv, pc \in {"token", "page"}, Swallowed, BreakerTypes',
           kind = "junaid" \/ ~blocked'["site"]
    PROVE  HarvestInv'
<1>1. cat \in Cats
  BY DEF HarvestInv, PlaceInv
<1>2. /\ NextCategory /\ kept' = kept /\ missed' = missed
      /\ hidden' = hidden \cup {cat} /\ clean' = FALSE
  BY DEF Swallowed
<1>3. hidden \subseteq Cats /\ missed \subseteq Cats
  BY DEF HarvestInv, HarvestTypes
<1>4. hidden \subseteq hidden' /\ hidden' \subseteq Cats /\ missed' \subseteq Cats
      /\ cat \in missed' \cup hidden' /\ missed \subseteq missed' /\ kept \subseteq kept'
  BY <1>1, <1>2, <1>3
<1>5. fail403' \in [Hosts -> Nat] /\ fail429' \in [Hosts -> Nat] /\ blocked' \in [Hosts -> BOOLEAN]
  BY DEF BreakerTypes
<1>6. clean' \in BOOLEAN /\ ~clean'
  BY <1>2
<1> QED
  BY <1>2, <1>4, <1>5, <1>6, EndStep

\* A listing ends: incomplete when pages were skipped, else complete.
LEMMA EndListingStep ==
    ASSUME HarvestInv, pc = "page", NEW products, EndListing(products),
           BreakerTypes', blocked' = blocked, ~blocked["site"],
           hidden' \in {hidden, hidden \cup {cat}}, clean' \in BOOLEAN,
           clean' => clean /\ hidden' = hidden,
           ~skipped => cat \in hidden' \/ products = Stock(shelf[cat], cat)
    PROVE  HarvestInv'
<1>1. CASE skipped
  <2>1. Incomplete(products)
    BY <1>1 DEF EndListing
  <2>2. clean' = FALSE
    <3>1. ~clean
      BY <1>1 DEF HarvestInv, CleanInv
    <3> QED
      BY <3>1, Zenon
  <2> QED
    BY <2>1, <2>2, IncompleteStep
<1>2. CASE ~skipped
  <2>1. Complete(products)
    BY <1>2 DEF EndListing
  <2>2. ~blocked'["site"]
    OBVIOUS
  <2> QED
    BY <1>2, <2>1, <2>2, CompleteStep
<1> QED
  BY <1>1, <1>2

\* What the model shows and counts on a page, in the terms used here.
LEMMA PageTerms ==
    ASSUME HarvestInv, cat \in Cats, NEW p
    PROVE  /\ shelf[cat] \in Shelves
           /\ page - 1 \in Nat /\ (page - 1) + 1 = page
           /\ p \in Shown(page) => p \in ShownAt(shelf[cat], page - 1)
           /\ CardsOn(p) = CardsAt(shelf[cat], p)
           /\ ItemsOn(p) = OnPage(shelf[cat], cat, p)
           /\ SoldOutPage(p) = SoldAt(shelf[cat], p)
           /\ Total = SumTo(Cards(shelf[cat]), Len(shelf[cat]))
<1>1. shelf[cat] \in Shelves
  BY DEF HarvestInv, HarvestTypes
<1>2. page - 1 \in Nat /\ (page - 1) + 1 = page /\ page \in Nat \ {0}
  BY HarvestAssumption DEF HarvestInv, HarvestTypes
<1>3. p \in Shown(page) => p \in ShownAt(shelf[cat], page - 1)
  <2> DEFINE s == shelf[cat]
  <2>1. Len(s) \in Nat /\ DOMAIN s = 1 .. Len(s)
    BY <1>1, ShelfFacts
  <2>2. Len(s) = 0 => s = <<>>
    <3>1. s \in Seq([cards : 0 .. PerPage, items : SUBSET (1 .. PerPage)])
      BY <1>1, PagesAssumption
    <3> QED
      BY <3>1, EmptySeq
  <2>3. Shown(page) = IF page \in DOMAIN s THEN {page}
                      ELSE {0} \cup (IF s = <<>> THEN {} ELSE {Len(s)})
    BY DEF Shown
  <2> HIDE DEF s
  <2>4. p \in Shown(page) => p \in ShownAt(s, page - 1)
    <3>1. CASE page \in DOMAIN s
      BY <1>2, <2>1, <2>3, <3>1 DEF ShownAt
    <3>2. CASE page \notin DOMAIN s
      <4>1. ~(page <= Len(s)) /\ Shown(page) \subseteq {0} \cup (IF s = <<>> THEN {} ELSE {Len(s)})
        BY <1>2, <2>1, <2>3, <3>2
      <4>2. ShownAt(s, page - 1) = {0} \cup (IF Len(s) = 0 THEN {} ELSE {Len(s)})
        BY <1>2, <4>1 DEF ShownAt
      <4> QED
        BY <2>2, <4>1, <4>2
    <3> QED
      BY <3>1, <3>2
  <2> QED
    BY <2>4 DEF s
<1>4. CardsOn(p) = CardsAt(shelf[cat], p)
  BY DEF CardsOn, CardsAt
<1>5. ItemsOn(p) = OnPage(shelf[cat], cat, p)
  BY DEF ItemsOn, Items, OnPage, On
<1>6. SoldOutPage(p) = SoldAt(shelf[cat], p)
  BY DEF SoldOutPage, SoldAt
<1>7. Total = SumTo(Cards(shelf[cat]), Len(shelf[cat]))
  BY DEF Total
<1> QED
  BY <1>1, <1>2, <1>3, <1>4, <1>5, <1>6, <1>7

\* A listing page is read.
LEMMA ListingPageStep ==
    ASSUME HarvestInv, NEW p, ListingPage(p)
    PROVE  HarvestInv'
<1> DEFINE s == shelf[cat]
           n == page - 1
           all == found \cup OnPage(s, cat, p)
           ends == \/ SoldAt(s, p) /\ ~MoreAt(counted, s, cardsSeen, soldOutRun, p)
                   \/ ~SoldAt(s, p) /\ all = found
                   \/ ~SoldAt(s, p) /\ counted /\ Cardinality(all) >= SumTo(Cards(s), Len(s))
<1>0. /\ pc = "page" /\ kind = "listing" /\ cat \in Cats /\ p \in Shown(page)
      /\ Served("site") /\ hidden' = hidden /\ clean' = clean /\ "site" \in Hosts
  BY DEF ListingPage, HarvestInv, PlaceInv, history, Hosts
<1>1. /\ s \in Shelves /\ n \in Nat /\ n + 1 = page /\ p \in ShownAt(s, n)
      /\ CardsOn(p) = CardsAt(s, p) /\ ItemsOn(p) = OnPage(s, cat, p)
      /\ SoldOutPage(p) = SoldAt(s, p) /\ Total = SumTo(Cards(s), Len(s))
  BY <1>0, PageTerms
<1>2. BreakerTypes' /\ blocked' = blocked /\ ~blocked["site"]
  BY <1>0, ServedKeeps DEF HarvestInv
<1>3. /\ HarvestTypes /\ counted \in BOOLEAN /\ clean \in BOOLEAN /\ skipped \in BOOLEAN
      /\ cardsSeen \in Nat /\ soldOutRun \in Nat /\ page \in 1 .. MaxPages
      /\ MaxPages \in Nat \ {0} /\ MaxFailures \in Nat \ {0}
  BY HarvestAssumption DEF HarvestInv, HarvestTypes, FlagTypes
<1>4. ~skipped => found = Seen(s, cat, n) /\ CountsOf(s, n, cardsSeen, soldOutRun)
  BY <1>0 DEF HarvestInv, WalkInv
<1>5. IF ends THEN EndListing(all)
      ELSE IF page = MaxPages THEN Incomplete({})
      ELSE /\ page' = page + 1
           /\ failures' = 0
           /\ cardsSeen' = cardsSeen + CardsAt(s, p)
           /\ soldOutRun' = IF SoldAt(s, p) THEN soldOutRun + 1 ELSE 0
           /\ found' = all
           /\ Stay
           /\ UNCHANGED skipped
  <2>1. MoreAt(counted, s, cardsSeen, soldOutRun, p)
           <=> IF counted THEN cardsSeen + CardsOn(p) < Total
                          ELSE soldOutRun + 1 < MaxSkippedPages
    BY <1>1 DEF MoreAt
  <2> HIDE DEF s, n
  <2> QED
    BY <1>1, <2>1 DEF ListingPage
<1>6. ~skipped => (ends <=> EndsAt(counted, s, cat, n, cardsSeen, soldOutRun, p))
  BY <1>4 DEF EndsAt
<1>7. CASE ends
  <2>1. ~skipped => all = Stock(s, cat)
    BY <1>1, <1>3, <1>4, <1>6, <1>7, EndIsTheEnd
  <2>2. EndListing(all)
    BY <1>5, <1>7
  <2>3. /\ hidden' \in {hidden, hidden \cup {cat}} /\ clean' \in BOOLEAN
        /\ clean' => clean /\ hidden' = hidden
    BY <1>0, <1>3
  <2> HIDE DEF all, ends
  <2> QED
    BY <1>0, <1>2, <2>1, <2>2, <2>3, EndListingStep DEF s
<1>8. CASE ~ends /\ page = MaxPages
  <2>1. skipped
    <3>1. SUFFICES ASSUME ~skipped PROVE FALSE
      OBVIOUS
    <3> QED
      BY <1>1, <1>3, <1>4, <1>6, <1>8, <3>1, CapIsFar
  <2>2. clean' = FALSE
    <3>1. ~clean
      BY <2>1 DEF HarvestInv, CleanInv
    <3> QED
      BY <1>0, <1>3, <3>1, Zenon
  <2>3. Incomplete({})
    BY <1>5, <1>8
  <2> QED
    BY <1>0, <1>2, <2>2, <2>3, IncompleteStep
<1>9. CASE ~ends /\ page # MaxPages
  <2>1. /\ page' = page + 1 /\ failures' = 0
        /\ cardsSeen' = cardsSeen + CardsAt(s, p)
        /\ soldOutRun' = IF SoldAt(s, p) THEN soldOutRun + 1 ELSE 0
        /\ found' = all /\ Stay /\ skipped' = skipped
    BY <1>5, <1>9
  <2>2. CardsAt(s, p) \in Nat
    <3>1. Len(s) \in Nat
      BY <1>1, ShelfFacts
    <3>2. p = 0 \/ p \in 1 .. Len(s)
      BY <1>1, <3>1 DEF ShownAt
    <3> QED
      BY <1>1, <3>2, ShelfFacts DEF CardsAt
  <2>3. /\ page' \in 1 .. MaxPages /\ failures' \in 0 .. MaxFailures - 1
        /\ cardsSeen' \in Nat /\ soldOutRun' \in Nat /\ page' - 1 = page
    BY <1>3, <1>9, <2>1, <2>2
  <2>4. ASSUME ~skipped'
        PROVE  /\ found' = Seen(s, cat, page' - 1)
               /\ CountsOf(s, page' - 1, cardsSeen', soldOutRun')
    <3>1. ~skipped
      BY <2>1, <2>4
    <3>2. all = Seen(s, cat, n + 1)
      BY <1>1, <1>4, <3>1, SeenWithShown
    <3>3. CountsOf(s, n + 1, cardsSeen + CardsAt(s, p), IF SoldAt(s, p) THEN soldOutRun + 1 ELSE 0)
      BY <1>1, <1>3, <1>4, <1>6, <1>9, <3>1, CountsGoOn
    <3> HIDE DEF s, all, n
    <3> QED
      BY <1>1, <2>1, <2>3, <3>2, <3>3
  <2>5. clean' => clean /\ ~skipped' /\ \A h \in Hosts : ~blocked'[h]
    BY <1>0, <1>2, <2>1 DEF HarvestInv, CleanInv
  <2>6. kind # "junaid" /\ blocked'["site"] => missed # {} \/ skipped'
    BY <1>2
  <2>7. skipped' \in BOOLEAN /\ clean' \in BOOLEAN /\ hidden' = hidden
    BY <1>0, <1>3, <2>1
  <2>8. fail403' \in [Hosts -> Nat] /\ fail429' \in [Hosts -> Nat] /\ blocked' \in [Hosts -> BOOLEAN]
    BY <1>2 DEF BreakerTypes
  <2> QED
    BY <1>0, <2>1, <2>3, <2>4, <2>5, <2>6, <2>7, <2>8, GoOnStep
<1> QED
  BY <1>7, <1>8, <1>9

\* A 404 past page 1 ends the listing.
LEMMA ListingNotFoundStep == HarvestInv /\ ListingNotFound => HarvestInv'
<1> SUFFICES ASSUME HarvestInv, ListingNotFound PROVE HarvestInv'
  OBVIOUS
<1>1. /\ pc = "page" /\ cat \in Cats /\ page \notin DOMAIN shelf[cat]
      /\ Fails("site", "404") /\ ~blocked["site"] /\ EndListing(found)
      /\ hidden' = hidden /\ clean' = clean /\ "site" \in Hosts
  BY DEF ListingNotFound, HarvestInv, PlaceInv, history, Hosts
<1>2. BreakerTypes' /\ blocked' = blocked
  BY <1>1, FailsKeeps DEF HarvestInv
<1>3. ASSUME ~skipped PROVE found = Stock(shelf[cat], cat)
  <2>1. shelf[cat] \in Shelves /\ page - 1 \in Nat /\ (page - 1) + 1 = page
    BY <1>1, PageTerms
  <2>2. DOMAIN shelf[cat] = 1 .. Len(shelf[cat]) /\ Len(shelf[cat]) \in Nat
    BY <2>1, ShelfFacts
  <2>3. page \in Nat \ {0}
    BY HarvestAssumption DEF HarvestInv, HarvestTypes
  <2>4. page - 1 >= Len(shelf[cat])
    BY <1>1, <2>2, <2>3
  <2>5. found = Seen(shelf[cat], cat, page - 1)
    BY <1>1, <1>3 DEF HarvestInv, WalkInv
  <2> QED
    BY <2>1, <2>4, <2>5, SeenAll DEF Stock
<1>4. clean' \in BOOLEAN /\ hidden' \in {hidden, hidden \cup {cat}}
      /\ (clean' => clean /\ hidden' = hidden)
  BY <1>1 DEF HarvestInv, FlagTypes
<1> QED
  BY <1>1, <1>2, <1>3, <1>4, EndListingStep

\* A body that is no page of the shop ends the listing.
LEMMA ListingChallengeStep == HarvestInv /\ ListingChallenge => HarvestInv'
<1> SUFFICES ASSUME HarvestInv, ListingChallenge PROVE HarvestInv'
  OBVIOUS
<1>1. /\ pc = "page" /\ Served("site") /\ EndListing(found)
      /\ hidden' = hidden \cup {cat} /\ clean' = FALSE /\ "site" \in Hosts
  BY DEF ListingChallenge, Hosts
<1>2. BreakerTypes' /\ blocked' = blocked /\ ~blocked["site"]
  BY <1>1, ServedKeeps DEF HarvestInv
<1>3. clean' \in BOOLEAN /\ ~clean'
  BY <1>1
<1>4. hidden' \in {hidden, hidden \cup {cat}} /\ cat \in hidden'
  BY <1>1
<1> QED
  BY <1>1, <1>2, <1>3, <1>4, EndListingStep

\* A plain exception of the parser is swallowed by the wrapper.
LEMMA ParseErrorStep == HarvestInv /\ ParseError("site") => HarvestInv'
<1> SUFFICES ASSUME HarvestInv, ParseError("site") PROVE HarvestInv'
  OBVIOUS
<1>1. pc = "page" /\ Served("site") /\ Swallowed /\ "site" \in Hosts
  BY DEF ParseError, Hosts
<1>2. BreakerTypes' /\ ~blocked'["site"]
  BY <1>1, ServedKeeps DEF HarvestInv
<1> QED
  BY <1>1, <1>2, SwallowedStep

\* A listing page fails: it is skipped, or the walk ends.
LEMMA ListingPageFailsStep ==
    ASSUME HarvestInv, NEW o, ListingPageFails(o)
    PROVE  HarvestInv'
<1>1. /\ pc = "page" /\ kind = "listing" /\ Fails("site", o) /\ clean' = FALSE
      /\ hidden' = hidden /\ "site" \in Hosts
  BY DEF ListingPageFails, Hosts
<1>2. BreakerTypes'
  BY <1>1, FailsKeeps DEF HarvestInv
<1>3. hidden' \in {hidden, hidden \cup {cat}} /\ pc \in {"token", "page"}
  BY <1>1
<1>4. CASE GiveUp
  <2>1. Incomplete(found)
    BY <1>4 DEF ListingPageFails
  <2> QED
    BY <1>1, <1>2, <1>3, <2>1, IncompleteStep
<1>5. CASE ~GiveUp /\ page = MaxPages
  <2>1. Incomplete({})
    BY <1>5 DEF ListingPageFails
  <2> QED
    BY <1>1, <1>2, <1>3, <2>1, IncompleteStep
<1>6. CASE ~GiveUp /\ page # MaxPages
  <2>1. /\ failures' = failures + 1 /\ skipped' = TRUE /\ page' = page + 1 /\ Stay
        /\ cardsSeen' = cardsSeen /\ soldOutRun' = soldOutRun
    BY <1>6 DEF ListingPageFails
  <2>2. /\ page \in 1 .. MaxPages /\ failures \in 0 .. MaxFailures - 1
        /\ cardsSeen \in Nat /\ soldOutRun \in Nat
        /\ MaxPages \in Nat \ {0} /\ MaxFailures \in Nat \ {0}
    BY HarvestAssumption DEF HarvestInv, HarvestTypes
  <2>3. page' \in 1 .. MaxPages /\ failures' \in 0 .. MaxFailures - 1
    BY <1>6, <2>1, <2>2 DEF GiveUp
  <2>4. skipped' \in BOOLEAN /\ clean' \in BOOLEAN /\ skipped' /\ ~clean'
    BY <1>1, <2>1
  <2>5. fail403' \in [Hosts -> Nat] /\ fail429' \in [Hosts -> Nat] /\ blocked' \in [Hosts -> BOOLEAN]
    BY <1>2 DEF BreakerTypes
  <2> QED
    BY <1>1, <2>1, <2>2, <2>3, <2>4, <2>5, GoOnStep
<1> QED
  BY <1>4, <1>5, <1>6

\* The page a catalogue or the junaid API answers with.
LEMMA CatalogTerms ==
    ASSUME HarvestInv, pc = "page", kind # "listing", NEW p,
           p = IF page \in DOMAIN shelf[cat] THEN page ELSE 0
    PROVE  /\ CardsOn(p) = CardsAt(shelf[cat], p)
           /\ ItemsOn(p) = OnPage(shelf[cat], cat, p)
           /\ CardsOn(p) < PerPage => found \cup ItemsOn(p) = Stock(shelf[cat], cat)
           /\ ~(CardsOn(p) < PerPage) => page < MaxPages
           /\ p # 0 => page < MaxPages
           /\ p = 0 \/ Cardinality(found \cup ItemsOn(p)) >= Total =>
                 found \cup ItemsOn(p) = Stock(shelf[cat], cat)
           /\ found \cup ItemsOn(p) = Seen(shelf[cat], cat, page)
<1> DEFINE s == shelf[cat]
           n == page - 1
<1>1. cat \in Cats /\ found = Seen(s, cat, n)
  BY DEF HarvestInv, PlaceInv, WalkInv
<1>2. /\ s \in Shelves /\ n \in Nat /\ n + 1 = page
      /\ CardsOn(p) = CardsAt(s, p) /\ ItemsOn(p) = OnPage(s, cat, p)
      /\ Total = SumTo(Cards(s), Len(s))
  BY <1>1, PageTerms
<1>3. p = IF n + 1 \in DOMAIN s THEN n + 1 ELSE 0
  BY <1>2
<1> HIDE DEF s, n
<1>4. /\ p \in ShownAt(s, n)
      /\ CardsAt(s, p) < PerPage => Seen(s, cat, n) \cup OnPage(s, cat, p) = Stock(s, cat)
      /\ ~(CardsAt(s, p) < PerPage) => n + 1 < MaxPages
      /\ p = 0 => Seen(s, cat, n) = Stock(s, cat)
      /\ p # 0 => n + 1 < MaxPages
      /\ p # 0 /\ Cardinality(Seen(s, cat, n + 1)) >= SumTo(Cards(s), Len(s)) =>
            Seen(s, cat, n) \cup OnPage(s, cat, p) = Stock(s, cat)
  BY <1>2, <1>3, ShortIsLast
<1>5. Seen(s, cat, n + 1) = found \cup OnPage(s, cat, p)
  BY <1>1, <1>2, <1>4, SeenWithShown
<1>6. p = 0 => OnPage(s, cat, p) = {}
  BY DEF OnPage
<1> QED
  BY <1>1, <1>2, <1>4, <1>5, <1>6 DEF s

\* A page of the catalogue walk is read.
LEMMA CatalogPageStep == HarvestInv /\ CatalogPage => HarvestInv'
<1> SUFFICES ASSUME HarvestInv, CatalogPage PROVE HarvestInv'
  OBVIOUS
<1> DEFINE p   == IF page \in DOMAIN shelf[cat] THEN page ELSE 0
           all == found \cup ItemsOn(p)
<1>1. /\ pc = "page" /\ kind # "listing" /\ Served("site") /\ "site" \in Hosts
      /\ hidden' = hidden /\ clean' = clean
  BY DEF CatalogPage, IsCatalog, history, Hosts
<1>2. BreakerTypes' /\ blocked' = blocked /\ ~blocked["site"]
  BY <1>1, ServedKeeps DEF HarvestInv
<1>3. /\ CardsOn(p) < PerPage => all = Stock(shelf[cat], cat)
      /\ ~(CardsOn(p) < PerPage) => page < MaxPages
      /\ all = Seen(shelf[cat], cat, page)
  <2> DEFINE q == p
  <2>1. q = IF page \in DOMAIN shelf[cat] THEN page ELSE 0
    OBVIOUS
  <2> HIDE DEF q
  <2>2. /\ CardsOn(q) < PerPage => found \cup ItemsOn(q) = Stock(shelf[cat], cat)
        /\ ~(CardsOn(q) < PerPage) => page < MaxPages
        /\ found \cup ItemsOn(q) = Seen(shelf[cat], cat, page)
    BY <1>1, <2>1, CatalogTerms
  <2> QED
    BY <2>2 DEF q
<1>4. IF CardsOn(p) < PerPage THEN Complete(found \cup ItemsOn(p))
      ELSE IF page = MaxPages THEN Incomplete({})
      ELSE /\ page' = page + 1 /\ found' = found \cup ItemsOn(p) /\ Stay
           /\ UNCHANGED <<failures, skipped, cardsSeen, soldOutRun>>
  BY DEF CatalogPage, LastPage
<1>5. /\ page \in 1 .. MaxPages /\ failures \in 0 .. MaxFailures - 1
      /\ cardsSeen \in Nat /\ soldOutRun \in Nat /\ MaxPages \in Nat \ {0}
  BY HarvestAssumption DEF HarvestInv, HarvestTypes
<1>6. clean \in BOOLEAN /\ skipped \in BOOLEAN /\ ~skipped
  BY <1>1 DEF HarvestInv, FlagTypes, PlaceInv
<1> HIDE DEF p
<1>7. CASE CardsOn(p) < PerPage
  <2>1. Complete(all) /\ all = Stock(shelf[cat], cat)
    BY <1>3, <1>4, <1>7
  <2>2. clean' \in BOOLEAN /\ (clean' => clean /\ hidden' = hidden /\ blocked' = blocked)
    BY <1>1, <1>2, <1>6
  <2>3. hidden' \in {hidden, hidden \cup {cat}} /\ ~blocked'["site"]
    BY <1>1, <1>2
  <2> HIDE DEF all
  <2> QED
    BY <1>1, <1>2, <2>1, <2>2, <2>3, CompleteStep
<1>8. CASE ~(CardsOn(p) < PerPage)
  <2>1. page # MaxPages /\ page < MaxPages
    BY <1>3, <1>5, <1>8
  <2>2. /\ page' = page + 1 /\ found' = all /\ Stay
        /\ failures' = failures /\ skipped' = skipped
        /\ cardsSeen' = cardsSeen /\ soldOutRun' = soldOutRun
    BY <1>3, <1>4, <1>8, <2>1
  <2>3. page' \in 1 .. MaxPages /\ page' - 1 = page
    BY <1>5, <2>1, <2>2
  <2>4. found' = Seen(shelf[cat], cat, page' - 1)
    BY <1>3, <2>2, <2>3
  <2>5. clean' => clean /\ ~skipped' /\ \A h \in Hosts : ~blocked'[h]
    BY <1>1, <1>2, <1>6, <2>2 DEF HarvestInv, CleanInv
  <2>6. clean' \in BOOLEAN /\ skipped' \in BOOLEAN /\ ~skipped' /\ ~blocked'["site"]
    BY <1>1, <1>2, <1>6, <2>2
  <2>7. fail403' \in [Hosts -> Nat] /\ fail429' \in [Hosts -> Nat] /\ blocked' \in [Hosts -> BOOLEAN]
    BY <1>2 DEF BreakerTypes
  <2> HIDE DEF all
  <2> QED
    BY <1>1, <1>5, <2>2, <2>3, <2>4, <2>5, <2>6, <2>7, GoOnStep
<1> QED
  BY <1>7, <1>8

\* A page of the catalogue walk fails.
LEMMA CatalogFailsStep == HarvestInv /\ CatalogFails => HarvestInv'
<1> SUFFICES ASSUME HarvestInv, CatalogFails PROVE HarvestInv'
  OBVIOUS
<1>1. /\ pc = "page" /\ Incomplete(found) /\ clean' = FALSE /\ hidden' = hidden
      /\ Served("site") \/ \E o \in Faults : Fails("site", o)
      /\ "site" \in Hosts
  BY DEF CatalogFails, Hosts
<1>2. BreakerTypes'
  BY <1>1, ServedKeeps, FailsKeeps DEF HarvestInv
<1>3. hidden' \in {hidden, hidden \cup {cat}}
  BY <1>1
<1> QED
  BY <1>1, <1>2, <1>3, IncompleteStep

\* junaid's page with the token is read.
LEMMA JunaidTokenStep == HarvestInv /\ JunaidToken => HarvestInv'
<1> SUFFICES ASSUME HarvestInv, JunaidToken PROVE HarvestInv'
  OBVIOUS
<1> USE DEF HarvestInv
<1>1. /\ pc = "token" /\ Served("site") /\ pc' = "page" /\ "site" \in Hosts
      /\ UNCHANGED <<kind, shelf, counted, cat, kept, missed, hidden, clean, ok>>
      /\ UNCHANGED <<page, failures, skipped, cardsSeen, soldOutRun, found>>
  BY DEF JunaidToken, Hosts, shop, walk, history
<1>2. BreakerTypes' /\ blocked' = blocked
  BY <1>1, ServedKeeps
<1>3. kind = "junaid" /\ page = 1 /\ ~skipped /\ found = {} /\ cat \in Cats /\ ~ok
  BY <1>1 DEF PlaceInv, VerdictInv
<1>4. HarvestTypes'
  BY <1>1, <1>2 DEF HarvestTypes, BreakerTypes
<1>5. FlagTypes'
  BY <1>1 DEF FlagTypes
<1>6. PlaceInv'
  BY <1>1, <1>3 DEF PlaceInv
<1>7. WalkInv'
  <2>1. shelf[cat] \in Shelves /\ 1 - 1 = 0
    BY <1>3 DEF HarvestTypes
  <2>2. Seen(shelf[cat], cat, 0) = {}
    BY <2>1, SeenNone
  <2> QED
    BY <1>1, <1>3, <2>1, <2>2 DEF WalkInv
<1>8. KeptInv'
  BY <1>1 DEF KeptInv
<1>9. BlockInv'
  BY <1>1, <1>3 DEF BlockInv
<1>10. VerdictInv'
  BY <1>1, <1>3 DEF VerdictInv
<1>11. CleanInv'
  BY <1>1, <1>2 DEF CleanInv
<1> QED
  BY <1>4, <1>5, <1>6, <1>7, <1>8, <1>9, <1>10, <1>11

\* junaid's page with the token fails.
LEMMA JunaidTokenFailsStep ==
    ASSUME HarvestInv, NEW o, JunaidTokenFails(o)
    PROVE  HarvestInv'
<1>1. pc = "token" /\ Fails("site", o) /\ "site" \in Hosts
  BY DEF JunaidTokenFails, Hosts
<1>2. BreakerTypes'
  BY <1>1, FailsKeeps DEF HarvestInv
<1>3. kind = "junaid"
  BY <1>1 DEF HarvestInv, PlaceInv
<1>4. CASE IsBlocked("site")
  <2>1. Incomplete({}) /\ clean' = FALSE /\ hidden' = hidden
    BY <1>4 DEF JunaidTokenFails
  <2>2. hidden' \in {hidden, hidden \cup {cat}} /\ pc \in {"token", "page"}
    BY <1>1, <2>1
  <2> QED
    BY <1>2, <2>1, <2>2, IncompleteStep
<1>5. CASE ~IsBlocked("site")
  <2>1. Swallowed
    BY <1>5 DEF JunaidTokenFails
  <2> QED
    BY <1>1, <1>2, <1>3, <2>1, SwallowedStep
<1> QED
  BY <1>4, <1>5

\* A page of junaid's interface is read.
LEMMA JunaidPageStep == HarvestInv /\ JunaidPage => HarvestInv'
<1> SUFFICES ASSUME HarvestInv, JunaidPage PROVE HarvestInv'
  OBVIOUS
<1> DEFINE p   == IF page \in DOMAIN shelf[cat] THEN page ELSE 0
           all == found \cup ItemsOn(p)
<1>1. /\ pc = "page" /\ kind = "junaid" /\ Served("api") /\ "api" \in Hosts
      /\ hidden' = hidden /\ clean' = clean
  BY DEF JunaidPage, history, Hosts
<1>2. BreakerTypes' /\ blocked' = blocked
  BY <1>1, ServedKeeps DEF HarvestInv
<1>3. /\ p # 0 => page < MaxPages
      /\ p = 0 \/ Cardinality(all) >= Total => all = Stock(shelf[cat], cat)
      /\ all = Seen(shelf[cat], cat, page)
  <2> DEFINE q == p
  <2>1. q = IF page \in DOMAIN shelf[cat] THEN page ELSE 0
    OBVIOUS
  <2> HIDE DEF q
  <2>2. /\ q # 0 => page < MaxPages
        /\ q = 0 \/ Cardinality(found \cup ItemsOn(q)) >= Total =>
              found \cup ItemsOn(q) = Stock(shelf[cat], cat)
        /\ found \cup ItemsOn(q) = Seen(shelf[cat], cat, page)
    BY <1>1, <2>1, CatalogTerms
  <2> QED
    BY <2>2 DEF q
<1>4. IF p = 0 \/ Cardinality(all) >= Total THEN Complete(all)
      ELSE /\ page' = page + 1 /\ found' = all /\ Stay
           /\ UNCHANGED <<failures, skipped, cardsSeen, soldOutRun>>
  BY DEF JunaidPage
<1>5. /\ page \in 1 .. MaxPages /\ failures \in 0 .. MaxFailures - 1
      /\ cardsSeen \in Nat /\ soldOutRun \in Nat /\ MaxPages \in Nat \ {0}
  BY HarvestAssumption DEF HarvestInv, HarvestTypes
<1>6. clean \in BOOLEAN /\ skipped \in BOOLEAN /\ ~skipped
  BY <1>1 DEF HarvestInv, FlagTypes, PlaceInv
<1> HIDE DEF p, all
<1>7. CASE p = 0 \/ Cardinality(all) >= Total
  <2>1. Complete(all) /\ all = Stock(shelf[cat], cat)
    BY <1>3, <1>4, <1>7
  <2>2. clean' \in BOOLEAN /\ (clean' => clean /\ hidden' = hidden /\ blocked' = blocked)
    BY <1>1, <1>2, <1>6
  <2>3. hidden' \in {hidden, hidden \cup {cat}}
    BY <1>1
  <2> QED
    BY <1>1, <1>2, <2>1, <2>2, <2>3, CompleteStep
<1>8. CASE ~(p = 0 \/ Cardinality(all) >= Total)
  <2>1. page < MaxPages
    BY <1>3, <1>8
  <2>2. /\ page' = page + 1 /\ found' = all /\ Stay
        /\ failures' = failures /\ skipped' = skipped
        /\ cardsSeen' = cardsSeen /\ soldOutRun' = soldOutRun
    BY <1>4, <1>8
  <2>3. page' \in 1 .. MaxPages /\ page' - 1 = page
    BY <1>5, <2>1, <2>2
  <2>4. found' = Seen(shelf[cat], cat, page' - 1)
    BY <1>3, <2>2, <2>3
  <2>5. clean' => clean /\ ~skipped' /\ \A h \in Hosts : ~blocked'[h]
    BY <1>1, <1>2, <1>6, <2>2 DEF HarvestInv, CleanInv
  <2>6. clean' \in BOOLEAN /\ skipped' \in BOOLEAN /\ ~skipped'
    BY <1>1, <1>6, <2>2
  <2>7. fail403' \in [Hosts -> Nat] /\ fail429' \in [Hosts -> Nat] /\ blocked' \in [Hosts -> BOOLEAN]
    BY <1>2 DEF BreakerTypes
  <2> QED
    BY <1>1, <1>5, <2>2, <2>3, <2>4, <2>5, <2>6, <2>7, GoOnStep
<1> QED
  BY <1>7, <1>8

\* A page of junaid's interface fails: swallowed after the first.
LEMMA JunaidPageFailsStep == HarvestInv /\ JunaidPageFails => HarvestInv'
<1> SUFFICES ASSUME HarvestInv, JunaidPageFails PROVE HarvestInv'
  OBVIOUS
<1>1. /\ pc = "page" /\ kind = "junaid" /\ clean' = FALSE
      /\ Served("api") \/ \E o \in Faults : Fails("api", o)
      /\ "api" \in Hosts
  BY DEF JunaidPageFails, Hosts
<1>2. BreakerTypes'
  BY <1>1, ServedKeeps, FailsKeeps DEF HarvestInv
<1>3. CASE found = {}
  <2>1. Incomplete({}) /\ hidden' = hidden
    BY <1>3 DEF JunaidPageFails
  <2>2. hidden' \in {hidden, hidden \cup {cat}}
    BY <2>1
  <2> QED
    BY <1>1, <1>2, <2>1, <2>2, IncompleteStep
<1>4. CASE found # {}
  <2>1. Complete(found) /\ hidden' = hidden \cup {cat}
    BY <1>4 DEF JunaidPageFails
  <2>2. hidden' \in {hidden, hidden \cup {cat}} /\ cat \in hidden'
    BY <2>1
  <2>3. clean' \in BOOLEAN /\ ~clean'
    BY <1>1
  <2> QED
    BY <1>1, <1>2, <2>1, <2>2, <2>3, CompleteStep
<1> QED
  BY <1>3, <1>4

\* A 200 of junaid's interface without results ends the walk.
LEMMA JunaidEmptyAnswerStep == HarvestInv /\ JunaidEmptyAnswer => HarvestInv'
<1> SUFFICES ASSUME HarvestInv, JunaidEmptyAnswer PROVE HarvestInv'
  OBVIOUS
<1>1. /\ pc = "page" /\ kind = "junaid" /\ clean' = FALSE /\ Served("api") /\ "api" \in Hosts
      /\ Complete(found) /\ hidden' = hidden \cup {cat}
  BY DEF JunaidEmptyAnswer, Hosts
<1>2. BreakerTypes'
  BY <1>1, ServedKeeps DEF HarvestInv
<1>3. hidden' \in {hidden, hidden \cup {cat}} /\ cat \in hidden'
  BY <1>1
<1>4. clean' \in BOOLEAN /\ ~clean'
  BY <1>1
<1> QED
  BY <1>1, <1>2, <1>3, <1>4, CompleteStep

\* The verdict of the source is made.
LEMMA ReportStep == HarvestInv /\ Report => HarvestInv'
<1> SUFFICES ASSUME HarvestInv, Report PROVE HarvestInv'
  OBVIOUS
<1> USE DEF HarvestInv
<1>1. /\ pc = "report" /\ pc' = "done"
      /\ ok' = (kept # {} /\ missed = {} /\ ~LabelBlocked)
      /\ UNCHANGED <<kind, shelf, counted, fail403, fail429, blocked, cat, kept, missed,
                     hidden, clean>>
      /\ UNCHANGED <<page, failures, skipped, cardsSeen, soldOutRun, found>>
  BY DEF Report, shop, walk, history, breaker
<1>2. HarvestTypes'
  BY <1>1 DEF HarvestTypes
<1>3. FlagTypes'
  BY <1>1 DEF FlagTypes
<1>4. PlaceInv' /\ WalkInv' /\ KeptInv'
  BY <1>1 DEF PlaceInv, WalkInv, KeptInv
<1>5. BlockInv'
  BY <1>1 DEF BlockInv
<1>6. VerdictInv'
  BY <1>1 DEF VerdictInv, LabelBlocked
<1>7. CleanInv'
  BY <1>1 DEF CleanInv
<1> QED
  BY <1>2, <1>3, <1>4, <1>5, <1>6, <1>7

\* Every step keeps the invariant.
LEMMA HarvestStepInv == HarvestInv /\ [Next]_vars => HarvestInv'
<1> SUFFICES ASSUME HarvestInv, [Next]_vars PROVE HarvestInv'
  OBVIOUS
<1>1. CASE UNCHANGED vars
  <2> USE DEF HarvestInv
  <2>1. /\ UNCHANGED <<kind, shelf, counted, fail403, fail429, blocked, cat, kept, missed,
                       hidden, clean, pc, ok>>
        /\ UNCHANGED <<page, failures, skipped, cardsSeen, soldOutRun, found>>
    BY <1>1 DEF vars, shop, walk, history, breaker
  <2>2. HarvestTypes'
    BY <2>1 DEF HarvestTypes
  <2>3. FlagTypes'
    BY <2>1 DEF FlagTypes
  <2>4. PlaceInv' /\ WalkInv' /\ KeptInv' /\ BlockInv'
    BY <2>1 DEF PlaceInv, WalkInv, KeptInv, BlockInv
  <2>5. VerdictInv'
    BY <2>1 DEF VerdictInv, LabelBlocked
  <2>6. CleanInv'
    BY <2>1 DEF CleanInv
  <2> QED
    BY <2>2, <2>3, <2>4, <2>5, <2>6
<1>2. CASE Done
  BY <1>1, <1>2 DEF Done
<1>3. CASE ListingNotFound \/ ListingChallenge \/ ParseError("site")
  BY <1>3, ListingNotFoundStep, ListingChallengeStep, ParseErrorStep
<1>4. ASSUME NEW o \in Faults, ListingPageFails(o) PROVE HarvestInv'
  BY <1>4, ListingPageFailsStep
<1>5. ASSUME NEW o \in Faults, JunaidTokenFails(o) PROVE HarvestInv'
  BY <1>5, JunaidTokenFailsStep
<1>6. ASSUME NEW p \in 0 .. MaxPages, ListingPage(p) PROVE HarvestInv'
  BY <1>6, ListingPageStep
<1>7. CASE CatalogPage \/ CatalogFails
  BY <1>7, CatalogPageStep, CatalogFailsStep
<1>8. CASE JunaidToken \/ JunaidPage \/ JunaidPageFails \/ JunaidEmptyAnswer
  BY <1>8, JunaidTokenStep, JunaidPageStep, JunaidPageFailsStep, JunaidEmptyAnswerStep
<1>9. CASE Report
  BY <1>9, ReportStep
<1> QED
  BY <1>1, <1>2, <1>3, <1>4, <1>5, <1>6, <1>7, <1>8, <1>9 DEF Next

\* The invariant of a source's run, for every shop and every sequence of answers.
THEOREM HarvestInvariant == Spec => []HarvestInv
<1>1. Init => HarvestInv
  BY HarvestInitInv
<1>2. HarvestInv /\ [Next]_vars => HarvestInv'
  BY HarvestStepInv
<1> QED
  BY <1>1, <1>2, PTL DEF Spec

-----------------------------------------------------------------------------
(* What a source's run promises.                                           *)

\* Every variable stays in its type, and the walk within its page cap and its
\* failure bounds.
THEOREM HarvestTyped == Spec => []TypeOK
<1>1. HarvestInv => TypeOK
  <2> SUFFICES ASSUME HarvestInv PROVE TypeOK
    OBVIOUS
  <2>1. HarvestTypes
    BY DEF HarvestInv
  <2>2. skipped \in BOOLEAN /\ ok \in BOOLEAN /\ counted \in BOOLEAN
    BY DEF HarvestInv, FlagTypes, HarvestTypes
  <2>3. {skipped, ok, counted} \subseteq BOOLEAN
    BY <2>2, Zenon
  <2> QED
    BY <2>1, <2>3 DEF TypeOK, HarvestTypes
<1> QED
  BY <1>1, HarvestInvariant, PTL

\* What the shop offers in a category is what its shelf holds.
LEMMA InStockIs ==
    ASSUME HarvestInv, NEW c \in Cats
    PROVE  InStock(c) = Stock(shelf[c], c)
<1>1. shelf[c] \in Shelves
  BY DEF HarvestInv, HarvestTypes
<1>2. DOMAIN shelf[c] = 1 .. Len(shelf[c]) /\ Len(shelf[c]) \in Nat
  BY <1>1, ShelfFacts
<1>3. {q \in 1 .. Len(shelf[c]) : q <= Len(shelf[c])} = DOMAIN shelf[c]
  BY <1>2
<1>4. \A p : Items(c, p) = On(shelf[c], c, p)
  BY DEF Items, On
<1> QED
  BY <1>3, <1>4, Zenon DEF InStock, Stock, Seen

\* The sweep gate: whatever way a walk ends, a source that is swept holds
\* everything in stock in each of its categories but those that a swallowed
\* loss struck.
THEOREM SweepGateHolds == Spec => []OkHasNoOtherHole
<1>1. HarvestInv => OkHasNoOtherHole
  <2> SUFFICES ASSUME HarvestInv, ok, NEW c \in Cats \ hidden
               PROVE  InStock(c) \subseteq kept
    BY DEF OkHasNoOtherHole
  <2>1. pc = "done" /\ missed = {}
    BY DEF HarvestInv, VerdictInv
  <2>2. cat = NumCats + 1
    BY <2>1 DEF HarvestInv, PlaceInv
  <2>3. c < cat
    BY <2>2, HarvestAssumption DEF Cats
  <2>4. Stock(shelf[c], c) \subseteq kept
    BY <2>1, <2>3 DEF HarvestInv, KeptInv
  <2> QED
    BY <2>4, InStockIs
<1> QED
  BY <1>1, HarvestInvariant, PTL

\* A host that cut the source off (junaid aside) never leaves a trusted run.
THEOREM BlocksAreReported == Spec => []BlockedIsNotOk
<1>1. HarvestInv => BlockedIsNotOk
  BY DEF HarvestInv, BlockInv, VerdictInv, BlockedIsNotOk
<1> QED
  BY <1>1, HarvestInvariant, PTL

\* What a category holds can be counted.
LEMMA BeforeCounts ==
    ASSUME HarvestInv, NEW c \in Cats
    PROVE  Before(c) \in Nat /\ IsFiniteSet(InStock(c))
<1>1. shelf[c] \in Shelves
  BY DEF HarvestInv, HarvestTypes
<1>2. Len(shelf[c]) \in 0 .. Len(shelf[c])
  BY <1>1, ShelfFacts
<1>3. IsFiniteSet(Stock(shelf[c], c)) /\ Cardinality(Stock(shelf[c], c)) \in Nat
  BY <1>1, <1>2, SeenCounts DEF Stock
<1> QED
  BY <1>3, InStockIs DEF Before

\* Nothing lost is no anomaly.
LEMMA NothingLostIsGreen ==
    ASSUME HarvestInv, ok, \A c \in Cats : InStock(c) \subseteq kept
    PROVE  ~Red
<1>1. \A c \in Cats : After(c) = Before(c)
  <2>1. \A c \in Cats : InStock(c) \cap kept = InStock(c)
    OBVIOUS
  <2> QED
    BY <2>1 DEF After, Before
<1>2. \A c \in Cats : ~CategoryAnomaly(c)
  <2> SUFFICES ASSUME NEW c \in Cats PROVE ~CategoryAnomaly(c)
    OBVIOUS
  <2>1. Before(c) \in Nat
    BY BeforeCounts
  <2>2. ~(10 * After(c) < 3 * Before(c))
    BY <1>1, <2>1
  <2> QED
    BY <2>2 DEF CategoryAnomaly
<1>3. SumAfter = SumBefore
  <2>1. [c \in Cats |-> After(c)] = [c \in Cats |-> Before(c)]
    BY <1>1
  <2> QED
    BY <2>1 DEF SumAfter, SumBefore
<1>4. SumBefore \in Nat
  <2> DEFINE f == [c \in Cats |-> Before(c)]
  <2>1. NumCats \in Nat /\ NumCats \in 0 .. NumCats
    BY HarvestAssumption
  <2>2. \A i \in 1 .. NumCats : f[i] \in Nat
    BY BeforeCounts DEF Cats
  <2>3. SumBefore = SumTo(f, NumCats)
    BY DEF SumBefore
  <2> HIDE DEF f
  <2> QED
    BY <2>1, <2>2, <2>3, SumGrows
<1>5. ~SourceAnomaly
  BY <1>3, <1>4 DEF SourceAnomaly
<1> QED
  BY <1>2, <1>5 DEF Red

\* A shop that answers every request as it is gets a trusted and green run with
\* exactly what it has in stock.
THEOREM TrueAnswersGiveTheShop == Spec => []HealthyShopIsOk
<1>1. HarvestInv => HealthyShopIsOk
  <2> SUFFICES ASSUME HarvestInv, pc = "done", clean
               PROVE  /\ kept = UNION {InStock(c) : c \in Cats}
                      /\ ok <=> kept # {}
                      /\ ok => ~Red
    BY DEF HealthyShopIsOk
  <2>1. /\ missed = {} /\ hidden = {} /\ \A h \in Hosts : ~blocked[h]
        /\ kept = StockBefore(shelf, cat) /\ cat = NumCats + 1
    BY DEF HarvestInv, CleanInv, PlaceInv
  <2>2. kept = UNION {InStock(c) : c \in Cats}
    <3>1. \A c \in Cats : c < cat
      BY <2>1, HarvestAssumption DEF Cats
    <3>2. {d \in Cats : d < cat} = Cats
      BY <3>1
    <3>3. \A c \in Cats : InStock(c) = Stock(shelf[c], c)
      BY InStockIs
    <3>4. {InStock(c) : c \in Cats} = {Stock(shelf[c], c) : c \in Cats}
      BY <3>3
    <3>5. kept = UNION {Stock(shelf[c], c) : c \in Cats}
      BY <2>1, <3>2 DEF StockBefore
    <3> QED
      BY <3>4, <3>5
  <2>3. ok <=> kept # {}
    BY <2>1 DEF HarvestInv, VerdictInv, LabelBlocked, Hosts
  <2>4. ok => ~Red
    BY <2>2, NothingLostIsGreen
  <2> QED
    BY <2>2, <2>3, <2>4
<1> QED
  BY <1>1, HarvestInvariant, PTL

\* A category that had products and lost all of them turns the run red, however
\* the loss was swallowed.
THEOREM LostCategoryIsRed == Spec => []EmptiedCategoryIsRed
<1>1. HarvestInv => EmptiedCategoryIsRed
  <2> SUFFICES ASSUME HarvestInv, NEW c \in Cats, Before(c) >= MinCatBase,
                      InStock(c) \cap kept = {}
               PROVE  Red
    BY DEF EmptiedCategoryIsRed
  <2>1. CASE ~ok
    BY <2>1 DEF Red, SourceAnomaly
  <2>2. CASE ok
    <3>1. After(c) = 0
      BY <2>2, FS_EmptySet DEF After
    <3>2. Before(c) \in Nat /\ MinCatBase \in Nat \ {0}
      BY BeforeCounts, HarvestAssumption
    <3>3. 10 * After(c) < 3 * Before(c)
      BY <3>1, <3>2
    <3>4. CategoryAnomaly(c)
      BY <2>2, <3>3 DEF CategoryAnomaly, Judged
    <3> QED
      BY <3>4 DEF Red
  <2> QED
    BY <2>1, <2>2
<1> QED
  BY <1>1, HarvestInvariant, PTL

-----------------------------------------------------------------------------
(* The pages of a prebuilt shop.                                           *)

\* What a prebuilt shop is: lists of pages of links.
LEMMA ListFacts ==
    ASSUME NEW s \in Stores
    PROVE  /\ Len(s.lists) \in Nat \ {0} /\ DOMAIN s.lists = 1 .. Len(s.lists)
           /\ \A i \in 1 .. Len(s.lists) : /\ s.lists[i] \in Seq(SUBSET Pcs)
                                           /\ Len(s.lists[i]) \in Nat
                                           /\ DOMAIN s.lists[i] = 1 .. Len(s.lists[i])
<1>1. s.lists \in Seq(Seq(SUBSET Pcs)) /\ s.lists # <<>>
  BY PrebuiltAssumption
<1> DEFINE S == Seq(SUBSET Pcs)
           ls == s.lists
<1>2. ls \in Seq(S) /\ ls # <<>>
  BY <1>1
<1> HIDE DEF S, ls
<1>3. Len(ls) \in Nat \ {0} /\ DOMAIN ls = 1 .. Len(ls) /\ \A i \in 1 .. Len(ls) : ls[i] \in S
  BY <1>2, EmptySeq
<1>4. \A t \in S : Len(t) \in Nat /\ DOMAIN t = 1 .. Len(t)
  BY DEF S
<1> QED
  BY <1>3, <1>4 DEF S, ls

\* One page more.
LEMMA UpToNext ==
    ASSUME NEW s \in Stores, NEW i \in 1 .. Len(s.lists), NEW p \in 1 .. Len(s.lists[i])
    PROVE  LinksUpTo(s, i, p) = LinksUpTo(s, i, p - 1) \cup s.lists[i][p]
<1> DEFINE l == s.lists[i]
<1>1. DOMAIN l = 1 .. Len(l) /\ Len(l) \in Nat /\ p \in 1 .. Len(l)
  BY ListFacts
<1> HIDE DEF l
<1>2. {q \in DOMAIN l : q <= p} = {q \in DOMAIN l : q <= p - 1} \cup {p}
  BY <1>1
<1>3. FirstPages(l, p) = FirstPages(l, p - 1) \cup l[p]
  BY <1>2, Zenon DEF FirstPages
<1> QED
  BY <1>3 DEF LinksUpTo, l

\* Past the last page there is nothing more.
LEMMA UpToPast ==
    ASSUME NEW s \in Stores, NEW i \in 1 .. Len(s.lists), NEW n \in Nat, n >= Len(s.lists[i])
    PROVE  /\ LinksUpTo(s, i, n) = LinksUpTo(s, i, Len(s.lists[i]))
           /\ \A p \in 1 .. Len(s.lists[i]) : s.lists[i][p] \subseteq LinksUpTo(s, i, n)
<1> DEFINE l == s.lists[i]
<1>1. DOMAIN l = 1 .. Len(l) /\ Len(l) \in Nat /\ n >= Len(l)
  BY ListFacts
<1> HIDE DEF l
<1>2. {q \in DOMAIN l : q <= n} = DOMAIN l /\ {q \in DOMAIN l : q <= Len(l)} = DOMAIN l
  BY <1>1
<1>3. FirstPages(l, n) = UNION {l[q] : q \in DOMAIN l} /\ FirstPages(l, Len(l)) = FirstPages(l, n)
  BY <1>2, Zenon DEF FirstPages
<1>4. \A p \in 1 .. Len(l) : l[p] \subseteq FirstPages(l, n)
  BY <1>1, <1>3
<1> QED
  BY <1>3, <1>4 DEF LinksUpTo, l

\* A category begins where the one before it ended.
LEMMA UpToCategory ==
    ASSUME NEW s \in Stores, NEW i \in 1 .. Len(s.lists)
    PROVE  /\ LinksUpTo(s, 1, 0) = {}
           /\ i < Len(s.lists) =>
                 LinksUpTo(s, i + 1, 0) = LinksUpTo(s, i, Len(s.lists[i]))
           /\ i = Len(s.lists) => Shelved(s) = LinksUpTo(s, i, Len(s.lists[i]))
<1>1. Len(s.lists) \in Nat \ {0} /\ DOMAIN s.lists = 1 .. Len(s.lists)
  BY ListFacts
<1> DEFINE W(j) == FirstPages(s.lists[j], Len(s.lists[j]))
<1>2. \A j \in 1 .. Len(s.lists) : FirstPages(s.lists[j], 0) = {}
  <2> SUFFICES ASSUME NEW j \in 1 .. Len(s.lists) PROVE FirstPages(s.lists[j], 0) = {}
    OBVIOUS
  <2>1. DOMAIN s.lists[j] = 1 .. Len(s.lists[j]) /\ Len(s.lists[j]) \in Nat
    BY ListFacts
  <2>2. {q \in DOMAIN s.lists[j] : q <= 0} = {}
    BY <2>1
  <2> QED
    BY <2>2 DEF FirstPages
<1>3. \A j \in DOMAIN s.lists : W(j) = UNION {s.lists[j][q] : q \in DOMAIN s.lists[j]}
  <2> SUFFICES ASSUME NEW j \in 1 .. Len(s.lists)
               PROVE  W(j) = UNION {s.lists[j][q] : q \in DOMAIN s.lists[j]}
    BY <1>1
  <2>1. DOMAIN s.lists[j] = 1 .. Len(s.lists[j]) /\ Len(s.lists[j]) \in Nat
    BY ListFacts
  <2>2. {q \in DOMAIN s.lists[j] : q <= Len(s.lists[j])} = DOMAIN s.lists[j]
    BY <2>1
  <2> QED
    BY <2>2, Zenon DEF FirstPages
<1>4. \A j, n : LinksUpTo(s, j, n) = LinksBefore(s, j) \cup FirstPages(s.lists[j], n)
  BY DEF LinksUpTo
<1>5. Shelved(s) = UNION {W(j) : j \in DOMAIN s.lists}
  <2>1. {UNION {s.lists[j][q] : q \in DOMAIN s.lists[j]} : j \in DOMAIN s.lists}
            = {W(j) : j \in DOMAIN s.lists}
    BY <1>3
  <2> QED
    BY <2>1 DEF Shelved
<1>6. \A j : LinksBefore(s, j) = UNION {W(k) : k \in 1 .. j - 1}
  BY DEF LinksBefore
<1> HIDE DEF W
<1>7. 1 .. (i + 1) - 1 = (1 .. i - 1) \cup {i}
  BY <1>1
<1>8. LinksBefore(s, i + 1) = LinksBefore(s, i) \cup W(i)
  <2>1. LinksBefore(s, i + 1) = UNION {W(k) : k \in 1 .. (i + 1) - 1}
    BY <1>6
  <2>2. LinksBefore(s, i + 1) = UNION {W(k) : k \in (1 .. i - 1) \cup {i}}
    BY <1>7, <2>1
  <2>3. UNION {W(k) : k \in (1 .. i - 1) \cup {i}} = (UNION {W(k) : k \in 1 .. i - 1}) \cup W(i)
    BY Zenon
  <2> QED
    BY <1>6, <2>2, <2>3
<1>9. LinksBefore(s, 1) = {}
  <2>1. 1 .. 1 - 1 = {}
    OBVIOUS
  <2> QED
    BY <2>1, <1>6
<1>10. i = Len(s.lists) => DOMAIN s.lists = 1 .. (i + 1) - 1
  BY <1>1
<1>11. i = Len(s.lists) => Shelved(s) = LinksBefore(s, i + 1)
  BY <1>5, <1>6, <1>10
<1>12. 1 \in 1 .. Len(s.lists) /\ (i < Len(s.lists) => i + 1 \in 1 .. Len(s.lists))
  BY <1>1
<1>13. LinksUpTo(s, i, Len(s.lists[i])) = LinksBefore(s, i) \cup W(i)
  BY <1>4 DEF W
<1>14. LinksUpTo(s, 1, 0) = {}
  BY <1>2, <1>4, <1>9, <1>12
<1>15. i < Len(s.lists) => LinksUpTo(s, i + 1, 0) = LinksBefore(s, i + 1)
  <2> DEFINE k == i + 1
  <2>1. i < Len(s.lists) => FirstPages(s.lists[k], 0) = {}
    BY <1>2, <1>12
  <2> HIDE DEF k
  <2>2. i < Len(s.lists) => LinksUpTo(s, k, 0) = LinksBefore(s, k)
    BY <1>4, <2>1
  <2> QED
    BY <2>2 DEF k
<1> QED
  BY <1>8, <1>11, <1>13, <1>14, <1>15

-----------------------------------------------------------------------------
(* The inductive invariant of a prebuilt run.                              *)

PrebuiltTypes ==
    /\ targets \in Seq(Sources) \ {<<>>}
    /\ store \in Stores /\ Fits(store, Head(targets))
    /\ onSale \subseteq Shelved(store)
    /\ walking \in {"list", "product", "write", "sweep", "record", "over", "died"}
    /\ place \in [list : Nat, page : Nat, fails : Nat]
    /\ place.list \in 1 .. Len(store.lists) /\ place.page \in Nat \ {0}

PrebuiltFlags ==
    /\ failed \in BOOLEAN /\ hostBlocked \in BOOLEAN /\ cut \in BOOLEAN
    /\ overlooked \in BOOLEAN /\ truthful \in BOOLEAN

\* The pages that are read are the only thing left to fetch from.
QueueInv ==
    /\ walking \in {"write", "sweep", "record"} => toFetch = {}
    /\ walking = "list" /\ Is("zestro") => toFetch = {}

\* A walk that was cut off has an error or a blocked host to show for it.
CutInv == cut => failed \/ hostBlocked

\* Where no page of the shop failed and the walk was not cut off, it knows the
\* links of all pages it has passed, in the end those of the whole shop.
LinkInv ==
    ~overlooked /\ ~cut =>
        /\ walking = "list" => links = LinksUpTo(store, place.list, place.page - 1)
        /\ walking = "product" /\ Is("zestro")
              => links = LinksUpTo(store, place.list, place.page)
        /\ (walking = "product" /\ ~Is("zestro")) \/ walking \in {"write", "sweep", "record"}
              => links = Shelved(store)

\* A link that is known is still to be fetched, or was fetched, or failed.
ResultInv ==
    /\ results \subseteq onSale
    /\ ~overlooked /\ ~cut => links \cap onSale \subseteq results \cup toFetch

\* A 404 past the last page, of a shop that answers so, is all that can have
\* been unkind to a walk with true answers that left no category too early;
\* zestro alone holds it against it.
TruthInv ==
    truthful => /\ ~hostBlocked
                /\ ~overlooked /\ WithinCap(store) /\ ~(Is("zestro") /\ store.past = "404")
                      => ~failed /\ ~cut

ListedInv ==
    /\ walking = "sweep" => results \subseteq onList
    /\ walking = "record" /\ Ok => onList = results

PrebuiltInv == /\ PrebuiltTypes /\ PrebuiltFlags /\ QueueInv /\ CutInv /\ LinkInv
               /\ ResultInv /\ TruthInv /\ ListedInv

\* A walk begins.
Begins == /\ targets \in Seq(Sources) \ {<<>>}
          /\ store \in Stores /\ Fits(store, Head(targets)) /\ onSale \subseteq Shelved(store)
          /\ walking = "list" /\ place = FirstPage(1)
          /\ links = {} /\ toFetch = {} /\ results = {}
          /\ failed = FALSE /\ hostBlocked = FALSE
          /\ cut = FALSE /\ overlooked = FALSE /\ truthful = TRUE

\* A source that begins has seen nothing yet.
LEMMA BeginsInv == Begins => PrebuiltInv
<1> SUFFICES ASSUME Begins PROVE PrebuiltInv
  OBVIOUS
<1>1. Len(store.lists) \in Nat \ {0}
  BY ListFacts DEF Begins
<1>2. /\ place.list = 1 /\ place.page = 1 /\ place.page - 1 = 0 /\ 1 \in 1 .. Len(store.lists)
      /\ place \in [list : Nat, page : Nat, fails : Nat]
  BY <1>1 DEF Begins, FirstPage
<1>3. PrebuiltTypes
  BY <1>2 DEF Begins, PrebuiltTypes
<1>4. PrebuiltFlags
  BY DEF Begins, PrebuiltFlags
<1>5. LinkInv
  <2>1. LinksUpTo(store, 1, 0) = {}
    BY <1>2, UpToCategory DEF Begins
  <2> QED
    BY <1>2, <2>1 DEF Begins, LinkInv
<1>6. QueueInv /\ CutInv /\ ResultInv /\ TruthInv /\ ListedInv
  BY DEF Begins, QueueInv, CutInv, ResultInv, TruthInv, ListedInv
<1> QED
  BY <1>3, <1>4, <1>5, <1>6 DEF PrebuiltInv

\* The run begins with its first source.
LEMMA PrebuiltInitInv == PrebuiltInit => PrebuiltInv
<1>1. PrebuiltInit => Begins
  BY PrebuiltAssumption DEF PrebuiltInit, Begins
<1> QED
  BY <1>1, BeginsInv

\* What the page at hand holds: what the walk has seen up to it is of this
\* category and of those before, and past the end there is nothing new.
LEMMA PageHolds ==
    ASSUME PrebuiltTypes, NEW ls,
           ls = LinksUpTo(store, place.list, place.page - 1)
    PROVE  /\ Pages = store.lists[place.list] /\ Len(Pages) \in Nat
           /\ DOMAIN Pages = 1 .. Len(Pages)
           /\ LinksUpTo(store, place.list, place.page) = ls \cup LinksOn(place.page)
           /\ LinksUpTo(store, place.list, place.page)
                 \subseteq LinksUpTo(store, place.list, Len(Pages))
           /\ place.page >= Len(Pages) =>
                 LinksUpTo(store, place.list, place.page)
                    = LinksUpTo(store, place.list, Len(Pages))
           /\ place.page \notin DOMAIN Pages =>
                 /\ ls = LinksUpTo(store, place.list, Len(Pages))
                 /\ LinksUpTo(store, place.list, place.page) = ls
<1> DEFINE i == place.list
           p == place.page
<1>1. store \in Stores /\ i \in 1 .. Len(store.lists) /\ p \in Nat \ {0}
  BY DEF PrebuiltTypes
<1>2. Pages = store.lists[i]
  BY DEF Pages
<1>3. Len(Pages) \in Nat /\ DOMAIN Pages = 1 .. Len(Pages)
  BY <1>1, <1>2, ListFacts
<1>4. LinksUpTo(store, i, p) \subseteq LinksUpTo(store, i, Len(Pages))
  BY <1>1, <1>2, <1>3 DEF LinksUpTo, FirstPages
<1>5. p >= Len(Pages) => LinksUpTo(store, i, p) = LinksUpTo(store, i, Len(Pages))
  BY <1>1, <1>2, UpToPast
<1>6. CASE p \in DOMAIN Pages
  <2>1. LinksUpTo(store, i, p) = ls \cup Pages[p]
    BY <1>1, <1>2, <1>3, <1>6, UpToNext
  <2>2. LinksOn(p) = Pages[p]
    BY <1>6 DEF LinksOn
  <2> QED
    BY <1>2, <1>3, <1>4, <1>5, <1>6, <2>1, <2>2
<1>7. CASE p \notin DOMAIN Pages
  <2>1. p - 1 \in Nat /\ p - 1 >= Len(Pages) /\ p >= Len(Pages) /\ p \in Nat
    BY <1>1, <1>3, <1>7
  <2>2. /\ ls = LinksUpTo(store, i, Len(Pages))
        /\ \A q \in 1 .. Len(Pages) : Pages[q] \subseteq ls
    BY <1>1, <1>2, <2>1, UpToPast
  <2>3. LinksOn(p) \subseteq ls
    <3>1. CASE store.past = "again" /\ Pages # <<>>
      <4>1. Pages \in Seq(SUBSET Pcs)
        BY <1>1, <1>2, ListFacts
      <4>2. Len(Pages) \in 1 .. Len(Pages)
        BY <1>3, <3>1, <4>1, EmptySeq
      <4>3. LinksOn(p) = Pages[Len(Pages)]
        BY <1>7, <3>1 DEF LinksOn
      <4> QED
        BY <2>2, <4>2, <4>3
    <3>2. CASE ~(store.past = "again" /\ Pages # <<>>)
      BY <1>7, <3>2 DEF LinksOn
    <3> QED
      BY <3>1, <3>2
  <2> QED
    BY <1>2, <1>3, <1>4, <1>5, <1>7, <2>1, <2>2, <2>3
<1> QED
  BY <1>6, <1>7

\* Only techmatched's walk has several categories.
LEMMA OneList ==
    ASSUME PrebuiltTypes, Is("zestro")
    PROVE  place.list = Len(store.lists)
<1>1. Head(targets) = "zestro" /\ Len(store.lists) = 1
  BY DEF PrebuiltTypes, Fits, Is
<1> QED
  BY <1>1 DEF PrebuiltTypes

\* The walk is through with a category.
LEMMA ListOverStep ==
    ASSUME PrebuiltInv, walking = "list", ListOver, UNCHANGED <<source, results, onList>>,
           PrebuiltFlags', CutInv', TruthInv',
           Is("zestro") => toFetch' = {},
           ~overlooked' /\ ~cut' =>
               /\ links' = LinksUpTo(store, place.list, Len(Pages))
               /\ links' \cap onSale \subseteq results \cup toFetch'
    PROVE  PrebuiltInv'
<1> USE DEF PrebuiltInv
<1>1. targets' = targets /\ store' = store /\ onSale' = onSale /\ results' = results /\ onList' = onList
  BY DEF source
<1>2. /\ store \in Stores /\ place.list \in 1 .. Len(store.lists)
      /\ Len(store.lists) \in Nat \ {0} /\ results \subseteq onSale
  BY ListFacts DEF PrebuiltTypes, ResultInv
<1>3. /\ place.list < Len(store.lists) =>
            LinksUpTo(store, place.list + 1, 0) = LinksUpTo(store, place.list, Len(Pages))
      /\ place.list = Len(store.lists) =>
            Shelved(store) = LinksUpTo(store, place.list, Len(Pages))
  BY <1>2, UpToCategory DEF Pages
<1>4. CASE Is("zestro")
  <2>1. walking' = "write" /\ place' = place /\ toFetch' = {} /\ Is("zestro")'
    BY <1>1, <1>4 DEF ListOver, Is
  <2>2. Shelved(store) = LinksUpTo(store, place.list, Len(Pages))
    BY <1>3, <1>4, OneList
  <2>3. PrebuiltTypes'
    BY <1>1, <2>1 DEF PrebuiltTypes
  <2>4. QueueInv' /\ LinkInv' /\ ResultInv' /\ ListedInv'
    BY <1>1, <1>2, <2>1, <2>2 DEF QueueInv, LinkInv, ResultInv, ListedInv
  <2> QED
    BY <2>3, <2>4
<1>5. CASE ~Is("zestro") /\ place.list < Len(store.lists)
  <2>1. /\ walking' = walking /\ place' = FirstPage(place.list + 1) /\ ~Is("zestro")'
    BY <1>1, <1>5 DEF ListOver, Is
  <2>2. /\ place'.list = place.list + 1 /\ place'.page = 1 /\ place'.page - 1 = 0
        /\ place.list + 1 \in 1 .. Len(store.lists)
        /\ place' \in [list : Nat, page : Nat, fails : Nat]
    BY <1>2, <1>5, <2>1 DEF FirstPage
  <2>3. PrebuiltTypes'
    BY <1>1, <2>1, <2>2 DEF PrebuiltTypes
  <2>4. LinkInv'
    <3>1. ~overlooked' /\ ~cut' => links' = LinksUpTo(store, place.list + 1, 0)
      BY <1>3, <1>5
    <3> QED
      BY <1>1, <2>1, <2>2, <3>1 DEF LinkInv
  <2>5. QueueInv' /\ ResultInv' /\ ListedInv'
    BY <1>1, <1>2, <2>1 DEF QueueInv, ResultInv, ListedInv
  <2> QED
    BY <2>3, <2>4, <2>5
<1>6. CASE ~Is("zestro") /\ ~(place.list < Len(store.lists))
  <2>1. walking' = "product" /\ place' = place /\ ~Is("zestro")'
    BY <1>1, <1>6 DEF ListOver, Is
  <2>2. place.list = Len(store.lists)
    BY <1>2, <1>6
  <2>3. PrebuiltTypes'
    BY <1>1, <2>1 DEF PrebuiltTypes
  <2>4. QueueInv' /\ LinkInv' /\ ResultInv' /\ ListedInv'
    BY <1>1, <1>2, <1>3, <2>1, <2>2 DEF QueueInv, LinkInv, ResultInv, ListedInv
  <2> QED
    BY <2>3, <2>4
<1> QED
  BY <1>4, <1>5, <1>6

\* The walk turns the page; it has read one more, if none of the shop's failed.
LEMMA TurnStep ==
    ASSUME PrebuiltInv, walking = "list", NEW fails \in Nat,
           place' = [place EXCEPT !.page = @ + 1, !.fails = fails],
           UNCHANGED <<source, results, onList, walking>>,
           PrebuiltFlags', CutInv', TruthInv',
           Is("zestro") => toFetch' = {},
           ~overlooked' /\ ~cut' =>
               /\ links' = LinksUpTo(store, place.list, place.page)
               /\ links' \cap onSale \subseteq results \cup toFetch'
    PROVE  PrebuiltInv'
<1> USE DEF PrebuiltInv
<1>1. /\ targets' = targets /\ store' = store /\ onSale' = onSale /\ results' = results
      /\ onList' = onList /\ walking' = walking
  BY DEF source
<1>2. /\ place \in [list : Nat, page : Nat, fails : Nat]
      /\ place.list \in 1 .. Len(store.lists) /\ place.page \in Nat \ {0}
      /\ results \subseteq onSale
  BY DEF PrebuiltTypes, ResultInv
<1>3. /\ place' \in [list : Nat, page : Nat, fails : Nat]
      /\ place'.list = place.list /\ place'.page = place.page + 1
      /\ place'.page \in Nat \ {0} /\ place'.page - 1 = place.page
  <2>1. place' = [place EXCEPT !.page = place.page + 1, !.fails = fails]
    OBVIOUS
  <2>2. place.page + 1 \in Nat \ {0} /\ (place.page + 1) - 1 = place.page
    BY <1>2
  <2>3. /\ place' \in [list : Nat, page : Nat, fails : Nat]
        /\ place'.list = place.list /\ place'.page = place.page + 1
    BY <1>2, <2>1, <2>2
  <2> QED
    BY <2>2, <2>3
<1>4. PrebuiltTypes'
  BY <1>1, <1>2, <1>3 DEF PrebuiltTypes
<1>5. LinkInv'
  BY <1>1, <1>3 DEF LinkInv
<1>6. QueueInv' /\ ResultInv' /\ ListedInv'
  BY <1>1, <1>2 DEF QueueInv, ResultInv, ListedInv, Is
<1> QED
  BY <1>4, <1>5, <1>6

\* The walk is given up without results: that shows.
LEMMA RaiseStep ==
    ASSUME PrebuiltInv, walking = "list", RaiseIncomplete,
           UNCHANGED <<source, results, onList>>, PrebuiltFlags', cut' = TRUE, TruthInv'
    PROVE  PrebuiltInv'
<1> USE DEF PrebuiltInv
<1>1. /\ targets' = targets /\ store' = store /\ onSale' = onSale /\ results' = results
      /\ onList' = onList /\ walking' = "write" /\ toFetch' = {} /\ failed' = TRUE
      /\ place' = place
  BY DEF source, RaiseIncomplete
<1>2. PrebuiltTypes'
  BY <1>1 DEF PrebuiltTypes
<1>3. CutInv' /\ LinkInv' /\ ResultInv' /\ QueueInv' /\ ListedInv'
  BY <1>1 DEF CutInv, LinkInv, ResultInv, QueueInv, ListedInv
<1> QED
  BY <1>2, <1>3

\* There are three prebuilt sources.
LEMMA SourceIs ==
    ASSUME PrebuiltTypes
    PROVE  Is("zestro") \/ Is("redtech") \/ Is("techmatched")
<1>1. targets \in Seq(Sources) /\ targets # <<>>
  BY DEF PrebuiltTypes
<1>2. Head(targets) \in Sources
  BY <1>1
<1> QED
  BY <1>2 DEF Is, Sources

\* A page of links is read.
LEMMA ListPageStep ==
    ASSUME PrebuiltInv, ListPage
    PROVE  PrebuiltInv'
<1> DEFINE seen == links \cup LinksOn(place.page)
           upTo == LinksUpTo(store, place.list, place.page)
           all  == LinksUpTo(store, place.list, Len(Pages))
<1>1. /\ walking = "list" /\ ~hostBlocked
      /\ targets' = targets /\ store' = store /\ onSale' = onSale /\ onList' = onList
      /\ results' = results /\ hostBlocked' = hostBlocked /\ truthful' = truthful
  BY DEF ListPage, source
<1>2. /\ PrebuiltTypes /\ PrebuiltFlags /\ QueueInv /\ CutInv /\ LinkInv /\ ResultInv /\ TruthInv
      /\ store \in Stores
  BY DEF PrebuiltInv, PrebuiltTypes
\* a category left early is overlooked
<1>3. /\ overlooked' \in BOOLEAN
      /\ overlooked => overlooked'
      /\ ~overlooked' /\ (seen = links \/ (place.page = MaxListPages /\ ~Is("zestro")))
            => all \subseteq seen
  <2>1. overlooked' = (overlooked \/ (LeavesAt(seen) /\ ~CategorySeen(seen)))
    BY DEF ListPage
  <2>2. (overlooked \/ (LeavesAt(seen) /\ ~CategorySeen(seen))) \in BOOLEAN
    OBVIOUS
  <2>3. overlooked => overlooked'
    BY <2>1, Zenon
  <2>4. ~overlooked' => ~LeavesAt(seen) \/ CategorySeen(seen)
    BY <2>1, Zenon
  <2> QED
    BY <2>1, <2>2, <2>3, <2>4, Zenon DEF LeavesAt, CategorySeen
<1>4. place \in [list : Nat, page : Nat, fails : Nat] /\ MaxListPages \in Nat
      /\ place.list \in DOMAIN store.lists
      /\ Pages = store.lists[place.list] /\ Len(Pages) \in Nat /\ DOMAIN Pages = 1 .. Len(Pages)
  BY <1>2, PageHolds, ListFacts, PrebuiltAssumption DEF PrebuiltTypes
<1>5. ASSUME ~overlooked, ~cut
      PROVE  /\ upTo = seen /\ seen \subseteq all
             /\ seen # links => place.page \in DOMAIN Pages
             /\ place.page >= Len(Pages) => upTo = all
             /\ links \cap onSale \subseteq results \cup toFetch
  <2>1. links = LinksUpTo(store, place.list, place.page - 1)
    BY <1>1, <1>2, <1>5 DEF LinkInv
  <2>2. links \cap onSale \subseteq results \cup toFetch
    BY <1>2, <1>5 DEF ResultInv
  <2> QED
    BY <1>2, <2>1, <2>2, PageHolds
<1>6. UNCHANGED <<source, results, onList>>
  BY <1>1 DEF source
<1>7. Is("zestro") => toFetch = {}
  BY <1>1, <1>2 DEF QueueInv
<1>8. ASSUME failed' = failed, cut' = cut
      PROVE  PrebuiltFlags' /\ CutInv' /\ TruthInv'
  <2>1. PrebuiltFlags'
    BY <1>1, <1>2, <1>3, <1>8 DEF PrebuiltFlags
  <2>2. CutInv' /\ TruthInv'
    BY <1>1, <1>2, <1>3, <1>8 DEF CutInv, TruthInv, Is
  <2> QED
    BY <2>1, <2>2
<1>9. \/ seen = links /\ ListOver /\ UNCHANGED <<links, toFetch, failed, cut>>
      \/ /\ seen # links /\ Is("zestro")
         /\ walking' = "product" /\ place' = [place EXCEPT !.fails = 0]
         /\ links' = seen /\ toFetch' = seen \ links
         /\ UNCHANGED <<failed, cut>>
      \/ seen # links /\ ~Is("zestro") /\ NextPage(0, seen)
      \/ /\ seen # links /\ MayStopHere /\ ListOver
         /\ links' = seen /\ toFetch' = seen /\ UNCHANGED <<failed, cut>>
  BY DEF ListPage
<1> HIDE DEF seen, upTo, all
<1>10. CASE seen = links /\ ListOver /\ UNCHANGED <<links, toFetch, failed, cut>>
  <2>1. PrebuiltFlags' /\ CutInv' /\ TruthInv'
    BY <1>8, <1>10
  <2>2. ~overlooked' /\ ~cut' =>
           /\ links' = LinksUpTo(store, place.list, Len(Pages))
           /\ links' \cap onSale \subseteq results \cup toFetch'
    BY <1>1, <1>3, <1>5, <1>10 DEF all
  <2>3. Is("zestro") => toFetch' = {}
    BY <1>7, <1>10
  <2> QED
    BY <1>1, <1>6, <1>10, <2>1, <2>2, <2>3, ListOverStep
<1>11. CASE /\ seen # links /\ Is("zestro")
            /\ walking' = "product" /\ place' = [place EXCEPT !.fails = 0]
            /\ links' = seen /\ toFetch' = seen \ links
            /\ UNCHANGED <<failed, cut>>
  <2> USE DEF PrebuiltInv
  <2>1. PrebuiltFlags' /\ CutInv' /\ TruthInv'
    BY <1>8, <1>11
  <2>2. /\ place' \in [list : Nat, page : Nat, fails : Nat]
        /\ place'.list = place.list /\ place'.page = place.page
    BY <1>4, <1>11
  <2>3. PrebuiltTypes'
    BY <1>1, <1>2, <1>11, <2>2 DEF PrebuiltTypes
  <2>4. LinkInv'
    <3>1. ~overlooked' /\ ~cut' => links' = upTo
      BY <1>1, <1>3, <1>5, <1>11
    <3> QED
      BY <1>1, <1>11, <2>2, <3>1 DEF LinkInv, Is, upTo
  <2>5. ResultInv'
    <3>1. results' \subseteq onSale'
      BY <1>1, <1>2 DEF ResultInv
    <3>2. ASSUME ~overlooked', ~cut' PROVE links' \cap onSale' \subseteq results' \cup toFetch'
      <4>1. links \cap onSale \subseteq results
        BY <1>1, <1>3, <1>5, <1>7, <1>11, <3>2
      <4> QED
        BY <1>1, <1>11, <4>1
    <3> QED
      BY <3>1, <3>2 DEF ResultInv
  <2>6. QueueInv' /\ ListedInv'
    BY <1>11 DEF QueueInv, ListedInv
  <2> QED
    BY <2>1, <2>3, <2>4, <2>5, <2>6
<1>12. CASE seen # links /\ ~Is("zestro") /\ NextPage(0, seen)
  <2>1. ASSUME ~overlooked, ~cut, WithinCap(store) PROVE place.page # MaxListPages
    <3>1. Len(Pages) < MaxListPages
      BY <1>4, <2>1 DEF WithinCap
    <3>2. place.page <= Len(Pages)
      BY <1>4, <1>5, <1>12, <2>1
    <3> QED
      BY <1>4, <3>1, <3>2
  <2>2. CASE place.page = MaxListPages /\ Is("redtech")
    <3>1. RaiseIncomplete /\ cut' = TRUE /\ failed' = TRUE
      BY <1>12, <2>2 DEF NextPage, RaiseIncomplete
    <3>2. PrebuiltFlags'
      BY <1>1, <1>2, <1>3, <3>1 DEF PrebuiltFlags
    <3>3. ~(truthful' /\ ~overlooked' /\ WithinCap(store))
      BY <1>1, <1>2, <1>3, <1>12, <2>1, <2>2 DEF TruthInv
    <3>4. truthful' => ~hostBlocked'
      BY <1>1
    <3>5. TruthInv'
      BY <1>1, <3>3, <3>4 DEF TruthInv, Is
    <3> QED
      BY <1>1, <1>6, <3>1, <3>2, <3>5, RaiseStep
  <2>3. CASE place.page = MaxListPages /\ ~Is("redtech")
    <3>1. ListOver /\ links' = seen /\ toFetch' = seen /\ failed' = failed /\ cut' = cut
      BY <1>12, <2>3 DEF NextPage
    <3>2. PrebuiltFlags' /\ CutInv' /\ TruthInv'
      BY <1>8, <3>1
    <3>3. ~overlooked' /\ ~cut' =>
             /\ links' = LinksUpTo(store, place.list, Len(Pages))
             /\ links' \cap onSale \subseteq results \cup toFetch'
      BY <1>3, <1>5, <1>12, <2>3, <3>1 DEF all
    <3> QED
      BY <1>1, <1>6, <1>12, <3>1, <3>2, <3>3, ListOverStep
  <2>4. CASE place.page # MaxListPages
    <3>1. /\ place' = [place EXCEPT !.page = @ + 1, !.fails = 0]
          /\ links' = seen /\ toFetch' = toFetch \cup (seen \ links)
          /\ walking' = walking /\ failed' = failed /\ cut' = cut
      BY <1>12, <2>4 DEF NextPage
    <3>2. PrebuiltFlags' /\ CutInv' /\ TruthInv'
      BY <1>8, <3>1
    <3>3. ASSUME ~overlooked', ~cut'
          PROVE  /\ links' = LinksUpTo(store, place.list, place.page)
                 /\ links' \cap onSale \subseteq results \cup toFetch'
      <4>1. upTo = seen /\ links \cap onSale \subseteq results \cup toFetch
        BY <1>1, <1>3, <1>5, <3>1, <3>3
      <4>2. links' = LinksUpTo(store, place.list, place.page)
        BY <3>1, <4>1 DEF upTo
      <4>3. links' \cap onSale \subseteq results \cup toFetch'
        BY <3>1, <4>1
      <4> QED
        BY <4>2, <4>3
    <3>4. UNCHANGED <<source, results, onList, walking>> /\ 0 \in Nat
      BY <1>1, <3>1 DEF source
    <3> QED
      BY <1>1, <1>12, <3>1, <3>2, <3>3, <3>4, TurnStep
  <2> QED
    BY <2>2, <2>3, <2>4
<1>13. CASE /\ seen # links /\ MayStopHere /\ ListOver
            /\ links' = seen /\ toFetch' = seen /\ UNCHANGED <<failed, cut>>
  <2>1. PrebuiltFlags' /\ CutInv' /\ TruthInv'
    BY <1>8, <1>13
  <2>2. Is("redtech") /\ ~Is("zestro") /\ place.page >= Len(Pages)
    BY <1>13 DEF MayStopHere, Is
  <2>3. ~overlooked' /\ ~cut' =>
           /\ links' = LinksUpTo(store, place.list, Len(Pages))
           /\ links' \cap onSale \subseteq results \cup toFetch'
    BY <1>1, <1>3, <1>5, <1>13, <2>2 DEF all
  <2> QED
    BY <1>1, <1>6, <1>13, <2>1, <2>2, <2>3, ListOverStep
<1> QED
  BY <1>9, <1>10, <1>11, <1>12, <1>13

\* A page of links fails.
LEMMA ListFailsStep ==
    ASSUME PrebuiltInv, NEW o \in {"404", "fail", "block"}, ListFails(o)
    PROVE  PrebuiltInv'
<1> DEFINE last == place.page \notin DOMAIN Pages
<1>1. /\ walking = "list" /\ (hostBlocked => o = "block")
      /\ targets' = targets /\ store' = store /\ onSale' = onSale /\ onList' = onList
      /\ results' = results
      /\ UNCHANGED <<source, results, onList>>
  BY DEF ListFails, source
<1>2. /\ PrebuiltTypes /\ PrebuiltFlags /\ QueueInv /\ CutInv /\ LinkInv /\ ResultInv /\ TruthInv
      /\ store \in Stores
  BY DEF PrebuiltInv, PrebuiltTypes
<1>4. /\ hostBlocked' \in BOOLEAN /\ overlooked' \in BOOLEAN /\ truthful' \in BOOLEAN
      /\ hostBlocked' <=> o = "block"
      /\ overlooked' <=> overlooked \/ ~last
      /\ truthful' <=> truthful /\ o = "404" /\ store.past = "404" /\ last
  BY <1>2, Zenon DEF ListFails, TrueEnd, PrebuiltFlags
<1> HIDE DEF last
<1>5. ASSUME ~overlooked', ~cut
      PROVE  /\ links = LinksUpTo(store, place.list, Len(Pages))
             /\ links = LinksUpTo(store, place.list, place.page)
             /\ links \cap onSale \subseteq results \cup toFetch
  <2>1. ~overlooked /\ last
    BY <1>4, <1>5
  <2>2. links = LinksUpTo(store, place.list, place.page - 1)
    BY <1>1, <1>2, <1>5, <2>1 DEF LinkInv
  <2>3. links \cap onSale \subseteq results \cup toFetch
    BY <1>2, <1>5, <2>1 DEF ResultInv
  <2> QED
    BY <1>2, <2>1, <2>2, <2>3, PageHolds DEF last
<1>6. Is("zestro") => toFetch = {}
  BY <1>1, <1>2 DEF QueueInv
\* no branch but one that reports touches failed and cut
<1>7. ASSUME failed' = failed, cut' = cut
      PROVE  PrebuiltFlags' /\ CutInv' /\ TruthInv'
  <2>1. PrebuiltFlags'
    BY <1>2, <1>4, <1>7 DEF PrebuiltFlags
  <2>2. CutInv'
    BY <1>1, <1>2, <1>4, <1>7 DEF CutInv
  <2>3. TruthInv'
    BY <1>1, <1>2, <1>4, <1>7 DEF TruthInv, Is
  <2> QED
    BY <2>1, <2>2, <2>3
<1>8. ASSUME failed' = TRUE, cut' = TRUE, ~(Is("zestro") /\ store.past = "404") => o # "404"
      PROVE  PrebuiltFlags' /\ CutInv' /\ TruthInv'
  <2>1. PrebuiltFlags'
    BY <1>2, <1>4, <1>8 DEF PrebuiltFlags
  <2>2. CutInv'
    BY <1>8 DEF CutInv
  <2>3. TruthInv'
    BY <1>1, <1>2, <1>4, <1>8 DEF TruthInv, Is
  <2> QED
    BY <2>1, <2>2, <2>3
<1>9. ASSUME ListOver, UNCHANGED <<links, toFetch, failed, cut>>
      PROVE  PrebuiltInv'
  <2>1. PrebuiltFlags' /\ CutInv' /\ TruthInv'
    BY <1>7, <1>9
  <2>2. ~overlooked' /\ ~cut' =>
           /\ links' = LinksUpTo(store, place.list, Len(Pages))
           /\ links' \cap onSale \subseteq results \cup toFetch'
    BY <1>5, <1>9
  <2>3. Is("zestro") => toFetch' = {}
    BY <1>6, <1>9
  <2> QED
    BY <1>1, <1>9, <2>1, <2>2, <2>3, ListOverStep
<1>10. CASE Is("techmatched")
  <2>1. CASE o = "block"
    <3>1. RaiseIncomplete /\ cut' = TRUE /\ failed' = TRUE
      BY <1>10, <2>1 DEF ListFails, RaiseIncomplete
    <3>2. PrebuiltFlags' /\ CutInv' /\ TruthInv'
      BY <1>8, <2>1, <3>1
    <3> QED
      BY <1>1, <3>1, <3>2, RaiseStep
  <2>2. CASE o # "block"
    <3>1. ListOver /\ UNCHANGED <<links, toFetch, failed, cut>>
      BY <1>10, <2>2 DEF ListFails
    <3> QED
      BY <1>9, <3>1
  <2> QED
    BY <2>1, <2>2
<1>11. CASE ~Is("techmatched") /\ Is404(o)
  <2>1. ListOver /\ UNCHANGED <<links, toFetch, failed, cut>>
    BY <1>11 DEF ListFails
  <2> QED
    BY <1>9, <2>1
<1>12. CASE ~Is("techmatched") /\ ~Is404(o)
  <2>0. Is("zestro") \/ (Is("redtech") /\ o # "404")
    BY <1>2, <1>12, SourceIs DEF Is404
  <2>1. ~(Is("zestro") /\ store.past = "404") => o # "404" \/ ~truthful'
    BY <1>4, <2>0
  <2>2. ASSUME failed' = TRUE, cut' = TRUE PROVE PrebuiltFlags' /\ CutInv' /\ TruthInv'
    <3>1. PrebuiltFlags'
      BY <1>2, <1>4, <2>2 DEF PrebuiltFlags
    <3>2. CutInv'
      BY <2>2 DEF CutInv
    <3>3. TruthInv'
      BY <1>1, <1>2, <1>4, <2>1, <2>2 DEF TruthInv, Is
    <3> QED
      BY <3>1, <3>2, <3>3
  <2>3. CASE place.fails + 1 >= GiveUpAfter
    <3>1. GiveUpList
      BY <1>12, <2>3 DEF ListFails
    <3>2. failed' = TRUE /\ cut' = TRUE /\ ListOver /\ links' = links /\ toFetch' = toFetch
      BY <3>1 DEF GiveUpList
    <3>3. PrebuiltFlags' /\ CutInv' /\ TruthInv'
      BY <2>2, <3>2
    <3>4. cut' /\ (Is("zestro") => toFetch' = {})
      BY <1>6, <3>2
    <3> QED
      BY <1>1, <3>2, <3>3, <3>4, ListOverStep
  <2>4. CASE ~(place.fails + 1 >= GiveUpAfter)
    <3>1. NextPage(place.fails + 1, links)
      BY <1>12, <2>4 DEF ListFails
    <3>2. CASE place.page = MaxListPages /\ ~Is("zestro")
      <4>1. RaiseIncomplete /\ cut' = TRUE /\ failed' = TRUE
        BY <2>0, <3>1, <3>2 DEF NextPage, RaiseIncomplete
      <4>2. PrebuiltFlags' /\ CutInv' /\ TruthInv'
        BY <2>2, <4>1
      <4> QED
        BY <1>1, <4>1, <4>2, RaiseStep
    <3>3. CASE ~(place.page = MaxListPages /\ ~Is("zestro"))
      <4> DEFINE fails == place.fails + 1
      <4>1. /\ place' = [place EXCEPT !.page = @ + 1, !.fails = fails]
            /\ links' = links /\ toFetch' = toFetch \cup (links \ links)
            /\ walking' = walking /\ failed' = failed /\ cut' = cut
        BY <3>1, <3>3 DEF NextPage
      <4>2. fails \in Nat
        BY <1>2 DEF PrebuiltTypes
      <4>3. PrebuiltFlags' /\ CutInv' /\ TruthInv'
        BY <1>7, <4>1
      <4>4. toFetch' = toFetch
        BY <4>1
      <4>5. ~overlooked' /\ ~cut' =>
               /\ links' = LinksUpTo(store, place.list, place.page)
               /\ links' \cap onSale \subseteq results \cup toFetch'
        BY <1>5, <4>1, <4>4
      <4>6. UNCHANGED <<source, results, onList, walking>> /\ (Is("zestro") => toFetch' = {})
        BY <1>1, <1>6, <4>1, <4>4
      <4> HIDE DEF fails
      <4> QED
        BY <1>1, <4>1, <4>2, <4>3, <4>5, <4>6, TurnStep
    <3> QED
      BY <3>2, <3>3
  <2> QED
    BY <2>3, <2>4
<1> QED
  BY <1>10, <1>11, <1>12

\* A product's page is read.
LEMMA ProductPageStep ==
    ASSUME PrebuiltInv, NEW p, ProductPage(p)
    PROVE  PrebuiltInv'
<1> USE DEF PrebuiltInv
<1>1. /\ walking = "product" /\ toFetch' = toFetch \ {p}
      /\ results' = results \cup ({p} \cap onSale)
      /\ UNCHANGED <<targets, store, onSale, onList, walking, place, links, failed,
                     hostBlocked, cut, overlooked, truthful>>
  BY DEF ProductPage, source
<1>2. PrebuiltTypes'
  BY <1>1 DEF PrebuiltTypes
<1>3. PrebuiltFlags'
  BY <1>1 DEF PrebuiltFlags
<1>4. QueueInv' /\ CutInv' /\ ListedInv'
  BY <1>1 DEF QueueInv, CutInv, ListedInv
<1>5. LinkInv' /\ TruthInv'
  BY <1>1 DEF LinkInv, TruthInv, Is
<1>6. ResultInv'
  BY <1>1 DEF ResultInv
<1> QED
  BY <1>2, <1>3, <1>4, <1>5, <1>6

\* A product's page fails, or its host is blocked.
LEMMA ProductFailsStep ==
    ASSUME PrebuiltInv, NEW p, NEW o, ProductFails(p, o)
    PROVE  PrebuiltInv'
<1> USE DEF PrebuiltInv
<1>1. /\ walking = "product" /\ overlooked' = TRUE /\ truthful' = FALSE
      /\ hostBlocked => o = "block"
      /\ UNCHANGED <<targets, store, onSale, onList, walking, place, links, results, failed>>
  BY DEF ProductFails, source
<1>2. /\ hostBlocked' \in BOOLEAN /\ cut' \in BOOLEAN
      /\ hostBlocked' <=> o = "block"
      /\ cut' <=> cut \/ o = "block"
  BY Zenon DEF ProductFails, PrebuiltFlags
<1>3. PrebuiltTypes'
  BY <1>1 DEF PrebuiltTypes
<1>4. PrebuiltFlags'
  BY <1>1, <1>2 DEF PrebuiltFlags
<1>5. CutInv'
  BY <1>1, <1>2 DEF CutInv
<1>6. LinkInv' /\ TruthInv' /\ ResultInv' /\ QueueInv' /\ ListedInv'
  BY <1>1 DEF LinkInv, TruthInv, ResultInv, QueueInv, ListedInv
<1> QED
  BY <1>3, <1>4, <1>5, <1>6

\* All the links of the source were tried.
LEMMA ProductsOverStep == PrebuiltInv /\ ProductsOver => PrebuiltInv'
<1> SUFFICES ASSUME PrebuiltInv, ProductsOver PROVE PrebuiltInv'
  OBVIOUS
<1> USE DEF PrebuiltInv
<1>1. /\ walking = "product" /\ toFetch = {}
      /\ UNCHANGED <<targets, store, onSale, onList, links, toFetch, results, failed,
                     hostBlocked, cut, overlooked, truthful>>
  BY DEF ProductsOver, source
<1>2. PrebuiltFlags' /\ CutInv'
  BY <1>1 DEF PrebuiltFlags, CutInv
<1>3. TruthInv' /\ ResultInv'
  BY <1>1 DEF TruthInv, ResultInv, Is
<1>4. place \in [list : Nat, page : Nat, fails : Nat] /\ place.page \in Nat \ {0}
  BY DEF PrebuiltTypes
<1>5. CASE Is("zestro")
  <2>1. walking' = "list" /\ place' = [place EXCEPT !.page = place.page + 1]
    BY <1>5 DEF ProductsOver
  <2>2. place.page + 1 \in Nat \ {0} /\ (place.page + 1) - 1 = place.page
    BY <1>4
  <2>3. /\ place' \in [list : Nat, page : Nat, fails : Nat]
        /\ place'.list = place.list /\ place'.page = place.page + 1
    BY <1>4, <2>1, <2>2
  <2>4. PrebuiltTypes'
    BY <1>1, <2>1, <2>2, <2>3 DEF PrebuiltTypes
  <2>5. LinkInv'
    BY <1>1, <1>5, <2>1, <2>2, <2>3 DEF LinkInv
  <2>6. QueueInv' /\ ListedInv'
    BY <1>1, <2>1 DEF QueueInv, ListedInv
  <2> QED
    BY <1>2, <1>3, <2>4, <2>5, <2>6
<1>6. CASE ~Is("zestro")
  <2>1. walking' = "write" /\ place' = place
    BY <1>6 DEF ProductsOver
  <2>2. PrebuiltTypes'
    BY <1>1, <2>1 DEF PrebuiltTypes
  <2>3. LinkInv' /\ QueueInv' /\ ListedInv'
    BY <1>1, <1>6, <2>1 DEF LinkInv, QueueInv, ListedInv
  <2> QED
    BY <1>2, <1>3, <2>2, <2>3
<1> QED
  BY <1>5, <1>6

\* The upsert, the sweep and a kill.
LEMMA WritingStep ==
    PrebuiltInv /\ (UpsertPrebuilts \/ SweepPrebuilts \/ PrebuiltRunDies) => PrebuiltInv'
<1> SUFFICES ASSUME PrebuiltInv, UpsertPrebuilts \/ SweepPrebuilts \/ PrebuiltRunDies
             PROVE  PrebuiltInv'
  OBVIOUS
<1> USE DEF PrebuiltInv
<1>1. /\ UNCHANGED <<targets, store, onSale, place, links, toFetch, results, failed,
                     hostBlocked, cut, overlooked, truthful>>
      /\ \/ /\ walking = "write" /\ walking' = "sweep" /\ onList' = onList \cup results
         \/ /\ walking = "sweep" /\ walking' = "record"
            /\ onList' = IF Ok THEN onList \cap results ELSE onList
         \/ walking' = "died"
  BY DEF UpsertPrebuilts, SweepPrebuilts, PrebuiltRunDies, source
<1>2. PrebuiltTypes'
  BY <1>1 DEF PrebuiltTypes
<1>3. PrebuiltFlags'
  BY <1>1 DEF PrebuiltFlags
<1>4. QueueInv' /\ CutInv' /\ LinkInv'
  BY <1>1 DEF QueueInv, CutInv, LinkInv
<1>5. TruthInv' /\ ResultInv'
  BY <1>1 DEF TruthInv, ResultInv, Is
<1>6. ListedInv'
  BY <1>1 DEF ListedInv, Ok
<1> QED
  BY <1>2, <1>3, <1>4, <1>5, <1>6

\* The run is recorded and the next source begins.
LEMMA RecordStep == PrebuiltInv /\ RecordPrebuilts => PrebuiltInv'
<1> SUFFICES ASSUME PrebuiltInv, RecordPrebuilts PROVE PrebuiltInv'
  OBVIOUS
<1>1. /\ place' = FirstPage(1) /\ links' = {} /\ toFetch' = {} /\ results' = {}
      /\ failed' = FALSE /\ hostBlocked' = FALSE
      /\ cut' = FALSE /\ overlooked' = FALSE /\ truthful' = TRUE
  BY DEF RecordPrebuilts
<1>2. targets \in Seq(Sources) /\ targets # <<>>
  BY DEF PrebuiltInv, PrebuiltTypes
<1>3. CASE Len(targets) = 1
  <2>1. walking' = "over" /\ targets' = targets /\ store' = store /\ onSale' = onSale
    BY <1>3 DEF RecordPrebuilts, source
  <2>2. Len(store.lists) \in Nat \ {0} /\ store \in Stores
    BY ListFacts DEF PrebuiltInv, PrebuiltTypes
  <2>3. /\ place'.list \in 1 .. Len(store.lists) /\ place'.page \in Nat \ {0}
        /\ place' \in [list : Nat, page : Nat, fails : Nat]
    BY <1>1, <2>2 DEF FirstPage
  <2>4. PrebuiltTypes'
    BY <2>1, <2>2, <2>3 DEF PrebuiltTypes, PrebuiltInv
  <2>5. PrebuiltFlags'
    BY <1>1 DEF PrebuiltFlags
  <2>6. QueueInv' /\ CutInv' /\ LinkInv' /\ ResultInv' /\ TruthInv' /\ ListedInv'
    BY <1>1, <2>1 DEF QueueInv, CutInv, LinkInv, ResultInv, TruthInv, ListedInv
  <2> QED
    BY <2>4, <2>5, <2>6 DEF PrebuiltInv
<1>4. CASE Len(targets) # 1
  <2>1. /\ walking' = "list" /\ targets' = Tail(targets)
        /\ store' \in {s \in Stores : Fits(s, Head(targets'))}
        /\ onSale' \in SUBSET Shelved(store')
    BY <1>4 DEF RecordPrebuilts
  <2>2. targets' \in Seq(Sources) /\ targets' # <<>>
    <3>1. Len(targets) \in Nat /\ Len(targets) # 0
      BY <1>2, EmptySeq
    <3>2. Len(Tail(targets)) = Len(targets) - 1 /\ Tail(targets) \in Seq(Sources)
      BY <1>2
    <3>3. Len(Tail(targets)) # 0
      BY <1>4, <3>1, <3>2
    <3> QED
      BY <2>1, <3>2, <3>3, EmptySeq
  <2>3. Begins'
    BY <1>1, <2>1, <2>2 DEF Begins
  <2> QED
    BY <2>3, BeginsInv, PTL
<1> QED
  BY <1>3, <1>4

\* Every step keeps the invariant.
LEMMA PrebuiltStepInv == PrebuiltInv /\ [PrebuiltNext]_prebuiltVars => PrebuiltInv'
<1> SUFFICES ASSUME PrebuiltInv, [PrebuiltNext]_prebuiltVars PROVE PrebuiltInv'
  OBVIOUS
<1>1. CASE UNCHANGED prebuiltVars
  <2> USE DEF PrebuiltInv
  <2>1. UNCHANGED <<targets, store, onSale, onList, walking, place, links, toFetch, results,
                    failed, hostBlocked, cut, overlooked, truthful>>
    BY <1>1 DEF prebuiltVars
  <2>2. PrebuiltTypes'
    BY <2>1 DEF PrebuiltTypes
  <2>3. PrebuiltFlags'
    BY <2>1 DEF PrebuiltFlags
  <2>4. QueueInv' /\ CutInv' /\ LinkInv'
    BY <2>1 DEF QueueInv, CutInv, LinkInv, Is
  <2>5. TruthInv' /\ ResultInv'
    BY <2>1 DEF TruthInv, ResultInv, Is
  <2>6. ListedInv'
    BY <2>1 DEF ListedInv, Ok
  <2> QED
    BY <2>2, <2>3, <2>4, <2>5, <2>6
<1>2. CASE PrebuiltRunOver
  BY <1>1, <1>2 DEF PrebuiltRunOver
<1>3. CASE ListPage
  BY <1>3, ListPageStep
<1>4. ASSUME NEW o \in {"404", "fail", "block"}, ListFails(o) PROVE PrebuiltInv'
  BY <1>4, ListFailsStep
<1>5. ASSUME NEW o, NEW p, ProductFails(p, o) PROVE PrebuiltInv'
  BY <1>5, ProductFailsStep
<1>6. ASSUME NEW p, ProductPage(p) PROVE PrebuiltInv'
  BY <1>6, ProductPageStep
<1>7. CASE ProductsOver
  BY <1>7, ProductsOverStep
<1>8. CASE UpsertPrebuilts \/ SweepPrebuilts \/ PrebuiltRunDies
  BY <1>8, WritingStep
<1>9. CASE RecordPrebuilts
  BY <1>9, RecordStep
<1> QED
  BY <1>1, <1>2, <1>3, <1>4, <1>5, <1>6, <1>7, <1>8, <1>9 DEF PrebuiltNext

\* The invariant of a prebuilt run holds of every behaviour, for any shops.
THEOREM PrebuiltInvariant == PrebuiltSpec => []PrebuiltInv
<1>1. PrebuiltInit => PrebuiltInv
  BY PrebuiltInitInv
<1>2. PrebuiltInv /\ [PrebuiltNext]_prebuiltVars => PrebuiltInv'
  BY PrebuiltStepInv
<1> QED
  BY <1>1, <1>2, PTL DEF PrebuiltSpec

\* The end of a shop's pages is never taken for a fault: a shop that answers
\* every request as it is, and is read to its end, ends up listed as it is.
THEOREM TruthfulShopsSettle == PrebuiltSpec => []TruthfulShopSettles
<1>1. PrebuiltInv => TruthfulShopSettles
  <2> SUFFICES ASSUME PrebuiltInv, walking = "record", truthful,
                      ~overlooked, WithinCap(store), onSale # {},
                      ~(Is("zestro") /\ store.past = "404")
               PROVE  onList = onSale
    BY DEF TruthfulShopSettles
  <2>1. ~overlooked /\ ~hostBlocked /\ ~failed /\ ~cut
    BY DEF PrebuiltInv, TruthInv
  <2>2. links = Shelved(store) /\ toFetch = {}
    BY <2>1 DEF PrebuiltInv, LinkInv, QueueInv
  <2>3. results = onSale
    BY <2>1, <2>2 DEF PrebuiltInv, ResultInv, PrebuiltTypes
  <2>4. Ok
    BY <2>1, <2>3 DEF Ok
  <2> QED
    BY <2>3, <2>4 DEF PrebuiltInv, ListedInv
<1> QED
  BY <1>1, PrebuiltInvariant, PTL

\* No run that gave up, raised at its page cap or was blocked delists a prebuilt
\* that its shop still offers, and neither does one to which every page came.
THEOREM OnlyTheGoneAreSwept == PrebuiltSpec => SweepTakesOnlyTheGone
<1>1. PrebuiltInv /\ [PrebuiltNext]_prebuiltVars =>
         [walking = "sweep" =>
             \A p \in onList \ onList' : p \in onSale => overlooked /\ ~cut]_prebuiltVars
  <2> SUFFICES ASSUME PrebuiltInv, PrebuiltNext, walking = "sweep",
                      NEW p \in onList \ onList', p \in onSale
               PROVE  overlooked /\ ~cut
    OBVIOUS
  <2>1. SweepPrebuilts \/ onList' = onList
    BY DEF PrebuiltNext, ListPage, ListFails, ProductPage, ProductFails, ProductsOver,
           UpsertPrebuilts, RecordPrebuilts, PrebuiltRunDies, PrebuiltRunOver, prebuiltVars
  <2>2. Ok /\ onList' = onList \cap results
    BY <2>1 DEF SweepPrebuilts
  <2>3. ~cut /\ p \notin results
    BY <2>2 DEF PrebuiltInv, CutInv, Ok
  <2>4. overlooked
    <3>1. SUFFICES ASSUME ~overlooked PROVE FALSE
      OBVIOUS
    <3>2. links = Shelved(store) /\ toFetch = {} /\ onSale \subseteq Shelved(store)
      BY <2>3, <3>1 DEF PrebuiltInv, LinkInv, QueueInv, PrebuiltTypes
    <3> QED
      BY <2>3, <3>1, <3>2 DEF PrebuiltInv, ResultInv
  <2> QED
    BY <2>3, <2>4
<1> QED
  BY <1>1, PrebuiltInvariant, PTL DEF PrebuiltSpec, SweepTakesOnlyTheGone

-----------------------------------------------------------------------------
(* The inductive invariant of the fetches of one host.                     *)

Holding == {"locked", "pace", "asked"}

GateTypeOK ==
    /\ fetcher \in [Threads -> {"idle", "queued"} \cup Holding]
    /\ fetches \in [Threads -> 0 .. MaxFetches]
    /\ attempt \in [Threads -> 0 .. Retries]
    /\ hostLock \in Threads \cup {NoThread}
    /\ refused \in Nat /\ throttled \in Nat /\ tripped \in BOOLEAN

\* Only the thread that has the host's lock is past the queue.
LockInv == \A t \in Threads : fetcher[t] \in Holding => hostLock = t

\* Who has passed the second look knows that the host is not blocked: nobody
\* else can have tripped the breaker since.
LookInv == \A t \in Threads : fetcher[t] \in {"pace", "asked"} => ~tripped

\* An attempt is counted from the second look on.
AttemptInv == \A t \in Threads : fetcher[t] \in {"pace", "asked"} => attempt[t] >= 1

GateInv == GateTypeOK /\ LockInv /\ LookInv /\ AttemptInv

\* Nobody is inside fetch() at the start.
LEMMA GateInitInv == GateInit => GateInv
<1> SUFFICES ASSUME GateInit PROVE GateInv
  OBVIOUS
<1>1. 0 \in 0 .. MaxFetches /\ 0 \in 0 .. Retries
  BY GateAssumption
<1>2. GateTypeOK
  BY <1>1 DEF GateInit, GateTypeOK, Holding
<1>3. LockInv /\ LookInv /\ AttemptInv
  BY DEF GateInit, LockInv, LookInv, AttemptInv, Holding
<1> QED
  BY <1>2, <1>3 DEF GateInv

\* Every step keeps the invariant.
LEMMA GateStepInv == GateInv /\ [GateNext]_gateVars => GateInv'
<1> SUFFICES ASSUME GateInv, [GateNext]_gateVars PROVE GateInv'
  OBVIOUS
<1> USE GateAssumption DEF GateInv, GateTypeOK, LockInv, LookInv, AttemptInv, Holding, counts
<1>1. ASSUME NEW t \in Threads, CallFetch(t) PROVE GateInv'
  BY <1>1 DEF CallFetch
<1>2. ASSUME NEW t \in Threads, TakeLock(t) PROVE GateInv'
  BY <1>2 DEF TakeLock
<1>3. ASSUME NEW t \in Threads, LookAgain(t) PROVE GateInv'
  BY <1>3 DEF LookAgain, EndFetch
<1>4. ASSUME NEW t \in Threads, SendRequest(t) PROVE GateInv'
  BY <1>4 DEF SendRequest
<1>5. ASSUME NEW t \in Threads, NEW a \in Answers, Answered(t, a) PROVE GateInv'
  <2>1. fetcher[t] = "asked" /\ hostLock = t /\ ~tripped /\ UNCHANGED fetches
    BY <1>5 DEF Answered
  <2>2. CASE Success(t)
    BY <2>1, <2>2 DEF Success, EndFetch
  <2>3. CASE Forbidden(t)
    BY <2>1, <2>3 DEF Forbidden, EndFetch
  <2>4. CASE EndFetch(t) /\ UNCHANGED counts
    BY <2>1, <2>4 DEF EndFetch
  <2>5. CASE Throttled(t)
    <3>1. CASE attempt[t] < Retries
      BY <2>1, <2>5, <3>1 DEF Throttled, TryAgain
    <3>2. CASE ~(attempt[t] < Retries)
      BY <2>1, <2>5, <3>2 DEF Throttled, EndFetch
    <3> QED
      BY <3>1, <3>2
  <2>6. CASE Broken(t)
    BY <2>1, <2>6 DEF Broken, TryAgain, EndFetch
  <2> QED
    BY <1>5, <2>2, <2>3, <2>4, <2>5, <2>6 DEF Answered
<1>6. CASE UNCHANGED gateVars
  BY <1>6 DEF gateVars
<1> QED
  BY <1>1, <1>2, <1>3, <1>4, <1>5, <1>6 DEF GateNext, FetchStep, AllFetched

\* The invariant of fetch() holds of every behaviour, for any number of threads.
THEOREM GateInvariant == GateSpec => []GateInv
  BY GateInitInv, GateStepInv, PTL DEF GateSpec

\* However many threads fetch from one host, there is never more than one
\* request under way to it, and none once its breaker has tripped.
THEOREM BlockedHostStaysAlone == GateSpec => []BlockedHostIsLeftAlone
<1>1. GateInv => BlockedHostIsLeftAlone
  <2> SUFFICES ASSUME GateInv PROVE BlockedHostIsLeftAlone
    OBVIOUS
  <2> DEFINE out == {t \in Threads : fetcher[t] = "asked"}
  <2>1. out \subseteq {hostLock}
    BY DEF GateInv, LockInv, Holding
  <2>2. Cardinality(out) <= 1
    <3>1. IsFiniteSet({hostLock}) /\ Cardinality({hostLock}) = 1
      BY FS_Singleton
    <3>2. IsFiniteSet(out) /\ Cardinality(out) <= Cardinality({hostLock})
      BY <2>1, <3>1, FS_Subset
    <3> QED
      BY <3>1, <3>2
  <2>3. tripped => out = {}
    BY DEF GateInv, LookInv
  <2> QED
    BY <2>2, <2>3 DEF BlockedHostIsLeftAlone
<1> QED
  BY <1>1, GateInvariant, PTL

=============================================================================
