----------------------------- MODULE SetInduction -----------------------------
(***************************************************************************)
(* Induction over the natural numbers, in the forms the proofs use: for a  *)
(* set of numbers, and for the sums that FoldLeft makes of the elements of *)
(* a sequence.                                                             *)
(***************************************************************************)
EXTENDS Integers, FiniteSetsExt, WellFoundedInduction, TLAPS

\* A set of naturals that holds 0, and with a number its successor, holds them all.
LEMMA NatSetInduction ==
  ASSUME NEW S \in SUBSET Nat, 0 \in S, \A n \in S : n + 1 \in S
  PROVE  S = Nat
  <1> SUFFICES ASSUME Nat \ S # {} PROVE FALSE
    OBVIOUS
  <1> DEFINE T == Nat \ S
             R == OpToRel(<, Nat)
  <1>1. IsWellFoundedOn(R, Nat)
    BY NatLessThanWellFounded, Zenon
  <1>2. T \subseteq Nat /\ T # {}
    OBVIOUS
  <1>3. R = {ss \in Nat \X Nat : ss[1] < ss[2]}
    BY Zenon DEF OpToRel
  <1> HIDE DEF T, R
  <1>4. PICK x \in T : \A y \in T : <<y, x>> \notin R
    BY <1>1, <1>2, WFMin, Zenon
  <1>5. \A y \in T : ~(y < x)
    BY <1>2, <1>3, <1>4
  <1>6. x \in Nat /\ x \notin S /\ x # 0
    BY DEF T
  <1>7. x - 1 \in Nat /\ x - 1 < x
    BY <1>6
  <1>8. x - 1 \in S
    BY <1>5, <1>7 DEF T
  <1>9. QED
    BY <1>6, <1>8

-----------------------------------------------------------------------------
(* FoldLeft(LAMBDA n, e : n + weight of e, base, s) is f[DOMAIN s] for the  *)
(* function f on sets of places that adds the weights, w[i] at place i,    *)
(* from the greatest place down.                                           *)

IsSum(f, base, w, n) ==
  f = [S \in SUBSET (1 .. n) |-> IF S = {} THEN base ELSE f[S \ {Max(S)}] + w[Max(S)]]

LEMMA GreatestPlace ==
  ASSUME NEW n \in Nat
  PROVE  \A S \in SUBSET (1 .. n) : S # {} => Max(S) \in S /\ \A y \in S : Max(S) >= y
  <1> DEFINE Has(S) == \E x \in S : \A y \in S : x >= y
             G == {m \in Nat : \A S \in SUBSET (1 .. m) : S # {} => Has(S)}
  <1>1. 0 \in G
    <2>1. \A S \in SUBSET (1 .. 0) : S = {}
      OBVIOUS
    <2>2. QED
      BY <2>1
  <1>2. ASSUME NEW m \in G
        PROVE  m + 1 \in G
    <2>1. m \in Nat /\ \A S \in SUBSET (1 .. m) : S # {} => Has(S)
      OBVIOUS
    <2>2. ASSUME NEW S \in SUBSET (1 .. m + 1), S # {}
          PROVE  Has(S)
      <3>1. CASE m + 1 \in S
        <4>1. \A y \in S : m + 1 >= y
          BY <2>1
        <4>2. QED
          BY <3>1, <4>1
      <3>2. CASE m + 1 \notin S
        <4>1. S \in SUBSET (1 .. m)
          BY <2>1, <3>2
        <4>2. QED
          BY <2>1, <2>2, <4>1
      <3>3. QED
        BY <3>1, <3>2
    <2>3. QED
      BY <2>1, <2>2
  <1>3. n \in G
    <2> HIDE DEF G
    <2>1. G = Nat
      BY <1>1, <1>2, NatSetInduction DEF G
    <2>2. QED
      BY <2>1
  <1>4. QED
    BY <1>3 DEF Max

\* The function FoldLeft chooses exists: for any step F, a function of the result so far
\* and the next element ...
IsFold(f, D, base, F, s, n) ==
  /\ f \in [SUBSET (1 .. n) -> D]
  /\ \A S \in SUBSET (1 .. n) :
       f[S] = IF S = {} THEN base ELSE F[<<f[S \ {Max(S)}], s[Max(S)]>>]

LEMMA FoldExists ==
  ASSUME NEW D, NEW E, NEW base \in D, NEW F \in [D \X E -> D],
         NEW n \in Nat, NEW s \in [1 .. n -> E]
  PROVE  \E f : IsFold(f, D, base, F, s, n)
  <1> DEFINE Fold(f, m) ==
               /\ f \in [SUBSET (1 .. m) -> D]
               /\ \A S \in SUBSET (1 .. m) :
                    f[S] = IF S = {} THEN base ELSE F[<<f[S \ {Max(S)}], s[Max(S)]>>]
             Has(m) == \E f : Fold(f, m)
             G == {m \in Nat : m <= n => Has(m)}
  <1>1. 0 \in G
    <2> DEFINE f == [S \in SUBSET (1 .. 0) |-> base]
    <2>1. \A S \in SUBSET (1 .. 0) : S = {}
      OBVIOUS
    <2>2. f \in [SUBSET (1 .. 0) -> D] /\ \A S \in SUBSET (1 .. 0) : f[S] = base
      OBVIOUS
    <2>3. Fold(f, 0)
      <3> HIDE DEF f
      <3>1. QED
        BY <2>1, <2>2
    <2>4. QED
      <3> HIDE DEF f, Fold
      <3>1. QED
        BY <2>3
  <1>2. ASSUME NEW m \in G
        PROVE  m + 1 \in G
    <2> SUFFICES ASSUME m + 1 <= n
                 PROVE  Has(m + 1)
      <3> HIDE DEF Has
      <3>1. QED
        OBVIOUS
    <2>1. m \in Nat /\ m + 1 \in 1 .. n
      OBVIOUS
    <2>2. Has(m)
      <3> HIDE DEF Has
      <3>1. QED
        BY <2>1
    <2>3. PICK f : Fold(f, m)
      BY <2>2
    <2> DEFINE g == [S \in SUBSET (1 .. m + 1) |->
                       IF m + 1 \in S THEN F[<<f[S \ {m + 1}], s[m + 1]>>] ELSE f[S]]
    <2>4. s[m + 1] \in E
      BY <2>1
    <2>5. ASSUME NEW S \in SUBSET (1 .. m + 1)
          PROVE  /\ S \ {m + 1} \in SUBSET (1 .. m)
                 /\ m + 1 \notin S => S \in SUBSET (1 .. m)
      BY <2>1
    <2>6. g \in [SUBSET (1 .. m + 1) -> D]
      <3>1. ASSUME NEW S \in SUBSET (1 .. m + 1)
            PROVE  (IF m + 1 \in S THEN F[<<f[S \ {m + 1}], s[m + 1]>>] ELSE f[S]) \in D
        <4>1. \A R \in SUBSET (1 .. m) : f[R] \in D
          BY <2>3
        <4>2. CASE m + 1 \in S
          <5>1. <<f[S \ {m + 1}], s[m + 1]>> \in D \X E
            BY <2>4, <2>5, <4>1
          <5>2. QED
            BY <4>2, <5>1
        <4>3. CASE m + 1 \notin S
          BY <2>5, <4>1, <4>3
        <4>4. QED
          BY <4>2, <4>3
      <3>2. QED
        BY <3>1
    <2>7. ASSUME NEW S \in SUBSET (1 .. m + 1)
          PROVE  g[S] = IF S = {} THEN base ELSE F[<<g[S \ {Max(S)}], s[Max(S)]>>]
      <3>1. CASE m + 1 \in S
        <4>1. Max(S) = m + 1
          <5>1. m + 1 \in Nat
            BY <2>1
          <5>2. \A R \in SUBSET (1 .. m + 1) :
                  R # {} => Max(R) \in R /\ \A y \in R : Max(R) >= y
            BY <5>1, GreatestPlace
          <5>3. Max(S) \in S /\ \A y \in S : Max(S) >= y
            BY <3>1, <5>2
          <5>4. Max(S) >= m + 1 /\ Max(S) \in 1 .. m + 1
            BY <3>1, <5>3
          <5>5. \A x \in 1 .. m + 1 : x >= m + 1 => x = m + 1
            BY <2>1
          <5>6. QED
            BY <5>4, <5>5
        <4>2. g[S \ {m + 1}] = f[S \ {m + 1}]
          BY <2>5
        <4>3. g[S] = F[<<f[S \ {m + 1}], s[m + 1]>>]
          BY <3>1
        <4> HIDE DEF g
        <4>4. QED
          BY <3>1, <4>1, <4>2, <4>3
      <3>2. CASE m + 1 \notin S
        <4>1. S \in SUBSET (1 .. m) /\ g[S] = f[S]
          BY <2>5, <3>2
        <4>2. CASE S = {}
          BY <2>3, <4>1, <4>2
        <4>3. CASE S # {}
          <5>1. S \ {Max(S)} \in SUBSET (1 .. m + 1) /\ m + 1 \notin S \ {Max(S)}
            BY <3>2
          <5>2. g[S \ {Max(S)}] = f[S \ {Max(S)}]
            BY <5>1
          <5> HIDE DEF g
          <5>3. QED
            BY <2>3, <4>1, <4>3, <5>2
        <4>4. QED
          BY <4>2, <4>3
      <3>3. QED
        BY <3>1, <3>2
    <2> HIDE DEF g
    <2>8. Fold(g, m + 1)
      BY <2>6, <2>7
    <2> HIDE DEF Fold
    <2>9. QED
      BY <2>8
  <1>3. n \in G
    <2> HIDE DEF G
    <2>1. G = Nat
      <3>1. G \in SUBSET Nat
        BY DEF G
      <3>2. QED
        BY <1>1, <1>2, <3>1, NatSetInduction
    <2>2. QED
      BY <2>1
  <1>4. PICK f : Fold(f, n)
    <2> HIDE DEF Fold
    <2>1. QED
      BY <1>3
  <1>5. QED
    BY <1>4 DEF IsFold

\* ... and so of a sum.
LEMMA SumExists ==
  ASSUME NEW base \in Nat, NEW n \in Nat, NEW w \in [1 .. n -> Nat]
  PROVE  \E f : f \in [SUBSET (1 .. n) -> Nat] /\ IsSum(f, base, w, n)
  <1> DEFINE F == [p \in Nat \X Nat |-> p[1] + p[2]]
  <1>1. F \in [Nat \X Nat -> Nat] /\ \A a, b \in Nat : F[<<a, b>>] = a + b
    OBVIOUS
  <1> HIDE DEF F
  <1>2. PICK f : IsFold(f, Nat, base, F, w, n)
    BY <1>1, FoldExists
  <1>3. /\ f \in [SUBSET (1 .. n) -> Nat]
        /\ \A S \in SUBSET (1 .. n) :
             f[S] = IF S = {} THEN base ELSE F[<<f[S \ {Max(S)}], w[Max(S)]>>]
    BY <1>2 DEF IsFold
  <1>4. \A S \in SUBSET (1 .. n) :
          S # {} => f[S \ {Max(S)}] \in Nat /\ w[Max(S)] \in Nat
    <2>1. \A S \in SUBSET (1 .. n) : S # {} => Max(S) \in S
      BY GreatestPlace
    <2>2. QED
      BY <1>3, <2>1
  <1>5. \A S \in SUBSET (1 .. n) :
          f[S] = IF S = {} THEN base ELSE f[S \ {Max(S)}] + w[Max(S)]
    BY <1>1, <1>3, <1>4
  <1>6. f = [S \in SUBSET (1 .. n) |-> IF S = {} THEN base ELSE f[S \ {Max(S)}] + w[Max(S)]]
    BY <1>3, <1>5
  <1>7. QED
    BY <1>3, <1>6 DEF IsSum

\* The first places, and the greatest of them.
LEMMA FirstPlaces ==
  ASSUME NEW n \in Nat, NEW j \in 0 .. n - 1
  PROVE  /\ 1 .. j + 1 \in SUBSET (1 .. n) /\ 1 .. j + 1 # {}
         /\ Max(1 .. j + 1) = j + 1
         /\ (1 .. j + 1) \ {j + 1} = 1 .. j
  <1>1. 1 .. j + 1 \in SUBSET (1 .. n) /\ j + 1 \in 1 .. j + 1
    OBVIOUS
  <1>2. Max(1 .. j + 1) \in 1 .. j + 1 /\ \A y \in 1 .. j + 1 : Max(1 .. j + 1) >= y
    BY <1>1, GreatestPlace
  <1>3. \A x \in 1 .. j + 1 : x >= j + 1 => x = j + 1
    OBVIOUS
  <1>4. Max(1 .. j + 1) = j + 1
    BY <1>1, <1>2, <1>3
  <1>5. (1 .. j + 1) \ {j + 1} = 1 .. j
    OBVIOUS
  <1>6. QED
    BY <1>1, <1>4, <1>5

\* The sum at the first places: one weight after another.
LEMMA SumOfNone ==
  ASSUME NEW base, NEW n \in Nat, NEW w, NEW f, IsSum(f, base, w, n)
  PROVE  f[1 .. 0] = base
  <1>1. 1 .. 0 = {} /\ {} \in SUBSET (1 .. n)
    OBVIOUS
  <1>2. \A S \in SUBSET (1 .. n) :
          f[S] = IF S = {} THEN base ELSE f[S \ {Max(S)}] + w[Max(S)]
    BY Zenon DEF IsSum
  <1>3. QED
    BY <1>1, <1>2

LEMMA SumOfMore ==
  ASSUME NEW base, NEW n \in Nat, NEW w, NEW f, IsSum(f, base, w, n)
  PROVE  \A j \in 0 .. n - 1 : f[1 .. j + 1] = f[1 .. j] + w[j + 1]
  <1> TAKE j \in 0 .. n - 1
  <1> DEFINE k == j + 1
  <1>0. k \in 1 .. n /\ k - 1 = j
    OBVIOUS
  <1> HIDE DEF k
  <1>1. 1 .. k \in SUBSET (1 .. n) /\ 1 .. k # {} /\ k \in Nat
    BY <1>0
  <1>2. Max(1 .. k) = k
    <2>1. Max(1 .. k) \in 1 .. k /\ \A y \in 1 .. k : Max(1 .. k) >= y
      BY <1>1, GreatestPlace
    <2>2. k \in 1 .. k /\ \A x \in 1 .. k : x >= k => x = k
      BY <1>1
    <2>3. QED
      BY <2>1, <2>2
  <1>3. (1 .. k) \ {k} = 1 .. j
    BY <1>0
  <1>4. \A S \in SUBSET (1 .. n) :
          f[S] = IF S = {} THEN base ELSE f[S \ {Max(S)}] + w[Max(S)]
    BY Zenon DEF IsSum
  <1>5. f[1 .. k] = f[(1 .. k) \ {Max(1 .. k)}] + w[Max(1 .. k)]
    BY <1>1, <1>4, Zenon
  <1>6. QED
    BY <1>2, <1>3, <1>5 DEF k

\* Sums of sequences that begin alike are alike there.
LEMMA SumsAgree ==
  ASSUME NEW base, NEW n \in Nat, NEW w, NEW f, IsSum(f, base, w, n),
         NEW m \in Nat, NEW v, NEW g, IsSum(g, base, v, m),
         NEW k \in Nat, k <= n, k <= m, \A i \in 1 .. k : w[i] = v[i]
  PROVE  f[1 .. k] = g[1 .. k]
  <1> DEFINE G == {j \in Nat : j <= k => f[1 .. j] = g[1 .. j]}
  <1>1. 0 \in G
    BY SumOfNone
  <1>2. ASSUME NEW j \in G
        PROVE  j + 1 \in G
    <2> SUFFICES ASSUME j + 1 <= k
                 PROVE  f[1 .. j + 1] = g[1 .. j + 1]
      OBVIOUS
    <2>1. j \in Nat /\ j \in 0 .. n - 1 /\ j \in 0 .. m - 1
      OBVIOUS
    <2>2. f[1 .. j + 1] = f[1 .. j] + w[j + 1]
      <3>1. \A i \in 0 .. n - 1 : f[1 .. i + 1] = f[1 .. i] + w[i + 1]
        BY SumOfMore
      <3>2. QED
        BY <2>1, <3>1
    <2>3. g[1 .. j + 1] = g[1 .. j] + v[j + 1]
      <3>1. \A i \in 0 .. m - 1 : g[1 .. i + 1] = g[1 .. i] + v[i + 1]
        BY SumOfMore
      <3>2. QED
        BY <2>1, <3>1
    <2>4. w[j + 1] = v[j + 1] /\ f[1 .. j] = g[1 .. j]
      BY <2>1
    <2>5. QED
      BY <2>1, <2>2, <2>3, <2>4
  <1> HIDE DEF G
  <1>3. G = Nat
    <2>1. G \in SUBSET Nat
      BY DEF G
    <2>2. QED
      BY <1>1, <1>2, <2>1, NatSetInduction
  <1>4. QED
    BY <1>3 DEF G

LEMMA SumOfLonger ==
  ASSUME NEW base, NEW n \in Nat, NEW w, NEW f, IsSum(f, base, w, n),
         NEW m \in Nat, NEW v, NEW g, IsSum(g, base, v, m), \A i \in 1 .. n : w[i] = v[i]
  PROVE  m = n + 1 => g[1 .. m] = f[1 .. n] + v[m]
  <1>1. n <= m => f[1 .. n] = g[1 .. n]
    <2> SUFFICES ASSUME n <= m
                 PROVE  f[1 .. n] = g[1 .. n]
      OBVIOUS
    <2>1. n <= n
      OBVIOUS
    <2>2. QED
      BY <2>1, SumsAgree
  <1>2. \A j \in 0 .. m - 1 : g[1 .. j + 1] = g[1 .. j] + v[j + 1]
    BY SumOfMore
  <1>3. m = n + 1 => n <= m /\ n \in 0 .. m - 1
    OBVIOUS
  <1>4. QED
    BY <1>1, <1>2, <1>3

\* A sum is at least its base, and one more for every weight that is not 0.
LEMMA SumGrows ==
  ASSUME NEW base \in Nat, NEW n \in Nat, NEW w \in [1 .. n -> Nat \ {0}], NEW f,
         IsSum(f, base, w, n), NEW k \in 0 .. n
  PROVE  f[1 .. k] \in Nat /\ f[1 .. k] >= base + k
  <1> DEFINE G == {j \in Nat : j <= n => f[1 .. j] \in Nat /\ f[1 .. j] >= base + j}
  <1>0. \A i \in 0 .. n - 1 : f[1 .. i + 1] = f[1 .. i] + w[i + 1]
    BY SumOfMore
  <1>1. 0 \in G
    BY SumOfNone
  <1>2. ASSUME NEW j \in G
        PROVE  j + 1 \in G
    <2> SUFFICES ASSUME j + 1 <= n
                 PROVE  f[1 .. j + 1] \in Nat /\ f[1 .. j + 1] >= base + (j + 1)
      OBVIOUS
    <2>1. j \in Nat /\ j \in 0 .. n - 1 /\ j + 1 \in 1 .. n
      OBVIOUS
    <2>2. f[1 .. j + 1] = f[1 .. j] + w[j + 1]
      BY <1>0, <2>1, Zenon
    <2>3. w[j + 1] \in Nat \ {0}
      BY <2>1
    <2>4. f[1 .. j] \in Nat /\ f[1 .. j] >= base + j
      BY <2>1
    <2> HIDE DEF G
    <2>5. QED
      BY <2>1, <2>2, <2>3, <2>4
  <1> HIDE DEF G
  <1>3. G = Nat
    <2>1. G \in SUBSET Nat
      BY DEF G
    <2>2. QED
      BY <1>1, <1>2, <2>1, NatSetInduction
  <1>4. k \in G
    BY <1>3
  <1>5. QED
    BY <1>4 DEF G

\* A walk along a sequence stays where its steps do.
LEMMA WalkStays ==
  ASSUME NEW D, NEW n \in Nat, NEW w, w[0] \in D,
         \A i \in 0 .. n - 1 : w[i] \in D => w[i + 1] \in D
  PROVE  \A i \in 0 .. n : w[i] \in D
  <1> DEFINE G == {i \in Nat : i <= n => w[i] \in D}
  <1>1. 0 \in G
    OBVIOUS
  <1>2. ASSUME NEW i \in G PROVE i + 1 \in G
    OBVIOUS
  <1> HIDE DEF G
  <1>3. G = Nat
    <2>1. G \in SUBSET Nat
      BY DEF G
    <2>2. QED
      BY <1>1, <1>2, <2>1, NatSetInduction
  <1>4. QED
    BY <1>3 DEF G
=============================================================================
