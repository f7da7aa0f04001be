----------------------------- MODULE RingArith -----------------------------
(***************************************************************************)
(* Facts about positions in a ring of N cells that the queue proofs share: *)
(* where a position falls, and that a window of fewer than N positions     *)
(* never meets the same cell twice; and facts that other proofs share as   *)
(* well, on division and on smallest members.                              *)
(***************************************************************************)
EXTENDS Integers, FiniteSetTheorems, TLAPS

\* A position of the ring is one of its cells (pos & mask in the code).
LEMMA ModInRange ==
  ASSUME NEW N \in Nat \ {0}, NEW p \in Nat
  PROVE  p % N \in 0 .. N - 1
OBVIOUS

\* Division with remainder.
LEMMA DivisionIdentity ==
  ASSUME NEW N \in Nat \ {0}, NEW p \in Nat
  PROVE  p \div N \in Nat /\ p = N * (p \div N) + (p % N)
OBVIOUS

\* No multiple of N lies strictly between 0 and N.
LEMMA NoMultipleBelow ==
  ASSUME NEW N \in Nat \ {0}, NEW d \in Int, NEW k \in Int, d = N * k, 0 < d
  PROVE  d >= N
<1>1. CASE k <= 0
  BY <1>1
<1>2. CASE k >= 1
  BY <1>2
<1> QED
  BY <1>1, <1>2

\* Two positions less than N apart never share a cell.
LEMMA WindowDistinct ==
  ASSUME NEW N \in Nat \ {0}, NEW p \in Nat, NEW q \in Nat, p < q, q < p + N
  PROVE  p % N # q % N
<1> SUFFICES ASSUME p % N = q % N PROVE FALSE
  OBVIOUS
<1> DEFINE d == q - p
           k == (q \div N) - (p \div N)
<1>1. k \in Int /\ d \in Int /\ 0 < d /\ d < N
  BY DivisionIdentity
<1>2. d = N * k
  BY DivisionIdentity
<1>3. d >= N
  <2> HIDE DEF d, k
  <2> QED
    BY <1>1, <1>2, NoMultipleBelow
<1> QED
  BY <1>1, <1>3

\* In the first lap a position is its own cell.
LEMMA FirstLap ==
  ASSUME NEW N \in Nat \ {0}, NEW p \in Nat, p < N
  PROVE  p % N = p
<1> DEFINE k == p \div N
           r == p % N
<1>1. k \in Nat /\ p = N * k + r /\ r \in 0 .. N - 1
  BY DivisionIdentity, ModInRange
<1> HIDE DEF k, r
<1>2. k = 0
  <2> SUFFICES ASSUME k >= 1 PROVE FALSE
    BY <1>1
  <2>1. N * k >= N
    BY <1>1
  <2> QED
    BY <2>1, <1>1
<1> QED
  BY <1>1, <1>2 DEF r

\* One lap later a position is in the same cell.
LEMMA NextLap ==
  ASSUME NEW N \in Nat \ {0}, NEW p \in Nat
  PROVE  (p + N) % N = p % N
<1> DEFINE a == (p + N) \div N
           b == p \div N
           r == (p + N) % N
           s == p % N
           k == b + 1 - a
           m == a - 1 - b
<1>1. a \in Nat /\ p + N = N * a + r /\ r \in 0 .. N - 1
  <2> DEFINE q == p + N
  <2>1. q \in Nat
    OBVIOUS
  <2> HIDE DEF q
  <2>2. q \div N \in Nat /\ q = N * (q \div N) + (q % N) /\ q % N \in 0 .. N - 1
    BY <2>1, DivisionIdentity, ModInRange
  <2> QED
    BY <2>2 DEF q
<1>2. b \in Nat /\ p = N * b + s /\ s \in 0 .. N - 1
  BY DivisionIdentity, ModInRange
<1> HIDE DEF a, b, r, s
<1>3. /\ k \in Int /\ m \in Int /\ r - s \in Int /\ s - r \in Int
      /\ r - s < N /\ s - r < N
  BY <1>1, <1>2
<1>4. r - s = N * k
  BY <1>1, <1>2
<1>5. s - r = N * m
  BY <1>1, <1>2
<1>6. ~(0 < r - s)
  <2> HIDE DEF k
  <2> DEFINE d == r - s
  <2>1. d \in Int /\ d = N * k /\ d < N
    BY <1>3, <1>4
  <2> HIDE DEF d
  <2>2. ~(0 < d)
    BY <2>1, <1>3, NoMultipleBelow
  <2> QED
    BY <2>2 DEF d
<1>7. ~(0 < s - r)
  <2> HIDE DEF m
  <2> DEFINE d == s - r
  <2>1. d \in Int /\ d = N * m /\ d < N
    BY <1>3, <1>5
  <2> HIDE DEF d
  <2>2. ~(0 < d)
    BY <2>1, <1>3, NoMultipleBelow
  <2> QED
    BY <2>2 DEF d
<1>8. r = s
  BY <1>1, <1>2, <1>6, <1>7
<1> QED
  BY <1>8 DEF r, s

\* Counting whole laps back: a position is N times its lap and its cell.
LEMMA LapAndCell ==
  ASSUME NEW N \in Nat \ {0}, NEW k \in Nat, NEW r \in 0 .. N - 1, NEW q \in Nat,
         q = N * k + r
  PROVE  q % N = r
<1> DEFINE a == q \div N
           s == q % N
           d == k - a
           e == a - k
<1>1. a \in Nat /\ q = N * a + s /\ s \in 0 .. N - 1
  BY DivisionIdentity, ModInRange
<1> HIDE DEF a, s
<1>2. /\ d \in Int /\ e \in Int /\ s - r \in Int /\ r - s \in Int
      /\ s - r < N /\ r - s < N
  BY <1>1
<1>3. s - r = N * d /\ r - s = N * e
  BY <1>1
<1> HIDE DEF d, e
<1>4. ~(0 < s - r)
  <2> DEFINE x == s - r
  <2>1. x \in Int /\ x = N * d /\ x < N
    BY <1>2, <1>3
  <2> HIDE DEF x
  <2>2. ~(0 < x)
    BY <2>1, <1>2, NoMultipleBelow
  <2> QED
    BY <2>2 DEF x
<1>5. ~(0 < r - s)
  <2> DEFINE x == r - s
  <2>1. x \in Int /\ x = N * e /\ x < N
    BY <1>2, <1>3
  <2> HIDE DEF x
  <2>2. ~(0 < x)
    BY <2>1, <1>2, NoMultipleBelow
  <2> QED
    BY <2>2 DEF x
<1>6. s = r
  BY <1>1, <1>4, <1>5
<1> QED
  BY <1>6 DEF s

\* N consecutive positions meet every cell.
LEMMA WindowCovers ==
  ASSUME NEW N \in Nat \ {0}, NEW h \in Nat, NEW p \in Nat
  PROVE  \E q \in h .. h + N - 1 : q % N = p % N
<1> DEFINE k == h \div N
           s == h % N
           r == p % N
<1>1. k \in Nat /\ h = N * k + s /\ s \in 0 .. N - 1 /\ r \in 0 .. N - 1
  BY DivisionIdentity, ModInRange
<1> HIDE DEF k, s, r
<1>2. CASE s <= r
  <2> DEFINE q == N * k + r
  <2>1. q \in h .. h + N - 1 /\ q \in Nat
    BY <1>1, <1>2
  <2> HIDE DEF q
  <2>2. q % N = r
    BY <1>1, <2>1, LapAndCell DEF q
  <2> QED
    BY <2>1, <2>2 DEF r
<1>3. CASE r < s
  <2> DEFINE j == k + 1
             q == N * j + r
  <2>1. N * j = N * k + N /\ j \in Nat
    BY <1>1
  <2> HIDE DEF j
  <2>2. q \in h .. h + N - 1 /\ q \in Nat
    BY <1>1, <1>3, <2>1
  <2> HIDE DEF q
  <2>3. q % N = r
    BY <1>1, <2>1, <2>2, LapAndCell DEF q
  <2> QED
    BY <2>2, <2>3 DEF r
<1> QED
  BY <1>1, <1>2, <1>3

\* A multiple is smaller when its factor is, and the other way round.
LEMMA FactorOrder ==
  ASSUME NEW N \in Nat \ {0}, NEW a \in Nat, NEW b \in Nat
  PROVE  (a <= b => N * a <= N * b) /\ (N * a < N * b => a < b)
<1>1. ASSUME NEW c \in Nat, NEW d \in Nat, c <= d PROVE N * c <= N * d
  <2>1. PICK e \in Nat : d = c + e
    <3>1. d - c \in Nat /\ d = c + (d - c)
      BY <1>1
    <3> QED
      BY <3>1
  <2>2. N * e \in Nat /\ N * c \in Nat /\ N * d = N * c + N * e
    BY <2>1
  <2> QED
    BY <2>2
<1>2. ASSUME N * a < N * b, b <= a PROVE FALSE
  <2>1. N * b <= N * a /\ N * a \in Nat /\ N * b \in Nat
    BY <1>1, <1>2
  <2> QED
    BY <1>2, <2>1
<1> QED
  BY <1>1, <1>2

\* Division with remainder has one result.
LEMMA OneQuotient ==
  ASSUME NEW N \in Nat \ {0}, NEW a \in Nat, NEW b \in 0 .. N - 1, NEW p \in Nat, p = N * a + b
  PROVE  p % N = b /\ p \div N = a
<1>1. p % N = b
  BY LapAndCell
<1>2. PICK q \in Nat : q = p \div N /\ p = N * q + b
  BY <1>1, DivisionIdentity
<1>3. N * q = N * a
  <2>1. N * q \in Nat /\ N * a \in Nat
    OBVIOUS
  <2> QED
    BY <1>2, <2>1
<1>4. ~(q < a) /\ ~(a < q)
  <2>1. ASSUME NEW c \in Nat, NEW d \in Nat, N * c = N * d, c < d PROVE FALSE
    <3>1. c + 1 <= d
      BY <2>1
    <3>2. N * (c + 1) <= N * d
      BY <3>1, FactorOrder
    <3>3. N * (c + 1) = N * c + N /\ N * c \in Nat
      OBVIOUS
    <3> QED
      BY <2>1, <3>2, <3>3
  <2> QED
    BY <1>3, <2>1
<1> QED
  BY <1>1, <1>2, <1>4

-----------------------------------------------------------------------------
(* Least counterexamples, which stand for induction in these proofs.       *)

\* Among finite sets there is no infinite descent: a nonempty collection of subsets of
\* a finite set has a member none of whose proper subsets is in it.
LEMMA SmallestMember ==
  ASSUME NEW D, IsFiniteSet(D), NEW B, B \subseteq SUBSET D, B # {}
  PROVE  \E m \in B : \A y \in B : y \subseteq m => y = m
<1>1. IsWellFoundedOn(StrictSubsetOrdering(D), FiniteSubsetsOf(D))
  BY FS_StrictSubsetOrderingWellFounded
<1>2. FiniteSubsetsOf(D) = SUBSET D
  BY FS_FiniteSubsetsOfFinite
<1>3. \E m \in B : \A y \in B : ~(<<y, m>> \in StrictSubsetOrdering(D))
  BY <1>1, <1>2, WFMin
<1>4. PICK m \in B : \A y \in B : ~(<<y, m>> \in StrictSubsetOrdering(D))
  BY <1>3
<1>5. ASSUME NEW y \in B, y \subseteq m, y # m PROVE FALSE
  <2>1. <<y, m>> \in StrictSubsetOrdering(D)
    BY <1>5 DEF StrictSubsetOrdering
  <2> QED
    BY <1>4, <2>1
<1> QED
  BY <1>5

\* A nonempty set of numbers has a smallest.
LEMMA SmallestNumber ==
  ASSUME NEW S, S \subseteq Nat, S # {}
  PROVE  \E m \in S : \A k \in S : m <= k
<1>1. \E m \in S : \A k \in S : ~(<<k, m>> \in OpToRel(<, Nat))
  BY NatLessThanWellFounded, WFMin
<1>2. PICK m \in S : \A k \in S : ~(<<k, m>> \in OpToRel(<, Nat))
  BY <1>1
<1>3. ASSUME NEW k \in S PROVE m <= k
  <2>1. k \in Nat /\ m \in Nat
    OBVIOUS
  <2>2. k < m => <<k, m>> \in OpToRel(<, Nat)
    BY <2>1 DEF OpToRel
  <2>3. ~(k < m)
    BY <1>2, <2>2
  <2> QED
    BY <2>1, <2>3
<1> QED
  BY <1>3

=============================================================================
