----------------------------- MODULE OrderLemmas -----------------------------
(***************************************************************************)
(* Lowest and highest elements of sets of integers, for the proofs about   *)
(* the modules that take a Min or a Max.                                   *)
(***************************************************************************)
EXTENDS Integers, FiniteSetsExt, FiniteSetTheorems, TLAPS

\* The least-number principle, which stands for induction in what follows.
LEMMA LeastNatural ==
  ASSUME NEW T \in SUBSET Nat, T # {}
  PROVE  \E x \in T : \A y \in T : x <= y
<1> DEFINE R == OpToRel(<, Nat)
<1>1. \A x, y \in Nat : y < x => <<y, x>> \in R
  <2> SUFFICES ASSUME NEW x \in Nat, NEW y \in Nat, y < x PROVE <<y, x>> \in R
    OBVIOUS
  <2>1. QED
    BY DEF OpToRel
<1>2. IsWellFoundedOn(R, Nat)
  BY NatLessThanWellFounded
<1> HIDE DEF R
<1>3. \E x \in T : \A y \in T : ~ (<<y, x>> \in R)
  BY <1>2, WFMin
<1>4. \E x \in T : \A y \in T : ~ (y < x)
  BY <1>1, <1>3
<1>5. QED
  BY <1>4

\* A set of integers bounded below has a least element.
LEMMA MinOf ==
  ASSUME NEW S \in SUBSET Int, S # {}, NEW b \in Int, \A x \in S : b <= x
  PROVE  Min(S) \in S /\ \A x \in S : Min(S) <= x
<1> DEFINE T == {x - b : x \in S}
<1>1. T \in SUBSET Nat /\ T # {}
  <2>1. \A x \in S : x - b \in Nat
    OBVIOUS
  <2>2. QED
    BY <2>1
<1>2. PICK t \in T : \A u \in T : t <= u
  BY <1>1, LeastNatural
<1>3. PICK m \in S : t = m - b
  OBVIOUS
<1>4. \A x \in S : x - b \in T
  OBVIOUS
<1> HIDE DEF T
<1>5. \A x \in S : m <= x
  BY <1>2, <1>3, <1>4
<1>6. QED
  BY <1>5 DEF Min

\* A set of integers bounded above has a greatest element.
LEMMA MaxOf ==
  ASSUME NEW S \in SUBSET Int, S # {}, NEW b \in Int, \A x \in S : x <= b
  PROVE  Max(S) \in S /\ \A x \in S : x <= Max(S)
<1> DEFINE T == {b - x : x \in S}
<1>1. T \in SUBSET Nat /\ T # {}
  OBVIOUS
<1>2. PICK t \in T : \A u \in T : t <= u
  BY <1>1, LeastNatural
<1>3. PICK m \in S : t = b - m
  OBVIOUS
<1>4. \A x \in S : b - x \in T
  OBVIOUS
<1> HIDE DEF T
<1>5. \A x \in S : m >= x
  BY <1>2, <1>3, <1>4
<1>6. Max(S) \in S /\ \A x \in S : Max(S) >= x
  BY <1>5 DEF Max
<1>7. QED
  BY <1>6

\* A finite set of integers is bounded: of its first elements, in whatever order it
\* was counted, none is the first without a bound.
LEMMA FiniteBounded ==
  ASSUME NEW S \in SUBSET Int, IsFiniteSet(S)
  PROVE  \E b \in Int : \A x \in S : x <= b
<1>1. PICK n \in Nat : ExistsBijection(1 .. n, S)
  BY FS_CardinalityType
<1>2. PICK f : f \in Bijection(1 .. n, S)
  BY <1>1 DEF ExistsBijection
<1>3. \A i \in 1 .. n : f[i] \in Int
  BY <1>2 DEF Bijection, Injection
<1>4. \A x \in S : \E i \in 1 .. n : f[i] = x
  BY <1>2 DEF Bijection, Surjection
<1> DEFINE Bounded(k) == \E b \in Int : \A i \in 1 .. k : f[i] <= b
           T == {k \in 0 .. n : ~ Bounded(k)}
<1>5. Bounded(0)
  OBVIOUS
<1>6. ASSUME NEW k \in 1 .. n, Bounded(k - 1) PROVE Bounded(k)
  <2>1. PICK b \in Int : \A i \in 1 .. (k - 1) : f[i] <= b
    BY <1>6
  <2>2. k \in Nat /\ f[k] \in Int /\ \A i \in 1 .. k : i = k \/ i \in 1 .. (k - 1)
    BY <1>3
  <2>3. CASE f[k] <= b
    <3>1. \A i \in 1 .. k : f[i] <= b
      BY <2>1, <2>2, <2>3
    <3>2. QED
      BY <3>1
  <2>4. CASE ~ (f[k] <= b)
    <3>1. \A i \in 1 .. (k - 1) : f[i] \in Int
      BY <1>3
    <3>2. \A i \in 1 .. k : f[i] <= f[k]
      BY <2>1, <2>2, <2>4, <3>1
    <3>3. QED
      BY <2>2, <3>2
  <2>5. QED
    BY <2>3, <2>4
<1> HIDE DEF Bounded
<1>7. T \in SUBSET Nat /\ \A k \in 0 .. n : k \in T <=> ~ Bounded(k)
  OBVIOUS
<1> HIDE DEF T
<1>8. ASSUME T # {} PROVE FALSE
  <2>1. PICK k \in T : \A j \in T : k <= j
    BY <1>7, <1>8, LeastNatural
  <2>2. k \in 0 .. n /\ ~ Bounded(k)
    BY <1>7, <2>1 DEF T
  <2>3. k # 0
    BY <1>5, <2>2
  <2>4. k \in 1 .. n /\ k - 1 \in 0 .. n
    BY <2>2, <2>3
  <2>5. k - 1 \notin T
    BY <2>1, <2>4
  <2>6. QED
    BY <1>6, <1>7, <2>2, <2>4, <2>5
<1>9. Bounded(n)
  BY <1>7, <1>8
<1>10. QED
  BY <1>4, <1>9 DEF Bounded

\* A finite set of integers has a greatest element.
LEMMA MaxOfFinite ==
  ASSUME NEW S \in SUBSET Int, S # {}, IsFiniteSet(S)
  PROVE  Max(S) \in S /\ \A x \in S : x <= Max(S)
BY FiniteBounded, MaxOf
=============================================================================
