---------------------------- MODULE MetricsProofs ----------------------------
(***************************************************************************)
(* The metric algorithms compute what they are defined to compute, for any *)
(* sessions: the timeline of a session covers its active minutes, merged   *)
(* spans cover what the spans did, a union counts every minute once, and   *)
(* the streak is the longest run of days.  The algorithms fold over sorted *)
(* sequences; each proof writes the fold as a chain of its steps and finds *)
(* by well-founded induction that no first step breaks what is claimed.    *)
(***************************************************************************)
EXTENDS Metrics, FiniteSetTheorems, WellFoundedInduction, SequenceTheorems, TLAPS

-----------------------------------------------------------------------------
(***************************************************************************)
(* Sums, folds and sorting.                                                *)
(***************************************************************************)

\* Every set of numbers has a least one.
LEMMA LeastNumber ==
  ASSUME NEW S \in SUBSET Nat, S # {}
  PROVE  \E m \in S : \A k \in S : m <= k
<1>1. PICK m \in S : \A k \in S : <<k, m>> \notin OpToRel(<, Nat)
  BY WFMin, NatLessThanWellFounded
<1>2. \A k \in S : ~(k < m)
  BY <1>1, Zenon DEF OpToRel
<1>. QED
  BY <1>2

\* g sums f over the subsets of S, as the fold of the library does.
AnyOf(s) == CHOOSE y \in s : TRUE
SumStep(g, f, s) == IF s = {} THEN 0 ELSE f[AnyOf(s)] + g[s \ {AnyOf(s)}]
Sums(g, f, S) == g = [s \in SUBSET S |-> SumStep(g, f, s)]

\* There is such a function, whatever is summed: the recursion ends.
LEMMA SumsExist ==
  ASSUME NEW S, IsFiniteSet(S), NEW f
  PROVE  \E g : Sums(g, f, S)
<1>. DEFINE Upto(n) == {t \in SUBSET S : Cardinality(t) <= n}
            Part(g, n) == g = [s \in Upto(n) |-> SumStep(g, f, s)]
            Bad == {n \in Nat : ~\E g : Part(g, n)}
<1>1. ASSUME NEW t \in SUBSET S
      PROVE  /\ IsFiniteSet(t) /\ Cardinality(t) \in Nat /\ (Cardinality(t) = 0 <=> t = {})
             /\ t # {} => AnyOf(t) \in t /\ Cardinality(t \ {AnyOf(t)}) = Cardinality(t) - 1
  <2>1. IsFiniteSet(t)
    BY FS_Subset
  <2>2. t # {} => AnyOf(t) \in t
    BY DEF AnyOf
  <2>. QED
    BY <2>1, <2>2, FS_CardinalityType, FS_EmptySet, FS_RemoveElement
<1>2. Bad = {}
  <2>. SUFFICES ASSUME Bad # {} PROVE FALSE
    OBVIOUS
  <2>1. PICK m \in Bad : \A k \in Bad : m <= k
    <3>. HIDE DEF Bad
    <3>1. Bad \in SUBSET Nat
      BY DEF Bad
    <3>. QED
      BY <3>1, LeastNumber
  <2>2. CASE m = 0
    <3>. DEFINE g == [s \in Upto(0) |-> 0]
    <3>1. \A s \in Upto(0) : SumStep(g, f, s) = 0
      BY <1>1 DEF SumStep
    <3>2. Part(g, 0)
      BY <3>1
    <3>. QED
      BY <2>2, <3>2
  <2>3. CASE m # 0
    <3>0. m \in Nat /\ m - 1 \in Nat /\ ~(m <= m - 1)
      BY <2>3
    <3>1. PICK g : Part(g, m - 1)
      <4>1. m - 1 \notin Bad
        BY <2>1, <3>0
      <4>. QED
        BY <3>0, <4>1
    <3>. DEFINE h == [s \in Upto(m) |-> SumStep(g, f, s)]
    <3>2. ASSUME NEW t \in Upto(m - 1) PROVE t \in Upto(m) /\ h[t] = g[t]
      <4>1. t \in Upto(m)
        <5>1. t \in SUBSET S /\ Cardinality(t) <= m - 1
          OBVIOUS
        <5>2. Cardinality(t) \in Nat
          BY <1>1, <5>1
        <5>. QED
          BY <3>0, <5>1, <5>2
      <4>2. g[t] = SumStep(g, f, t)
        BY <3>1
      <4>. QED
        BY <4>1, <4>2
    <3>3. ASSUME NEW s \in Upto(m) PROVE SumStep(h, f, s) = SumStep(g, f, s)
      <4>1. s # {} => s \ {AnyOf(s)} \in Upto(m - 1)
        BY <1>1, <2>1
      <4>2. s # {} => h[s \ {AnyOf(s)}] = g[s \ {AnyOf(s)}]
        BY <3>2, <4>1
      <4>. HIDE DEF h
      <4>. QED
        BY <4>2 DEF SumStep
    <3>4. Part(h, m)
      <4>1. \A s \in Upto(m) : h[s] = SumStep(h, f, s)
        BY <3>3
      <4>. QED
        BY <4>1
    <3>. QED
      BY <2>1, <3>4
  <2>. QED
    BY <2>2, <2>3
<1>3. PICK g : Part(g, Cardinality(S))
  BY <1>1, <1>2
<1>4. Upto(Cardinality(S)) = SUBSET S
  <2>1. \A t \in SUBSET S : Cardinality(t) <= Cardinality(S)
    BY FS_Subset
  <2>. QED
    BY <2>1
<1>. QED
  BY <1>3, <1>4 DEF Sums

(***************************************************************************)
(* Folds over a sequence, step by step: with F[<<i, r>>] what the i-th     *)
(* step makes of r.                                                        *)
(***************************************************************************)

\* What the fold g of F makes of the steps s, the last of them last.
FoldStep(g, F, base, s) == IF s = {} THEN base ELSE F[<<Max(s), g[s \ {Max(s)}]>>]
FoldsTo(g, F, base, n) == g = [s \in SUBSET (1 .. n) |-> FoldStep(g, F, base, s)]

\* The largest of some of the first n numbers, and what is left without it.
LEMMA MaxOfSome ==
  ASSUME NEW n \in Nat, NEW s \in SUBSET (1 .. n), s # {}
  PROVE  /\ Max(s) \in s /\ IsFiniteSet(s) /\ Cardinality(s) \in Nat
         /\ Cardinality(s \ {Max(s)}) = Cardinality(s) - 1
         /\ Cardinality(s) <= n
<1>1. IsFiniteSet(1 .. n) /\ Cardinality(1 .. n) = n
  BY FS_Interval
<1>2. IsFiniteSet(s) /\ Cardinality(s) \in Nat /\ Cardinality(s) <= n
  BY <1>1, FS_Subset, FS_CardinalityType
<1>3. Max(s) \in s
  <2>. DEFINE Gaps == {n - x : x \in s}
  <2>1. Gaps \in SUBSET Nat /\ Gaps # {}
    <3>1. ASSUME NEW x \in s PROVE n - x \in Nat
      OBVIOUS
    <3>2. PICK x \in s : TRUE
      OBVIOUS
    <3>3. n - x \in Gaps
      OBVIOUS
    <3>. QED
      BY <3>1, <3>3
  <2>. HIDE DEF Gaps
  <2>2. PICK m \in Gaps : \A k \in Gaps : m <= k
    BY <2>1, LeastNumber
  <2>3. PICK x \in s : m = n - x
    BY <2>2 DEF Gaps
  <2>4. \A y \in s : n - x <= n - y
    BY <2>2, <2>3 DEF Gaps
  <2>5. \A y \in s : x >= y
    <3>1. \A y \in s : y \in Int /\ x \in Int
      OBVIOUS
    <3>. QED
      BY <2>4, <3>1
  <2>. QED
    BY <2>5 DEF Max
<1>. QED
  BY <1>2, <1>3, FS_RemoveElement

\* Such a fold exists, and stays in any set that every step stays in.
LEMMA FoldsExist ==
  ASSUME NEW n \in Nat, NEW F, NEW R, NEW base \in R,
         \A i \in 1 .. n, r \in R : F[<<i, r>>] \in R
  PROVE  \E g : FoldsTo(g, F, base, n) /\ \A s \in SUBSET (1 .. n) : g[s] \in R
<1>. DEFINE Upto(k) == {t \in SUBSET (1 .. n) : Cardinality(t) <= k}
            Part(g, k) == /\ g = [s \in Upto(k) |-> FoldStep(g, F, base, s)]
                          /\ \A s \in Upto(k) : g[s] \in R
            Bad == {k \in Nat : ~\E g : Part(g, k)}
<1>1. ASSUME NEW t \in SUBSET (1 .. n)
      PROVE  /\ Cardinality(t) \in Nat /\ (Cardinality(t) = 0 <=> t = {}) /\ Cardinality(t) <= n
             /\ t # {} => /\ Max(t) \in t /\ Max(t) \in 1 .. n
                          /\ t \ {Max(t)} \in SUBSET (1 .. n)
                          /\ Cardinality(t \ {Max(t)}) = Cardinality(t) - 1
  <2>1. CASE t = {}
    BY <2>1, FS_EmptySet
  <2>2. CASE t # {}
    <3>1. /\ Max(t) \in t /\ IsFiniteSet(t) /\ Cardinality(t) \in Nat /\ Cardinality(t) <= n
          /\ Cardinality(t \ {Max(t)}) = Cardinality(t) - 1
      BY <2>2, MaxOfSome
    <3>2. Cardinality(t) # 0
      BY <2>2, <3>1, FS_EmptySet
    <3>. QED
      BY <2>2, <3>1, <3>2
  <2>. QED
    BY <2>1, <2>2
<1>2. Bad = {}
  <2>. SUFFICES ASSUME Bad # {} PROVE FALSE
    OBVIOUS
  <2>1. PICK m \in Bad : \A k \in Bad : m <= k
    <3>1. Bad \in SUBSET Nat
      OBVIOUS
    <3>. HIDE DEF Bad
    <3>. QED
      BY <3>1, LeastNumber
  <2>2. CASE m = 0
    <3>. DEFINE g == [s \in Upto(0) |-> base]
    <3>1. \A s \in Upto(0) : FoldStep(g, F, base, s) = base
      <4>1. ASSUME NEW s \in Upto(0) PROVE s = {}
        <5>1. s \in SUBSET (1 .. n) /\ Cardinality(s) <= 0
          OBVIOUS
        <5>2. Cardinality(s) \in Nat /\ (Cardinality(s) = 0 <=> s = {})
          BY <1>1, <5>1
        <5>. QED
          BY <5>1, <5>2
      <4>. QED
        BY <4>1 DEF FoldStep
    <3>2. Part(g, 0)
      BY <3>1
    <3>. QED
      BY <2>2, <3>2
  <2>3. CASE m # 0
    <3>0. m \in Nat /\ m - 1 \in Nat /\ ~(m <= m - 1)
      BY <2>3
    <3>1. PICK g : Part(g, m - 1)
      <4>1. m - 1 \notin Bad
        BY <2>1, <3>0
      <4>. QED
        BY <3>0, <4>1
    <3>. DEFINE h == [s \in Upto(m) |-> FoldStep(g, F, base, s)]
    <3>2. ASSUME NEW t \in Upto(m - 1) PROVE t \in Upto(m) /\ h[t] = g[t]
      <4>1. t \in Upto(m)
        <5>1. t \in SUBSET (1 .. n) /\ Cardinality(t) <= m - 1
          OBVIOUS
        <5>2. Cardinality(t) \in Nat
          BY <1>1, <5>1
        <5>. QED
          BY <3>0, <5>1, <5>2
      <4>2. g[t] = FoldStep(g, F, base, t)
        BY <3>1
      <4>. QED
        BY <4>1, <4>2
    <3>3. ASSUME NEW s \in Upto(m)
          PROVE  FoldStep(h, F, base, s) = FoldStep(g, F, base, s) /\ FoldStep(g, F, base, s) \in R
      <4>1. CASE s = {}
        BY <4>1 DEF FoldStep
      <4>2. CASE s # {}
        <5>. DEFINE r == s \ {Max(s)}
        <5>1. r \in SUBSET (1 .. n) /\ Cardinality(r) = Cardinality(s) - 1 /\ Max(s) \in 1 .. n
              /\ Cardinality(s) \in Nat /\ Cardinality(s) <= m
          BY <1>1, <4>2
        <5>2. r \in Upto(m - 1)
          BY <3>0, <5>1
        <5>3. h[r] = g[r] /\ g[r] \in R
          BY <3>1, <3>2, <5>2
        <5>. HIDE DEF h, r
        <5>4. FoldStep(h, F, base, s) = F[<<Max(s), h[r]>>] /\ FoldStep(g, F, base, s) = F[<<Max(s), g[r]>>]
          BY <4>2 DEF FoldStep, r
        <5>. QED
          BY <5>1, <5>3, <5>4
      <4>. QED
        BY <4>1, <4>2
    <3>4. Part(h, m)
      <4>1. \A s \in Upto(m) : h[s] = FoldStep(h, F, base, s) /\ h[s] \in R
        BY <3>3
      <4>. QED
        BY <4>1
    <3>. QED
      BY <3>0, <3>4
  <2>. QED
    BY <2>2, <2>3
<1>3. PICK g : Part(g, n)
  BY <1>2
<1>4. Upto(n) = SUBSET (1 .. n)
  BY <1>1
<1>. QED
  BY <1>3, <1>4 DEF FoldsTo

\* What a function makes of a finite set is finite, and no larger.
LEMMA FiniteImage ==
  ASSUME NEW S, IsFiniteSet(S), NEW f, NEW T, T = {f[x] : x \in S}
  PROVE  IsFiniteSet(T) /\ Cardinality(T) <= Cardinality(S)
<1>. DEFINE g == [x \in S |-> f[x]]
<1>1. g \in Surjection(S, T)
  BY DEF Surjection
<1>. HIDE DEF g
<1>. QED
  BY <1>1, FS_Surjection
(***************************************************************************)
(* Order: what is least, what is largest, and what comes in which place.   *)
(***************************************************************************)

\* A finite set of numbers has a largest one.
LEMMA LargestNumber ==
  ASSUME NEW S \in SUBSET Int, IsFiniteSet(S), S # {}
  PROVE  /\ SetMax(S) \in S
         /\ \A x \in S : x <= SetMax(S)
<1>. DEFINE Has(T) == \E m \in T : \A x \in T : x <= m
            Bad == {n \in Nat : \E T \in SUBSET S : T # {} /\ Cardinality(T) = n /\ ~Has(T)}
<1>1. ASSUME NEW T \in SUBSET S, NEW x \in T
      PROVE  /\ Cardinality(T) \in Nat /\ Cardinality(T \ {x}) \in Nat
             /\ Cardinality(T \ {x}) = Cardinality(T) - 1
  <2>1. IsFiniteSet(T)
    BY FS_Subset
  <2>. QED
    BY <2>1, FS_CardinalityType, FS_RemoveElement
<1>2. ASSUME NEW n \in Bad, \A k \in Bad : n <= k PROVE FALSE
  <2>1. PICK T \in SUBSET S : T # {} /\ Cardinality(T) = n /\ ~Has(T)
    BY <1>2
  <2>2. PICK x \in T : TRUE
    BY <2>1
  <2>3. CASE T = {x}
    BY <2>1, <2>3
  <2>4. CASE T # {x}
    <3>. DEFINE R == T \ {x}
    <3>1. R \in SUBSET S /\ R # {} /\ Cardinality(R) \in Nat /\ ~(n <= Cardinality(R))
      BY <1>1, <2>1, <2>2, <2>4
    <3>2. Has(R)
      <4>1. Cardinality(R) \notin Bad
        BY <1>2, <3>1
      <4>. QED
        BY <3>1, <4>1
    <3>3. PICK m \in R : \A y \in R : y <= m
      BY <3>2
    <3>4. \A y \in T : y \in Int
      OBVIOUS
    <3>5. CASE x <= m
      BY <2>1, <3>3, <3>4, <3>5
    <3>6. CASE ~(x <= m)
      <4>1. \A y \in T : y <= x
        BY <3>3, <3>4, <3>6
      <4>. QED
        BY <2>1, <4>1
    <3>. QED
      BY <3>5, <3>6
  <2>. QED
    BY <2>3, <2>4
<1>3. Bad = {}
  <2>1. Bad \in SUBSET Nat
    OBVIOUS
  <2>. HIDE DEF Bad
  <2>. QED
    BY <1>2, <2>1, LeastNumber
<1>4. Has(S)
  <2>1. S \in SUBSET S /\ Cardinality(S) \in Nat
    BY FS_CardinalityType
  <2>. QED
    BY <1>3, <2>1
<1>5. PICK m \in S : \A x \in S : m >= x
  BY <1>4
<1>. QED
  BY <1>5 DEF SetMax

\* Of two numbers.
LEMMA OfTwo ==
  ASSUME NEW a \in Int, NEW b \in Int
  PROVE  /\ SetMax({a, b}) = IF a >= b THEN a ELSE b
         /\ SetMin({a, b}) = IF a <= b THEN a ELSE b
<1>1. SetMax({a, b}) = IF a >= b THEN a ELSE b
  BY DEF SetMax
<1>2. SetMin({a, b}) = IF a <= b THEN a ELSE b
  BY DEF SetMin
<1>. QED
  BY <1>1, <1>2

\* The smallest of a set of natural numbers.
LEMMA SmallestNumber ==
  ASSUME NEW S \in SUBSET Nat, S # {}
  PROVE  /\ SetMin(S) \in S
         /\ \A x \in S : SetMin(S) <= x
  BY LeastNumber DEF SetMin

\* What is before x in the order R of S.
Below(S, R, x) == {y \in S : <<y, x>> \in R}

Orders(R, S) ==
  /\ \A x \in S : <<x, x>> \notin R
  /\ \A x, y \in S : x = y \/ <<x, y>> \in R \/ <<y, x>> \in R
  /\ \A x, y, z \in S : <<x, y>> \in R /\ <<y, z>> \in R => <<x, z>> \in R

\* A choice, for every place, of a member of S with that place in the order R.
InOrder(o, S, R) ==
  /\ DOMAIN o = 1 .. Cardinality(S) /\ o = [i \in DOMAIN o |-> o[i]]
  /\ \A i \in 1 .. Cardinality(S), x \in S : Cardinality(Below(S, R, x)) = i - 1 =>
       o[i] \in S /\ Cardinality(Below(S, R, o[i])) = i - 1

\* Every one of them has a place of its own.
LEMMA Ordered ==
  ASSUME NEW S, IsFiniteSet(S), NEW R, Orders(R, S), NEW o, InOrder(o, S, R)
  PROVE  /\ Cardinality(S) \in Nat /\ o \in Seq(S) /\ Len(o) = Cardinality(S)
         /\ \A x \in S : \E i \in 1 .. Cardinality(S) : o[i] = x
         /\ \A i, j \in 1 .. Cardinality(S) : i < j => <<o[i], o[j]>> \in R
<1>. DEFINE n == Cardinality(S)
            rank == [x \in S |-> Cardinality(Below(S, R, x))]
<1>0. n \in Nat
  BY FS_CardinalityType
<1>1. ASSUME NEW x \in S
      PROVE  /\ IsFiniteSet(Below(S, R, x)) /\ rank[x] \in Nat /\ rank[x] <= n - 1
  <2>1. Below(S, R, x) \in SUBSET (S \ {x})
    BY DEF Below, Orders
  <2>2. IsFiniteSet(S \ {x}) /\ Cardinality(S \ {x}) = n - 1
    BY FS_RemoveElement
  <2>. QED
    BY <2>1, <2>2, FS_Subset, FS_CardinalityType
<1>2. ASSUME NEW x \in S, NEW y \in S, <<x, y>> \in R PROVE rank[x] < rank[y]
  <2>1. Below(S, R, x) \cup {x} \in SUBSET Below(S, R, y) /\ x \notin Below(S, R, x)
    BY <1>2 DEF Below, Orders
  <2>2. Cardinality(Below(S, R, x) \cup {x}) = Cardinality(Below(S, R, x)) + 1
    BY <1>1, <2>1, FS_AddElement
  <2>3. Cardinality(Below(S, R, x) \cup {x}) <= Cardinality(Below(S, R, y))
    BY <1>1, <2>1, FS_Subset
  <2>. QED
    BY <1>1, <2>2, <2>3
<1>3. rank \in Injection(S, 0 .. n - 1)
  <2>1. rank \in [S -> 0 .. n - 1]
    BY <1>0, <1>1
  <2>2. ASSUME NEW x \in S, NEW y \in S, rank[x] = rank[y] PROVE x = y
    <3>1. rank[x] \in Nat /\ ~(rank[x] < rank[y]) /\ ~(rank[y] < rank[x])
      BY <1>1, <2>2
    <3>. HIDE DEF rank
    <3>. QED
      BY <1>2, <3>1 DEF Orders
  <2>. HIDE DEF rank, n
  <2>. QED
    BY <2>1, <2>2 DEF Injection, IsInjective
<1>4. rank \in Surjection(S, 0 .. n - 1)
  <2>1. IsFiniteSet(0 .. n - 1) /\ Cardinality(0 .. n - 1) = n
    BY <1>0, FS_Interval
  <2>. HIDE DEF rank
  <2>. QED
    BY <1>3, <2>1, FS_Injection
<1>5. ASSUME NEW i \in 1 .. n PROVE o[i] \in S /\ rank[o[i]] = i - 1
  <2>1. i - 1 \in 0 .. n - 1
    BY <1>0
  <2>2. PICK x \in S : rank[x] = i - 1
    <3>. HIDE DEF rank
    <3>. QED
      BY <1>4, <2>1 DEF Surjection
  <2>. QED
    BY <2>2 DEF InOrder
<1>6. o \in Seq(S) /\ Len(o) = n
  <2>1. o \in [1 .. n -> S]
    BY <1>5 DEF InOrder
  <2>. HIDE DEF n
  <2>. QED
    BY <1>0, <2>1
<1>7. ASSUME NEW x \in S PROVE \E i \in 1 .. n : o[i] = x
  <2>1. rank[x] + 1 \in 1 .. n /\ rank[x] \in Nat
    BY <1>0, <1>1
  <2>2. rank[o[rank[x] + 1]] = rank[x] /\ o[rank[x] + 1] \in S
    BY <1>5, <2>1
  <2>3. o[rank[x] + 1] = x
    <3>. HIDE DEF rank
    <3>. QED
      BY <1>3, <2>2 DEF Injection, IsInjective
  <2>. QED
    BY <2>1, <2>3
<1>8. ASSUME NEW i \in 1 .. n, NEW j \in 1 .. n, i < j PROVE <<o[i], o[j]>> \in R
  <2>1. o[i] \in S /\ o[j] \in S /\ rank[o[i]] = i - 1 /\ rank[o[j]] = j - 1
    BY <1>5
  <2>2. o[i] # o[j] /\ ~(rank[o[j]] < rank[o[i]])
    BY <1>0, <1>8, <2>1
  <2>. HIDE DEF rank
  <2>. QED
    BY <1>2, <2>1, <2>2 DEF Orders
<1>. HIDE DEF n
<1>. QED
  BY <1>0, <1>6, <1>7, <1>8 DEF n

(***************************************************************************)
(* One session: its active spans cover its active minutes, and nothing     *)
(* else.                                                                   *)
(***************************************************************************)

\* The rows of a ledger.
IsRow(E) == E \in SUBSET Nat /\ IsFiniteSet(E) /\ E # {}

\* What the event at t adds to the active minutes.
Following(E, t) == {u \in E : u > t}
MinutesFrom(E, t) ==
  IF Following(E, t) = {} \/ (Following(E, t) # {} /\ SetMin(Following(E, t)) - t > WorkSessionGap) THEN {}
  ELSE t .. SetMin({SetMin(Following(E, t)), t + ActiveGapCap}) - 1

\* The minutes after an event at t, when the next is at u.
Counted1(t, u) == IF u - t > WorkSessionGap THEN {} ELSE t .. SetMin({u, t + ActiveGapCap}) - 1

\* What counts as active, event by event, from the ones that follow it.
LEMMA ActiveIsFollowing ==
  ASSUME NEW E
  PROVE  ActiveMinutes(E) = UNION {MinutesFrom(E, t) : t \in E}
  BY DEF ActiveMinutes, MinutesFrom, Following

\* The events that follow are those that do.
LEMMA FollowingIs ==
  ASSUME NEW E \in SUBSET Nat, NEW t
  PROVE  Following(E, t) \in SUBSET Nat /\ \A x : x \in Following(E, t) <=> x \in E /\ x > t
<1>1. Following(E, t) \in SUBSET Nat
  BY DEF Following
<1>2. \A x : x \in Following(E, t) <=> x \in E /\ x > t
  BY DEF Following
<1>. QED
  BY <1>1, <1>2

\* Before its last event, minutes of a session do not depend on what follows it.
LEMMA ActiveGrows ==
  ASSUME NEW E \in SUBSET Nat, NEW m \in E, \A t \in E : t <= m, NEW u \in Nat, u > m
  PROVE  /\ ActiveMinutes(E \cup {u}) = ActiveMinutes(E) \cup Counted1(m, u)
         /\ \A x \in ActiveMinutes(E) : x \in Nat /\ x < m
<1>. DEFINE F == E \cup {u}
<1>0. WorkSessionGap \in Nat /\ ActiveGapCap \in Nat /\ F \in SUBSET Nat /\ m \in Nat
  BY MetricsAssumption
<1>1. ASSUME NEW t \in E, t # m
      PROVE  /\ MinutesFrom(F, t) = MinutesFrom(E, t)
             /\ \A x \in MinutesFrom(E, t) : x \in Nat /\ x < m
  <2>1. m \in Following(E, t) /\ Following(E, t) \in SUBSET Nat /\ t \in Nat
    <3>1. t \in Nat /\ m > t
      BY <1>0, <1>1
    <3>. QED
      BY <3>1, FollowingIs
  <2>2. /\ SetMin(Following(E, t)) \in Following(E, t)
        /\ \A x \in Following(E, t) : SetMin(Following(E, t)) <= x
    BY <2>1, SmallestNumber
  <2>. DEFINE k == SetMin(Following(E, t))
  <2>3. k \in Nat /\ k <= m
    BY <2>1, <2>2
  <2>4. Following(F, t) = Following(E, t) \cup {u}
    <3>1. u > t
      BY <1>0, <2>1, FollowingIs
    <3>2. \A x : x \in Following(F, t) <=> x \in Following(E, t) \cup {u}
      BY <1>0, <3>1, FollowingIs
    <3>. QED
      BY <3>2
  <2>5. SetMin(Following(F, t)) = k
    <3>1. Following(F, t) \in SUBSET Nat /\ Following(F, t) # {}
      BY <1>0, <2>1, <2>4
    <3>2. /\ SetMin(Following(F, t)) \in Following(F, t)
          /\ \A x \in Following(F, t) : SetMin(Following(F, t)) <= x
      BY <3>1, SmallestNumber
    <3>3. k \in Following(F, t) /\ \A x \in Following(F, t) : k <= x
      BY <1>0, <2>2, <2>3, <2>4
    <3>4. SetMin(Following(F, t)) \in Nat /\ SetMin(Following(F, t)) <= k /\ k <= SetMin(Following(F, t))
      BY <3>1, <3>2, <3>3
    <3>. HIDE DEF k
    <3>. QED
      BY <2>3, <3>4
  <2>6. MinutesFrom(F, t) = MinutesFrom(E, t)
    BY <2>1, <2>4, <2>5 DEF MinutesFrom
  <2>7. ASSUME NEW x \in MinutesFrom(E, t) PROVE x \in Nat /\ x < m
    <3>1. x \in t .. SetMin({k, t + ActiveGapCap}) - 1
      BY <2>7 DEF MinutesFrom
    <3>. HIDE DEF k
    <3>2. SetMin({k, t + ActiveGapCap}) = IF k <= t + ActiveGapCap THEN k ELSE t + ActiveGapCap
      <4>1. k \in Int /\ t + ActiveGapCap \in Int
        BY <1>0, <2>1, <2>3
      <4>. QED
        BY <4>1, OfTwo
    <3>. QED
      BY <1>0, <2>1, <2>3, <3>1, <3>2
  <2>. QED
    BY <2>6, <2>7
<1>2. MinutesFrom(E, m) = {}
  <2>1. \A x \in E : ~(x > m)
    BY <1>0
  <2>2. Following(E, m) = {}
    BY <1>0, <2>1, FollowingIs
  <2>. QED
    BY <2>2 DEF MinutesFrom
<1>3. MinutesFrom(F, m) = Counted1(m, u)
  <2>1. Following(F, m) = {u}
    <3>1. \A x \in F : x > m <=> x = u
      BY <1>0
    <3>2. \A x : x \in Following(F, m) <=> x = u
      BY <1>0, <3>1, FollowingIs
    <3>. QED
      BY <3>2
  <2>2. SetMin({u}) = u
    BY DEF SetMin
  <2>. QED
    BY <2>1, <2>2 DEF MinutesFrom, Counted1
<1>4. MinutesFrom(F, u) = {}
  <2>1. \A x \in F : ~(x > u)
    BY <1>0
  <2>2. Following(F, u) = {}
    BY <1>0, <2>1, FollowingIs
  <2>. QED
    BY <2>2 DEF MinutesFrom
<1>5. ActiveMinutes(E) = UNION {MinutesFrom(E, t) : t \in E}
  BY ActiveIsFollowing
<1>6. ActiveMinutes(F) = UNION {MinutesFrom(F, t) : t \in F}
  BY ActiveIsFollowing
<1>. HIDE DEF F
<1>7. \A x \in ActiveMinutes(E) : x \in Nat /\ x < m
  BY <1>1, <1>2, <1>5
<1>8. F = E \cup {u}
  BY DEF F
<1>9. ASSUME NEW x PROVE x \in ActiveMinutes(F) <=> x \in ActiveMinutes(E) \cup Counted1(m, u)
  <2>1. ASSUME x \in ActiveMinutes(F) PROVE x \in ActiveMinutes(E) \cup Counted1(m, u)
    <3>1. PICK t \in F : x \in MinutesFrom(F, t)
      BY <1>6, <2>1
    <3>2. CASE t = m
      BY <1>3, <3>1, <3>2
    <3>3. CASE t = u
      BY <1>4, <3>1, <3>3
    <3>4. CASE t # m /\ t # u
      BY <1>1, <1>5, <1>8, <3>1, <3>4
    <3>. QED
      BY <3>2, <3>3, <3>4
  <2>2. ASSUME x \in ActiveMinutes(E) PROVE x \in ActiveMinutes(F)
    <3>1. PICK t \in E : x \in MinutesFrom(E, t)
      BY <1>5, <2>2
    <3>2. t # m
      BY <1>2, <3>1
    <3>3. x \in MinutesFrom(F, t) /\ t \in F
      BY <1>1, <1>8, <3>1, <3>2
    <3>. QED
      BY <1>6, <3>3
  <2>3. ASSUME x \in Counted1(m, u) PROVE x \in ActiveMinutes(F)
    <3>1. m \in F /\ x \in MinutesFrom(F, m)
      BY <1>3, <1>8, <2>3
    <3>. QED
      BY <1>6, <3>1
  <2>. QED
    BY <2>1, <2>2, <2>3
<1>10. ActiveMinutes(F) = ActiveMinutes(E) \cup Counted1(m, u)
  BY <1>9
<1>. QED
  BY <1>7, <1>8, <1>10

\* A session of one event has none.
LEMMA ActiveOfOne ==
  ASSUME NEW t \in Nat
  PROVE  ActiveMinutes({t}) = {}
<1>1. Following({t}, t) = {}
  BY DEF Following
<1>2. MinutesFrom({t}, t) = {}
  BY <1>1 DEF MinutesFrom
<1>. QED
  BY <1>2, ActiveIsFollowing

\* A row has a last event.
LEMMA RowHasLast ==
  ASSUME NEW E, IsRow(E)
  PROVE  SetMax(E) \in E /\ (\A t \in E : t <= SetMax(E)) /\ SetMax(E) \in Nat
<1>1. E \in SUBSET Nat /\ E \in SUBSET Int /\ IsFiniteSet(E) /\ E # {}
  BY DEF IsRow
<1>2. SetMax(E) \in E /\ \A t \in E : t <= SetMax(E)
  BY <1>1, LargestNumber
<1>. QED
  BY <1>1, <1>2

\* The active minutes of a session are finitely many.
LEMMA ActiveIsFinite ==
  ASSUME NEW E, IsRow(E)
  PROVE  ActiveMinutes(E) \in SUBSET Nat /\ IsFiniteSet(ActiveMinutes(E))
         /\ Cardinality(ActiveMinutes(E)) \in Nat
<1>. PICK m : m = SetMax(E)
  OBVIOUS
<1>1. m \in E /\ (\A t \in E : t <= m) /\ m \in Nat
  BY RowHasLast
<1>2. m + 1 \in Nat /\ m + 1 > m /\ E \in SUBSET Nat
  BY <1>1 DEF IsRow
<1>3. \A x \in ActiveMinutes(E) : x \in Nat /\ x < m
  BY <1>1, <1>2, ActiveGrows
<1>4. \A x \in ActiveMinutes(E) : x <= m
  BY <1>1, <1>3
<1>5. ActiveMinutes(E) \in SUBSET Nat
  BY <1>3
<1>. QED
  BY <1>1, <1>4, <1>5, FS_BoundedSetOfNaturals, FS_CardinalityType

\* The events from a to b, without a gap that ends the session.
Stretch(E, a, b) == {t \in E : a <= t /\ t <= b}
Unbroken(E) == \A t \in E : (\E u \in E : u > t) => \E u \in E : u > t /\ u - t <= WorkSessionGap

\* The endurance of a session is the most active minutes that any of them has.
LEMMA EnduranceIsMost ==
  ASSUME NEW E, IsRow(E)
  PROVE  /\ EnduranceOf(E) \in Nat
         /\ \A a, b \in E : Unbroken(Stretch(E, a, b)) =>
              Cardinality(ActiveMinutes(Stretch(E, a, b))) <= EnduranceOf(E)
         /\ \E a, b \in E : /\ Unbroken(Stretch(E, a, b))
                            /\ EnduranceOf(E) = Cardinality(ActiveMinutes(Stretch(E, a, b)))
<1>. DEFINE stretches == {T \in {Stretch(E, a, b) : a, b \in E} : Unbroken(T)}
            lengths == {Cardinality(ActiveMinutes(T)) : T \in stretches}
<1>1. EnduranceOf(E) = SetMax(lengths)
  BY DEF EnduranceOf, Stretch, Unbroken
<1>2. ASSUME NEW T \in stretches PROVE T \in SUBSET E
  BY DEF Stretch
<1>0. E \in SUBSET Nat /\ IsFiniteSet(E) /\ E # {}
  BY DEF IsRow
<1>3. ASSUME NEW T \in stretches
      PROVE  Cardinality(ActiveMinutes(T)) \in Nat /\ Cardinality(ActiveMinutes(T)) <= SetMax(E)
  <2>1. T \in SUBSET E
    BY <1>2
  <2>. HIDE DEF stretches, lengths
  <2>2. SetMax(E) \in E /\ (\A t \in E : t <= SetMax(E)) /\ SetMax(E) \in Nat
    BY RowHasLast
  <2>3. CASE T = {}
    <3>1. ActiveMinutes(T) = {}
      BY <2>3 DEF ActiveMinutes
    <3>. QED
      BY <2>2, <3>1, FS_EmptySet
  <2>4. CASE T # {}
    <3>1. IsRow(T)
      <4>1. T \in SUBSET Nat /\ IsFiniteSet(T)
        BY <1>0, <2>1, FS_Subset
      <4>. QED
        BY <2>4, <4>1 DEF IsRow
    <3>. PICK m : m = SetMax(T)
      OBVIOUS
    <3>2. m \in T /\ (\A t \in T : t <= m) /\ m \in Nat
      BY <3>1, RowHasLast
    <3>3. m + 1 \in Nat /\ m + 1 > m /\ m <= SetMax(E)
      BY <2>1, <2>2, <3>2
    <3>4. T \in SUBSET Nat
      BY <3>1 DEF IsRow
    <3>5. \A x \in ActiveMinutes(T) : x \in Nat /\ x < m
      BY <3>2, <3>3, <3>4, ActiveGrows
    <3>6. ActiveMinutes(T) \in SUBSET (0 .. SetMax(E) - 1)
      BY <2>2, <3>2, <3>3, <3>5
    <3>7. IsFiniteSet(0 .. SetMax(E) - 1) /\ Cardinality(0 .. SetMax(E) - 1) = SetMax(E)
      <4>1. 0 \in Int /\ SetMax(E) - 1 \in Int
        BY <2>2
      <4>2. IsFiniteSet(0 .. SetMax(E) - 1)
            /\ Cardinality(0 .. SetMax(E) - 1) = IF 0 > SetMax(E) - 1 THEN 0 ELSE (SetMax(E) - 1) - 0 + 1
        BY <4>1, FS_Interval
      <4>. QED
        BY <2>2, <4>2
    <3>8. Cardinality(ActiveMinutes(T)) \in Nat
      BY <3>1, ActiveIsFinite
    <3>. QED
      BY <3>6, <3>7, <3>8, FS_Subset
  <2>. QED
    BY <2>3, <2>4
<1>4. IsFiniteSet(lengths) /\ lengths \in SUBSET Nat
  <2>1. lengths \in SUBSET Nat /\ \A n \in lengths : n <= SetMax(E)
    BY <1>3
  <2>2. SetMax(E) \in Nat
    BY RowHasLast
  <2>. HIDE DEF lengths
  <2>. QED
    BY <2>1, <2>2, FS_BoundedSetOfNaturals
<1>5. PICK a \in E : TRUE
  BY DEF IsRow
<1>6. Stretch(E, a, a) \in stretches
  <2>1. Stretch(E, a, a) = {a}
    <3>1. \A x \in E : a <= x /\ x <= a <=> x = a
      BY <1>0
    <3>. QED
      BY <3>1 DEF Stretch
  <2>2. Unbroken({a})
    BY <1>0 DEF Unbroken
  <2>. QED
    BY <2>1, <2>2
<1>7. lengths # {}
  BY <1>6
<1>8. SetMax(lengths) \in lengths /\ \A n \in lengths : n <= SetMax(lengths)
  <2>. HIDE DEF lengths
  <2>. QED
    BY <1>4, <1>7, LargestNumber
<1>9. ASSUME NEW c \in E, NEW d \in E, Unbroken(Stretch(E, c, d))
      PROVE  Cardinality(ActiveMinutes(Stretch(E, c, d))) \in lengths
  BY <1>9
<1>10. ASSUME NEW n \in lengths
       PROVE  \E c, d \in E : Unbroken(Stretch(E, c, d)) /\ n = Cardinality(ActiveMinutes(Stretch(E, c, d)))
  BY <1>10
<1>. HIDE DEF lengths
<1>. QED
  BY <1>1, <1>4, <1>8, <1>9, <1>10

\* The members of a set of numbers, in order: Sorted(E, <).
SortsNumbers(o, E) == o = [i \in 1 .. Cardinality(E) |-> CHOOSE x \in E : Cardinality({y \in E : y < x}) = i - 1]

\* Sorted gives a set of numbers in order, each of them once.
LEMMA SortedNumbers ==
  ASSUME NEW E \in SUBSET Nat, IsFiniteSet(E), NEW o, SortsNumbers(o, E)
  PROVE  /\ Cardinality(E) \in Nat /\ o \in Seq(E) /\ Len(o) = Cardinality(E)
         /\ \A x \in E : \E i \in 1 .. Cardinality(E) : o[i] = x
         /\ \A i, j \in 1 .. Cardinality(E) : i < j => o[i] < o[j]
<1>. DEFINE R == {p \in E \X E : p[1] < p[2]}
            n == Cardinality(E)
<1>1. \A x, y \in E : <<x, y>> \in R <=> x < y
  OBVIOUS
<1>2. Orders(R, E)
  <2>. HIDE DEF R
  <2>. QED
    BY <1>1 DEF Orders
<1>3. o = [i \in 1 .. n |-> CHOOSE x \in E : Cardinality({y \in E : y < x}) = i - 1]
  BY DEF SortsNumbers
<1>. HIDE DEF R, n
<1>4. ASSUME NEW x \in E PROVE Below(E, R, x) = {y \in E : y < x}
  BY <1>1 DEF Below
<1>5. InOrder(o, E, R)
  <2>1. ASSUME NEW i \in 1 .. n, NEW x \in E, Cardinality(Below(E, R, x)) = i - 1
        PROVE  o[i] \in E /\ Cardinality(Below(E, R, o[i])) = i - 1
    <3>1. \E y \in E : Cardinality({z \in E : z < y}) = i - 1
      BY <1>4, <2>1
    <3>2. o[i] \in E /\ Cardinality({z \in E : z < o[i]}) = i - 1
      BY <1>3, <3>1
    <3>. QED
      BY <1>4, <3>2
  <2>2. DOMAIN o = 1 .. n /\ o = [i \in DOMAIN o |-> o[i]]
    <3>. DEFINE X(i) == CHOOSE x \in E : Cardinality({y \in E : y < x}) = i - 1
    <3>1. o = [i \in 1 .. n |-> X(i)]
      BY <1>3
    <3>. HIDE DEF X
    <3>. QED
      BY <3>1
  <2>. QED
    BY <2>1, <2>2 DEF InOrder, n
<1>6. /\ n \in Nat /\ o \in Seq(E) /\ Len(o) = n
      /\ \A x \in E : \E i \in 1 .. n : o[i] = x
      /\ \A i, j \in 1 .. n : i < j => <<o[i], o[j]>> \in R
  BY <1>2, <1>5, Ordered DEF n
<1>7. ASSUME NEW i \in 1 .. n, NEW j \in 1 .. n, i < j PROVE o[i] < o[j]
  <2>1. o[i] \in E /\ o[j] \in E
    BY <1>6
  <2>. QED
    BY <1>1, <1>6, <1>7, <2>1
<1>. QED
  BY <1>6, <1>7 DEF n

\* The first places of a sequence, which a fold takes up from the last one.
LEMMA FirstPlaces ==
  ASSUME NEW n \in Nat, NEW i \in 1 .. n
  PROVE  /\ (1 .. i) \in SUBSET (1 .. n) /\ (1 .. i) # {} /\ (1 .. (i - 1)) \in SUBSET (1 .. n)
         /\ Max(1 .. i) = i /\ (1 .. i) \ {Max(1 .. i)} = 1 .. (i - 1)
<1>1. i \in Nat /\ i \in 1 .. i /\ (1 .. i) \in SUBSET (1 .. n) /\ (1 .. (i - 1)) \in SUBSET (1 .. n)
  OBVIOUS
<1>2. Max(1 .. i) = i
  <2>1. \A y \in 1 .. i : i >= y
    BY <1>1
  <2>2. \A x \in 1 .. i : (\A y \in 1 .. i : x >= y) => x = i
    BY <1>1
  <2>. QED
    BY <1>1, <2>1, <2>2 DEF Max
<1>3. (1 .. i) \ {i} = 1 .. (i - 1)
  BY <1>1
<1>. QED
  BY <1>1, <1>2, <1>3

\* What a timeline looks like between two events.
Timelines ==
  [spans : SUBSET (Int \X Int), start : Int, prev : Int, minutes : Int, total : Int, longest : Int]

\* What banking a stretch changes: its minutes go to the total, and into the
\* longest if they are more.
LEMMA BankedIs ==
  ASSUME NEW acc \in Timelines
  PROVE  /\ Banked(acc) \in Timelines
         /\ Banked(acc).spans = acc.spans /\ Banked(acc).minutes = 0
         /\ Banked(acc).total = acc.total + acc.minutes
         /\ Banked(acc).longest = IF acc.minutes > acc.longest THEN acc.minutes ELSE acc.longest
<1>. PICK h, k : /\ h = IF acc.minutes > acc.longest THEN acc.minutes ELSE acc.longest
                 /\ k = acc.total + acc.minutes
  OBVIOUS
<1>1. h \in Int /\ k \in Int
  BY DEF Timelines
<1>2. Banked(acc) = [acc EXCEPT !.total = k, !.minutes = 0, !.longest = h]
  BY DEF Banked
<1>3. Banked(acc) \in Timelines
  <2>1. ASSUME NEW g \in Int, NEW l \in Int PROVE [acc EXCEPT !.total = g, !.minutes = 0, !.longest = l] \in Timelines
    <3>. PICK z : z = 0
      OBVIOUS
    <3>1. z \in Int
      OBVIOUS
    <3>2. [acc EXCEPT !.total = g, !.minutes = z, !.longest = l] \in Timelines
      BY <3>1 DEF Timelines
    <3>. QED
      BY <3>2
  <2>2. [acc EXCEPT !.total = k, !.minutes = 0, !.longest = h] \in Timelines
    BY <1>1, <2>1, Zenon
  <2>. QED
    BY <1>2, <2>2, Zenon
<1>4. Banked(acc).spans = acc.spans /\ Banked(acc).minutes = 0 /\ Banked(acc).longest = h
      /\ Banked(acc).total = k
  BY <1>1, <1>2 DEF Timelines
<1>. QED
  BY <1>3, <1>4

\* What closing a span adds to the spans.
LEMMA ClosedIs ==
  ASSUME NEW acc \in Timelines, NEW end \in Int
  PROVE  /\ Closed(acc, end) \in Timelines
         /\ Closed(acc, end).minutes = acc.minutes /\ Closed(acc, end).longest = acc.longest
         /\ Closed(acc, end).total = acc.total
         /\ Closed(acc, end).spans = acc.spans \cup (IF end > acc.start THEN {<<acc.start, end>>} ELSE {})
<1>1. <<acc.start, end>> \in Int \X Int
  BY DEF Timelines
<1>2. PICK s : s = acc.spans \cup {<<acc.start, end>>}
  OBVIOUS
<1>3. s \in SUBSET (Int \X Int)
  BY <1>1, <1>2 DEF Timelines
<1>4. CASE end > acc.start
  <2>1. Closed(acc, end) = [acc EXCEPT !.spans = s]
    BY <1>2, <1>4 DEF Closed
  <2>. QED
    BY <1>2, <1>3, <1>4, <2>1 DEF Timelines
<1>5. CASE ~(end > acc.start)
  BY <1>5 DEF Closed
<1>. QED
  BY <1>4, <1>5

\* What an event makes of it, field by field.
NextIs(next, acc, gap, t) ==
  /\ next \in Timelines /\ next.prev = t /\ gap \in Int
  /\ gap > WorkSessionGap =>
       /\ next.start = t /\ next.minutes = 0
       /\ next.spans = acc.spans \cup (IF acc.prev > acc.start THEN {<<acc.start, acc.prev>>} ELSE {})
       /\ next.longest = IF acc.minutes > acc.longest THEN acc.minutes ELSE acc.longest
  /\ next.total = acc.total + (IF gap > WorkSessionGap THEN acc.minutes ELSE 0)
  /\ gap > ActiveGapCap /\ gap <= WorkSessionGap =>
       /\ next.start = t /\ next.minutes = acc.minutes + ActiveGapCap /\ next.longest = acc.longest
       /\ next.spans = acc.spans \cup (IF acc.prev + ActiveGapCap > acc.start
                                       THEN {<<acc.start, acc.prev + ActiveGapCap>>} ELSE {})
  /\ gap <= ActiveGapCap =>
       /\ next.start = acc.start /\ next.minutes = acc.minutes + gap /\ next.longest = acc.longest
       /\ next.spans = acc.spans

\* That is what an event at t makes of it.
LEMMA NextEventIs ==
  ASSUME NEW acc \in Timelines, NEW t \in Int,
         NEW gap, gap = t - acc.prev, NEW next, next = NextEvent(acc, t)
  PROVE  NextIs(next, acc, gap, t)
<1>0. /\ ActiveGapCap \in Nat /\ WorkSessionGap \in Nat /\ gap \in Int /\ ActiveGapCap <= WorkSessionGap
      /\ acc.prev \in Int /\ acc.prev + ActiveGapCap \in Int /\ acc.total \in Int
  BY MetricsAssumption DEF Timelines
<1>1. CASE gap > WorkSessionGap
  <2>. PICK c, b : c = Closed(acc, acc.prev) /\ b = Banked(c)
    OBVIOUS
  <2>1. next = [b EXCEPT !.start = t, !.prev = t]
    BY <1>0, <1>1 DEF NextEvent, Opened
  <2>2. /\ c \in Timelines /\ c.minutes = acc.minutes /\ c.longest = acc.longest
        /\ c.total = acc.total
        /\ c.spans = acc.spans \cup (IF acc.prev > acc.start THEN {<<acc.start, acc.prev>>} ELSE {})
    BY <1>0, ClosedIs
  <2>3. /\ b \in Timelines /\ b.spans = c.spans /\ b.minutes = 0 /\ b.total = c.total + c.minutes
        /\ b.longest = IF c.minutes > c.longest THEN c.minutes ELSE c.longest
    BY <2>2, BankedIs
  <2>4. next \in Timelines /\ next.prev = t /\ next.start = t /\ next.minutes = b.minutes
        /\ next.longest = b.longest /\ next.spans = b.spans /\ next.total = b.total
    BY <2>1, <2>3 DEF Timelines
  <2>. QED
    BY <1>0, <1>1, <2>2, <2>3, <2>4 DEF NextIs
<1>2. CASE gap > ActiveGapCap /\ gap <= WorkSessionGap
  <2>. PICK c, m : c = Closed(acc, acc.prev + ActiveGapCap) /\ m = c.minutes + ActiveGapCap
    OBVIOUS
  <2>. PICK b : b = [c EXCEPT !.minutes = m]
    OBVIOUS
  <2>1. next = [b EXCEPT !.start = t, !.prev = t]
    BY <1>0, <1>2 DEF NextEvent, Opened
  <2>2. /\ c \in Timelines /\ c.minutes = acc.minutes /\ c.longest = acc.longest
        /\ c.total = acc.total
        /\ c.spans = acc.spans \cup (IF acc.prev + ActiveGapCap > acc.start
                                     THEN {<<acc.start, acc.prev + ActiveGapCap>>} ELSE {})
    BY <1>0, ClosedIs
  <2>3. m \in Int
    BY <1>0, <2>2 DEF Timelines
  <2>4. b \in Timelines /\ b.spans = c.spans /\ b.minutes = m /\ b.longest = c.longest
        /\ b.total = c.total
    BY <2>2, <2>3 DEF Timelines
  <2>5. next \in Timelines /\ next.prev = t /\ next.start = t /\ next.minutes = b.minutes
        /\ next.longest = b.longest /\ next.spans = b.spans /\ next.total = b.total
    BY <2>1, <2>4 DEF Timelines
  <2>. QED
    BY <1>0, <1>2, <2>2, <2>4, <2>5 DEF NextIs
<1>3. CASE gap <= ActiveGapCap
  <2>. PICK m : m = acc.minutes + gap
    OBVIOUS
  <2>1. next = [acc EXCEPT !.minutes = m, !.prev = t]
    BY <1>0, <1>3 DEF NextEvent
  <2>2. m \in Int
    BY <1>0 DEF Timelines
  <2>3. next \in Timelines /\ next.prev = t /\ next.start = acc.start /\ next.minutes = m
        /\ next.longest = acc.longest /\ next.spans = acc.spans /\ next.total = acc.total
    BY <2>1, <2>2 DEF Timelines
  <2>. QED
    BY <1>0, <1>3, <2>3 DEF NextIs
<1>. QED
  BY <1>0, <1>1, <1>2, <1>3 DEF NextIs

\* The timeline of a session, event by event.
FirstOf(o) == [spans |-> {}, start |-> o[1], prev |-> o[1], minutes |-> 0, total |-> 0, longest |-> 0]

TimelineOf(o) ==
  LET acc == FoldLeft(NextEvent, FirstOf(o), Tail(o)) IN Banked(Closed(acc, acc.prev))

UnrollsTimeline(c, o) ==
  c = [s \in SUBSET DOMAIN Tail(o) |->
         IF s = {} THEN FirstOf(o) ELSE NextEvent(c[s \ {Max(s)}], Tail(o)[Max(s)])]
LastOf(o) == (CHOOSE d : UnrollsTimeline(d, o))[DOMAIN Tail(o)]

\* Timeline folds the events of a session in order.
LEMMA TimelineIsFold ==
  ASSUME NEW E
  PROVE  \E o, c : /\ SortsNumbers(o, E) /\ c = LastOf(o)
                   /\ Timeline(E) = Banked(Closed(c, c.prev))
<1>. DEFINE o == Sorted(E, <)
            c == FoldLeft(NextEvent, FirstOf(o), Tail(o))
<1>1. SortsNumbers(o, E)
  BY DEF Sorted, SortsNumbers
<1>2. Timeline(E) = Banked(Closed(c, c.prev))
  BY DEF Timeline, FirstOf
<1>3. c = LastOf(o)
  BY DEF FoldLeft, MapThenFoldSet, UnrollsTimeline, LastOf
<1>. HIDE DEF o, c
<1>. QED
  BY <1>1, <1>2, <1>3

\* The fold goes through the events one after another.
LEMMA TimelineChain ==
  ASSUME NEW E, IsRow(E), NEW o, SortsNumbers(o, E), NEW n, n = Cardinality(E)
  PROVE  /\ n \in Nat \ {0}
         /\ \E a : /\ a[0] = FirstOf(o) /\ a[n - 1] = LastOf(o)
                   /\ \A i \in 1 .. n - 1 : a[i] = NextEvent(a[i - 1], o[i + 1])
<1>. DEFINE k == n - 1
            seq == Tail(o)
            F == [x \in (1 .. k) \X Timelines |-> NextEvent(x[2], seq[x[1]])]
            base == FirstOf(o)
<1>0. E \in SUBSET Nat /\ IsFiniteSet(E) /\ E # {}
  BY DEF IsRow
<1>1. n \in Nat /\ o \in Seq(E) /\ Len(o) = n /\ n # 0
  BY <1>0, SortedNumbers, FS_EmptySet
<1>. HIDE DEF F, base
<1>2. k \in Nat /\ DOMAIN seq = 1 .. k /\ o[1] \in Int
      /\ \A i \in 1 .. k : seq[i] = o[i + 1] /\ seq[i] \in Int
  <2>1. o # <<>>
    BY <1>1
  <2>2. seq \in Seq(E) /\ Len(seq) = k /\ \A i \in 1 .. Len(seq) : seq[i] = o[i + 1]
    BY <1>1, <2>1, HeadTailProperties
  <2>3. k \in Nat
    BY <1>1
  <2>. HIDE DEF k, seq
  <2>4. 1 \in 1 .. n /\ \A i \in 1 .. k : i + 1 \in 1 .. n
    BY <1>1 DEF k
  <2>5. \A j \in 1 .. n : o[j] \in Int
    <3>1. \A j \in 1 .. n : o[j] \in E
      BY <1>1
    <3>2. \A x \in E : x \in Int
      BY <1>0
    <3>. QED
      BY <3>1, <3>2
  <2>. QED
    BY <2>2, <2>3, <2>4, <2>5
<1>. HIDE DEF k, seq
<1>3. base \in Timelines
  <2>1. o[1] \in Int
    BY <1>2
  <2>. QED
    BY <2>1 DEF FirstOf, Timelines, base
<1>4. ASSUME NEW i \in 1 .. k, NEW r \in Timelines
      PROVE  F[<<i, r>>] = NextEvent(r, seq[i]) /\ NextEvent(r, seq[i]) \in Timelines
  <2>1. NextEvent(r, seq[i]) \in Timelines
    BY <1>2, NextEventIs DEF NextIs
  <2>. QED
    BY <2>1 DEF F
<1>5. PICK g : FoldsTo(g, F, base, k) /\ \A s \in SUBSET (1 .. k) : g[s] \in Timelines
  <2>1. ASSUME NEW i \in 1 .. k, NEW r \in Timelines PROVE F[<<i, r>>] \in Timelines
    BY <1>4, Zenon
  <2>2. k \in Nat
    BY <1>2
  <2>. QED
    BY <1>3, <2>1, <2>2, FoldsExist
<1>6. UnrollsTimeline(g, o)
  <2>1. ASSUME NEW s \in SUBSET (1 .. k)
        PROVE  FoldStep(g, F, base, s) = IF s = {} THEN base ELSE NextEvent(g[s \ {Max(s)}], seq[Max(s)])
    <3>1. CASE s = {}
      BY <3>1 DEF FoldStep
    <3>2. CASE s # {}
      <4>1. Max(s) \in 1 .. k /\ s \ {Max(s)} \in SUBSET (1 .. k)
        BY <1>2, <3>2, MaxOfSome
      <4>2. F[<<Max(s), g[s \ {Max(s)}]>>] = NextEvent(g[s \ {Max(s)}], seq[Max(s)])
        BY <1>4, <1>5, <4>1
      <4>. QED
        BY <3>2, <4>2 DEF FoldStep
    <3>. QED
      BY <3>1, <3>2
  <2>. QED
    BY <1>2, <1>5, <2>1 DEF FoldsTo, UnrollsTimeline, base, seq
<1>. PICK d : d = CHOOSE x : UnrollsTimeline(x, o)
  OBVIOUS
<1>7. UnrollsTimeline(d, o)
  BY <1>6
<1>8. \A s \in SUBSET (1 .. k) : d[s] = IF s = {} THEN base ELSE NextEvent(d[s \ {Max(s)}], seq[Max(s)])
  BY <1>2, <1>7 DEF UnrollsTimeline, base, seq
<1>. DEFINE a == [i \in 0 .. k |-> d[1 .. i]]
<1>9. a[0] = base
  <2>1. 1 .. 0 = {} /\ 0 \in 0 .. k
    BY <1>2
  <2>. QED
    BY <1>8, <2>1
<1>10. a[k] = LastOf(o)
  <2>1. k \in 0 .. k
    BY <1>2
  <2>2. LastOf(o) = d[DOMAIN seq]
    BY DEF LastOf, seq
  <2>. QED
    BY <1>2, <2>1, <2>2
<1>11. ASSUME NEW i \in 1 .. k PROVE a[i] = NextEvent(a[i - 1], seq[i])
  <2>1. i \in 0 .. k /\ i - 1 \in 0 .. k
    BY <1>2
  <2>2. PICK s : s = 1 .. i
    OBVIOUS
  <2>3. s \in SUBSET (1 .. k) /\ s # {} /\ Max(s) = i /\ s \ {Max(s)} = 1 .. (i - 1)
    BY <1>2, <2>2, FirstPlaces
  <2>4. d[s] = NextEvent(d[s \ {Max(s)}], seq[Max(s)])
    BY <1>8, <2>3
  <2>. QED
    BY <2>1, <2>2, <2>3, <2>4
<1>. HIDE DEF a
<1>12. ASSUME NEW i \in 1 .. k PROVE a[i] = NextEvent(a[i - 1], o[i + 1])
  BY <1>2, <1>11
<1>13. k = n - 1 /\ base = FirstOf(o)
  BY DEF base, k
<1>. QED
  BY <1>1, <1>9, <1>10, <1>12, <1>13

\* How many minutes the next event at u adds to the one at m.
Added(m, u) ==
  IF u - m > WorkSessionGap THEN 0 ELSE IF u - m > ActiveGapCap THEN ActiveGapCap ELSE u - m

AddedMinutes(m, u) == m .. m + Added(m, u) - 1

IsLatest(E, m) == m \in E /\ m \in Nat /\ \A t \in E : t <= m

\* An event after all the others adds the minutes since the last of them, up to
\* the caps, and nothing else.
LEMMA AddedIs ==
  ASSUME NEW E, IsRow(E), NEW m, IsLatest(E, m), NEW F, NEW u, F = E \cup {u}, IsLatest(F, u), u # m
  PROVE  /\ Added(m, u) \in Nat
         /\ ActiveMinutes(F) = ActiveMinutes(E) \cup AddedMinutes(m, u)
         /\ Cardinality(ActiveMinutes(F)) = Cardinality(ActiveMinutes(E)) + Added(m, u)
<1>0. E \in SUBSET Nat /\ IsFiniteSet(E) /\ m \in Nat /\ WorkSessionGap \in Nat /\ ActiveGapCap \in Nat
  BY MetricsAssumption DEF IsRow, IsLatest
<1>01. m \in E /\ (\A t \in E : t <= m) /\ u \in Nat /\ u > m
  BY DEF IsLatest
<1>. DEFINE k == Added(m, u)
            I == m .. m + k - 1
            A == ActiveMinutes(E)
<1>1. k \in Nat
  BY <1>0, <1>01 DEF Added
<1>2. Counted1(m, u) = I
  <2>1. SetMin({u, m + ActiveGapCap}) = IF u <= m + ActiveGapCap THEN u ELSE m + ActiveGapCap
    <3>1. u \in Int /\ m + ActiveGapCap \in Int
      BY <1>0, <1>01
    <3>. QED
      BY <3>1, OfTwo
  <2>. QED
    BY <1>0, <1>01, <2>1 DEF Counted1, Added
<1>. HIDE DEF k, A, I
<1>3. ActiveMinutes(E \cup {u}) = A \cup I /\ \A x \in A : x \in Nat /\ x < m
  <2>1. /\ ActiveMinutes(E \cup {u}) = ActiveMinutes(E) \cup Counted1(m, u)
        /\ \A x \in ActiveMinutes(E) : x \in Nat /\ x < m
    BY <1>0, <1>01, ActiveGrows
  <2>. QED
    BY <1>2, <2>1 DEF A
<1>4. IsFiniteSet(I) /\ Cardinality(I) = k
  <2>1. m \in Int /\ m + k - 1 \in Int
    BY <1>0, <1>1
  <2>2. IsFiniteSet(I) /\ Cardinality(I) = IF m > m + k - 1 THEN 0 ELSE (m + k - 1) - m + 1
    BY <2>1, FS_Interval DEF I
  <2>. QED
    BY <1>0, <1>1, <2>2
<1>5. IsFiniteSet(A) /\ Cardinality(A) \in Nat
  BY ActiveIsFinite DEF A
<1>6. A \cap I = {}
  BY <1>0, <1>1, <1>3 DEF I
<1>7. Cardinality(A \cup I) = Cardinality(A) + k
  <2>1. Cardinality(A \cup I) = Cardinality(A) + Cardinality(I) - Cardinality(A \cap I)
    BY <1>4, <1>5, FS_Union
  <2>2. Cardinality(A \cap I) = 0
    BY <1>6, FS_EmptySet
  <2>. QED
    BY <1>1, <1>4, <1>5, <2>1, <2>2
<1>. QED
  BY <1>1, <1>3, <1>7 DEF A, I, k, AddedMinutes

\* The minutes of some spans, and what a span is.
MinutesOf(spans) == UNION {s[1] .. s[2] - 1 : s \in spans}
IsSpan(s) == s \in Nat \X Nat /\ s[1] < s[2]

\* One more span adds its own minutes.
LEMMA MinutesOfMore ==
  ASSUME NEW spans, NEW a \in Nat, NEW b \in Nat
  PROVE  MinutesOf(spans \cup {<<a, b>>}) = MinutesOf(spans) \cup (a .. b - 1)
<1>. PICK s : s = <<a, b>>
  OBVIOUS
<1>1. s[1] = a /\ s[2] = b
  OBVIOUS
<1>2. MinutesOf(spans \cup {s}) = MinutesOf(spans) \cup (s[1] .. s[2] - 1)
  BY DEF MinutesOf
<1>. QED
  BY <1>1, <1>2

\* The timeline up to the event at p: its spans cover the active minutes, the
\* minutes since the last long gap are counted, the longest is no longer than
\* the endurance.
Upto(E, p) == {t \in E : t <= p}

TimelineFits(acc, E, p) ==
  /\ acc \in Timelines /\ acc.prev = p /\ acc.start \in Nat /\ acc.start <= p
  /\ IsFiniteSet(acc.spans) /\ \A s \in acc.spans : IsSpan(s)
  /\ MinutesOf(acc.spans) \cup (acc.start .. p - 1) = ActiveMinutes(Upto(E, p))
  /\ \E b \in E : /\ b <= p /\ Unbroken(Stretch(E, b, p))
                  /\ acc.minutes = Cardinality(ActiveMinutes(Stretch(E, b, p)))
  /\ acc.longest \in Nat /\ acc.longest <= EnduranceOf(E)

\* A stretch of one event.
LEMMA StretchOfOne ==
  ASSUME NEW E, IsRow(E), NEW t \in E
  PROVE  Unbroken(Stretch(E, t, t)) /\ Cardinality(ActiveMinutes(Stretch(E, t, t))) = 0
<1>0. t \in Nat /\ \A x \in E : x \in Nat
  BY DEF IsRow
<1>1. Stretch(E, t, t) = {t}
  <2>1. \A x \in E : t <= x /\ x <= t <=> x = t
    BY <1>0
  <2>. QED
    BY <2>1 DEF Stretch
<1>2. Unbroken({t})
  BY <1>0 DEF Unbroken
<1>3. ActiveMinutes({t}) = {}
  BY <1>0, ActiveOfOne
<1>. QED
  BY <1>1, <1>2, <1>3, FS_EmptySet

\* One more event in a stretch.
LEMMA StretchGrows ==
  ASSUME NEW E, IsRow(E), NEW b \in E, NEW p \in E, NEW t \in E, b <= p, p < t, \A x \in E : x > p => x >= t
  PROVE  /\ Stretch(E, b, t) = Stretch(E, b, p) \cup {t}
         /\ IsRow(Stretch(E, b, p)) /\ IsLatest(Stretch(E, b, p), p) /\ IsLatest(Stretch(E, b, t), t)
         /\ Unbroken(Stretch(E, b, p)) /\ t - p <= WorkSessionGap => Unbroken(Stretch(E, b, t))
         /\ Unbroken(Stretch(E, t, t)) /\ Cardinality(ActiveMinutes(Stretch(E, t, t))) = 0
<1>0. E \in SUBSET Nat /\ IsFiniteSet(E) /\ p \in Nat /\ t \in Nat /\ b \in Nat /\ WorkSessionGap \in Nat
  BY MetricsAssumption DEF IsRow
<1>01. \A x \in E : x \in Nat
  BY <1>0
<1>1. Stretch(E, b, t) = Stretch(E, b, p) \cup {t}
  <2>1. \A x \in E : x <= t <=> x <= p \/ x = t
    BY <1>0, <1>01
  <2>2. b <= t
    BY <1>0
  <2>. QED
    BY <2>1, <2>2 DEF Stretch
<1>2. p \in Stretch(E, b, p) /\ Stretch(E, b, p) \in SUBSET E /\ \A x \in Stretch(E, b, p) : x <= p
  BY <1>0 DEF Stretch
<1>3. IsRow(Stretch(E, b, p)) /\ IsLatest(Stretch(E, b, p), p) /\ IsLatest(Stretch(E, b, t), t)
  <2>1. IsFiniteSet(Stretch(E, b, p))
    BY <1>0, <1>2, FS_Subset
  <2>2. IsRow(Stretch(E, b, p)) /\ IsLatest(Stretch(E, b, p), p)
    BY <1>0, <1>2, <2>1 DEF IsRow, IsLatest
  <2>3. t \in Stretch(E, b, t) /\ \A x \in Stretch(E, b, t) : x <= t
    BY <1>0 DEF Stretch
  <2>. QED
    BY <1>0, <2>2, <2>3 DEF IsLatest
<1>4. ASSUME Unbroken(Stretch(E, b, p)), t - p <= WorkSessionGap PROVE Unbroken(Stretch(E, b, t))
  <2>. DEFINE S == Stretch(E, b, p)
  <2>1. \A x \in S : x \in Nat /\ x <= p
    BY <1>01, <1>2
  <2>2. ASSUME NEW x \in S \cup {t}, NEW u \in S \cup {t}, u > x
        PROVE  \E v \in S \cup {t} : v > x /\ v - x <= WorkSessionGap
    <3>1. CASE x = p
      BY <1>0, <1>4, <3>1
    <3>2. CASE x # p /\ x # t
      <4>1. x \in S /\ p > x
        BY <1>0, <2>1, <3>2
      <4>2. p \in S
        BY <1>2
      <4>. QED
        BY <1>4, <4>1, <4>2 DEF Unbroken
    <3>3. CASE x = t
      BY <1>0, <2>1, <2>2, <3>3
    <3>. QED
      BY <3>1, <3>2, <3>3
  <2>. HIDE DEF S
  <2>3. Unbroken(S \cup {t})
    BY <2>2 DEF Unbroken
  <2>. QED
    BY <1>1, <2>3 DEF S
<1>5. Unbroken(Stretch(E, t, t)) /\ Cardinality(ActiveMinutes(Stretch(E, t, t))) = 0
  BY StretchOfOne
<1>. QED
  BY <1>1, <1>2, <1>3, <1>4, <1>5

\* The next event of a session adds its minutes to those up to the one before.
LEMMA UptoGrows ==
  ASSUME NEW E, IsRow(E), NEW p \in E, NEW t \in E, p < t, \A x \in E : x > p => x >= t
  PROVE  /\ Added(p, t) \in Nat
         /\ ActiveMinutes(Upto(E, t)) = ActiveMinutes(Upto(E, p)) \cup AddedMinutes(p, t)
         /\ Cardinality(ActiveMinutes(Upto(E, t))) = Cardinality(ActiveMinutes(Upto(E, p))) + Added(p, t)
<1>. PICK U : U = Upto(E, p)
  OBVIOUS
<1>0. p \in Nat /\ t \in Nat /\ E \in SUBSET Nat /\ IsFiniteSet(E) /\ \A x \in E : x \in Nat
  BY DEF IsRow
<1>1. IsRow(U) /\ IsLatest(U, p)
  <2>1. p \in U /\ U \in SUBSET E /\ \A x \in U : x <= p
    BY <1>0 DEF Upto
  <2>2. IsFiniteSet(U)
    BY <1>0, <2>1, FS_Subset
  <2>. QED
    BY <1>0, <2>1, <2>2 DEF IsRow, IsLatest
<1>2. Upto(E, t) = U \cup {t} /\ IsLatest(Upto(E, t), t) /\ t # p
  <2>1. \A x \in E : x <= t <=> x <= p \/ x = t
    BY <1>0
  <2>. QED
    <3>1. Upto(E, t) = U \cup {t}
      BY <2>1 DEF Upto
    <3>2. t \in Upto(E, t) /\ (\A x \in Upto(E, t) : x <= t) /\ t # p
      BY <1>0 DEF Upto
    <3>. QED
      BY <1>0, <3>1, <3>2 DEF IsLatest
<1>3. /\ Added(p, t) \in Nat /\ ActiveMinutes(Upto(E, t)) = ActiveMinutes(U) \cup AddedMinutes(p, t)
      /\ Cardinality(ActiveMinutes(Upto(E, t))) = Cardinality(ActiveMinutes(U)) + Added(p, t)
  BY <1>1, <1>2, AddedIs
<1>. QED
  BY <1>3

\* The accumulator that fits the events up to one fits them up to the next,
\* after it was taken in.
LEMMA TimelineStep ==
  ASSUME NEW E, IsRow(E), NEW p \in E, NEW t \in E, p < t, \A x \in E : x > p => x >= t,
         NEW acc, TimelineFits(acc, E, p)
  PROVE  TimelineFits(NextEvent(acc, t), E, t)
<1>0. /\ p \in Nat /\ t \in Nat /\ WorkSessionGap \in Nat /\ ActiveGapCap \in Nat /\ ActiveGapCap # 0
      /\ ActiveGapCap <= WorkSessionGap
  BY MetricsAssumption DEF IsRow
<1>. PICK next, gap : next = NextEvent(acc, t) /\ gap = t - acc.prev
  OBVIOUS
<1>1. /\ acc \in Timelines /\ acc.prev = p /\ acc.start \in Nat /\ acc.start <= p
      /\ IsFiniteSet(acc.spans) /\ (\A s \in acc.spans : IsSpan(s))
      /\ MinutesOf(acc.spans) \cup (acc.start .. p - 1) = ActiveMinutes(Upto(E, p))
      /\ acc.longest \in Nat /\ acc.longest <= EnduranceOf(E)
  BY DEF TimelineFits
<1>. PICK b \in E : /\ b <= p /\ Unbroken(Stretch(E, b, p))
                    /\ acc.minutes = Cardinality(ActiveMinutes(Stretch(E, b, p)))
  BY DEF TimelineFits
<1>2. /\ Stretch(E, b, t) = Stretch(E, b, p) \cup {t}
      /\ IsRow(Stretch(E, b, p)) /\ IsLatest(Stretch(E, b, p), p) /\ IsLatest(Stretch(E, b, t), t)
      /\ t - p <= WorkSessionGap => Unbroken(Stretch(E, b, t))
      /\ Unbroken(Stretch(E, t, t)) /\ Cardinality(ActiveMinutes(Stretch(E, t, t))) = 0
  BY StretchGrows
<1>. DEFINE k == Added(p, t)
<1>3. /\ k \in Nat
      /\ ActiveMinutes(Upto(E, t)) = ActiveMinutes(Upto(E, p)) \cup (p .. p + k - 1)
      /\ Cardinality(ActiveMinutes(Stretch(E, b, t))) = acc.minutes + k
  <2>1. t # p
    BY <1>0
  <2>2. k \in Nat /\ ActiveMinutes(Upto(E, t)) = ActiveMinutes(Upto(E, p)) \cup (p .. p + k - 1)
    BY UptoGrows DEF AddedMinutes
  <2>3. Cardinality(ActiveMinutes(Stretch(E, b, t))) = acc.minutes + k
    BY <1>2, <2>1, AddedIs
  <2>. QED
    BY <1>2, <2>2, <2>3
<1>4. EnduranceOf(E) \in Nat /\ acc.minutes <= EnduranceOf(E) /\ acc.minutes \in Nat
  <2>1. acc.minutes \in Nat
    BY <1>2, ActiveIsFinite
  <2>. QED
    BY <2>1, EnduranceIsMost
<1>5. /\ next \in Timelines /\ next.prev = t /\ gap = t - p
      /\ gap > WorkSessionGap =>
           /\ next.start = t /\ next.minutes = 0
           /\ next.spans = acc.spans \cup (IF p > acc.start THEN {<<acc.start, p>>} ELSE {})
           /\ next.longest = IF acc.minutes > acc.longest THEN acc.minutes ELSE acc.longest
      /\ gap > ActiveGapCap /\ gap <= WorkSessionGap =>
           /\ next.start = t /\ next.minutes = acc.minutes + ActiveGapCap /\ next.longest = acc.longest
           /\ next.spans = acc.spans \cup (IF p + ActiveGapCap > acc.start
                                           THEN {<<acc.start, p + ActiveGapCap>>} ELSE {})
      /\ gap <= ActiveGapCap =>
           /\ next.start = acc.start /\ next.minutes = acc.minutes + gap /\ next.longest = acc.longest
           /\ next.spans = acc.spans
  <2>1. acc \in Timelines /\ t \in Int /\ gap = t - acc.prev /\ next = NextEvent(acc, t)
    BY <1>0, <1>1
  <2>0. NextIs(next, acc, gap, t)
    BY <2>1, NextEventIs
  <2>2. next \in Timelines /\ next.prev = t
    BY <2>0 DEF NextIs
  <2>5. gap > WorkSessionGap =>
             /\ next.start = t /\ next.minutes = 0
             /\ next.spans = acc.spans \cup (IF acc.prev > acc.start THEN {<<acc.start, acc.prev>>} ELSE {})
             /\ next.longest = IF acc.minutes > acc.longest THEN acc.minutes ELSE acc.longest
    BY <2>0 DEF NextIs
  <2>3. gap > ActiveGapCap /\ gap <= WorkSessionGap =>
             /\ next.start = t /\ next.minutes = acc.minutes + ActiveGapCap /\ next.longest = acc.longest
             /\ next.spans = acc.spans \cup (IF acc.prev + ActiveGapCap > acc.start
                                             THEN {<<acc.start, acc.prev + ActiveGapCap>>} ELSE {})
    BY <2>0 DEF NextIs
  <2>4. gap <= ActiveGapCap =>
             /\ next.start = acc.start /\ next.minutes = acc.minutes + gap /\ next.longest = acc.longest
             /\ next.spans = acc.spans
    BY <2>0 DEF NextIs
  <2>. QED
    BY <1>1, <2>2, <2>3, <2>4, <2>5
<1>. DEFINE S == acc.spans
            a == acc.start
<1>. HIDE DEF S
<1>6. ASSUME NEW e \in Nat, a < e
      PROVE  /\ IsFiniteSet(S \cup {<<a, e>>}) /\ \A s \in S \cup {<<a, e>>} : IsSpan(s)
             /\ MinutesOf(S \cup {<<a, e>>}) = MinutesOf(S) \cup (a .. e - 1)
  <2>1. IsSpan(<<a, e>>)
    BY <1>1, <1>6 DEF IsSpan
  <2>2. IsFiniteSet(S \cup {<<a, e>>})
    BY <1>1, FS_AddElement DEF S
  <2>3. \A s \in S \cup {<<a, e>>} : IsSpan(s)
    BY <1>1, <2>1 DEF S
  <2>4. MinutesOf(S \cup {<<a, e>>}) = MinutesOf(S) \cup (a .. e - 1)
    <3>1. a \in Nat
      BY <1>1
    <3>. QED
      BY <3>1, MinutesOfMore
  <2>. QED
    BY <2>2, <2>3, <2>4
<1>7. CASE gap > WorkSessionGap
  <2>1. k = 0 /\ next.start = t /\ next.minutes = 0
        /\ next.spans = S \cup (IF p > a THEN {<<a, p>>} ELSE {})
        /\ next.longest = IF acc.minutes > acc.longest THEN acc.minutes ELSE acc.longest
    BY <1>5, <1>7 DEF Added, S
  <2>. HIDE DEF k
  <2>2. next.longest \in Nat /\ next.longest <= EnduranceOf(E)
    BY <1>1, <1>4, <2>1
  <2>3. /\ IsFiniteSet(next.spans) /\ \A s \in next.spans : IsSpan(s)
        /\ MinutesOf(next.spans) = MinutesOf(S) \cup (a .. p - 1)
    <3>1. CASE p > a
      <4>1. next.spans = S \cup {<<a, p>>} /\ a < p
        BY <1>0, <1>1, <2>1, <3>1
      <4>. QED
        BY <1>0, <1>6, <4>1
    <3>2. CASE ~(p > a)
      <4>1. a .. p - 1 = {} /\ next.spans = S
        BY <1>0, <1>1, <2>1, <3>2
      <4>. QED
        BY <1>1, <4>1 DEF S
    <3>. QED
      BY <3>1, <3>2
  <2>4. MinutesOf(next.spans) \cup (t .. t - 1) = ActiveMinutes(Upto(E, t))
    <3>1. t .. t - 1 = {} /\ p .. p + k - 1 = {}
      BY <1>0, <2>1
    <3>2. MinutesOf(S) \cup (a .. p - 1) = ActiveMinutes(Upto(E, p))
      BY <1>1 DEF S
    <3>. QED
      BY <1>3, <2>3, <3>1, <3>2
  <2>5. t <= t /\ next.minutes = Cardinality(ActiveMinutes(Stretch(E, t, t)))
    BY <1>0, <1>2, <2>1
  <2>. QED
    BY <1>0, <1>2, <1>5, <2>1, <2>2, <2>3, <2>4, <2>5 DEF TimelineFits
<1>8. CASE gap > ActiveGapCap /\ gap <= WorkSessionGap
  <2>0. k = ActiveGapCap /\ p + k \in Nat /\ a < p + k
    BY <1>0, <1>1, <1>5, <1>8 DEF Added
  <2>1. /\ next.start = t /\ next.minutes = acc.minutes + k /\ next.longest = acc.longest
        /\ next.spans = S \cup {<<a, p + k>>}
    BY <1>0, <1>1, <1>5, <1>8, <2>0 DEF S
  <2>. HIDE DEF k
  <2>3. /\ IsFiniteSet(next.spans) /\ \A s \in next.spans : IsSpan(s)
        /\ MinutesOf(next.spans) = MinutesOf(S) \cup (a .. p + k - 1)
    <3>. PICK e : e = p + k
      OBVIOUS
    <3>1. e \in Nat /\ a < e /\ next.spans = S \cup {<<a, e>>}
      BY <2>0, <2>1
    <3>2. /\ IsFiniteSet(next.spans) /\ \A s \in next.spans : IsSpan(s)
          /\ MinutesOf(next.spans) = MinutesOf(S) \cup (a .. e - 1)
      BY <1>6, <3>1
    <3>3. e - 1 = p + k - 1
      BY <1>0, <1>3
    <3>. QED
      BY <3>2, <3>3, Zenon
  <2>4. MinutesOf(next.spans) \cup (t .. t - 1) = ActiveMinutes(Upto(E, t))
    <3>1. t .. t - 1 = {} /\ a .. p + k - 1 = (a .. p - 1) \cup (p .. p + k - 1)
      BY <1>0, <1>1, <1>3
    <3>2. MinutesOf(S) \cup (a .. p - 1) = ActiveMinutes(Upto(E, p))
      BY <1>1 DEF S
    <3>. QED
      BY <1>3, <2>3, <3>1, <3>2
  <2>5. b <= t /\ Unbroken(Stretch(E, b, t)) /\ next.minutes = Cardinality(ActiveMinutes(Stretch(E, b, t)))
    <3>1. b \in Nat
      BY DEF IsRow
    <3>. QED
      BY <1>0, <1>2, <1>3, <1>5, <1>8, <2>1, <3>1
  <2>. QED
    BY <1>0, <1>1, <1>5, <2>1, <2>3, <2>4, <2>5 DEF TimelineFits
<1>9. CASE gap <= ActiveGapCap
  <2>0. k = gap /\ p + k = t /\ a <= t
    BY <1>0, <1>1, <1>5, <1>9 DEF Added
  <2>1. /\ next.start = a /\ next.minutes = acc.minutes + k /\ next.longest = acc.longest
        /\ next.spans = S
    BY <1>5, <1>9, <2>0 DEF S
  <2>. HIDE DEF k
  <2>4. MinutesOf(next.spans) \cup (a .. t - 1) = ActiveMinutes(Upto(E, t))
    <3>1. a .. t - 1 = (a .. p - 1) \cup (p .. p + k - 1)
      BY <1>0, <1>1, <1>3, <2>0
    <3>2. MinutesOf(S) \cup (a .. p - 1) = ActiveMinutes(Upto(E, p))
      BY <1>1 DEF S
    <3>. QED
      BY <1>3, <2>1, <3>1, <3>2
  <2>5. b <= t /\ Unbroken(Stretch(E, b, t)) /\ next.minutes = Cardinality(ActiveMinutes(Stretch(E, b, t)))
    <3>1. b \in Nat
      BY DEF IsRow
    <3>. QED
      BY <1>0, <1>2, <1>3, <1>5, <1>9, <2>1, <3>1
  <2>. QED
    BY <1>0, <1>1, <1>5, <2>0, <2>1, <2>4, <2>5 DEF TimelineFits, S
<1>10. gap \in Int
  BY <1>0, <1>5
<1>. QED
  BY <1>0, <1>7, <1>8, <1>9, <1>10

\* After the first event of a session.
LEMMA TimelineBegins ==
  ASSUME NEW E, IsRow(E), NEW o, o[1] \in E, \A x \in E : x >= o[1]
  PROVE  TimelineFits(FirstOf(o), E, o[1])
<1>. PICK p, acc : p = o[1] /\ acc = FirstOf(o)
  OBVIOUS
<1>0. p \in Nat /\ p \in E /\ \A x \in E : x \in Nat
  BY DEF IsRow
<1>1. /\ acc \in Timelines /\ acc.prev = p /\ acc.start = p /\ acc.spans = {} /\ acc.minutes = 0
      /\ acc.longest = 0
  BY <1>0 DEF FirstOf, Timelines
<1>2. ActiveMinutes(Upto(E, p)) = {}
  <2>1. \A x \in E : x <= p <=> x = p
    BY <1>0
  <2>2. Upto(E, p) = {p}
    BY <1>0, <2>1 DEF Upto
  <2>. QED
    BY <1>0, <2>2, ActiveOfOne
<1>3. MinutesOf(acc.spans) \cup (acc.start .. p - 1) = ActiveMinutes(Upto(E, p))
  <2>1. MinutesOf({}) = {}
    BY DEF MinutesOf
  <2>2. p .. p - 1 = {}
    BY <1>0
  <2>. QED
    BY <1>1, <1>2, <2>1, <2>2
<1>4. p <= p /\ Unbroken(Stretch(E, p, p)) /\ Cardinality(ActiveMinutes(Stretch(E, p, p))) = 0
  BY <1>0, StretchOfOne
<1>5. IsFiniteSet(acc.spans) /\ \A s \in acc.spans : IsSpan(s)
  BY <1>1, FS_EmptySet
<1>6. EnduranceOf(E) \in Nat
  BY EnduranceIsMost
<1>7. acc.longest \in Nat /\ acc.longest <= EnduranceOf(E)
  BY <1>1, <1>6
<1>8. TimelineFits(acc, E, p)
  BY <1>0, <1>1, <1>3, <1>4, <1>5, <1>7 DEF TimelineFits
<1>. QED
  BY <1>8

\* The minutes counted up to the event at p: all of them; and no stretch has more
\* than the one that goes on, or than the longest if it is over.
CountsAll(acc, E, p) ==
  /\ acc.total \in Nat /\ acc.minutes \in Nat
  /\ acc.total + acc.minutes = Cardinality(ActiveMinutes(Upto(E, p)))
  /\ \A a, d \in E : a <= d /\ d <= p /\ Unbroken(Stretch(E, a, d)) =>
       \/ Cardinality(ActiveMinutes(Stretch(E, a, d))) <= acc.minutes
       \/ d < p /\ Cardinality(ActiveMinutes(Stretch(E, a, d))) <= acc.longest

\* The next event of a stretch ends it, or goes on with it.
LEMMA StretchGoesOn ==
  ASSUME NEW E, IsRow(E), NEW a \in E, NEW p \in E, NEW t \in E, a <= p, p < t, \A x \in E : x > p => x >= t,
         Unbroken(Stretch(E, a, t))
  PROVE  t - p <= WorkSessionGap /\ Unbroken(Stretch(E, a, p))
<1>0. p \in Nat /\ t \in Nat /\ a \in Nat /\ WorkSessionGap \in Nat /\ \A x \in E : x \in Nat
  BY MetricsAssumption DEF IsRow
<1>1. /\ \A x \in Stretch(E, a, p) : x \in Nat /\ x <= p /\ x \in Stretch(E, a, t)
      /\ p \in Stretch(E, a, p) /\ t \in Stretch(E, a, t) /\ p \in Stretch(E, a, t)
  BY <1>0 DEF Stretch
<1>2. \A x \in Stretch(E, a, t) : x \in Nat /\ (x > p => x = t) /\ (x <= p => x \in Stretch(E, a, p))
  BY <1>0 DEF Stretch
<1>. PICK S, T : S = Stretch(E, a, p) /\ T = Stretch(E, a, t)
  OBVIOUS
<1>3. \A x \in T : (\E u \in T : u > x) => \E u \in T : u > x /\ u - x <= WorkSessionGap
  BY DEF Unbroken
<1>4. t - p <= WorkSessionGap
  <2>1. p \in T /\ t \in T /\ t > p
    BY <1>0, <1>1
  <2>2. PICK u \in T : u > p /\ u - p <= WorkSessionGap
    BY <1>3, <2>1
  <2>. QED
    BY <1>2, <2>2
<1>5. ASSUME NEW x \in S, NEW v \in S, v > x
      PROVE  \E u \in S : u > x /\ u - x <= WorkSessionGap
  <2>1. x \in T /\ v \in T /\ x \in Nat /\ v \in Nat /\ v <= p /\ p \in S
    BY <1>1
  <2>2. PICK u \in T : u > x /\ u - x <= WorkSessionGap
    BY <1>3, <1>5, <2>1
  <2>3. CASE u <= p
    BY <1>2, <2>2, <2>3
  <2>4. CASE u > p
    <3>1. u = t
      BY <1>2, <2>4
    <3>2. p > x /\ p - x <= WorkSessionGap
      BY <1>0, <1>5, <2>1, <2>2, <3>1
    <3>. QED
      BY <2>1, <3>2
  <2>. QED
    BY <1>0, <1>2, <2>3, <2>4
<1>. QED
  BY <1>4, <1>5 DEF Unbroken

\* What was counted up to one event is counted up to the next.
LEMMA CountsOn ==
  ASSUME NEW E, IsRow(E), NEW p \in E, NEW t \in E, p < t, \A x \in E : x > p => x >= t,
         NEW acc, TimelineFits(acc, E, p), CountsAll(acc, E, p)
  PROVE  CountsAll(NextEvent(acc, t), E, t)
<1>0. /\ p \in Nat /\ t \in Nat /\ WorkSessionGap \in Nat /\ ActiveGapCap \in Nat
      /\ ActiveGapCap <= WorkSessionGap /\ \A x \in E : x \in Nat
  BY MetricsAssumption DEF IsRow
<1>. PICK next, gap, k : next = NextEvent(acc, t) /\ gap = t - acc.prev /\ k = Added(p, t)
  OBVIOUS
<1>1. acc \in Timelines /\ acc.prev = p /\ acc.longest \in Nat /\ gap = t - p
  BY DEF TimelineFits
<1>2. acc.total \in Nat /\ acc.minutes \in Nat
      /\ acc.total + acc.minutes = Cardinality(ActiveMinutes(Upto(E, p)))
  BY DEF CountsAll
<1>3. /\ next.total = acc.total + (IF gap > WorkSessionGap THEN acc.minutes ELSE 0)
      /\ gap > WorkSessionGap => next.minutes = 0 /\ k = 0
           /\ next.longest = IF acc.minutes > acc.longest THEN acc.minutes ELSE acc.longest
      /\ gap <= WorkSessionGap => next.minutes = acc.minutes + k /\ next.longest = acc.longest
  <2>1. acc \in Timelines /\ t \in Int /\ gap = t - acc.prev /\ next = NextEvent(acc, t)
    BY <1>0, <1>1
  <2>0. NextIs(next, acc, gap, t)
    BY <2>1, NextEventIs
  <2>2. gap > WorkSessionGap => next.minutes = 0
           /\ next.longest = IF acc.minutes > acc.longest THEN acc.minutes ELSE acc.longest
    BY <2>0 DEF NextIs
  <2>3. gap > ActiveGapCap /\ gap <= WorkSessionGap =>
          next.minutes = acc.minutes + ActiveGapCap /\ next.longest = acc.longest
    BY <2>0 DEF NextIs
  <2>4. gap <= ActiveGapCap => next.minutes = acc.minutes + gap /\ next.longest = acc.longest
    BY <2>0 DEF NextIs
  <2>5. next.total = acc.total + (IF gap > WorkSessionGap THEN acc.minutes ELSE 0)
    BY <2>0 DEF NextIs
  <2>6. k = IF gap > WorkSessionGap THEN 0 ELSE IF gap > ActiveGapCap THEN ActiveGapCap ELSE gap
    BY <1>1 DEF Added
  <2>7. gap \in Int
    BY <1>0, <1>1
  <2>. QED
    BY <1>0, <2>2, <2>3, <2>4, <2>5, <2>6, <2>7
<1>4. k \in Nat /\ Cardinality(ActiveMinutes(Upto(E, t))) = Cardinality(ActiveMinutes(Upto(E, p))) + k
  BY UptoGrows
<1>5. gap \in Int
  BY <1>0, <1>1
<1>6. /\ next.total \in Nat /\ next.minutes \in Nat
      /\ next.total + next.minutes = Cardinality(ActiveMinutes(Upto(E, t)))
  <2>1. CASE gap > WorkSessionGap
    BY <1>2, <1>3, <1>4, <2>1
  <2>2. CASE gap <= WorkSessionGap
    BY <1>2, <1>3, <1>4, <2>2
  <2>. QED
    BY <1>0, <1>5, <2>1, <2>2
<1>7. ASSUME NEW a \in E, NEW d \in E, a <= d, d <= t, Unbroken(Stretch(E, a, d)),
             NEW c, c = Cardinality(ActiveMinutes(Stretch(E, a, d)))
      PROVE  c <= next.minutes \/ (d < t /\ c <= next.longest)
  <2>0. a \in Nat /\ d \in Nat
    BY <1>0
  <2>1. CASE d <= p
    <3>1. c <= acc.minutes \/ c <= acc.longest
      BY <1>7, <2>1 DEF CountsAll
    <3>2. c \in Nat
      <4>1. IsRow(Stretch(E, a, d))
        <5>1. d \in Stretch(E, a, d) /\ Stretch(E, a, d) \in SUBSET E
          BY <1>7, <2>0 DEF Stretch
        <5>2. IsFiniteSet(Stretch(E, a, d))
          BY <5>1, FS_Subset DEF IsRow
        <5>. QED
          BY <5>1, <5>2 DEF IsRow
      <4>. QED
        BY <1>7, <4>1, ActiveIsFinite
    <3>3. d < t
      BY <1>0, <2>0, <2>1
    <3>4. CASE gap > WorkSessionGap
      BY <1>1, <1>2, <1>3, <3>1, <3>2, <3>3, <3>4
    <3>5. CASE gap <= WorkSessionGap
      BY <1>1, <1>2, <1>3, <1>4, <3>1, <3>2, <3>3, <3>5
    <3>. QED
      BY <1>0, <1>5, <3>4, <3>5
  <2>2. CASE d = t /\ a = t
    <3>1. c = 0
      BY <1>7, <2>2, StretchOfOne
    <3>. QED
      BY <1>6, <3>1
  <2>3. CASE d = t /\ a # t
    <3>1. a <= p
      BY <1>0, <1>7, <2>0, <2>3
    <3>2. gap <= WorkSessionGap /\ Unbroken(Stretch(E, a, p))
      BY <1>1, <1>7, <2>3, <3>1, StretchGoesOn
    <3>3. /\ Stretch(E, a, t) = Stretch(E, a, p) \cup {t}
          /\ IsRow(Stretch(E, a, p)) /\ IsLatest(Stretch(E, a, p), p) /\ IsLatest(Stretch(E, a, t), t)
      BY <3>1, StretchGrows
    <3>. PICK e : e = Cardinality(ActiveMinutes(Stretch(E, a, p)))
      OBVIOUS
    <3>4. c = e + k
      <4>1. t # p
        BY <1>0
      <4>. QED
        BY <1>7, <2>3, <3>3, <4>1, AddedIs
    <3>5. e \in Nat /\ e <= acc.minutes
      <4>1. e \in Nat
        BY <3>3, ActiveIsFinite
      <4>2. p <= p /\ ~(p < p)
        BY <1>0
      <4>. QED
        BY <3>1, <3>2, <4>1, <4>2 DEF CountsAll
    <3>. QED
      BY <1>2, <1>3, <1>4, <3>2, <3>4, <3>5
  <2>. QED
    BY <1>0, <1>7, <2>0, <2>1, <2>2, <2>3
<1>. QED
  BY <1>6, <1>7 DEF CountsAll

\* After the first event there is nothing to count.
LEMMA CountsBegin ==
  ASSUME NEW E, IsRow(E), NEW o, o[1] \in E, \A x \in E : x >= o[1]
  PROVE  CountsAll(FirstOf(o), E, o[1])
<1>. PICK p, acc : p = o[1] /\ acc = FirstOf(o)
  OBVIOUS
<1>0. p \in Nat /\ p \in E /\ (\A x \in E : x \in Nat) /\ \A x \in E : x <= p <=> x = p
  <2>1. p \in E /\ (\A x \in E : x \in Nat) /\ \A x \in E : x >= p
    BY DEF IsRow
  <2>. QED
    BY <2>1
<1>1. acc.total = 0 /\ acc.minutes = 0
  BY DEF FirstOf
<1>2. Cardinality(ActiveMinutes(Upto(E, p))) = 0
  <2>1. Upto(E, p) = {p}
    BY <1>0 DEF Upto
  <2>. QED
    BY <1>0, <2>1, ActiveOfOne, FS_EmptySet
<1>3. ASSUME NEW a \in E, NEW d \in E, a <= d, d <= p
      PROVE  Cardinality(ActiveMinutes(Stretch(E, a, d))) <= acc.minutes
  <2>1. d = p /\ a = p
    BY <1>0, <1>3
  <2>. QED
    BY <1>0, <1>1, <2>1, StretchOfOne
<1>4. CountsAll(acc, E, p)
  BY <1>1, <1>2, <1>3 DEF CountsAll
<1>. QED
  BY <1>4

\* After the last one.
LEMMA TimelineEnds ==
  ASSUME NEW E, IsRow(E), NEW p, IsLatest(E, p), NEW acc, TimelineFits(acc, E, p),
         CountsAll(acc, E, p), NEW T, T = Banked(Closed(acc, acc.prev))
  PROVE  /\ IsFiniteSet(T.spans) /\ \A s \in T.spans : IsSpan(s)
         /\ MinutesOf(T.spans) = ActiveMinutes(E)
         /\ T.total = Cardinality(ActiveMinutes(E)) /\ T.longest = EnduranceOf(E)
<1>. PICK c : c = Closed(acc, acc.prev)
  OBVIOUS
<1>0. p \in Nat /\ p \in E /\ (\A x \in E : x <= p)
  BY DEF IsLatest
<1>1. /\ acc \in Timelines /\ acc.prev = p /\ acc.start \in Nat /\ acc.start <= p
      /\ IsFiniteSet(acc.spans) /\ (\A s \in acc.spans : IsSpan(s))
      /\ MinutesOf(acc.spans) \cup (acc.start .. p - 1) = ActiveMinutes(Upto(E, p))
      /\ acc.longest \in Nat /\ acc.longest <= EnduranceOf(E)
  BY DEF TimelineFits
<1>. PICK b \in E : /\ b <= p /\ Unbroken(Stretch(E, b, p))
                    /\ acc.minutes = Cardinality(ActiveMinutes(Stretch(E, b, p)))
  BY DEF TimelineFits
<1>2. acc.minutes \in Nat /\ acc.minutes <= EnduranceOf(E)
  <2>1. acc.minutes <= EnduranceOf(E)
    BY <1>0, EnduranceIsMost
  <2>2. Stretch(E, b, p) \in SUBSET E /\ b \in Stretch(E, b, p)
    <3>1. b <= b
      BY DEF IsRow
    <3>. QED
      BY <3>1 DEF Stretch
  <2>3. IsRow(Stretch(E, b, p))
    <3>1. IsFiniteSet(Stretch(E, b, p))
      BY <2>2, FS_Subset DEF IsRow
    <3>. QED
      BY <2>2, <3>1 DEF IsRow
  <2>. QED
    BY <2>1, <2>3, ActiveIsFinite
<1>3. Upto(E, p) = E
  BY <1>0 DEF Upto
<1>4. /\ c \in Timelines /\ c.minutes = acc.minutes /\ c.longest = acc.longest
      /\ c.total = acc.total
      /\ c.spans = acc.spans \cup (IF p > acc.start THEN {<<acc.start, p>>} ELSE {})
  <2>1. p \in Int
    BY <1>0
  <2>. QED
    BY <1>1, <2>1, ClosedIs
<1>5. /\ T.spans = c.spans /\ T.total = acc.total + acc.minutes
      /\ T.longest = IF acc.minutes > acc.longest THEN acc.minutes ELSE acc.longest
  BY <1>4, BankedIs
<1>6. /\ IsFiniteSet(T.spans) /\ (\A s \in T.spans : IsSpan(s))
      /\ MinutesOf(T.spans) = MinutesOf(acc.spans) \cup (acc.start .. p - 1)
  <2>. PICK S, a : S = acc.spans /\ a = acc.start
    OBVIOUS
  <2>1. CASE p > a
    <3>1. T.spans = S \cup {<<a, p>>}
      BY <1>4, <1>5, <2>1
    <3>2. IsSpan(<<a, p>>)
      BY <1>0, <1>1, <2>1 DEF IsSpan
    <3>3. IsFiniteSet(S \cup {<<a, p>>})
      BY <1>1, FS_AddElement
    <3>4. MinutesOf(S \cup {<<a, p>>}) = MinutesOf(S) \cup (a .. p - 1)
      <4>1. a \in Nat /\ p \in Nat
        BY <1>0, <1>1
      <4>. QED
        BY <4>1, MinutesOfMore
    <3>. QED
      BY <1>1, <3>1, <3>2, <3>3, <3>4
  <2>2. CASE ~(p > a)
    <3>1. T.spans = S
      BY <1>4, <1>5, <2>2
    <3>2. a .. p - 1 = {}
      BY <1>0, <1>1, <2>2
    <3>. QED
      BY <1>1, <3>1, <3>2
  <2>. QED
    BY <2>1, <2>2
<1>7. T.longest \in Nat /\ T.longest <= EnduranceOf(E)
  BY <1>1, <1>2, <1>5
<1>8. T.total = Cardinality(ActiveMinutes(E))
  BY <1>3, <1>5 DEF CountsAll
<1>9. EnduranceOf(E) \in Nat /\ EnduranceOf(E) <= T.longest
  <2>1. EnduranceOf(E) \in Nat
    BY EnduranceIsMost
  <2>2. PICK u, d \in E : /\ Unbroken(Stretch(E, u, d))
                          /\ EnduranceOf(E) = Cardinality(ActiveMinutes(Stretch(E, u, d)))
    BY EnduranceIsMost
  <2>3. u \in Nat /\ d \in Nat /\ d <= p
    BY <1>0 DEF IsRow
  <2>4. CASE u <= d
    <3>1. EnduranceOf(E) <= acc.minutes \/ EnduranceOf(E) <= acc.longest
      BY <2>2, <2>3, <2>4 DEF CountsAll
    <3>. QED
      BY <1>1, <1>2, <1>5, <2>1, <3>1
  <2>5. CASE d < u
    <3>1. \A x \in E : ~(u <= x /\ x <= d)
      BY <2>3, <2>5 DEF IsRow
    <3>2. Stretch(E, u, d) = {}
      BY <3>1 DEF Stretch
    <3>3. ActiveMinutes({}) = {}
      BY DEF ActiveMinutes
    <3>4. EnduranceOf(E) = 0
      BY <2>2, <3>2, <3>3, FS_EmptySet
    <3>. QED
      BY <1>7, <3>4
  <2>. QED
    BY <2>3, <2>4, <2>5
<1>10. T.longest = EnduranceOf(E)
  BY <1>7, <1>9
<1>. QED
  BY <1>1, <1>3, <1>6, <1>8, <1>10

\* metrics_from_records: the spans of a session cover its active minutes and
\* nothing else, whatever events it has; its total is how many they are, and its
\* longest session how many the longest stretch without a long gap has.
THEOREM TimelineIsRight ==
  ASSUME NEW E, IsRow(E), NEW T, T = Timeline(E)
  PROVE  /\ IsFiniteSet(T.spans) /\ \A s \in T.spans : IsSpan(s)
         /\ MinutesOf(T.spans) = ActiveMinutes(E)
         /\ T.total = Cardinality(ActiveMinutes(E)) /\ T.longest = EnduranceOf(E)
<1>. PICK o, c : /\ SortsNumbers(o, E) /\ c = LastOf(o)
                 /\ T = Banked(Closed(c, c.prev))
  BY TimelineIsFold
<1>. PICK n : n = Cardinality(E)
  OBVIOUS
<1>. DEFINE Fits(x, p) == TimelineFits(x, E, p) /\ CountsAll(x, E, p)
<1>0. E \in SUBSET Nat /\ IsFiniteSet(E)
  BY DEF IsRow
<1>1. /\ (\A i \in 1 .. n : o[i] \in E /\ o[i] \in Nat)
      /\ (\A x \in E : \E i \in 1 .. n : o[i] = x)
      /\ \A i, j \in 1 .. n : i < j => o[i] < o[j]
  <2>1. /\ o \in Seq(E) /\ Len(o) = n
        /\ (\A x \in E : \E i \in 1 .. n : o[i] = x)
        /\ \A i, j \in 1 .. n : i < j => o[i] < o[j]
    BY <1>0, SortedNumbers
  <2>2. \A i \in 1 .. n : o[i] \in E
    BY <2>1
  <2>. QED
    BY <1>0, <2>1, <2>2
<1>2. n \in Nat \ {0}
  BY TimelineChain
<1>3. PICK a : /\ a[0] = FirstOf(o) /\ a[n - 1] = LastOf(o)
               /\ \A i \in 1 .. n - 1 : a[i] = NextEvent(a[i - 1], o[i + 1])
  BY TimelineChain
<1>4. ASSUME NEW i \in 1 .. n - 1
      PROVE  /\ o[i] \in E /\ o[i + 1] \in E /\ o[i] < o[i + 1]
             /\ \A x \in E : x > o[i] => x >= o[i + 1]
  <2>1. i \in 1 .. n /\ i + 1 \in 1 .. n /\ i < i + 1
    BY <1>2
  <2>2. o[i] \in E /\ o[i + 1] \in E /\ o[i] < o[i + 1] /\ o[i] \in Nat /\ o[i + 1] \in Nat
    BY <1>1, <2>1
  <2>3. ASSUME NEW x \in E, x > o[i] PROVE x >= o[i + 1]
    <3>1. PICK j \in 1 .. n : o[j] = x
      BY <1>1
    <3>2. CASE j < i
      <4>1. o[j] < o[i] /\ o[j] \in Nat
        BY <1>1, <2>1, <3>2
      <4>. QED
        BY <2>2, <2>3, <3>1, <4>1
    <3>3. CASE j = i
      BY <2>2, <2>3, <3>1, <3>3
    <3>4. CASE j = i + 1
      BY <2>2, <3>1, <3>4
    <3>5. CASE i + 1 < j
      <4>1. o[i + 1] < o[j] /\ o[j] \in Nat
        BY <1>1, <2>1, <3>5
      <4>. QED
        BY <2>2, <3>1, <4>1
    <3>. QED
      BY <2>1, <3>2, <3>3, <3>4, <3>5
  <2>. QED
    BY <2>2, <2>3
<1>5. ASSUME NEW i \in 0 .. n - 1 PROVE Fits(a[i], o[i + 1])
  <2>. DEFINE Bad == {j \in 0 .. n - 1 : ~Fits(a[j], o[j + 1])}
  <2>. SUFFICES ASSUME Bad # {} PROVE FALSE
    OBVIOUS
  <2>1. PICK j \in Bad : \A k \in Bad : j <= k
    <3>1. Bad \in SUBSET Nat
      OBVIOUS
    <3>. HIDE DEF Bad
    <3>. QED
      BY <3>1, LeastNumber
  <2>2. CASE j = 0
    <3>1. o[1] \in E /\ \A x \in E : x >= o[1]
      <4>1. 1 \in 1 .. n /\ o[1] \in E /\ o[1] \in Nat
        BY <1>1, <1>2
      <4>2. ASSUME NEW x \in E PROVE x >= o[1]
        <5>1. PICK k \in 1 .. n : o[k] = x
          BY <1>1
        <5>2. CASE k = 1
          BY <4>1, <5>1, <5>2
        <5>3. CASE 1 < k
          <6>1. o[1] < o[k] /\ o[k] \in Nat
            BY <1>1, <4>1, <5>3
          <6>. QED
            BY <4>1, <5>1, <6>1
        <5>. QED
          BY <5>2, <5>3
      <4>. QED
        BY <4>1, <4>2
    <3>2. Fits(FirstOf(o), o[1])
      BY <3>1, TimelineBegins, CountsBegin
    <3>3. j + 1 = 1
      BY <2>2
    <3>. QED
      BY <1>3, <2>1, <2>2, <3>2, <3>3
  <2>3. CASE j # 0
    <3>1. j \in 1 .. n - 1 /\ j - 1 \in 0 .. n - 1 /\ (j - 1) + 1 = j /\ ~(j <= j - 1)
      BY <1>2, <2>3
    <3>2. Fits(a[j - 1], o[j])
      <4>1. j - 1 \notin Bad
        BY <2>1, <3>1
      <4>. QED
        BY <3>1, <4>1
    <3>3. a[j] = NextEvent(a[j - 1], o[j + 1])
      BY <1>3, <3>1
    <3>4. Fits(a[j], o[j + 1])
      <4>1. /\ o[j] \in E /\ o[j + 1] \in E /\ o[j] < o[j + 1]
            /\ \A x \in E : x > o[j] => x >= o[j + 1]
        BY <1>4, <3>1
      <4>2. Fits(NextEvent(a[j - 1], o[j + 1]), o[j + 1])
        BY <3>2, <4>1, TimelineStep, CountsOn
      <4>. QED
        BY <3>3, <4>2
    <3>. QED
      BY <2>1, <3>4
  <2>. QED
    BY <2>2, <2>3
<1>6. Fits(c, o[n]) /\ IsLatest(E, o[n])
  <2>1. n - 1 \in 0 .. n - 1 /\ (n - 1) + 1 = n /\ n \in 1 .. n
    BY <1>2
  <2>2. Fits(c, o[n])
    BY <1>3, <1>5, <2>1
  <2>3. ASSUME NEW x \in E PROVE x <= o[n]
    <3>1. PICK k \in 1 .. n : o[k] = x
      BY <1>1
    <3>2. CASE k = n
      BY <1>1, <2>1, <3>1, <3>2
    <3>3. CASE k < n
      <4>1. o[k] < o[n] /\ o[k] \in Nat /\ o[n] \in Nat
        BY <1>1, <2>1, <3>3
      <4>. QED
        BY <3>1, <4>1
    <3>. QED
      BY <1>2, <3>2, <3>3
  <2>4. o[n] \in E /\ o[n] \in Nat
    BY <1>1, <2>1
  <2>. QED
    BY <2>2, <2>3, <2>4 DEF IsLatest
<1>. QED
  BY <1>6, TimelineEnds

(***************************************************************************)
(* All sessions: spans that touch become one.                              *)
(***************************************************************************)

\* A minute of a span.
In(s, t) == s[1] <= t /\ t < s[2]

\* What _merge_intervals has so far.
Apart(m) ==
  /\ m \in Seq(Nat \X Nat)
  /\ \A j \in 1 .. Len(m) : m[j][1] < m[j][2]
  /\ \A j, k \in 1 .. Len(m) : j < k => m[j][2] < m[k][1]

MergeStep(merged, s) ==
  IF merged # <<>> /\ s[1] <= Last(merged)[2]
  THEN Front(merged) \o <<<<Last(merged)[1], SetMax({Last(merged)[2], s[2]})>>>>
  ELSE Append(merged, s)

WithLast(m, x) == Front(m) \o <<x>>

SameBefore(r, m, n) == \A j \in 1 .. n : j # n => r[j] = m[j]

\* What a sequence is whose last member was replaced.
LEMMA LastReplaced ==
  ASSUME NEW S, NEW m \in Seq(S), m # <<>>, NEW x \in S, NEW r, r = WithLast(m, x),
         NEW n, n = Len(m)
  PROVE  r \in Seq(S) /\ Len(r) = n /\ r[n] = x /\ SameBefore(r, m, n)
<1>1. n \in Nat \ {0}
  BY LenProperties, EmptySeq
<1>2. Front(m) \in Seq(S) /\ Len(Front(m)) = n - 1 /\ \A j \in 1 .. n - 1 : Front(m)[j] = m[j]
  BY <1>1 DEF Front
<1>3. <<x>> \in Seq(S) /\ Len(<<x>>) = 1 /\ <<x>>[1] = x
  OBVIOUS
<1>. PICK f, e : f = Front(m) /\ e = <<x>>
  OBVIOUS
<1>4. f \in Seq(S) /\ e \in Seq(S) /\ r = f \o e /\ Len(f) = n - 1 /\ Len(e) = 1 /\ e[1] = x
      /\ \A j \in 1 .. n - 1 : f[j] = m[j]
  BY <1>2, <1>3 DEF WithLast
<1>5. r \in Seq(S) /\ Len(r) = n /\ \A j \in 1 .. Len(r) : r[j] = IF j <= Len(f) THEN f[j] ELSE e[j - Len(f)]
  BY <1>1, <1>4, ConcatProperties
<1>6. n \in 1 .. n /\ ~(n <= n - 1) /\ n - (n - 1) = 1 /\ \A j \in 1 .. n : j # n => j \in 1 .. n - 1 /\ j <= n - 1
  BY <1>1
<1>. QED
  BY <1>1, <1>4, <1>5, <1>6 DEF SameBefore

\* Merging in a span that begins no earlier keeps the intervals apart, and
\* together they cover its minutes too.
LEMMA MergeStepFits ==
  ASSUME NEW m, Apart(m), NEW s \in Nat \X Nat, s[1] < s[2], m # <<>> => Last(m)[1] <= s[1],
         NEW r, r = MergeStep(m, s)
  PROVE  /\ Apart(r) /\ r # <<>> /\ Last(r)[1] <= s[1]
         /\ \A t \in Nat : (\E j \in 1 .. Len(r) : In(r[j], t)) <=> (\E j \in 1 .. Len(m) : In(m[j], t)) \/ In(s, t)
<1>. PICK n : n = Len(m)
  OBVIOUS
<1>0. m \in Seq(Nat \X Nat) /\ n \in Nat /\ s[1] \in Nat /\ s[2] \in Nat
      /\ \A j \in 1 .. n : m[j][1] \in Nat /\ m[j][2] \in Nat /\ m[j] \in Nat \X Nat /\ m[j][1] < m[j][2]
  BY DEF Apart
<1>1. \A j, k \in 1 .. n : j < k => m[j][2] < m[k][1]
  BY DEF Apart
<1>2. CASE m # <<>> /\ s[1] <= Last(m)[2]
  <2>a. PICK L, e : L = m[n] /\ e = (IF L[2] >= s[2] THEN L[2] ELSE s[2])
    OBVIOUS
  <2>b. PICK x : x = <<L[1], e>>
    OBVIOUS
  <2>1. n \in 1 .. n /\ n # 0 /\ L = Last(m)
    BY <1>0, <1>2, <2>a, EmptySeq DEF Last
  <2>2. L \in Nat \X Nat /\ L[1] \in Nat /\ L[2] \in Nat /\ L[1] < L[2] /\ L[1] <= s[1] /\ s[1] <= L[2]
    BY <1>0, <1>2, <2>1, <2>a
  <2>3. e \in Nat /\ L[2] <= e /\ s[2] <= e /\ (e = L[2] \/ e = s[2]) /\ e = SetMax({L[2], s[2]})
    <3>1. SetMax({L[2], s[2]}) = IF L[2] >= s[2] THEN L[2] ELSE s[2]
      <4>1. L[2] \in Int /\ s[2] \in Int
        BY <1>0, <2>2
      <4>. QED
        BY <4>1, OfTwo
    <3>. QED
      BY <1>0, <2>2, <2>a, <3>1
  <2>4. r = WithLast(m, x)
    BY <1>2, <2>1, <2>3, <2>b DEF MergeStep, WithLast
  <2>5. x \in Nat \X Nat /\ x[1] = L[1] /\ x[2] = e
    BY <2>2, <2>3, <2>b
  <2>6. /\ r \in Seq(Nat \X Nat) /\ Len(r) = n /\ r[n] = x
        /\ \A j \in 1 .. n : j # n => r[j] = m[j]
    <3>0. PICK S : S = Nat \X Nat
      OBVIOUS
    <3>1. m \in Seq(S) /\ m # <<>> /\ x \in S
      BY <1>0, <1>2, <2>5, <3>0
    <3>2. r \in Seq(S) /\ Len(r) = n /\ r[n] = x /\ SameBefore(r, m, n)
      <4>1. r \in Seq(S)
        BY <2>4, <3>1, LastReplaced
      <4>2. Len(r) = n
        BY <2>4, <3>1, LastReplaced
      <4>3. r[n] = x
        BY <2>4, <3>1, LastReplaced
      <4>4. SameBefore(r, m, n)
        BY <2>4, <3>1, LastReplaced
      <4>. QED
        BY <4>1, <4>2, <4>3, <4>4
    <3>. QED
      BY <3>0, <3>2 DEF SameBefore
  <2>7. ASSUME NEW j \in 1 .. n
        PROVE  /\ r[j][1] = m[j][1] /\ r[j][1] < r[j][2]
               /\ j < n => r[j] = m[j]
    <3>1. CASE j = n
      BY <1>0, <2>2, <2>3, <2>5, <2>6, <2>a, <3>1
    <3>2. CASE j # n
      <4>1. r[j] = m[j]
        BY <2>6, <3>2
      <4>. QED
        BY <1>0, <4>1
    <3>. QED
      BY <3>1, <3>2
  <2>8. Apart(r)
    <3>1. \A j, k \in 1 .. n : j < k => r[j][2] < r[k][1]
      <4>1. ASSUME NEW j \in 1 .. n, NEW k \in 1 .. n, j < k PROVE r[j][2] < r[k][1]
        <5>1. j < n
          BY <1>0, <4>1
        <5>2. r[j] = m[j] /\ r[k][1] = m[k][1]
          BY <2>7, <5>1
        <5>. QED
          BY <1>1, <4>1, <5>2
      <4>. QED
        BY <4>1
    <3>. QED
      BY <2>6, <2>7, <3>1 DEF Apart
  <2>9. r # <<>> /\ Last(r)[1] <= s[1]
    <3>1. Last(r) = x
      BY <2>6 DEF Last
    <3>2. r # <<>>
      BY <2>1, <2>6, EmptySeq
    <3>. QED
      BY <2>2, <2>5, <3>1, <3>2
  <2>10. ASSUME NEW t \in Nat PROVE In(x, t) <=> In(L, t) \/ In(s, t)
    BY <1>0, <2>2, <2>3, <2>5 DEF In
  <2>11. ASSUME NEW t \in Nat
         PROVE  (\E j \in 1 .. n : In(r[j], t)) <=> (\E j \in 1 .. n : In(m[j], t)) \/ In(s, t)
    <3>1. \A j \in 1 .. n : j = n \/ r[j] = m[j]
      BY <1>0, <2>7
    <3>. QED
      BY <2>1, <2>6, <2>10, <2>a, <3>1
  <2>. QED
    BY <2>6, <2>8, <2>9, <2>11
<1>3. CASE ~(m # <<>> /\ s[1] <= Last(m)[2])
  <2>1. r = Append(m, s)
    BY <1>3 DEF MergeStep
  <2>2. /\ r \in Seq(Nat \X Nat) /\ r # <<>> /\ Len(r) = n + 1 /\ r[n + 1] = s
        /\ \A j \in 1 .. n : r[j] = m[j]
    <3>1. /\ r \in Seq(Nat \X Nat) /\ Len(r) = n + 1 /\ r[n + 1] = s
          /\ \A j \in 1 .. n : r[j] = m[j]
      BY <1>0, <2>1, AppendProperties
    <3>2. r # <<>>
      BY <1>0, <3>1, EmptySeq
    <3>. QED
      BY <3>1, <3>2
  <2>3. n # 0 => m[n][2] < s[1]
    <3>1. n # 0 => m # <<>> /\ n \in 1 .. n
      BY <1>0, EmptySeq
    <3>. QED
      BY <1>0, <1>3, <3>1 DEF Last
  <2>4. \A j \in 1 .. n : m[j][2] < s[1]
    <3>1. ASSUME NEW j \in 1 .. n PROVE m[j][2] < s[1]
      <4>1. n \in 1 .. n /\ n # 0
        BY <1>0
      <4>2. CASE j = n
        BY <2>3, <4>1, <4>2
      <4>3. CASE j < n
        <5>1. m[j][2] < m[n][1] /\ m[n][1] < m[n][2]
          BY <1>0, <1>1, <4>1, <4>3
        <5>2. m[j][2] \in Nat /\ m[n][1] \in Nat /\ m[n][2] \in Nat /\ m[n][2] < s[1] /\ s[1] \in Nat
          BY <1>0, <2>3, <4>1
        <5>3. PICK a \in Nat, b \in Nat, c \in Nat, d \in Nat : a = m[j][2] /\ b = m[n][1] /\ c = m[n][2] /\ d = s[1]
          BY <5>2
        <5>4. a < b /\ b < c /\ c < d
          BY <5>1, <5>2, <5>3
        <5>5. a < d
          BY <5>4
        <5>. QED
          BY <5>3, <5>5
      <4>. QED
        BY <1>0, <4>2, <4>3
    <3>. QED
      BY <3>1
  <2>5. \A j \in 1 .. n + 1 : j \in 1 .. n \/ j = n + 1
    BY <1>0
  <2>6. \A j \in 1 .. n + 1 : r[j][1] < r[j][2]
    BY <1>0, <2>2, <2>5
  <2>7. \A j, k \in 1 .. n + 1 : j < k => r[j][2] < r[k][1]
    <3>1. ASSUME NEW j \in 1 .. n + 1, NEW k \in 1 .. n + 1, j < k PROVE r[j][2] < r[k][1]
      <4>1. j \in 1 .. n
        BY <1>0, <3>1
      <4>2. CASE k \in 1 .. n
        BY <1>1, <2>2, <3>1, <4>1, <4>2
      <4>3. CASE k = n + 1
        BY <2>2, <2>4, <4>1, <4>3
      <4>. QED
        BY <2>5, <4>2, <4>3
    <3>. QED
      BY <3>1
  <2>8. Apart(r)
    BY <2>2, <2>6, <2>7 DEF Apart
  <2>9. Last(r)[1] <= s[1]
    BY <1>0, <2>2 DEF Last
  <2>10. ASSUME NEW t \in Nat
         PROVE  (\E j \in 1 .. n + 1 : In(r[j], t)) <=> (\E j \in 1 .. n : In(m[j], t)) \/ In(s, t)
    <3>1. n + 1 \in 1 .. n + 1 /\ \A j \in 1 .. n : j \in 1 .. n + 1
      BY <1>0
    <3>. QED
      BY <2>2, <2>5, <3>1
  <2>. QED
    BY <2>2, <2>8, <2>9, <2>10
<1>. QED
  BY <1>2, <1>3

\* Merging in a span gives pairs of numbers again.
LEMMA MergeStays ==
  ASSUME NEW m \in Seq(Nat \X Nat), NEW s \in Nat \X Nat
  PROVE  MergeStep(m, s) \in Seq(Nat \X Nat)
<1>1. CASE m # <<>> /\ s[1] <= Last(m)[2]
  <2>a. PICK x : x = <<Last(m)[1], SetMax({Last(m)[2], s[2]})>>
    OBVIOUS
  <2>1. Last(m) \in Nat \X Nat
    BY <1>1, EmptySeq, LenProperties DEF Last
  <2>2. SetMax({Last(m)[2], s[2]}) \in Nat
    <3>1. Last(m)[2] \in Nat /\ s[2] \in Nat
      BY <2>1
    <3>2. Last(m)[2] \in Int /\ s[2] \in Int
      BY <3>1
    <3>3. SetMax({Last(m)[2], s[2]}) = IF Last(m)[2] >= s[2] THEN Last(m)[2] ELSE s[2]
      BY <3>2, OfTwo
    <3>. QED
      BY <3>1, <3>3
  <2>3. x \in Nat \X Nat
    BY <2>1, <2>2, <2>a
  <2>4. MergeStep(m, s) = WithLast(m, x)
    BY <1>1, <2>a DEF MergeStep, WithLast
  <2>0. PICK S : S = Nat \X Nat
    OBVIOUS
  <2>5. m \in Seq(S) /\ m # <<>> /\ x \in S
    BY <1>1, <2>0, <2>3
  <2>6. MergeStep(m, s) \in Seq(S)
    BY <2>4, <2>5, LastReplaced
  <2>. QED
    BY <2>0, <2>6
<1>2. CASE ~(m # <<>> /\ s[1] <= Last(m)[2])
  BY <1>2 DEF MergeStep
<1>. QED
  BY <1>1, <1>2

\* The spans in order, as _merge_intervals sorts them.
SortsSpans(o, S) ==
  o = [i \in 1 .. Cardinality(S) |->
         CHOOSE x \in S : Cardinality({y \in S : y[1] < x[1] \/ (y[1] = x[1] /\ y[2] < x[2])}) = i - 1]

\* _merge_intervals takes its spans by their beginnings, each of them once.
LEMMA SpansSorted ==
  ASSUME NEW S, IsFiniteSet(S), \A s \in S : IsSpan(s), NEW o, SortsSpans(o, S), NEW n, n = Cardinality(S)
  PROVE  /\ n \in Nat /\ o \in Seq(S) /\ Len(o) = n
         /\ \A i \in 1 .. n : o[i] \in S /\ IsSpan(o[i])
         /\ \A s \in S : \E i \in 1 .. n : o[i] = s
         /\ \A i, j \in 1 .. n : i < j => o[i][1] <= o[j][1]
<1>. DEFINE Lower(s, x) == s[1] < x[1] \/ (s[1] = x[1] /\ s[2] < x[2])
            R == {p \in S \X S : Lower(p[1], p[2])}
<1>1. \A x, y \in S : <<x, y>> \in R <=> Lower(x, y)
  OBVIOUS
<1>2. \A s \in S : s[1] \in Nat /\ s[2] \in Nat /\ s = <<s[1], s[2]>>
  BY DEF IsSpan
<1>. HIDE DEF R
<1>3. Orders(R, S)
  <2>1. \A x \in S : <<x, x>> \notin R
    BY <1>1, <1>2
  <2>2. ASSUME NEW x \in S, NEW y \in S PROVE x = y \/ <<x, y>> \in R \/ <<y, x>> \in R
    <3>1. CASE x[1] = y[1] /\ x[2] = y[2]
      BY <1>2, <3>1
    <3>2. CASE ~(x[1] = y[1] /\ x[2] = y[2])
      <4>1. x[1] \in Nat /\ x[2] \in Nat /\ y[1] \in Nat /\ y[2] \in Nat
        BY <1>2
      <4>2. Lower(x, y) \/ Lower(y, x)
        BY <3>2, <4>1
      <4>. QED
        BY <1>1, <4>2
    <3>. QED
      BY <3>1, <3>2
  <2>3. ASSUME NEW x \in S, NEW y \in S, NEW z \in S, <<x, y>> \in R, <<y, z>> \in R PROVE <<x, z>> \in R
    <3>1. Lower(x, y) /\ Lower(y, z)
      BY <1>1, <2>3
    <3>2. x[1] \in Nat /\ x[2] \in Nat /\ y[1] \in Nat /\ y[2] \in Nat /\ z[1] \in Nat /\ z[2] \in Nat
      BY <1>2
    <3>3. Lower(x, z)
      BY <3>1, <3>2
    <3>. QED
      BY <1>1, <3>3
  <2>. QED
    BY <2>1, <2>2, <2>3 DEF Orders
<1>. HIDE DEF Lower
<1>4. ASSUME NEW x \in S PROVE Below(S, R, x) = {y \in S : Lower(y, x)}
  BY <1>1 DEF Below
<1>5. o = [i \in 1 .. n |-> CHOOSE x \in S : Cardinality({y \in S : Lower(y, x)}) = i - 1]
  BY DEF SortsSpans, Lower
<1>6. InOrder(o, S, R)
  <2>1. ASSUME NEW i \in 1 .. n, NEW x \in S, Cardinality(Below(S, R, x)) = i - 1
        PROVE  o[i] \in S /\ Cardinality(Below(S, R, o[i])) = i - 1
    <3>1. \E y \in S : Cardinality({z \in S : Lower(z, y)}) = i - 1
      BY <1>4, <2>1
    <3>2. o[i] \in S /\ Cardinality({z \in S : Lower(z, o[i])}) = i - 1
      BY <1>5, <3>1
    <3>. QED
      BY <1>4, <3>2
  <2>2. DOMAIN o = 1 .. n /\ o = [i \in DOMAIN o |-> o[i]]
    <3>. DEFINE X(i) == CHOOSE x \in S : Cardinality({y \in S : Lower(y, x)}) = i - 1
    <3>1. o = [i \in 1 .. n |-> X(i)]
      BY <1>5
    <3>. HIDE DEF X
    <3>. QED
      BY <3>1
  <2>. QED
    BY <2>1, <2>2 DEF InOrder
<1>7. /\ n \in Nat /\ o \in Seq(S) /\ Len(o) = n
      /\ \A x \in S : \E i \in 1 .. n : o[i] = x
      /\ \A i, j \in 1 .. n : i < j => <<o[i], o[j]>> \in R
  BY <1>3, <1>6, Ordered
<1>8. \A i \in 1 .. n : o[i] \in S
  BY <1>7
<1>9. ASSUME NEW i \in 1 .. n, NEW j \in 1 .. n, i < j PROVE o[i][1] <= o[j][1]
  <2>1. Lower(o[i], o[j]) /\ o[i][1] \in Nat /\ o[j][1] \in Nat
    BY <1>1, <1>2, <1>7, <1>8, <1>9
  <2>. QED
    BY <2>1 DEF Lower
<1>. QED
  BY <1>7, <1>8, <1>9

\* The fold of _merge_intervals.
UnrollsMerge(d, o) ==
  d = [s \in SUBSET DOMAIN o |-> IF s = {} THEN <<>> ELSE MergeStep(d[s \ {Max(s)}], o[Max(s)])]
MergedTo(o) == (CHOOSE d : UnrollsMerge(d, o))[DOMAIN o]

\* _merge_intervals folds its sorted spans, those without a minute left out.
LEMMA MergeIsFold ==
  ASSUME NEW spans
  PROVE  \E o : SortsSpans(o, {s \in spans : s[2] > s[1]}) /\ MergeIntervals(spans) = MergedTo(o)
<1>. DEFINE o == Sorted({s \in spans : s[2] > s[1]},
                        LAMBDA r, s : r[1] < s[1] \/ (r[1] = s[1] /\ r[2] < s[2]))
<1>1. SortsSpans(o, {s \in spans : s[2] > s[1]})
  BY DEF Sorted, SortsSpans
<1>2. MergeIntervals(spans) = MergedTo(o)
  BY DEF MergeIntervals, FoldLeft, MapThenFoldSet, UnrollsMerge, MergedTo, MergeStep
<1>. HIDE DEF o
<1>. QED
  BY <1>1, <1>2

\* The fold goes through the spans one after another.
LEMMA MergeChain ==
  ASSUME NEW n \in Nat, NEW o, DOMAIN o = 1 .. n, \A i \in 1 .. n : o[i] \in Nat \X Nat
  PROVE  \E a : /\ a[0] = <<>> /\ a[n] = MergedTo(o)
                /\ \A i \in 1 .. n : a[i] = MergeStep(a[i - 1], o[i])
<1>. DEFINE R == Seq(Nat \X Nat)
            F == [x \in (1 .. n) \X R |-> MergeStep(x[2], o[x[1]])]
<1>0. <<>> \in R
  OBVIOUS
<1>1. ASSUME NEW i \in 1 .. n, NEW r \in R
      PROVE  F[<<i, r>>] = MergeStep(r, o[i]) /\ F[<<i, r>>] \in R
  <2>1. MergeStep(r, o[i]) \in R
    BY MergeStays
  <2>2. F[<<i, r>>] = MergeStep(r, o[i])
    <3>. HIDE DEF R
    <3>. QED
      OBVIOUS
  <2>. QED
    BY <2>1, <2>2
<1>. HIDE DEF F, R
<1>2. PICK g : FoldsTo(g, F, <<>>, n) /\ \A s \in SUBSET (1 .. n) : g[s] \in R
  <2>1. ASSUME NEW i \in 1 .. n, NEW r \in R PROVE F[<<i, r>>] \in R
    BY <1>1, Zenon
  <2>. QED
    BY <1>0, <2>1, FoldsExist
<1>3. UnrollsMerge(g, o)
  <2>1. ASSUME NEW s \in SUBSET (1 .. n)
        PROVE  FoldStep(g, F, <<>>, s) = IF s = {} THEN <<>> ELSE MergeStep(g[s \ {Max(s)}], o[Max(s)])
    <3>1. CASE s = {}
      BY <3>1 DEF FoldStep
    <3>2. CASE s # {}
      <4>1. Max(s) \in 1 .. n /\ s \ {Max(s)} \in SUBSET (1 .. n)
        BY <3>2, MaxOfSome
      <4>2. F[<<Max(s), g[s \ {Max(s)}]>>] = MergeStep(g[s \ {Max(s)}], o[Max(s)])
        BY <1>1, <1>2, <4>1
      <4>. QED
        BY <3>2, <4>2 DEF FoldStep
    <3>. QED
      BY <3>1, <3>2
  <2>. QED
    BY <1>2, <2>1 DEF FoldsTo, UnrollsMerge
<1>4. PICK d : d = CHOOSE x : UnrollsMerge(x, o)
  OBVIOUS
<1>5. UnrollsMerge(d, o)
  BY <1>3, <1>4
<1>6. \A s \in SUBSET (1 .. n) : d[s] = IF s = {} THEN <<>> ELSE MergeStep(d[s \ {Max(s)}], o[Max(s)])
  BY <1>5 DEF UnrollsMerge
<1>. DEFINE a == [i \in 0 .. n |-> d[1 .. i]]
<1>7. a[0] = <<>>
  <2>1. 1 .. 0 = {} /\ 0 \in 0 .. n
    OBVIOUS
  <2>. QED
    BY <1>6, <2>1
<1>8. a[n] = MergedTo(o)
  <2>1. n \in 0 .. n
    OBVIOUS
  <2>2. MergedTo(o) = d[DOMAIN o]
    BY <1>4 DEF MergedTo
  <2>. QED
    BY <2>1, <2>2
<1>9. ASSUME NEW i \in 1 .. n PROVE a[i] = MergeStep(a[i - 1], o[i])
  <2>1. i \in 0 .. n /\ i - 1 \in 0 .. n
    OBVIOUS
  <2>2. PICK s : s = 1 .. i
    OBVIOUS
  <2>3. s \in SUBSET (1 .. n) /\ s # {} /\ Max(s) = i /\ s \ {Max(s)} = 1 .. (i - 1)
    BY <2>2, FirstPlaces
  <2>4. d[s] = MergeStep(d[s \ {Max(s)}], o[Max(s)])
    BY <1>6, <2>3
  <2>. QED
    BY <2>1, <2>2, <2>3, <2>4
<1>. HIDE DEF a
<1>. QED
  BY <1>7, <1>8, <1>9

\* _merge_intervals: what it returns does not overlap or touch, and covers the
\* minutes of the spans and nothing else.
THEOREM MergeIsRight ==
  ASSUME NEW spans, IsFiniteSet(spans), \A s \in spans : IsSpan(s), NEW m, m = MergeIntervals(spans)
  PROVE  /\ Apart(m)
         /\ \A t \in Nat : t \in MinutesOf(spans) <=> \E j \in 1 .. Len(m) : In(m[j], t)
<1>0. {s \in spans : s[2] > s[1]} = spans
  <2>1. \A s \in spans : s[2] > s[1]
    <3>1. ASSUME NEW s \in spans PROVE s[2] > s[1]
      <4>1. s[1] \in Nat /\ s[2] \in Nat /\ s[1] < s[2]
        BY DEF IsSpan
      <4>. QED
        BY <4>1
    <3>. QED
      BY <3>1
  <2>. QED
    BY <2>1
<1>1. PICK o : SortsSpans(o, spans) /\ m = MergedTo(o)
  BY <1>0, MergeIsFold
<1>2. PICK n : n = Cardinality(spans)
  OBVIOUS
<1>3. /\ n \in Nat /\ DOMAIN o = 1 .. n
      /\ \A i \in 1 .. n : o[i] \in spans /\ IsSpan(o[i])
      /\ \A s \in spans : \E i \in 1 .. n : o[i] = s
      /\ \A i, j \in 1 .. n : i < j => o[i][1] <= o[j][1]
  BY <1>1, <1>2, SpansSorted
<1>4. \A i \in 1 .. n : o[i] \in Nat \X Nat /\ o[i][1] < o[i][2] /\ o[i][1] \in Nat
  BY <1>3 DEF IsSpan
<1>5. PICK a : /\ a[0] = <<>> /\ a[n] = m
               /\ \A i \in 1 .. n : a[i] = MergeStep(a[i - 1], o[i])
  <2>1. n \in Nat /\ DOMAIN o = 1 .. n /\ \A i \in 1 .. n : o[i] \in Nat \X Nat
    BY <1>3, <1>4
  <2>2. \E a : /\ a[0] = <<>> /\ a[n] = MergedTo(o)
               /\ \A i \in 1 .. n : a[i] = MergeStep(a[i - 1], o[i])
    BY <2>1, MergeChain
  <2>. QED
    BY <1>1, <2>2
<1>. DEFINE Covers(q, i) == \A t \in Nat : (\E j \in 1 .. Len(q) : In(q[j], t)) <=> \E j \in 1 .. i : In(o[j], t)
            Fits(q, i) == Apart(q) /\ Covers(q, i) /\ (q # <<>> => i \in 1 .. n /\ Last(q)[1] <= o[i][1])
            Bad == {i \in 0 .. n : ~Fits(a[i], i)}
<1>6. Bad = {}
  <2>. SUFFICES ASSUME Bad # {} PROVE FALSE
    OBVIOUS
  <2>1. PICK i \in Bad : \A k \in Bad : i <= k
    <3>1. Bad \in SUBSET Nat
      OBVIOUS
    <3>. HIDE DEF Bad
    <3>. QED
      BY <3>1, LeastNumber
  <2>2. CASE i = 0
    <3>1. Apart(<<>>)
      BY DEF Apart
    <3>2. Covers(<<>>, 0)
      OBVIOUS
    <3>3. Fits(<<>>, 0)
      <4>. HIDE DEF Covers
      <4>. QED
        BY <3>1, <3>2
    <3>. QED
      BY <1>5, <2>1, <2>2, <3>3
  <2>3. CASE i # 0
    <3>1. i \in 1 .. n /\ i - 1 \in 0 .. n /\ ~(i <= i - 1)
      BY <1>3, <2>3
    <3>2. PICK q, s : q = a[i - 1] /\ s = o[i]
      OBVIOUS
    <3>3. Fits(q, i - 1)
      <4>1. i - 1 \notin Bad
        BY <2>1, <3>1
      <4>. QED
        BY <3>1, <3>2, <4>1
    <3>4. s \in Nat \X Nat /\ s[1] < s[2]
      BY <1>4, <3>1, <3>2
    <3>5. Apart(q) /\ Covers(q, i - 1)
      BY <3>3
    <3>6. q # <<>> => Last(q)[1] <= s[1]
      <4>1. ASSUME q # <<>> PROVE Last(q)[1] <= s[1]
        <5>1. i - 1 \in 1 .. n /\ Last(q)[1] <= o[i - 1][1]
          BY <3>3, <4>1
        <5>2. o[i - 1][1] <= o[i][1]
          BY <1>3, <3>1, <5>1
        <5>3. Last(q)[1] \in Nat
          <6>1. Len(q) \in 1 .. Len(q) /\ q \in Seq(Nat \X Nat)
            BY <3>5, <4>1, LenProperties, EmptySeq DEF Apart
          <6>2. q[Len(q)] \in Nat \X Nat
            BY <6>1
          <6>. QED
            BY <6>2 DEF Last
        <5>4. o[i - 1][1] \in Nat /\ o[i][1] \in Nat
          BY <1>4, <3>1, <5>1
        <5>5. PICK x \in Nat, y \in Nat, z \in Nat : x = Last(q)[1] /\ y = o[i - 1][1] /\ z = o[i][1]
          BY <5>3, <5>4
        <5>6. x <= y /\ y <= z
          BY <5>1, <5>2, <5>5
        <5>7. x <= z
          BY <5>6
        <5>. QED
          BY <3>2, <5>5, <5>7
      <4>. QED
        BY <4>1
    <3>7. PICK r : r = MergeStep(q, s)
      OBVIOUS
    <3>8. Apart(r) /\ r # <<>> /\ Last(r)[1] <= s[1]
      BY <3>4, <3>5, <3>6, <3>7, MergeStepFits
    <3>9. \A t \in Nat : (\E j \in 1 .. Len(r) : In(r[j], t)) <=> (\E j \in 1 .. Len(q) : In(q[j], t)) \/ In(s, t)
      BY <3>4, <3>5, <3>6, <3>7, MergeStepFits
    <3>10. \A j : j \in 1 .. i <=> j \in 1 .. i - 1 \/ j = i
      BY <3>1
    <3>11. Covers(r, i)
      <4>1. ASSUME NEW t \in Nat PROVE (\E j \in 1 .. Len(r) : In(r[j], t)) <=> \E j \in 1 .. i : In(o[j], t)
        <5>1. (\E j \in 1 .. Len(q) : In(q[j], t)) <=> \E j \in 1 .. i - 1 : In(o[j], t)
          BY <3>5
        <5>2. (\E j \in 1 .. i : In(o[j], t)) <=> (\E j \in 1 .. i - 1 : In(o[j], t)) \/ In(o[i], t)
          BY <3>10
        <5>. QED
          BY <3>2, <3>9, <5>1, <5>2
      <4>. QED
        BY <4>1
    <3>12. a[i] = r
      BY <1>5, <3>1, <3>2, <3>7
    <3>13. Fits(r, i)
      <4>. HIDE DEF Covers
      <4>. QED
        BY <3>1, <3>2, <3>8, <3>11
    <3>. QED
      <4>. HIDE DEF Fits
      <4>. QED
        BY <2>1, <3>12, <3>13
  <2>. QED
    BY <2>2, <2>3
<1>7. Apart(m) /\ Covers(m, n)
  <2>1. n \in 0 .. n
    BY <1>3
  <2>2. Fits(a[n], n)
    <3>. HIDE DEF Fits
    <3>. QED
      BY <1>6, <2>1
  <2>. QED
    BY <1>5, <2>2
<1>8. ASSUME NEW t \in Nat PROVE t \in MinutesOf(spans) <=> \E j \in 1 .. n : In(o[j], t)
  <2>1. \A s \in spans : t \in s[1] .. s[2] - 1 <=> In(s, t)
    <3>1. ASSUME NEW s \in spans PROVE t \in s[1] .. s[2] - 1 <=> In(s, t)
      <4>1. s[1] \in Nat /\ s[2] \in Nat
        BY DEF IsSpan
      <4>. QED
        BY <4>1 DEF In
    <3>. QED
      BY <3>1
  <2>2. t \in MinutesOf(spans) <=> \E s \in spans : t \in s[1] .. s[2] - 1
    BY DEF MinutesOf
  <2>3. (\E s \in spans : In(s, t)) <=> \E j \in 1 .. n : In(o[j], t)
    BY <1>3
  <2>. QED
    BY <2>1, <2>2, <2>3
<1>9. \A t \in Nat : (\E j \in 1 .. Len(m) : In(m[j], t)) <=> \E j \in 1 .. n : In(o[j], t)
  BY <1>7
<1>10. ASSUME NEW t \in Nat PROVE t \in MinutesOf(spans) <=> \E j \in 1 .. Len(m) : In(m[j], t)
  BY <1>8, <1>9
<1>. QED
  BY <1>7, <1>10

(***************************************************************************)
(* Sums of the sizes of parts that do not overlap.                         *)
(***************************************************************************)

\* g adds up f, whatever it takes out first.
AddsUp(g, f, D) ==
  /\ g[{}] = 0
  /\ \A t \in SUBSET D : t # {} =>
       \E x \in t : g[t] = f[x] + g[t \ {x}] \/ g[t] = g[t \ {x}] + f[x]

\* The parts P[d] and their sizes f[d].
PartsOf(P, f, D) ==
  /\ \A d \in D : IsFiniteSet(P[d]) /\ f[d] = Cardinality(P[d])
  /\ \A d, e \in D : d # e => P[d] \cap P[e] = {}

AllOf(P, t) == UNION {P[d] : d \in t}

\* A sum of the sizes of parts that do not overlap counts what is in any of them.
LEMMA PartsAddUp ==
  ASSUME NEW D, IsFiniteSet(D), NEW P, NEW f, PartsOf(P, f, D), NEW g, AddsUp(g, f, D)
  PROVE  IsFiniteSet(AllOf(P, D)) /\ g[D] = Cardinality(AllOf(P, D)) /\ g[D] \in Nat
<1>. DEFINE Right(t) == IsFiniteSet(AllOf(P, t)) /\ g[t] = Cardinality(AllOf(P, t))
            Bad == {n \in Nat : \E t \in SUBSET D : Cardinality(t) = n /\ ~Right(t)}
<1>1. ASSUME NEW t \in SUBSET D
      PROVE  /\ IsFiniteSet(t) /\ Cardinality(t) \in Nat
             /\ \A x \in t : t \ {x} \in SUBSET D /\ Cardinality(t \ {x}) = Cardinality(t) - 1
                             /\ Cardinality(t \ {x}) \in Nat
  <2>1. IsFiniteSet(t)
    BY FS_Subset
  <2>. QED
    BY <2>1, FS_CardinalityType, FS_RemoveElement
<1>2. ASSUME NEW m \in Bad, \A k \in Bad : m <= k PROVE FALSE
  <2>1. PICK t \in SUBSET D : Cardinality(t) = m /\ ~Right(t)
    BY <1>2
  <2>2. CASE t = {}
    <3>1. AllOf(P, t) = {}
      BY <2>2 DEF AllOf
    <3>2. g[t] = 0
      BY <2>2 DEF AddsUp
    <3>. QED
      BY <2>1, <3>1, <3>2, FS_EmptySet
  <2>3. CASE t # {}
    <3>1. PICK x \in t : g[t] = f[x] + g[t \ {x}] \/ g[t] = g[t \ {x}] + f[x]
      BY <2>3 DEF AddsUp
    <3>2. PICK r : r = t \ {x}
      OBVIOUS
    <3>3. r \in SUBSET D /\ Cardinality(r) \in Nat /\ Cardinality(r) < m
      BY <1>1, <2>1, <3>2
    <3>4. Right(r)
      <4>1. Cardinality(r) \notin Bad
        BY <1>2, <3>3
      <4>. QED
        BY <3>3, <4>1
    <3>5. AllOf(P, t) = AllOf(P, r) \cup P[x]
      BY <3>2 DEF AllOf
    <3>6. AllOf(P, r) \cap P[x] = {}
      <4>1. \A d \in r : d \in D /\ x \in D /\ d # x
        BY <3>2
      <4>2. \A d \in r : P[d] \cap P[x] = {}
        BY <4>1 DEF PartsOf
      <4>. QED
        BY <4>2 DEF AllOf
    <3>7. IsFiniteSet(P[x]) /\ f[x] = Cardinality(P[x])
      BY DEF PartsOf
    <3>8. PICK A, B : A = AllOf(P, r) /\ B = P[x]
      OBVIOUS
    <3>9. IsFiniteSet(A) /\ IsFiniteSet(B) /\ A \cap B = {}
      BY <3>4, <3>6, <3>7, <3>8
    <3>10. IsFiniteSet(A \cup B) /\ Cardinality(A \cup B) = Cardinality(A) + Cardinality(B)
      <4>1. Cardinality(A \cap B) = 0 /\ Cardinality(A) \in Nat /\ Cardinality(B) \in Nat
        BY <3>9, FS_EmptySet, FS_CardinalityType
      <4>2. IsFiniteSet(A \cup B) /\ Cardinality(A \cup B) = Cardinality(A) + Cardinality(B) - Cardinality(A \cap B)
        BY <3>9, FS_Union
      <4>. QED
        BY <4>1, <4>2
    <3>11. g[t] = Cardinality(A) + Cardinality(B)
      <4>1. Cardinality(A) \in Nat /\ Cardinality(B) \in Nat
        BY <3>9, FS_CardinalityType
      <4>2. g[r] = Cardinality(A) /\ f[x] = Cardinality(B)
        BY <3>4, <3>7, <3>8
      <4>. QED
        BY <3>1, <3>2, <4>1, <4>2
    <3>. QED
      BY <2>1, <3>5, <3>8, <3>10, <3>11
  <2>. QED
    BY <2>2, <2>3
<1>3. Bad = {}
  <2>1. Bad \in SUBSET Nat
    OBVIOUS
  <2>. HIDE DEF Bad
  <2>. QED
    BY <1>2, <2>1, LeastNumber
<1>4. Right(D)
  <2>1. D \in SUBSET D /\ Cardinality(D) \in Nat
    BY FS_CardinalityType
  <2>. QED
    BY <1>3, <2>1
<1>. QED
  BY <1>4, FS_CardinalityType

\* A sum over a sequence, as FoldLeft unrolls it.
UnrollsSum(d, w, n) ==
  d = [s \in SUBSET (1 .. n) |-> IF s = {} THEN 0 ELSE d[s \ {Max(s)}] + w[Max(s)]]

\* There is a sum over every sequence of numbers.
LEMMA SequenceSums ==
  ASSUME NEW n \in Nat, NEW w, \A i \in 1 .. n : w[i] \in Int
  PROVE  \E d : UnrollsSum(d, w, n)
<1>. DEFINE F == [x \in (1 .. n) \X Int |-> x[2] + w[x[1]]]
<1>1. ASSUME NEW i \in 1 .. n, NEW r \in Int PROVE F[<<i, r>>] = r + w[i] /\ F[<<i, r>>] \in Int
  OBVIOUS
<1>. HIDE DEF F
<1>2. PICK z : z = 0
  OBVIOUS
<1>3. PICK g : FoldsTo(g, F, z, n) /\ \A s \in SUBSET (1 .. n) : g[s] \in Int
  <2>1. ASSUME NEW i \in 1 .. n, NEW r \in Int PROVE F[<<i, r>>] \in Int
    BY <1>1, Zenon
  <2>2. z \in Int
    BY <1>2
  <2>. QED
    BY <2>1, <2>2, FoldsExist
<1>4. ASSUME NEW s \in SUBSET (1 .. n)
      PROVE  FoldStep(g, F, z, s) = IF s = {} THEN 0 ELSE g[s \ {Max(s)}] + w[Max(s)]
  <2>1. CASE s = {}
    BY <1>2, <2>1 DEF FoldStep
  <2>2. CASE s # {}
    <3>1. Max(s) \in 1 .. n /\ s \ {Max(s)} \in SUBSET (1 .. n)
      BY <2>2, MaxOfSome
    <3>2. F[<<Max(s), g[s \ {Max(s)}]>>] = g[s \ {Max(s)}] + w[Max(s)]
      BY <1>1, <1>3, <3>1
    <3>. QED
      BY <2>2, <3>2 DEF FoldStep
  <2>. QED
    BY <2>1, <2>2
<1>. QED
  BY <1>3, <1>4 DEF FoldsTo, UnrollsSum

\* What FoldLeft unrolls adds up.
LEMMA UnrolledAddsUp ==
  ASSUME NEW n \in Nat, NEW w, NEW d, UnrollsSum(d, w, n)
  PROVE  AddsUp(d, w, 1 .. n)
<1>1. \A s \in SUBSET (1 .. n) : d[s] = IF s = {} THEN 0 ELSE d[s \ {Max(s)}] + w[Max(s)]
  BY DEF UnrollsSum
<1>2. \A s \in SUBSET (1 .. n) : s # {} => Max(s) \in s
  BY MaxOfSome
<1>3. d[{}] = 0
  BY <1>1
<1>4. ASSUME NEW s \in SUBSET (1 .. n), s # {} PROVE \E x \in s : d[s] = d[s \ {x}] + w[x]
  BY <1>1, <1>2, <1>4
<1>. QED
  BY <1>3, <1>4 DEF AddsUp

(***************************************************************************)
(* union_active: what of the merged spans is on a day, or in its night.    *)
(***************************************************************************)

UnrollsOverlap(d, m, from, to) ==
  d = [s \in SUBSET DOMAIN m |->
         IF s = {} THEN 0 ELSE d[s \ {Max(s)}] + Overlap(m[Max(s)], from, to)]
OverlapIn(m, from, to) == (CHOOSE d : UnrollsOverlap(d, m, from, to))[DOMAIN m]

UnrollsLength(d, m) ==
  d = [s \in SUBSET DOMAIN m |->
         IF s = {} THEN 0 ELSE d[s \ {Max(s)}] + (m[Max(s)][2] - m[Max(s)][1])]
LengthOf(m) == (CHOOSE d : UnrollsLength(d, m))[DOMAIN m]

\* The sum of a function's values.
Total(f) == (CHOOSE g : Sums(g, f, DOMAIN f))[DOMAIN f]

DaysIn(m) == UNION {DayOf(m[i][1]) .. DayOf(m[i][2] - 1) : i \in 1 .. Len(m)}

\* union_active, taken apart: what it does with the merged intervals.
LEMMA UnionIs ==
  ASSUME NEW spans
  PROVE  \E m, U :
           /\ m = MergeIntervals(spans) /\ U = UnionActive(spans)
           /\ U.total = LengthOf(m)
           /\ DOMAIN U.daily = DaysIn(m)
           /\ \A d \in DaysIn(m) : U.daily[d] = OverlapIn(m, d * DayMinutes, d * DayMinutes + DayMinutes)
           /\ U.night = Total([d \in DaysIn(m) |-> OverlapIn(m, d * DayMinutes, d * DayMinutes + NightMinutes)])
<1>. DEFINE m == MergeIntervals(spans)
            U == UnionActive(spans)
            over(from, to) == SumOver(m, LAMBDA s : Overlap(s, from, to))
            perDay == [d \in DaysIn(m) |-> over(d * DayMinutes, d * DayMinutes + DayMinutes)]
            nights == [d \in DaysIn(m) |-> over(d * DayMinutes, d * DayMinutes + NightMinutes)]
            total == SumOver(m, LAMBDA s : s[2] - s[1])
            night == FoldFunction(LAMBDA x, y : x + y, 0, nights)
<1>1. U = [total |-> total, daily |-> perDay, night |-> night]
  BY DEF UnionActive, DaysIn, SumOver, FoldLeft, MapThenFoldSet, FoldFunction, FoldFunctionOnSet
<1>. HIDE DEF m, U
<1>2. total = LengthOf(m)
  BY DEF SumOver, FoldLeft, MapThenFoldSet, LengthOf, UnrollsLength
<1>3. night = Total([d \in DaysIn(m) |-> OverlapIn(m, d * DayMinutes, d * DayMinutes + NightMinutes)])
  BY DEF SumOver, FoldLeft, MapThenFoldSet, FoldFunction, FoldFunctionOnSet, Total, Sums, SumStep, AnyOf,
         OverlapIn, UnrollsOverlap
<1>4. ASSUME NEW d \in DaysIn(m) PROVE perDay[d] = OverlapIn(m, d * DayMinutes, d * DayMinutes + DayMinutes)
  <2>1. perDay[d] = over(d * DayMinutes, d * DayMinutes + DayMinutes)
    <3>. HIDE DEF over
    <3>. QED
      OBVIOUS
  <2>2. over(d * DayMinutes, d * DayMinutes + DayMinutes) = OverlapIn(m, d * DayMinutes, d * DayMinutes + DayMinutes)
    BY DEF SumOver, FoldLeft, MapThenFoldSet, OverlapIn, UnrollsOverlap
  <2>. HIDE DEF perDay, over
  <2>. QED
    BY <2>1, <2>2
<1>5. DOMAIN perDay = DaysIn(m)
  <2>. HIDE DEF over
  <2>. QED
    OBVIOUS
<1>. HIDE DEF total, perDay, night, nights, over
<1>6. U.total = total /\ U.daily = perDay /\ U.night = night
  BY <1>1
<1>7. m = MergeIntervals(spans) /\ U = UnionActive(spans)
  BY DEF m, U
<1>. QED
  BY <1>2, <1>3, <1>4, <1>5, <1>6, <1>7

\* What of a span lies between two times.
LEMMA OverlapIs ==
  ASSUME NEW s \in Nat \X Nat, s[1] < s[2], NEW from \in Nat, NEW to \in Nat, from <= to
  PROVE  /\ Overlap(s, from, to) \in Nat
         /\ IsFiniteSet({t \in from .. to - 1 : In(s, t)})
         /\ Overlap(s, from, to) = Cardinality({t \in from .. to - 1 : In(s, t)})
<1>1. PICK a \in Nat, b \in Nat : a = s[1] /\ b = s[2] /\ a < b
  OBVIOUS
<1>2. PICK lo, hi : lo = (IF a >= from THEN a ELSE from) /\ hi = (IF b <= to THEN b ELSE to)
  OBVIOUS
<1>3. lo \in Nat /\ hi \in Nat
  BY <1>2
<1>4. SetMin({b, to}) = hi /\ SetMax({a, from}) = lo
  <2>1. a \in Int /\ b \in Int /\ from \in Int /\ to \in Int
    OBVIOUS
  <2>2. SetMin({b, to}) = IF b <= to THEN b ELSE to
    BY <2>1, OfTwo
  <2>3. SetMax({a, from}) = IF a >= from THEN a ELSE from
    BY <2>1, OfTwo
  <2>. QED
    BY <1>2, <2>2, <2>3
<1>5. Overlap(s, from, to) = SetMax({0, hi - lo})
  BY <1>1, <1>4 DEF Overlap
<1>6. SetMax({0, hi - lo}) = IF 0 >= hi - lo THEN 0 ELSE hi - lo
  <2>1. 0 \in Int /\ hi - lo \in Int
    BY <1>3
  <2>. QED
    BY <2>1, OfTwo
<1>7. {t \in from .. to - 1 : In(s, t)} = lo .. hi - 1
  <2>1. \A t \in Nat : from <= t /\ t <= to - 1 /\ In(s, t) <=> lo <= t /\ t <= hi - 1
    BY <1>1, <1>2, <1>3 DEF In
  <2>2. \A t : t \in from .. to - 1 => t \in Nat
    OBVIOUS
  <2>3. \A t : t \in lo .. hi - 1 => t \in Nat
    BY <1>3
  <2>4. ASSUME NEW t PROVE t \in {u \in from .. to - 1 : In(s, u)} <=> t \in lo .. hi - 1
    <3>1. CASE t \in Nat
      BY <1>3, <2>1, <3>1
    <3>2. CASE t \notin Nat
      BY <2>2, <2>3, <3>2
    <3>. QED
      BY <3>1, <3>2
  <2>. QED
    BY <2>4
<1>8. IsFiniteSet(lo .. hi - 1) /\ Cardinality(lo .. hi - 1) = IF 0 >= hi - lo THEN 0 ELSE hi - lo
  <2>1. lo \in Int /\ hi - 1 \in Int
    BY <1>3
  <2>2. IsFiniteSet(lo .. hi - 1) /\ Cardinality(lo .. hi - 1) = IF lo > hi - 1 THEN 0 ELSE (hi - 1) - lo + 1
    BY <2>1, FS_Interval
  <2>. QED
    BY <1>3, <2>2
<1>9. Overlap(s, from, to) \in Nat
  BY <1>3, <1>5, <1>6
<1>. QED
  BY <1>5, <1>6, <1>7, <1>8, <1>9

\* The minutes of merged spans that lie between two times are the sum of what
\* each has there.
LEMMA OverlapIsRight ==
  ASSUME NEW m, Apart(m), NEW from \in Nat, NEW to \in Nat, from <= to
  PROVE  /\ OverlapIn(m, from, to) \in Nat
         /\ OverlapIn(m, from, to) = Cardinality({t \in from .. to - 1 : \E j \in 1 .. Len(m) : In(m[j], t)})
<1>. DEFINE n == Len(m)
            P == [j \in 1 .. n |-> {t \in from .. to - 1 : In(m[j], t)}]
            w == [j \in 1 .. n |-> Overlap(m[j], from, to)]
<1>0. m \in Seq(Nat \X Nat) /\ n \in Nat /\ DOMAIN m = 1 .. n
      /\ (\A j \in 1 .. n : m[j] \in Nat \X Nat /\ m[j][1] < m[j][2])
      /\ \A j, k \in 1 .. n : j < k => m[j][2] < m[k][1]
  BY DEF Apart
<1>1. \A j \in 1 .. n : w[j] \in Nat /\ IsFiniteSet(P[j]) /\ w[j] = Cardinality(P[j])
  <2>1. ASSUME NEW j \in 1 .. n PROVE w[j] \in Nat /\ IsFiniteSet(P[j]) /\ w[j] = Cardinality(P[j])
    <3>1. PICK s : s = m[j]
      OBVIOUS
    <3>2. s \in Nat \X Nat /\ s[1] < s[2]
      BY <1>0, <3>1
    <3>3. Overlap(s, from, to) \in Nat
      BY <3>2, OverlapIs
    <3>4. IsFiniteSet({t \in from .. to - 1 : In(s, t)})
      BY <3>2, OverlapIs
    <3>5. Overlap(s, from, to) = Cardinality({t \in from .. to - 1 : In(s, t)})
      BY <3>2, OverlapIs
    <3>6. w[j] = Overlap(s, from, to) /\ P[j] = {t \in from .. to - 1 : In(s, t)}
      BY <3>1
    <3>. HIDE DEF P, w
    <3>. QED
      BY <3>3, <3>4, <3>5, <3>6
  <2>. HIDE DEF P, w
  <2>. QED
    BY <2>1
<1>2. ASSUME NEW j \in 1 .. n, NEW k \in 1 .. n, j < k PROVE P[j] \cap P[k] = {}
  <2>1. ASSUME NEW t \in Nat, In(m[j], t), In(m[k], t) PROVE FALSE
    <3>1. PICK a \in Nat, b \in Nat, c \in Nat : a = m[j][2] /\ b = m[k][1] /\ c = m[k][2]
      BY <1>0
    <3>2. t < a /\ b <= t /\ a < b
      BY <1>0, <1>2, <2>1, <3>1 DEF In
    <3>. QED
      BY <3>2
  <2>2. \A t \in from .. to - 1 : t \in Nat
    OBVIOUS
  <2>. QED
    BY <2>1, <2>2
<1>3. PartsOf(P, w, 1 .. n)
  <2>1. \A j, k \in 1 .. n : j # k => P[j] \cap P[k] = {}
    <3>1. ASSUME NEW j \in 1 .. n, NEW k \in 1 .. n, j # k PROVE P[j] \cap P[k] = {}
      <4>1. j < k \/ k < j
        BY <1>0, <3>1
      <4>2. CASE j < k
        BY <1>2, <4>2
      <4>3. CASE k < j
        <5>1. P[k] \cap P[j] = {}
          BY <1>2, <4>3
        <5>. HIDE DEF P
        <5>. QED
          BY <5>1
      <4>. QED
        BY <4>1, <4>2, <4>3
    <3>. QED
      BY <3>1
  <2>. HIDE DEF P, w, n
  <2>. QED
    BY <1>1, <2>1 DEF PartsOf
<1>4. AllOf(P, 1 .. n) = {t \in from .. to - 1 : \E j \in 1 .. n : In(m[j], t)}
  BY DEF AllOf
<1>5. PICK d : UnrollsSum(d, w, n)
  <2>1. \A j \in 1 .. n : w[j] \in Int
    <3>1. ASSUME NEW j \in 1 .. n PROVE w[j] \in Int
      <4>. HIDE DEF P, w, n
      <4>. QED
        BY <1>1
    <3>. QED
      BY <3>1
  <2>. HIDE DEF w, n
  <2>. QED
    BY <1>0, <2>1, SequenceSums
<1>6. ASSUME NEW e PROVE UnrollsOverlap(e, m, from, to) <=> UnrollsSum(e, w, n)
  <2>1. \A s \in SUBSET (1 .. n) : s # {} => Overlap(m[Max(s)], from, to) = w[Max(s)]
    <3>1. \A s \in SUBSET (1 .. n) : s # {} => Max(s) \in 1 .. n
      BY <1>0, MaxOfSome
    <3>. QED
      BY <3>1
  <2>. HIDE DEF w, n
  <2>2. [s \in SUBSET (1 .. n) |-> IF s = {} THEN 0 ELSE e[s \ {Max(s)}] + Overlap(m[Max(s)], from, to)]
        = [s \in SUBSET (1 .. n) |-> IF s = {} THEN 0 ELSE e[s \ {Max(s)}] + w[Max(s)]]
    BY <2>1
  <2>. QED
    BY <1>0, <2>2 DEF UnrollsOverlap, UnrollsSum
<1>. HIDE DEF P, w, n
<1>7. PICK e : e = CHOOSE x : UnrollsOverlap(x, m, from, to)
  OBVIOUS
<1>8. UnrollsSum(e, w, n) /\ OverlapIn(m, from, to) = e[1 .. n]
  <2>1. UnrollsOverlap(d, m, from, to)
    BY <1>5, <1>6
  <2>2. UnrollsOverlap(e, m, from, to)
    BY <1>7, <2>1
  <2>. QED
    BY <1>0, <1>6, <1>7, <2>2 DEF OverlapIn
<1>9. AddsUp(e, w, 1 .. n) /\ IsFiniteSet(1 .. n)
  BY <1>0, <1>8, UnrolledAddsUp, FS_Interval
<1>10. e[1 .. n] = Cardinality(AllOf(P, 1 .. n)) /\ e[1 .. n] \in Nat
  BY <1>3, <1>9, PartsAddUp
<1>. QED
  BY <1>4, <1>8, <1>10 DEF n

\* The minutes of merged spans are the sum of their lengths.
LEMMA LengthIsRight ==
  ASSUME NEW m, Apart(m)
  PROVE  /\ IsFiniteSet({t \in Nat : \E j \in 1 .. Len(m) : In(m[j], t)})
         /\ LengthOf(m) = Cardinality({t \in Nat : \E j \in 1 .. Len(m) : In(m[j], t)})
<1>. DEFINE n == Len(m)
            P == [j \in 1 .. n |-> {t \in Nat : In(m[j], t)}]
            w == [j \in 1 .. n |-> m[j][2] - m[j][1]]
<1>0. m \in Seq(Nat \X Nat) /\ n \in Nat /\ DOMAIN m = 1 .. n
      /\ (\A j \in 1 .. n : m[j] \in Nat \X Nat /\ m[j][1] < m[j][2])
      /\ \A j, k \in 1 .. n : j < k => m[j][2] < m[k][1]
  BY DEF Apart
<1>1. \A j \in 1 .. n : w[j] \in Nat /\ IsFiniteSet(P[j]) /\ w[j] = Cardinality(P[j])
  <2>1. ASSUME NEW j \in 1 .. n PROVE w[j] \in Nat /\ IsFiniteSet(P[j]) /\ w[j] = Cardinality(P[j])
    <3>1. PICK a \in Nat, b \in Nat : a = m[j][1] /\ b = m[j][2] /\ a < b
      BY <1>0
    <3>2. P[j] = a .. b - 1
      <4>1. \A t \in Nat : In(m[j], t) <=> a <= t /\ t <= b - 1
        BY <3>1 DEF In
      <4>2. P[j] = {t \in Nat : In(m[j], t)}
        OBVIOUS
      <4>. HIDE DEF P
      <4>. QED
        BY <4>1, <4>2
    <3>3. w[j] = b - a
      BY <3>1
    <3>4. IsFiniteSet(a .. b - 1) /\ Cardinality(a .. b - 1) = b - a
      <4>1. a \in Int /\ b - 1 \in Int
        BY <3>1
      <4>2. IsFiniteSet(a .. b - 1) /\ Cardinality(a .. b - 1) = IF a > b - 1 THEN 0 ELSE (b - 1) - a + 1
        BY <4>1, FS_Interval
      <4>. QED
        BY <3>1, <4>2
    <3>. HIDE DEF P, w
    <3>. QED
      BY <3>1, <3>2, <3>3, <3>4
  <2>. HIDE DEF P, w
  <2>. QED
    BY <2>1
<1>2. ASSUME NEW j \in 1 .. n, NEW k \in 1 .. n, j < k PROVE P[j] \cap P[k] = {}
  <2>1. ASSUME NEW t \in Nat, In(m[j], t), In(m[k], t) PROVE FALSE
    <3>1. PICK a \in Nat, b \in Nat, c \in Nat : a = m[j][2] /\ b = m[k][1] /\ c = m[k][2]
      BY <1>0
    <3>2. t < a /\ b <= t /\ a < b
      BY <1>0, <1>2, <2>1, <3>1 DEF In
    <3>. QED
      BY <3>2
  <2>. QED
    BY <2>1
<1>3. PartsOf(P, w, 1 .. n)
  <2>1. \A j, k \in 1 .. n : j # k => P[j] \cap P[k] = {}
    <3>1. ASSUME NEW j \in 1 .. n, NEW k \in 1 .. n, j # k PROVE P[j] \cap P[k] = {}
      <4>1. j < k \/ k < j
        BY <1>0, <3>1
      <4>2. CASE j < k
        BY <1>2, <4>2
      <4>3. CASE k < j
        <5>1. P[k] \cap P[j] = {}
          BY <1>2, <4>3
        <5>. HIDE DEF P
        <5>. QED
          BY <5>1
      <4>. QED
        BY <4>1, <4>2, <4>3
    <3>. QED
      BY <3>1
  <2>. HIDE DEF P, w, n
  <2>. QED
    BY <1>1, <2>1 DEF PartsOf
<1>4. AllOf(P, 1 .. n) = {t \in Nat : \E j \in 1 .. n : In(m[j], t)}
  BY DEF AllOf
<1>5. PICK d : UnrollsSum(d, w, n)
  <2>1. \A j \in 1 .. n : w[j] \in Int
    <3>1. ASSUME NEW j \in 1 .. n PROVE w[j] \in Int
      <4>. HIDE DEF P, w, n
      <4>. QED
        BY <1>1
    <3>. QED
      BY <3>1
  <2>. HIDE DEF w, n
  <2>. QED
    BY <1>0, <2>1, SequenceSums
<1>6. ASSUME NEW e PROVE UnrollsLength(e, m) <=> UnrollsSum(e, w, n)
  <2>1. \A s \in SUBSET (1 .. n) : s # {} => m[Max(s)][2] - m[Max(s)][1] = w[Max(s)]
    <3>1. \A s \in SUBSET (1 .. n) : s # {} => Max(s) \in 1 .. n
      BY <1>0, MaxOfSome
    <3>. QED
      BY <3>1
  <2>. HIDE DEF w, n
  <2>2. [s \in SUBSET (1 .. n) |-> IF s = {} THEN 0 ELSE e[s \ {Max(s)}] + (m[Max(s)][2] - m[Max(s)][1])]
        = [s \in SUBSET (1 .. n) |-> IF s = {} THEN 0 ELSE e[s \ {Max(s)}] + w[Max(s)]]
    BY <2>1
  <2>. QED
    BY <1>0, <2>2 DEF UnrollsLength, UnrollsSum
<1>. HIDE DEF P, w, n
<1>7. PICK e : e = CHOOSE x : UnrollsLength(x, m)
  OBVIOUS
<1>8. UnrollsSum(e, w, n) /\ LengthOf(m) = e[1 .. n]
  <2>1. UnrollsLength(d, m)
    BY <1>5, <1>6
  <2>2. UnrollsLength(e, m)
    BY <1>7, <2>1
  <2>. QED
    BY <1>0, <1>6, <1>7, <2>2 DEF LengthOf
<1>9. AddsUp(e, w, 1 .. n) /\ IsFiniteSet(1 .. n)
  BY <1>0, <1>8, UnrolledAddsUp, FS_Interval
<1>10. e[1 .. n] = Cardinality(AllOf(P, 1 .. n)) /\ IsFiniteSet(AllOf(P, 1 .. n))
  BY <1>3, <1>9, PartsAddUp
<1>. QED
  BY <1>4, <1>8, <1>10 DEF n

\* Days.
Midnight(d) == d * DayMinutes

\* A minute is between the midnights of its day.
LEMMA DayIs ==
  ASSUME NEW t \in Nat
  PROVE  /\ DayOf(t) \in Nat /\ Midnight(DayOf(t)) \in Nat
         /\ Midnight(DayOf(t)) <= t /\ t < Midnight(DayOf(t)) + DayMinutes
         /\ t % DayMinutes = t - Midnight(DayOf(t))
<1>1. DayMinutes \in Nat \ {0}
  BY MetricsAssumption
<1>2. DayOf(t) \in Nat /\ Midnight(DayOf(t)) \in Nat
  BY <1>1 DEF DayOf, Midnight
<1>3. Midnight(DayOf(t)) <= t
  BY <1>1 DEF DayOf, Midnight
<1>4. t < Midnight(DayOf(t)) + DayMinutes
  BY <1>1 DEF DayOf, Midnight
<1>5. t % DayMinutes = t - Midnight(DayOf(t))
  BY <1>1 DEF DayOf, Midnight
<1>. QED
  BY <1>2, <1>3, <1>4, <1>5

\* Midnights follow one another, a day apart.
LEMMA NextMidnight ==
  ASSUME NEW d \in Nat, NEW e \in Nat
  PROVE  /\ Midnight(d) \in Nat /\ DayMinutes \in Nat \ {0}
         /\ d <= e => Midnight(d) <= Midnight(e)
         /\ d < e => Midnight(d) + DayMinutes <= Midnight(e)
<1>1. DayMinutes \in Nat \ {0}
  BY MetricsAssumption
<1>2. Midnight(d) \in Nat
  BY <1>1 DEF Midnight
<1>3. d <= e => Midnight(d) <= Midnight(e)
  BY <1>1 DEF Midnight
<1>4. d < e => Midnight(d) + DayMinutes <= Midnight(e)
  BY <1>1 DEF Midnight
<1>. QED
  BY <1>1, <1>2, <1>3, <1>4

\* A minute is of one day.
LEMMA DayIsOne ==
  ASSUME NEW t \in Nat, NEW d \in Nat
  PROVE  DayOf(t) = d <=> Midnight(d) <= t /\ t < Midnight(d) + DayMinutes
<1>0. PICK e \in Nat : e = DayOf(t)
  BY DayIs
<1>1. /\ Midnight(e) \in Nat /\ Midnight(d) \in Nat /\ DayMinutes \in Nat
      /\ Midnight(e) <= t /\ t < Midnight(e) + DayMinutes
      /\ d < e => Midnight(d) + DayMinutes <= Midnight(e)
      /\ e < d => Midnight(e) + DayMinutes <= Midnight(d)
  BY <1>0, DayIs, NextMidnight
<1>2. CASE d = e
  BY <1>0, <1>1, <1>2
<1>3. CASE d < e
  BY <1>0, <1>1, <1>3
<1>4. CASE e < d
  BY <1>0, <1>1, <1>4
<1>. QED
  BY <1>2, <1>3, <1>4

\* Every day of a span has a minute of it.
LEMMA DaysOfSpan ==
  ASSUME NEW s \in Nat \X Nat, s[1] < s[2]
  PROVE  /\ \A d \in DayOf(s[1]) .. DayOf(s[2] - 1) : d \in Nat /\ \E t \in Nat : In(s, t) /\ DayOf(t) = d
         /\ \A t \in Nat : In(s, t) => DayOf(t) \in DayOf(s[1]) .. DayOf(s[2] - 1)
<1>0. PICK a \in Nat, b \in Nat : a = s[1] /\ b = s[2] - 1 /\ a <= b
  OBVIOUS
<1>1. \A t \in Nat : In(s, t) <=> a <= t /\ t <= b
  BY <1>0 DEF In
<1>2. DayOf(a) \in Nat /\ DayOf(b) \in Nat
  BY DayIs
<1>3. ASSUME NEW d \in DayOf(a) .. DayOf(b) PROVE d \in Nat /\ \E t \in Nat : In(s, t) /\ DayOf(t) = d
  <2>1. d \in Nat /\ DayOf(a) <= d /\ d <= DayOf(b)
    BY <1>2
  <2>2. /\ Midnight(d) \in Nat /\ Midnight(d) <= Midnight(DayOf(b)) /\ Midnight(DayOf(b)) <= b
        /\ Midnight(DayOf(b)) \in Nat
    BY <1>2, <2>1, DayIs, NextMidnight
  <2>3. Midnight(d) <= b
    BY <2>2
  <2>4. CASE a <= Midnight(d)
    <3>1. DayOf(Midnight(d)) = d
      BY <2>1, <2>2, DayIsOne, NextMidnight
    <3>. QED
      BY <1>1, <2>1, <2>2, <2>3, <2>4, <3>1
  <2>5. CASE ~(a <= Midnight(d))
    <3>1. DayOf(a) = d
      <4>1. CASE DayOf(a) < d
        <5>1. Midnight(DayOf(a)) + DayMinutes <= Midnight(d) /\ a < Midnight(DayOf(a)) + DayMinutes
              /\ Midnight(DayOf(a)) \in Nat /\ DayMinutes \in Nat
          BY <1>2, <2>1, <4>1, DayIs, NextMidnight
        <5>. QED
          BY <2>2, <2>5, <5>1
      <4>2. CASE ~(DayOf(a) < d)
        BY <1>2, <2>1, <4>2
      <4>. QED
        BY <4>1, <4>2
    <3>. QED
      BY <1>0, <1>1, <2>1, <3>1
  <2>. QED
    BY <2>4, <2>5
<1>4. ASSUME NEW t \in Nat, In(s, t) PROVE DayOf(t) \in DayOf(a) .. DayOf(b)
  <2>1. a <= t /\ t <= b /\ DayOf(t) \in Nat
    BY <1>1, <1>4, DayIs
  <2>2. ASSUME NEW x \in Nat, NEW y \in Nat, x <= y PROVE DayOf(x) <= DayOf(y)
    <3>1. PICK d \in Nat, e \in Nat : d = DayOf(x) /\ e = DayOf(y)
      BY DayIs
    <3>2. /\ Midnight(d) <= x /\ y < Midnight(e) + DayMinutes
          /\ Midnight(d) \in Nat /\ Midnight(e) \in Nat /\ DayMinutes \in Nat
          /\ e < d => Midnight(e) + DayMinutes <= Midnight(d)
      BY <3>1, DayIs, NextMidnight
    <3>3. ~(e < d)
      BY <2>2, <3>2
    <3>. QED
      BY <3>1, <3>3
  <2>3. DayOf(a) <= DayOf(t) /\ DayOf(t) <= DayOf(b)
    BY <2>1, <2>2
  <2>. QED
    BY <1>2, <2>1, <2>3
<1>. QED
  BY <1>0, <1>3, <1>4

\* What is in one day, or in its night, of the minutes M.
PartOfDay(M, d, length) == {t \in M : Midnight(d) <= t /\ t < Midnight(d) + length}

\* The days of merged spans are the days of their minutes.
LEMMA DaysAreRight ==
  ASSUME NEW m, Apart(m), NEW M \in SUBSET Nat,
         \A t \in Nat : t \in M <=> \E j \in 1 .. Len(m) : In(m[j], t)
  PROVE  DaysIn(m) = {DayOf(t) : t \in M} /\ \A d \in DaysIn(m) : d \in Nat
<1>0. \A j \in 1 .. Len(m) : m[j] \in Nat \X Nat /\ m[j][1] < m[j][2]
  BY DEF Apart
<1>1. ASSUME NEW d \in DaysIn(m) PROVE d \in Nat /\ \E t \in M : DayOf(t) = d
  <2>1. PICK j \in 1 .. Len(m) : d \in DayOf(m[j][1]) .. DayOf(m[j][2] - 1)
    BY DEF DaysIn
  <2>2. d \in Nat /\ \E t \in Nat : In(m[j], t) /\ DayOf(t) = d
    BY <1>0, <2>1, DaysOfSpan
  <2>. QED
    BY <2>2
<1>2. ASSUME NEW t \in M PROVE DayOf(t) \in DaysIn(m)
  <2>1. PICK j \in 1 .. Len(m) : In(m[j], t)
    OBVIOUS
  <2>2. DayOf(t) \in DayOf(m[j][1]) .. DayOf(m[j][2] - 1)
    BY <1>0, <2>1, DaysOfSpan
  <2>. QED
    BY <2>2 DEF DaysIn
<1>3. ASSUME NEW d PROVE d \in DaysIn(m) <=> d \in {DayOf(t) : t \in M}
  BY <1>1, <1>2
<1>. QED
  BY <1>1, <1>3

\* What a part of a day has of merged spans is the number of its minutes.
LEMMA PartIsRight ==
  ASSUME NEW m, Apart(m), NEW M \in SUBSET Nat, IsFiniteSet(M),
         \A t \in Nat : t \in M <=> \E j \in 1 .. Len(m) : In(m[j], t),
         NEW d \in Nat, NEW length \in Nat
  PROVE  /\ IsFiniteSet(PartOfDay(M, d, length))
         /\ OverlapIn(m, d * DayMinutes, d * DayMinutes + length) = Cardinality(PartOfDay(M, d, length))
<1>. DEFINE from == Midnight(d)
            to == Midnight(d) + length
<1>1. from \in Nat /\ to \in Nat /\ from <= to
  BY NextMidnight
<1>2. PartOfDay(M, d, length) = {t \in from .. to - 1 : \E j \in 1 .. Len(m) : In(m[j], t)}
  <2>1. ASSUME NEW t \in Nat
        PROVE  from <= t /\ t < to <=> t \in from .. to - 1
    BY <1>1
  <2>2. \A t \in from .. to - 1 : t \in Nat
    BY <1>1
  <2>3. PartOfDay(M, d, length) = {t \in M : from <= t /\ t < to}
    BY DEF PartOfDay
  <2>. HIDE DEF from, to
  <2>4. ASSUME NEW t
        PROVE  t \in PartOfDay(M, d, length) <=> t \in {u \in from .. to - 1 : \E j \in 1 .. Len(m) : In(m[j], u)}
    BY <2>1, <2>2, <2>3
  <2>. QED
    BY <2>4
<1>3. IsFiniteSet(PartOfDay(M, d, length))
  <2>1. PartOfDay(M, d, length) \in SUBSET M
    BY DEF PartOfDay
  <2>. QED
    BY <2>1, FS_Subset
<1>4. OverlapIn(m, from, to) = Cardinality({t \in from .. to - 1 : \E j \in 1 .. Len(m) : In(m[j], t)})
  <2>. HIDE DEF from, to
  <2>. QED
    BY <1>1, OverlapIsRight
<1>5. OverlapIn(m, d * DayMinutes, d * DayMinutes + length) = OverlapIn(m, from, to)
  BY DEF Midnight
<1>. HIDE DEF from, to
<1>. QED
  BY <1>2, <1>3, <1>4, <1>5

\* The nights add up to the minutes before the end of the night.
LEMMA NightsAddUp ==
  ASSUME NEW M \in SUBSET Nat, IsFiniteSet(M), NEW D, D = {DayOf(t) : t \in M}, IsFiniteSet(D),
         NEW f, DOMAIN f = D, \A d \in D : f[d] = Cardinality(PartOfDay(M, d, NightMinutes))
  PROVE  Total(f) = Cardinality({t \in M : t % DayMinutes < NightMinutes})
<1>0. NightMinutes \in Nat /\ NightMinutes <= DayMinutes /\ DayMinutes \in Nat
      /\ \A d \in D : d \in Nat
  BY MetricsAssumption, DayIs
<1>. DEFINE P == [d \in D |-> PartOfDay(M, d, NightMinutes)]
<1>1. \A t \in M : /\ t \in Nat /\ DayOf(t) \in D
                   /\ DayOf(t) \in Nat /\ Midnight(DayOf(t)) \in Nat
                   /\ Midnight(DayOf(t)) <= t /\ t < Midnight(DayOf(t)) + DayMinutes
                   /\ t % DayMinutes = t - Midnight(DayOf(t))
  BY DayIs
<1>2. ASSUME NEW d \in D, NEW t \in P[d] PROVE t \in M /\ DayOf(t) = d /\ t % DayMinutes < NightMinutes
  <2>1. t \in M /\ t \in Nat /\ d \in Nat /\ Midnight(d) <= t /\ t < Midnight(d) + NightMinutes
    BY <1>0 DEF PartOfDay
  <2>2. Midnight(d) \in Nat
    BY <2>1, NextMidnight
  <2>3. t < Midnight(d) + DayMinutes
    BY <1>0, <2>1, <2>2
  <2>4. DayOf(t) = d
    BY <2>1, <2>3, DayIsOne
  <2>5. t % DayMinutes = t - Midnight(d)
    BY <1>1, <2>1, <2>4
  <2>. QED
    BY <1>0, <2>1, <2>2, <2>4, <2>5
<1>3. ASSUME NEW t \in M, t % DayMinutes < NightMinutes PROVE t \in P[DayOf(t)]
  <2>1. Midnight(DayOf(t)) <= t /\ t < Midnight(DayOf(t)) + NightMinutes
    BY <1>0, <1>1, <1>3
  <2>. QED
    BY <1>1, <2>1 DEF PartOfDay
<1>4. \A d \in D : IsFiniteSet(P[d]) /\ f[d] = Cardinality(P[d])
  <2>1. \A d \in D : P[d] \in SUBSET M
    BY <1>2
  <2>2. \A d \in D : f[d] = Cardinality(P[d])
    OBVIOUS
  <2>. HIDE DEF P
  <2>. QED
    BY <2>1, <2>2, FS_Subset
<1>. HIDE DEF P
<1>5. \A d, e \in D : d # e => P[d] \cap P[e] = {}
  BY <1>2
<1>6. PartsOf(P, f, D)
  BY <1>4, <1>5 DEF PartsOf
<1>7. AllOf(P, D) = {t \in M : t % DayMinutes < NightMinutes}
  <2>1. ASSUME NEW t PROVE t \in AllOf(P, D) <=> t \in {u \in M : u % DayMinutes < NightMinutes}
    BY <1>1, <1>2, <1>3 DEF AllOf
  <2>. QED
    BY <2>1
<1>8. PICK g : g = CHOOSE h : Sums(h, f, D)
  OBVIOUS
<1>9. Sums(g, f, D)
  BY <1>8, SumsExist
<1>10. AddsUp(g, f, D)
  <2>1. \A s \in SUBSET D : g[s] = SumStep(g, f, s)
    BY <1>9 DEF Sums
  <2>2. g[{}] = 0
    BY <2>1 DEF SumStep
  <2>3. ASSUME NEW s \in SUBSET D, s # {} PROVE \E x \in s : g[s] = f[x] + g[s \ {x}]
    <3>1. AnyOf(s) \in s
      BY <2>3 DEF AnyOf
    <3>. QED
      BY <2>1, <2>3, <3>1 DEF SumStep
  <2>. QED
    BY <2>2, <2>3 DEF AddsUp
<1>11. g[D] = Cardinality(AllOf(P, D))
  BY <1>6, <1>10, PartsAddUp
<1>12. Total(f) = g[D]
  BY <1>8 DEF Total
<1>. QED
  BY <1>7, <1>11, <1>12

\* U counts the minutes M once, on the day and in the night each is in.
CountsOnce(U, M) ==
  /\ U.total = Cardinality(M)
  /\ DOMAIN U.daily = {DayOf(t) : t \in M}
  /\ \A d \in DOMAIN U.daily : U.daily[d] = Cardinality({t \in M : DayOf(t) = d})
  /\ U.night = Cardinality({t \in M : t % DayMinutes < NightMinutes})

\* union_active: the union of spans has the minutes that any of them has, each
\* counted once, on the day and in the night it is in.
THEOREM UnionIsRight ==
  ASSUME NEW spans, IsFiniteSet(spans), \A s \in spans : IsSpan(s),
         NEW M, M = MinutesOf(spans), NEW U, U = UnionActive(spans)
  PROVE  /\ M \in SUBSET Nat /\ IsFiniteSet(M)
         /\ CountsOnce(U, M)
<1>1. PICK m : /\ m = MergeIntervals(spans)
               /\ U.total = LengthOf(m)
               /\ DOMAIN U.daily = DaysIn(m)
               /\ \A d \in DaysIn(m) : U.daily[d] = OverlapIn(m, d * DayMinutes, d * DayMinutes + DayMinutes)
               /\ U.night = Total([d \in DaysIn(m) |-> OverlapIn(m, d * DayMinutes, d * DayMinutes + NightMinutes)])
  BY UnionIs
<1>2. Apart(m)
  BY <1>1, MergeIsRight
<1>3. \A t \in Nat : t \in M <=> \E j \in 1 .. Len(m) : In(m[j], t)
  BY <1>1, MergeIsRight
<1>4. M \in SUBSET Nat
  <2>1. \A s \in spans : s[1] .. s[2] - 1 \in SUBSET Nat
    <3>1. ASSUME NEW s \in spans PROVE s[1] .. s[2] - 1 \in SUBSET Nat
      <4>1. s[1] \in Nat /\ s[2] \in Nat
        BY DEF IsSpan
      <4>. QED
        BY <4>1
    <3>. QED
      BY <3>1
  <2>. QED
    BY <2>1 DEF MinutesOf
<1>5. M = {t \in Nat : \E j \in 1 .. Len(m) : In(m[j], t)}
  BY <1>3, <1>4
<1>6. IsFiniteSet(M)
  BY <1>2, <1>5, LengthIsRight
<1>7. U.total = Cardinality(M)
  <2>1. LengthOf(m) = Cardinality({t \in Nat : \E j \in 1 .. Len(m) : In(m[j], t)})
    BY <1>2, LengthIsRight
  <2>. QED
    BY <1>1, <1>5, <2>1
<1>8. DaysIn(m) = {DayOf(t) : t \in M} /\ \A d \in DaysIn(m) : d \in Nat
  BY <1>2, <1>3, <1>4, DaysAreRight
<1>9. NightMinutes \in Nat /\ DayMinutes \in Nat
  BY MetricsAssumption
<1>10. ASSUME NEW d \in DaysIn(m)
       PROVE  U.daily[d] = Cardinality({t \in M : DayOf(t) = d})
  <2>1. OverlapIn(m, d * DayMinutes, d * DayMinutes + DayMinutes) = Cardinality(PartOfDay(M, d, DayMinutes))
    BY <1>2, <1>3, <1>4, <1>6, <1>8, <1>9, PartIsRight
  <2>2. PartOfDay(M, d, DayMinutes) = {t \in M : DayOf(t) = d}
    <3>1. \A t \in M : DayOf(t) = d <=> Midnight(d) <= t /\ t < Midnight(d) + DayMinutes
      BY <1>4, <1>8, DayIsOne
    <3>. QED
      BY <3>1 DEF PartOfDay
  <2>. QED
    BY <1>1, <2>1, <2>2
<1>11. IsFiniteSet(DaysIn(m))
  <2>1. IsFiniteSet({DayOf(t) : t \in M})
    <3>. DEFINE f == [t \in M |-> DayOf(t)]
    <3>1. {DayOf(t) : t \in M} = {f[t] : t \in M}
      OBVIOUS
    <3>. HIDE DEF f
    <3>. QED
      BY <1>6, <3>1, FiniteImage
  <2>. QED
    BY <1>8, <2>1
<1>12. U.night = Cardinality({t \in M : t % DayMinutes < NightMinutes})
  <2>. DEFINE f == [d \in DaysIn(m) |-> OverlapIn(m, d * DayMinutes, d * DayMinutes + NightMinutes)]
  <2>1. ASSUME NEW d \in DaysIn(m) PROVE f[d] = Cardinality(PartOfDay(M, d, NightMinutes))
    <3>1. OverlapIn(m, d * DayMinutes, d * DayMinutes + NightMinutes) = Cardinality(PartOfDay(M, d, NightMinutes))
      BY <1>2, <1>3, <1>4, <1>6, <1>8, <1>9, PartIsRight
    <3>. QED
      BY <3>1
  <2>2. DOMAIN f = DaysIn(m)
    OBVIOUS
  <2>3. U.night = Total(f)
    BY <1>1
  <2>. HIDE DEF f
  <2>4. Total(f) = Cardinality({t \in M : t % DayMinutes < NightMinutes})
    BY <1>4, <1>6, <1>8, <1>11, <2>1, <2>2, NightsAddUp
  <2>. QED
    BY <2>3, <2>4
<1>. QED
  BY <1>1, <1>4, <1>6, <1>7, <1>8, <1>10, <1>12 DEF CountsOnce

\* The members of a set of numbers in order: the first is the least, the last
\* the greatest, and nothing lies between neighbours.
LEMMA Neighbours ==
  ASSUME NEW E, IsRow(E), NEW o, SortsNumbers(o, E), NEW n, n = Cardinality(E)
  PROVE  /\ n \in Nat \ {0}
         /\ \A i \in 1 .. n : o[i] \in E /\ o[i] \in Nat
         /\ \A x \in E : x >= o[1] /\ x <= o[n]
         /\ \A i \in 1 .. n - 1 : o[i] < o[i + 1] /\ \A x \in E : x > o[i] => x >= o[i + 1]
<1>0. E \in SUBSET Nat /\ IsFiniteSet(E) /\ E # {}
  BY DEF IsRow
<1>1. /\ n \in Nat /\ n # 0 /\ (\A i \in 1 .. n : o[i] \in E /\ o[i] \in Nat)
      /\ (\A x \in E : \E i \in 1 .. n : o[i] = x)
      /\ \A i, j \in 1 .. n : i < j => o[i] < o[j]
  <2>1. /\ n \in Nat /\ o \in Seq(E) /\ Len(o) = n
        /\ (\A x \in E : \E i \in 1 .. n : o[i] = x)
        /\ \A i, j \in 1 .. n : i < j => o[i] < o[j]
    BY <1>0, SortedNumbers
  <2>2. \A i \in 1 .. n : o[i] \in E
    BY <2>1
  <2>3. n # 0
    BY <1>0, FS_EmptySet
  <2>. QED
    BY <1>0, <2>1, <2>2, <2>3
<1>2. \A i, j \in 1 .. n : i <= j => o[i] <= o[j]
  <2>1. ASSUME NEW i \in 1 .. n, NEW j \in 1 .. n, i <= j PROVE o[i] <= o[j]
    <3>1. o[i] \in Nat /\ o[j] \in Nat
      BY <1>1
    <3>2. CASE i = j
      BY <3>1, <3>2
    <3>3. CASE i < j
      <4>1. o[i] < o[j]
        BY <1>1, <3>3
      <4>. QED
        BY <3>1, <4>1
    <3>. QED
      BY <1>1, <2>1, <3>2, <3>3
  <2>. QED
    BY <2>1
<1>3. ASSUME NEW x \in E PROVE x >= o[1] /\ x <= o[n]
  <2>1. PICK k \in 1 .. n : o[k] = x
    BY <1>1
  <2>2. 1 \in 1 .. n /\ n \in 1 .. n /\ 1 <= k /\ k <= n
    BY <1>1
  <2>3. o[1] <= o[k] /\ o[k] <= o[n] /\ o[1] \in Nat /\ o[k] \in Nat /\ o[n] \in Nat
    BY <1>1, <1>2, <2>2
  <2>. QED
    BY <2>1, <2>3
<1>4. ASSUME NEW i \in 1 .. n - 1
      PROVE  o[i] < o[i + 1] /\ \A x \in E : x > o[i] => x >= o[i + 1]
  <2>1. i \in 1 .. n /\ i + 1 \in 1 .. n /\ i < i + 1
    BY <1>1
  <2>2. o[i] < o[i + 1] /\ o[i] \in Nat /\ o[i + 1] \in Nat
    BY <1>1, <2>1
  <2>3. ASSUME NEW x \in E, x > o[i] PROVE x >= o[i + 1]
    <3>1. PICK j \in 1 .. n : o[j] = x
      BY <1>1
    <3>2. CASE j <= i
      <4>1. o[j] <= o[i] /\ o[j] \in Nat
        BY <1>1, <1>2, <2>1, <3>2
      <4>. QED
        BY <2>2, <2>3, <3>1, <4>1
    <3>3. CASE i + 1 <= j
      <4>1. o[i + 1] <= o[j] /\ o[j] \in Nat
        BY <1>1, <1>2, <2>1, <3>3
      <4>. QED
        BY <2>2, <3>1, <4>1
    <3>. QED
      BY <2>1, <3>2, <3>3
  <2>. QED
    BY <2>2, <2>3
<1>. QED
  BY <1>1, <1>3, <1>4

(***************************************************************************)
(* longest_and_current_streak, day by day.                                 *)
(***************************************************************************)

FirstDay(o) == [day |-> o[1], run |-> 1, longest |-> 1]

DayStep(acc, d) ==
  LET run == IF d = acc.day + 1 THEN acc.run + 1 ELSE 1
  IN [day |-> d, run |-> run, longest |-> SetMax({acc.longest, run})]

Streaks == [day : Int, run : Int, longest : Int]

UnrollsStreak(c, o) ==
  c = [s \in SUBSET DOMAIN Tail(o) |->
         IF s = {} THEN FirstDay(o) ELSE DayStep(c[s \ {Max(s)}], Tail(o)[Max(s)])]
StreakAfter(o) == (CHOOSE d : UnrollsStreak(d, o))[DOMAIN Tail(o)]

\* LongestStreak is a fold over the days in order.
LEMMA StreakIsFold ==
  ASSUME NEW days, days # {}
  PROVE  \E o : SortsNumbers(o, days) /\ LongestStreak(days) = StreakAfter(o).longest
<1>. DEFINE o == Sorted(days, <)
            c == FoldLeft(DayStep, FirstDay(o), Tail(o))
<1>1. SortsNumbers(o, days)
  BY DEF Sorted, SortsNumbers
<1>2. LongestStreak(days) = IF days = {} THEN 0 ELSE c.longest
  BY DEF LongestStreak, FirstDay, DayStep, FoldLeft, MapThenFoldSet, Sorted
<1>3. c = StreakAfter(o)
  BY DEF FoldLeft, MapThenFoldSet, UnrollsStreak, StreakAfter
<1>. HIDE DEF o, c
<1>. QED
  BY <1>1, <1>2, <1>3

\* One step of it.
LEMMA DayStepIs ==
  ASSUME NEW acc \in Streaks, NEW d \in Int
  PROVE  /\ DayStep(acc, d) \in Streaks /\ DayStep(acc, d).day = d
         /\ DayStep(acc, d).run = IF d = acc.day + 1 THEN acc.run + 1 ELSE 1
         /\ DayStep(acc, d).longest =
              IF acc.longest >= DayStep(acc, d).run THEN acc.longest ELSE DayStep(acc, d).run
<1>. PICK run : run = IF d = acc.day + 1 THEN acc.run + 1 ELSE 1
  OBVIOUS
<1>1. run \in Int /\ acc.longest \in Int
  BY DEF Streaks
<1>2. SetMax({acc.longest, run}) = IF acc.longest >= run THEN acc.longest ELSE run
  BY <1>1, OfTwo
<1>. PICK k : k = SetMax({acc.longest, run})
  OBVIOUS
<1>3. DayStep(acc, d) = [day |-> d, run |-> run, longest |-> k]
  BY DEF DayStep
<1>4. k \in Int
  BY <1>1, <1>2
<1>. QED
  BY <1>1, <1>2, <1>3, <1>4 DEF Streaks

\* What the fold has made of each day.
LEMMA StreakChain ==
  ASSUME NEW E, IsRow(E), NEW o, SortsNumbers(o, E), NEW n, n = Cardinality(E)
  PROVE  \E a : /\ a[0] = FirstDay(o) /\ a[n - 1] = StreakAfter(o)
                /\ \A i \in 1 .. n - 1 : a[i] = DayStep(a[i - 1], o[i + 1])
<1>. DEFINE k == n - 1
            seq == Tail(o)
            F == [x \in (1 .. k) \X Streaks |-> DayStep(x[2], seq[x[1]])]
            base == FirstDay(o)
<1>0. E \in SUBSET Nat /\ IsFiniteSet(E) /\ E # {}
  BY DEF IsRow
<1>1. n \in Nat /\ o \in Seq(E) /\ Len(o) = n /\ n # 0
  BY <1>0, SortedNumbers, FS_EmptySet
<1>. HIDE DEF F, base
<1>2. k \in Nat /\ DOMAIN seq = 1 .. k /\ o[1] \in Int
      /\ \A i \in 1 .. k : seq[i] = o[i + 1] /\ seq[i] \in Int
  <2>1. o # <<>>
    BY <1>1
  <2>2. seq \in Seq(E) /\ Len(seq) = k /\ \A i \in 1 .. Len(seq) : seq[i] = o[i + 1]
    BY <1>1, <2>1, HeadTailProperties
  <2>3. k \in Nat
    BY <1>1
  <2>. HIDE DEF k, seq
  <2>4. 1 \in 1 .. n /\ \A i \in 1 .. k : i + 1 \in 1 .. n
    BY <1>1 DEF k
  <2>5. \A j \in 1 .. n : o[j] \in Int
    <3>1. \A j \in 1 .. n : o[j] \in E
      BY <1>1
    <3>2. \A x \in E : x \in Int
      BY <1>0
    <3>. QED
      BY <3>1, <3>2
  <2>. QED
    BY <2>2, <2>3, <2>4, <2>5
<1>. HIDE DEF k, seq
<1>3. base \in Streaks
  <2>1. o[1] \in Int
    BY <1>2
  <2>. QED
    BY <2>1 DEF FirstDay, Streaks, base
<1>4. ASSUME NEW i \in 1 .. k, NEW r \in Streaks
      PROVE  F[<<i, r>>] = DayStep(r, seq[i]) /\ DayStep(r, seq[i]) \in Streaks
  <2>1. DayStep(r, seq[i]) \in Streaks
    BY <1>2, DayStepIs
  <2>. QED
    BY <2>1 DEF F
<1>5. PICK g : FoldsTo(g, F, base, k) /\ \A s \in SUBSET (1 .. k) : g[s] \in Streaks
  <2>1. ASSUME NEW i \in 1 .. k, NEW r \in Streaks PROVE F[<<i, r>>] \in Streaks
    BY <1>4, Zenon
  <2>2. k \in Nat
    BY <1>2
  <2>. QED
    BY <1>3, <2>1, <2>2, FoldsExist
<1>6. UnrollsStreak(g, o)
  <2>1. ASSUME NEW s \in SUBSET (1 .. k)
        PROVE  FoldStep(g, F, base, s) = IF s = {} THEN base ELSE DayStep(g[s \ {Max(s)}], seq[Max(s)])
    <3>1. CASE s = {}
      BY <3>1 DEF FoldStep
    <3>2. CASE s # {}
      <4>1. Max(s) \in 1 .. k /\ s \ {Max(s)} \in SUBSET (1 .. k)
        BY <1>2, <3>2, MaxOfSome
      <4>2. F[<<Max(s), g[s \ {Max(s)}]>>] = DayStep(g[s \ {Max(s)}], seq[Max(s)])
        BY <1>4, <1>5, <4>1
      <4>. QED
        BY <3>2, <4>2 DEF FoldStep
    <3>. QED
      BY <3>1, <3>2
  <2>. QED
    BY <1>2, <1>5, <2>1 DEF FoldsTo, UnrollsStreak, base, seq
<1>. PICK d : d = CHOOSE x : UnrollsStreak(x, o)
  OBVIOUS
<1>7. UnrollsStreak(d, o)
  BY <1>6
<1>8. \A s \in SUBSET (1 .. k) : d[s] = IF s = {} THEN base ELSE DayStep(d[s \ {Max(s)}], seq[Max(s)])
  BY <1>2, <1>7 DEF UnrollsStreak, base, seq
<1>. DEFINE a == [i \in 0 .. k |-> d[1 .. i]]
<1>9. a[0] = base
  <2>1. 1 .. 0 = {} /\ 0 \in 0 .. k
    BY <1>2
  <2>. QED
    BY <1>8, <2>1
<1>10. a[k] = StreakAfter(o)
  <2>1. k \in 0 .. k
    BY <1>2
  <2>2. StreakAfter(o) = d[DOMAIN seq]
    BY DEF StreakAfter, seq
  <2>. QED
    BY <1>2, <2>1, <2>2
<1>11. ASSUME NEW i \in 1 .. k PROVE a[i] = DayStep(a[i - 1], seq[i])
  <2>1. i \in 0 .. k /\ i - 1 \in 0 .. k
    BY <1>2
  <2>2. PICK s : s = 1 .. i
    OBVIOUS
  <2>3. s \in SUBSET (1 .. k) /\ s # {} /\ Max(s) = i /\ s \ {Max(s)} = 1 .. (i - 1)
    BY <1>2, <2>2, FirstPlaces
  <2>4. d[s] = DayStep(d[s \ {Max(s)}], seq[Max(s)])
    BY <1>8, <2>3
  <2>. QED
    BY <2>1, <2>2, <2>3, <2>4
<1>. HIDE DEF a
<1>12. ASSUME NEW i \in 1 .. k PROVE a[i] = DayStep(a[i - 1], o[i + 1])
  BY <1>2, <1>11
<1>13. k = n - 1 /\ base = FirstDay(o)
  BY DEF base, k
<1>. QED
  BY <1>9, <1>10, <1>12, <1>13

\* What the fold has after day p: the run of days up to p, no day before it,
\* and the longest of all runs up to p.
StreakFits(acc, days, p) ==
  /\ acc \in Streaks /\ acc.day = p
  /\ acc.run \in Nat \ {0} /\ acc.longest \in Nat /\ acc.run <= acc.longest
  /\ p - acc.run + 1 \in Nat /\ p - acc.run + 1 .. p \in SUBSET days /\ p - acc.run \notin days
  /\ \E d \in Nat : d .. d + acc.longest - 1 \in SUBSET days
  /\ \A d \in Nat, k \in Nat : k # 0 /\ d .. d + k - 1 \in SUBSET days /\ d + k - 1 <= p => k <= acc.longest

\* After the first day.
LEMMA StreakBegins ==
  ASSUME NEW days \in SUBSET Nat, NEW o, o[1] \in days, \A x \in days : x >= o[1]
  PROVE  StreakFits(FirstDay(o), days, o[1])
<1>. PICK p, acc : p = o[1] /\ acc = FirstDay(o)
  OBVIOUS
<1>0. p \in Nat /\ p \in days /\ (\A x \in days : x >= p)
  OBVIOUS
<1>1. acc \in Streaks /\ acc.day = p /\ acc.run = 1 /\ acc.longest = 1
  BY <1>0 DEF FirstDay, Streaks
<1>2. p - 1 + 1 = p /\ p .. p = {p} /\ p + 1 - 1 = p
  BY <1>0
<1>3. p - 1 \notin days
  BY <1>0
<1>4. ASSUME NEW d \in Nat, NEW k \in Nat, k # 0, d .. d + k - 1 \in SUBSET days, d + k - 1 <= p
      PROVE  k <= 1
  <2>1. d \in d .. d + k - 1
    BY <1>4
  <2>2. d >= p
    BY <1>0, <1>4, <2>1
  <2>. QED
    BY <1>0, <1>4, <2>2
<1>5. StreakFits(acc, days, p)
  BY <1>0, <1>1, <1>2, <1>3, <1>4 DEF StreakFits
<1>. QED
  BY <1>5

\* And after the next one.
LEMMA StreakGoesOn ==
  ASSUME NEW days \in SUBSET Nat, NEW p \in days, NEW t \in days, p < t, \A x \in days : x > p => x >= t,
         NEW acc, StreakFits(acc, days, p)
  PROVE  StreakFits(DayStep(acc, t), days, t)
<1>0. p \in Nat /\ t \in Nat
  OBVIOUS
<1>. PICK next : next = DayStep(acc, t)
  OBVIOUS
<1>. PICK r, l, r2, l2 : r = acc.run /\ l = acc.longest /\ r2 = next.run /\ l2 = next.longest
  OBVIOUS
<1>1. /\ acc.day = p /\ r \in Nat \ {0} /\ l \in Nat /\ r <= l
      /\ p - r + 1 \in Nat /\ p - r + 1 .. p \in SUBSET days /\ p - r \notin days
  BY DEF StreakFits
<1>2. PICK best \in Nat : best .. best + l - 1 \in SUBSET days
  BY DEF StreakFits
<1>3. \A d \in Nat, k \in Nat : k # 0 /\ d .. d + k - 1 \in SUBSET days /\ d + k - 1 <= p => k <= l
  BY DEF StreakFits
<1>04. acc \in Streaks /\ t \in Int
  BY <1>0 DEF StreakFits
<1>4. next \in Streaks /\ next.day = t
  BY <1>04, DayStepIs
<1>5. r2 = IF t = p + 1 THEN r + 1 ELSE 1
  BY <1>04, <1>1, DayStepIs
<1>6. l2 = IF l >= r2 THEN l ELSE r2
  BY <1>04, DayStepIs
<1>7. r2 \in Nat \ {0} /\ l2 \in Nat /\ r2 <= l2 /\ l <= l2
  BY <1>1, <1>5, <1>6
<1>8. t - r2 + 1 \in Nat /\ t - r2 + 1 .. t \in SUBSET days /\ t - r2 \notin days
  <2>1. CASE t = p + 1
    <3>1. t - r2 + 1 = p - r + 1 /\ t - r2 = p - r
      BY <1>0, <1>1, <1>5, <2>1
    <3>2. \A x \in t - r2 + 1 .. t : x \in p - r + 1 .. p \/ x = t
      BY <1>0, <1>1, <2>1, <3>1
    <3>. QED
      BY <1>1, <3>1, <3>2
  <2>2. CASE t # p + 1
    <3>1. r2 = 1 /\ t - r2 + 1 = t
      BY <1>0, <1>5, <2>2
    <3>2. t .. t = {t}
      BY <1>0
    <3>3. t - 1 \notin days
      BY <1>0, <2>2
    <3>. QED
      BY <1>0, <3>1, <3>2, <3>3
  <2>. QED
    BY <2>1, <2>2
<1>9. \E d \in Nat : d .. d + l2 - 1 \in SUBSET days
  <2>1. CASE l2 = l
    BY <1>2, <2>1
  <2>2. CASE l2 = r2
    <3>1. PICK d \in Nat : d = t - r2 + 1
      BY <1>8
    <3>2. d + l2 - 1 = t
      BY <1>0, <1>7, <2>2, <3>1
    <3>. QED
      BY <1>8, <3>1, <3>2
  <2>. QED
    BY <1>6, <2>1, <2>2
<1>10. ASSUME NEW d \in Nat, NEW k \in Nat, k # 0, d .. d + k - 1 \in SUBSET days, d + k - 1 <= t
       PROVE  k <= l2
  <2>. PICK e : e = d + k - 1
    OBVIOUS
  <2>1. e \in Nat /\ d <= e /\ e \in d .. e /\ e <= t /\ d .. e \in SUBSET days
    BY <1>10
  <2>2. CASE e <= p
    <3>1. d + k - 1 <= p
      BY <2>2
    <3>2. k <= l
      BY <1>3, <1>10, <3>1
    <3>. QED
      BY <1>1, <1>7, <3>2
  <2>3. CASE ~(e <= p)
    <3>1. e = t
      BY <1>0, <2>1, <2>3
    <3>2. ~(k > r2)
      <4>. SUFFICES ASSUME k > r2 PROVE FALSE
        OBVIOUS
      <4>1. t - r2 \in d .. e
        BY <1>0, <1>7, <1>10, <3>1
      <4>. QED
        BY <1>8, <2>1, <4>1
    <3>. QED
      BY <1>7, <3>2
  <2>. QED
    BY <2>2, <2>3
<1>11. StreakFits(next, days, t)
  BY <1>4, <1>7, <1>8, <1>9, <1>10 DEF StreakFits
<1>. QED
  BY <1>11

\* No days, no streak.
LEMMA NoStreak ==
  ASSUME NEW days, days = {}
  PROVE  LongestStreak(days) = 0 /\ StreakOf(days) = 0
<1>1. LongestStreak(days) = 0
  BY DEF LongestStreak, FoldLeft, MapThenFoldSet, Sorted
<1>2. StreakOf(days) = 0
  BY DEF StreakOf
<1>. QED
  BY <1>1, <1>2

\* longest_and_current_streak: it finds the longest run of consecutive days,
\* whatever the days are.
THEOREM StreakIsRight ==
  ASSUME NEW days \in SUBSET Nat, IsFiniteSet(days)
  PROVE  LongestStreak(days) \in Nat /\ LongestStreak(days) = StreakOf(days)
<1>1. CASE days = {}
  BY <1>1, NoStreak
<1>2. CASE days # {}
  <2>0. IsRow(days)
    BY <1>2 DEF IsRow
  <2>1. PICK o : SortsNumbers(o, days) /\ LongestStreak(days) = StreakAfter(o).longest
    BY <1>2, StreakIsFold
  <2>2. PICK n : n = Cardinality(days)
    OBVIOUS
  <2>3. PICK a : /\ a[0] = FirstDay(o) /\ a[n - 1] = StreakAfter(o)
                 /\ \A i \in 1 .. n - 1 : a[i] = DayStep(a[i - 1], o[i + 1])
    BY <2>0, <2>1, <2>2, StreakChain
  <2>4. n \in Nat \ {0}
    BY <2>0, <2>1, <2>2, Neighbours
  <2>5. \A i \in 1 .. n : o[i] \in days /\ o[i] \in Nat
    BY <2>0, <2>1, <2>2, Neighbours
  <2>6. \A x \in days : x >= o[1] /\ x <= o[n]
    BY <2>0, <2>1, <2>2, Neighbours
  <2>7. \A i \in 1 .. n - 1 : o[i] < o[i + 1] /\ \A x \in days : x > o[i] => x >= o[i + 1]
    BY <2>0, <2>1, <2>2, Neighbours
  <2>8. ASSUME NEW i \in 0 .. n - 1 PROVE StreakFits(a[i], days, o[i + 1])
    <3>. DEFINE Bad == {j \in 0 .. n - 1 : ~StreakFits(a[j], days, o[j + 1])}
    <3>. SUFFICES ASSUME Bad # {} PROVE FALSE
      OBVIOUS
    <3>1. PICK j \in Bad : \A k \in Bad : j <= k
      <4>1. Bad \in SUBSET Nat
        OBVIOUS
      <4>. HIDE DEF Bad
      <4>. QED
        BY <4>1, LeastNumber
    <3>2. CASE j = 0
      <4>1. StreakFits(FirstDay(o), days, o[1])
        <5>1. 1 \in 1 .. n
          BY <2>4
        <5>. QED
          BY <2>5, <2>6, <5>1, StreakBegins
      <4>2. j + 1 = 1
        BY <3>2
      <4>. QED
        BY <2>3, <3>1, <3>2, <4>1, <4>2
    <3>3. CASE j # 0
      <4>1. j \in 1 .. n - 1 /\ j \in 1 .. n /\ j + 1 \in 1 .. n /\ j - 1 \in 0 .. n - 1 /\ (j - 1) + 1 = j
            /\ ~(j <= j - 1)
        BY <2>4, <3>1, <3>3
      <4>2. StreakFits(a[j - 1], days, o[j])
        <5>1. j - 1 \notin Bad
          BY <3>1, <4>1
        <5>. QED
          BY <4>1, <5>1
      <4>3. a[j] = DayStep(a[j - 1], o[j + 1])
        BY <2>3, <4>1
      <4>4. StreakFits(DayStep(a[j - 1], o[j + 1]), days, o[j + 1])
        <5>1. /\ o[j] \in days /\ o[j + 1] \in days /\ o[j] < o[j + 1]
              /\ \A x \in days : x > o[j] => x >= o[j + 1]
          BY <2>5, <2>7, <4>1
        <5>. QED
          BY <4>2, <5>1, StreakGoesOn
      <4>. QED
        BY <3>1, <4>3, <4>4
    <3>. QED
      BY <3>2, <3>3
  <2>9. PICK acc : acc = StreakAfter(o)
    OBVIOUS
  <2>10. StreakFits(acc, days, o[n])
    <3>1. n - 1 \in 0 .. n - 1 /\ (n - 1) + 1 = n
      BY <2>4
    <3>. QED
      BY <2>3, <2>8, <2>9, <3>1
  <2>. PICK l : l = acc.longest
    OBVIOUS
  <2>11. l \in Nat \ {0}
    BY <2>10 DEF StreakFits
  <2>12. PICK best \in Nat : best .. best + l - 1 \in SUBSET days
    BY <2>10 DEF StreakFits
  <2>13. \A d \in Nat, k \in Nat : k # 0 /\ d .. d + k - 1 \in SUBSET days /\ d + k - 1 <= o[n] => k <= l
    BY <2>10 DEF StreakFits
  <2>. DEFINE lengths == {k \in 1 .. Cardinality(days) : \E d \in days : d .. d + k - 1 \subseteq days}
  <2>14. \A k \in lengths : k \in Int /\ k <= l
    <3>1. ASSUME NEW k \in lengths PROVE k \in Int /\ k <= l
      <4>1. PICK d \in days : d .. d + k - 1 \subseteq days
        OBVIOUS
      <4>2. k \in Nat /\ k # 0 /\ d \in Nat
        BY <2>2, <2>4
      <4>3. d + k - 1 \in days
        BY <4>1, <4>2
      <4>4. d + k - 1 <= o[n]
        BY <2>6, <4>3
      <4>. QED
        BY <2>13, <4>1, <4>2, <4>4
    <3>. QED
      BY <3>1
  <2>15. l \in lengths
    <3>1. best \in days
      BY <2>11, <2>12
    <3>2. IsFiniteSet(best .. best + l - 1) /\ Cardinality(best .. best + l - 1) = l
      <4>1. best \in Int /\ best + l - 1 \in Int
        BY <2>11
      <4>2. IsFiniteSet(best .. best + l - 1)
            /\ Cardinality(best .. best + l - 1) = IF best > best + l - 1 THEN 0 ELSE (best + l - 1) - best + 1
        BY <4>1, FS_Interval
      <4>. QED
        BY <2>11, <4>2
    <3>3. Cardinality(best .. best + l - 1) <= Cardinality(days)
      BY <2>12, FS_Subset
    <3>. QED
      BY <2>2, <2>4, <2>11, <2>12, <3>1, <3>2, <3>3
  <2>16. StreakOf(days) = SetMax(lengths)
    BY <1>2 DEF StreakOf
  <2>. HIDE DEF lengths
  <2>17. SetMax(lengths) = l
    <3>1. \A k \in lengths : (\A j \in lengths : k >= j) => k = l
      BY <2>11, <2>14, <2>15
    <3>2. \A j \in lengths : l >= j
      BY <2>11, <2>14
    <3>. QED
      BY <2>15, <3>1, <3>2 DEF SetMax
  <2>. QED
    BY <2>1, <2>9, <2>11, <2>16, <2>17
<1>. QED
  BY <1>1, <1>2

(***************************************************************************)
(* All sessions of the ledger.                                             *)
(***************************************************************************)

AreRows(rs) == IsFiniteSet(rs) /\ \A r \in rs : IsRow(r)

\* A union of finitely many finite parts is finite.
LEMMA FinitelyMany ==
  ASSUME NEW S, IsFiniteSet(S), NEW f, \A x \in S : IsFiniteSet(f[x]), NEW T, T = UNION {f[x] : x \in S}
  PROVE  IsFiniteSet(T)
<1>. PICK parts : parts = {f[x] : x \in S}
  OBVIOUS
<1>1. IsFiniteSet(parts)
  BY FiniteImage
<1>2. \A part \in parts : IsFiniteSet(part)
  OBVIOUS
<1>. QED
  BY <1>1, <1>2, FS_UNION

\* The events, the active minutes and the days of finitely many rows.
LEMMA RowsAreFinite ==
  ASSUME NEW rs, AreRows(rs)
  PROVE  /\ AllMinutes(rs) \in SUBSET Nat /\ IsFiniteSet(AllMinutes(rs))
         /\ ActiveDays(rs) \in SUBSET Nat /\ IsFiniteSet(ActiveDays(rs))
<1>0. IsFiniteSet(rs) /\ \A r \in rs : IsRow(r) /\ r \in SUBSET Nat /\ IsFiniteSet(r)
  BY DEF AreRows, IsRow
<1>1. AllMinutes(rs) \in SUBSET Nat
  <2>1. \A r \in rs : ActiveMinutes(r) \in SUBSET Nat
    BY <1>0, ActiveIsFinite
  <2>. QED
    BY <2>1 DEF AllMinutes
<1>2. IsFiniteSet(AllMinutes(rs))
  <2>. DEFINE f == [r \in rs |-> ActiveMinutes(r)]
  <2>1. \A r \in rs : IsFiniteSet(f[r])
    BY <1>0, ActiveIsFinite
  <2>2. AllMinutes(rs) = UNION {f[r] : r \in rs}
    BY DEF AllMinutes
  <2>. HIDE DEF f
  <2>. QED
    BY <1>0, <2>1, <2>2, FinitelyMany
<1>3. UNION rs \in SUBSET Nat /\ IsFiniteSet(UNION rs)
  BY <1>0, FS_UNION
<1>4. ActiveDays(rs) \in SUBSET Nat
  <2>1. \A t \in UNION rs : DayOf(t) \in Nat
    BY <1>3, DayIs
  <2>. QED
    BY <2>1 DEF ActiveDays
<1>5. IsFiniteSet(ActiveDays(rs))
  <2>. DEFINE f == [t \in UNION rs |-> DayOf(t)]
  <2>1. ActiveDays(rs) = {f[t] : t \in UNION rs}
    BY DEF ActiveDays
  <2>. HIDE DEF f
  <2>. QED
    BY <1>3, <2>1, FiniteImage
<1>. QED
  BY <1>1, <1>2, <1>4, <1>5

\* combine: over all the sessions of the ledger, concurrent or not, the active
\* minutes, those of each day and those of the nights are counted once.
THEOREM CombinedIsRight ==
  ASSUME NEW rs, AreRows(rs), NEW M, M = AllMinutes(rs), NEW U, U = Combined(rs)
  PROVE  CountsOnce(U, M)
<1>. DEFINE f == [r \in rs |-> Timeline(r).spans]
<1>. PICK spans : spans = UNION {f[r] : r \in rs}
  OBVIOUS
<1>0. IsFiniteSet(rs) /\ \A r \in rs : IsRow(r)
  BY DEF AreRows
<1>1. U = UnionActive(spans)
  BY DEF Combined
<1>2. \A r \in rs : IsFiniteSet(f[r])
  BY <1>0, TimelineIsRight
<1>3. \A r \in rs : \A s \in f[r] : IsSpan(s)
  BY <1>0, TimelineIsRight
<1>4. \A r \in rs : MinutesOf(f[r]) = ActiveMinutes(r)
  BY <1>0, TimelineIsRight
<1>. HIDE DEF f
<1>5. IsFiniteSet(spans)
  BY <1>0, <1>2, FinitelyMany
<1>6. \A s \in spans : IsSpan(s)
  BY <1>3
<1>7. M = MinutesOf(spans)
  <2>1. \A t : t \in MinutesOf(spans) <=> \E r \in rs : t \in MinutesOf(f[r])
    BY DEF MinutesOf
  <2>2. \A t : t \in M <=> \E r \in rs : t \in ActiveMinutes(r)
    BY DEF AllMinutes
  <2>3. \A t : t \in MinutesOf(spans) <=> t \in M
    BY <1>4, <2>1, <2>2
  <2>. QED
    BY <2>3
<1>. QED
  BY <1>1, <1>5, <1>6, <1>7, UnionIsRight

(***************************************************************************)
(* What is really so only grows with the ledger.                           *)
(***************************************************************************)

\* The largest of some numbers, or 0.
Most(S) == SetMax({0} \cup S)

\* It is not larger than the largest of numbers that reach as far.
LEMMA MostGrows ==
  ASSUME NEW A \in SUBSET Nat, NEW B \in SUBSET Nat, IsFiniteSet(A), IsFiniteSet(B),
         \A a \in A : \E b \in B : a <= b
  PROVE  Most(A) \in Nat /\ Most(B) \in Nat /\ Most(A) <= Most(B)
<1>1. ASSUME NEW S \in SUBSET Nat, IsFiniteSet(S)
      PROVE  Most(S) \in {0} \cup S /\ \A x \in {0} \cup S : x <= Most(S)
  <2>. PICK Z : Z = {0} \cup S
    OBVIOUS
  <2>1. Z \in SUBSET Int /\ Z # {}
    OBVIOUS
  <2>2. IsFiniteSet(Z)
    <3>1. IsFiniteSet(S \cup {0})
      BY <1>1, FS_AddElement
    <3>2. Z = S \cup {0}
      OBVIOUS
    <3>. QED
      BY <3>1, <3>2
  <2>. QED
    BY <2>1, <2>2, LargestNumber DEF Most
<1>2. Most(A) \in {0} \cup A /\ Most(B) \in {0} \cup B /\ \A x \in {0} \cup B : x <= Most(B)
  BY <1>1
<1>3. Most(A) \in Nat /\ Most(B) \in Nat
  <2>1. {0} \cup A \in SUBSET Nat /\ {0} \cup B \in SUBSET Nat
    OBVIOUS
  <2>2. PICK p, q : p = Most(A) /\ q = Most(B)
    OBVIOUS
  <2>3. p \in {0} \cup A /\ q \in {0} \cup B
    BY <1>2, <2>2
  <2>. QED
    BY <2>1, <2>2, <2>3
<1>4. Most(A) <= Most(B)
  <2>1. CASE Most(A) = 0
    BY <1>3, <2>1
  <2>2. CASE Most(A) \in A
    <3>1. PICK b \in B : Most(A) <= b
      BY <2>2
    <3>2. b <= Most(B) /\ b \in Nat
      BY <1>2
    <3>. QED
      BY <1>3, <3>1, <3>2
  <2>. QED
    BY <1>2, <2>1, <2>2
<1>. QED
  BY <1>3, <1>4

\* More minutes are not less.
LEMMA MoreMinutes ==
  ASSUME NEW M, NEW N, IsFiniteSet(N), M \in SUBSET N
  PROVE  Cardinality(M) \in Nat /\ Cardinality(M) <= Cardinality(N) /\ IsFiniteSet(M)
<1>1. IsFiniteSet(M) /\ Cardinality(M) <= Cardinality(N)
  BY FS_Subset
<1>. QED
  BY <1>1, FS_CardinalityType

\* The streak of days does not shrink when days are added.
LEMMA StreakOfGrows ==
  ASSUME NEW A \in SUBSET Nat, NEW B \in SUBSET Nat, IsFiniteSet(B), A \in SUBSET B
  PROVE  StreakOf(A) \in Nat /\ StreakOf(A) <= StreakOf(B)
<1>. DEFINE runs(S) == {n \in 1 .. Cardinality(S) : \E d \in S : d .. d + n - 1 \subseteq S}
<1>0. Cardinality(A) \in Nat /\ Cardinality(B) \in Nat /\ Cardinality(A) <= Cardinality(B) /\ IsFiniteSet(A)
  BY FS_Subset, FS_CardinalityType
<1>1. ASSUME NEW S \in SUBSET Nat, IsFiniteSet(S)
      PROVE  /\ runs(S) \in SUBSET Nat /\ IsFiniteSet(runs(S)) /\ StreakOf(S) = Most(runs(S))
  <2>0. Cardinality(S) \in Nat
    BY <1>1, FS_CardinalityType
  <2>1. runs(S) \in SUBSET (1 .. Cardinality(S)) /\ runs(S) \in SUBSET Nat
    BY <2>0
  <2>2. IsFiniteSet(runs(S))
    <3>1. 1 \in Int /\ Cardinality(S) \in Int
      BY <2>0
    <3>2. IsFiniteSet(1 .. Cardinality(S))
      BY <3>1, FS_Interval
    <3>. HIDE DEF runs
    <3>. QED
      BY <2>1, <3>2, FS_Subset
  <2>3. CASE S = {}
    <3>1. runs(S) = {}
      BY <2>3
    <3>2. Most({}) = 0
      BY DEF Most, SetMax
    <3>3. StreakOf(S) = 0
      BY <2>3, NoStreak
    <3>. HIDE DEF runs
    <3>. QED
      BY <2>1, <2>2, <3>1, <3>2, <3>3
  <2>4. CASE S # {}
    <3>1. StreakOf(S) = SetMax(runs(S))
      BY <2>4 DEF StreakOf
    <3>2. PICK d \in S : TRUE
      BY <2>4
    <3>3. 1 \in runs(S)
      <4>1. d .. d + 1 - 1 = {d}
        OBVIOUS
      <4>2. Cardinality(S) # 0
        BY <1>1, <2>4, FS_EmptySet
      <4>. QED
        BY <2>0, <4>1, <4>2
    <3>. HIDE DEF runs
    <3>4. SetMax(runs(S)) = Most(runs(S))
      <4>1. SetMax(runs(S)) \in runs(S) /\ \A x \in runs(S) : x <= SetMax(runs(S))
        BY <2>1, <2>2, <3>3, LargestNumber
      <4>2. Most(runs(S)) \in {0} \cup runs(S) /\ \A x \in {0} \cup runs(S) : x <= Most(runs(S))
        <5>. PICK Z : Z = {0} \cup runs(S)
          OBVIOUS
        <5>1. IsFiniteSet(Z)
          <6>1. IsFiniteSet(runs(S) \cup {0})
            BY <2>2, FS_AddElement
          <6>2. Z = runs(S) \cup {0}
            OBVIOUS
          <6>. QED
            BY <6>1, <6>2
        <5>2. Z \in SUBSET Int /\ Z # {}
          BY <2>1
        <5>. QED
          BY <5>1, <5>2, LargestNumber DEF Most
      <4>3. PICK p, q : p = SetMax(runs(S)) /\ q = Most(runs(S))
        OBVIOUS
      <4>4. p \in Nat /\ q \in Nat /\ p <= q /\ 1 <= q
        BY <2>1, <3>3, <4>1, <4>2, <4>3
      <4>5. q \in runs(S)
        BY <4>2, <4>3, <4>4
      <4>6. q <= p
        BY <4>1, <4>3, <4>5
      <4>. QED
        BY <4>3, <4>4, <4>6
    <3>. QED
      BY <2>1, <2>2, <3>1, <3>4
  <2>. HIDE DEF runs
  <2>. QED
    BY <2>3, <2>4
<1>2. \A n \in runs(A) : n \in runs(B) /\ n <= n
  BY <1>0
<1>3. /\ runs(A) \in SUBSET Nat /\ IsFiniteSet(runs(A)) /\ StreakOf(A) = Most(runs(A))
      /\ runs(B) \in SUBSET Nat /\ IsFiniteSet(runs(B)) /\ StreakOf(B) = Most(runs(B))
  <2>. HIDE DEF runs
  <2>. QED
    BY <1>0, <1>1
<1>. HIDE DEF runs
<1>4. \A n \in runs(A) : \E k \in runs(B) : n <= k
  BY <1>2
<1>. QED
  BY <1>3, <1>4, MostGrows

\* The minutes of the day that has most of them.
OnDay(M, d) == {t \in M : DayOf(t) = d}
Busiest(M) == Most({Cardinality(OnDay(M, d)) : d \in {DayOf(t) : t \in M}})

\* They do not get fewer.
LEMMA BusiestGrows ==
  ASSUME NEW M, NEW N, IsFiniteSet(N), M \in SUBSET N
  PROVE  Busiest(M) \in Nat /\ Busiest(M) <= Busiest(N)
<1>. DEFINE loads(S) == {Cardinality(OnDay(S, d)) : d \in {DayOf(t) : t \in S}}
<1>1. ASSUME NEW S, IsFiniteSet(S)
      PROVE  loads(S) \in SUBSET Nat /\ IsFiniteSet(loads(S)) /\ Busiest(S) = Most(loads(S))
  <2>. DEFINE f == [t \in S |-> Cardinality(OnDay(S, DayOf(t)))]
  <2>1. \A d : OnDay(S, d) \in SUBSET S
    BY DEF OnDay
  <2>2. \A d : Cardinality(OnDay(S, d)) \in Nat
    BY <1>1, <2>1, MoreMinutes
  <2>3. loads(S) = {f[t] : t \in S}
    OBVIOUS
  <2>4. loads(S) \in SUBSET Nat
    BY <2>2
  <2>5. Busiest(S) = Most(loads(S))
    BY DEF Busiest
  <2>. HIDE DEF f, loads
  <2>6. IsFiniteSet(loads(S))
    BY <1>1, <2>3, FiniteImage
  <2>. QED
    BY <2>4, <2>5, <2>6
<1>2. IsFiniteSet(M)
  BY FS_Subset
<1>3. \A n \in loads(M) : \E k \in loads(N) : n <= k
  <2>1. ASSUME NEW t \in M PROVE Cardinality(OnDay(M, DayOf(t))) <= Cardinality(OnDay(N, DayOf(t)))
    <3>. PICK d : d = DayOf(t)
      OBVIOUS
    <3>1. OnDay(M, d) \in SUBSET OnDay(N, d) /\ OnDay(N, d) \in SUBSET N
      BY DEF OnDay
    <3>2. IsFiniteSet(OnDay(N, d))
      BY <3>1, FS_Subset
    <3>3. Cardinality(OnDay(M, d)) <= Cardinality(OnDay(N, d))
      BY <3>1, <3>2, MoreMinutes
    <3>. QED
      BY <3>3
  <2>. QED
    BY <2>1
<1>. HIDE DEF loads
<1>. QED
  BY <1>1, <1>2, <1>3, MostGrows
=============================================================================
