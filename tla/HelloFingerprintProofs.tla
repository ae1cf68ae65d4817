------------------------ MODULE HelloFingerprintProofs ------------------------
(***************************************************************************)
(* The fingerprints of HelloFingerprint, for lists of any length: what the *)
(* loop over the values keeps, that a sorted list does not depend on the   *)
(* order it was given in, and that neither order nor GREASE changes a JA4. *)
(***************************************************************************)
EXTENDS HelloFingerprint, FiniteSetTheorems, Minimum, TLAPS

(* g is what the loop of NonGREASE has after each of the first m values. *)
KeptUpTo(s, m, g) ==
  g = [n \in 0..m |-> IF n = 0 THEN <<>>
                      ELSE IF isGREASE(s[n]) THEN g[n - 1] ELSE Append(g[n - 1], s[n])]

(* The loop has a value after every number of steps: without this the recursive *)
(* function of NonGREASE would say nothing.                                     *)
LEMMA KeptExists ==
  ASSUME NEW s, NEW m \in Nat PROVE \E g : KeptUpTo(s, m, g)
<1> DEFINE S == {n \in Nat : \E g : KeptUpTo(s, n, g)}
<1>1. 0 \in S
  <2> DEFINE g == [n \in 0..0 |-> <<>>]
  <2>1. KeptUpTo(s, 0, g)
    BY DEF KeptUpTo
  <2> QED
    BY <2>1
<1>2. ASSUME NEW n \in Nat, n \in S PROVE n + 1 \in S
  <2>1. PICK g : KeptUpTo(s, n, g)
    BY <1>2
  <2> DEFINE next == IF isGREASE(s[n + 1]) THEN g[n] ELSE Append(g[n], s[n + 1])
             h == [i \in 0..(n + 1) |-> IF i = n + 1 THEN next ELSE g[i]]
  <2>2. \A i \in 0..n : g[i] = IF i = 0 THEN <<>>
                               ELSE IF isGREASE(s[i]) THEN g[i - 1] ELSE Append(g[i - 1], s[i])
    BY <2>1 DEF KeptUpTo
  <2>3. ASSUME NEW i \in 0..(n + 1)
        PROVE  h[i] = IF i = 0 THEN <<>>
                      ELSE IF isGREASE(s[i]) THEN h[i - 1] ELSE Append(h[i - 1], s[i])
    <3>1. CASE i = n + 1
      <4>1. h[i] = next /\ h[i - 1] = g[n] /\ i # 0
        BY <3>1
      <4> QED
        BY <3>1, <4>1
    <3>2. CASE i # n + 1
      <4>1. i \in 0..n /\ h[i] = g[i] /\ (i # 0 => h[i - 1] = g[i - 1])
        BY <3>2
      <4> QED
        BY <2>2, <4>1
    <3> QED
      BY <3>1, <3>2
  <2>4. KeptUpTo(s, n + 1, h)
    <3>1. h = [i \in 0..(n + 1) |-> h[i]]
      OBVIOUS
    <3> HIDE DEF h
    <3> QED
      BY <2>3, <3>1, Zenon DEF KeptUpTo
  <2> QED
    BY <2>4
<1>3. 0..m \subseteq S
  <2> HIDE DEF S
  <2> QED
    BY <1>1, <1>2, UpTo
<1> QED
  BY <1>3

(* NonGREASE is what the loop has in the end. *)
LEMMA NonGREASEIsKept ==
  ASSUME NEW s \in Seq(Nat)
  PROVE  \E g : KeptUpTo(s, Len(s), g) /\ NonGREASE(s) = g[Len(s)]
<1> DEFINE kept == CHOOSE g : KeptUpTo(s, Len(s), g)
<1>1. KeptUpTo(s, Len(s), kept)
  <2>1. Len(s) \in Nat
    OBVIOUS
  <2>2. \E g : KeptUpTo(s, Len(s), g)
    BY <2>1, KeptExists
  <2> QED
    BY <2>2, Zenon
<1>2. NonGREASE(s) = kept[Len(s)]
  BY Zenon DEF NonGREASE, KeptUpTo
<1> QED
  BY <1>1, <1>2

-----------------------------------------------------------------------------
(* How many positions of a sequence have a value of S. *)
Count(t, S) == Cardinality({i \in DOMAIN t : t[i] \in S})

LEMMA CountType ==
  ASSUME NEW t \in Seq(Nat), NEW S
  PROVE  /\ Count(t, S) \in Nat /\ IsFiniteSet({i \in DOMAIN t : t[i] \in S})
         /\ Count(t, S) = 0 <=> \A i \in DOMAIN t : t[i] \notin S
<1> DEFINE T == {i \in DOMAIN t : t[i] \in S}
<1>1. IsFiniteSet(1..Len(t)) /\ T \in SUBSET (1..Len(t))
  BY FS_Interval
<1>2. IsFiniteSet(T)
  BY <1>1, FS_Subset
<1>3. Cardinality(T) \in Nat /\ (Cardinality(T) = 0 <=> T = {})
  BY <1>2, FS_CardinalityType, FS_EmptySet
<1> QED
  BY <1>2, <1>3 DEF Count

LEMMA CountAll ==
  ASSUME NEW t \in Seq(Nat) PROVE Count(t, Nat) = Len(t)
<1>1. {i \in DOMAIN t : t[i] \in Nat} = 1..Len(t)
  OBVIOUS
<1>2. Cardinality(1..Len(t)) = Len(t)
  <2>1. \A n \in Nat : Cardinality(1..n) = n
    <3> SUFFICES ASSUME NEW n \in Nat PROVE Cardinality(1..n) = n
      OBVIOUS
    <3>1. Cardinality(1..n) = IF 1 > n THEN 0 ELSE n - 1 + 1
      BY FS_Interval
    <3> QED
      BY <3>1
  <2> QED
    BY <2>1
<1> QED
  BY <1>1, <1>2, Zenon DEF Count

(* A list with one more value at its end. *)
LEMMA OneMore ==
  ASSUME NEW t \in Seq(Nat), NEW v \in Nat
  PROVE  /\ Append(t, v)[Len(t) + 1] = v
         /\ \A i \in DOMAIN t : Append(t, v)[i] = t[i]
OBVIOUS

(* Positions up to n of a list that the loop does not skip, with a value of S. *)
Hits(s, n, S) == {i \in 1..n : s[i] \in S /\ ~isGREASE(s[i])}

(* What the loop keeps has each value as often as the list, GREASE never. *)
LEMMA KeptCounts ==
  ASSUME NEW s \in Seq(Nat), NEW g, KeptUpTo(s, Len(s), g), NEW S
  PROVE  /\ g[Len(s)] \in Seq(Nat)
         /\ Count(g[Len(s)], S) = Cardinality(Hits(s, Len(s), S))
<1> DEFINE P == {n \in 0..Len(s) : g[n] \in Seq(Nat) /\ Count(g[n], S) = Cardinality(Hits(s, n, S))}
<1>0. \A i \in 0..Len(s) : g[i] = IF i = 0 THEN <<>>
                                  ELSE IF isGREASE(s[i]) THEN g[i - 1] ELSE Append(g[i - 1], s[i])
  BY DEF KeptUpTo
<1>1. 0 \in P
  <2>1. g[0] = <<>>
    <3>1. 0 \in 0..Len(s)
      OBVIOUS
    <3>2. \A x, y : (IF 0 = 0 THEN x ELSE y) = x
      OBVIOUS
    <3> HIDE DEF P
    <3> QED
      BY <1>0, <3>1, <3>2, Zenon
  <2>2. {i \in DOMAIN g[0] : g[0][i] \in S} = {}
    BY <2>1
  <2>3. Hits(s, 0, S) = {}
    BY DEF Hits
  <2>4. Count(g[0], S) = Cardinality(Hits(s, 0, S))
    BY <2>2, <2>3, Zenon DEF Count
  <2>5. g[0] \in Seq(Nat)
    BY <2>1
  <2> QED
    BY <2>4, <2>5
<1>2. ASSUME NEW n \in 0..Len(s), n < Len(s), n \in P PROVE n + 1 \in P
  <2> DEFINE v == s[n + 1]
  <2>1. v \in Nat /\ g[n] \in Seq(Nat) /\ n \in Nat /\ n + 1 \in 0..Len(s)
    BY <1>2
  <2>2. g[n + 1] = IF isGREASE(v) THEN g[n] ELSE Append(g[n], v)
    BY <1>0, <2>1
  <2>3. IsFiniteSet(Hits(s, n, S)) /\ n + 1 \notin Hits(s, n, S) /\ Cardinality(Hits(s, n, S)) \in Nat
    <3>1. Hits(s, n, S) \in SUBSET (1..n) /\ IsFiniteSet(1..n)
      BY <2>1, FS_Interval DEF Hits
    <3> QED
      BY <2>1, <3>1, FS_Subset, FS_CardinalityType
  <2>4. CASE isGREASE(v) \/ v \notin S
    <3>1. Hits(s, n + 1, S) = Hits(s, n, S)
      BY <2>1, <2>4 DEF Hits
    <3>2. g[n + 1] \in Seq(Nat)
      BY <2>1, <2>2
    <3>3. Count(g[n + 1], S) = Count(g[n], S)
      <4>1. CASE isGREASE(v)
        BY <2>2, <4>1
      <4>2. CASE ~isGREASE(v)
        <5>1. g[n + 1] = Append(g[n], v) /\ v \notin S
          BY <2>2, <2>4, <4>2
        <5>2. {i \in DOMAIN g[n + 1] : g[n + 1][i] \in S} = {i \in DOMAIN g[n] : g[n][i] \in S}
          BY <2>1, <5>1
        <5> QED
          BY <5>2 DEF Count
      <4> QED
        BY <4>1, <4>2
    <3> QED
      BY <1>2, <2>1, <3>1, <3>2, <3>3
  <2>5. CASE ~isGREASE(v) /\ v \in S
    <3>1. Hits(s, n + 1, S) = Hits(s, n, S) \cup {n + 1}
      BY <2>1, <2>5 DEF Hits
    <3>2. g[n + 1] = Append(g[n], v) /\ g[n + 1] \in Seq(Nat)
      BY <2>1, <2>2, <2>5
    <3> DEFINE T == {i \in DOMAIN g[n] : g[n][i] \in S}
    <3>3. {i \in DOMAIN g[n + 1] : g[n + 1][i] \in S} = T \cup {Len(g[n]) + 1}
      <4>1. DOMAIN g[n + 1] = 1..(Len(g[n]) + 1) /\ DOMAIN g[n] = 1..Len(g[n]) /\ Len(g[n]) \in Nat
        BY <2>1, <3>2
      <4>2. g[n + 1][Len(g[n]) + 1] = v /\ \A i \in DOMAIN g[n] : g[n + 1][i] = g[n][i]
        <5> HIDE DEF v
        <5>1. g[n + 1] = Append(g[n], v) /\ g[n] \in Seq(Nat) /\ v \in Nat
          BY <2>1, <3>2
        <5> HIDE DEF P, T
        <5> QED
          BY <5>1, OneMore
      <4> HIDE DEF v
      <4> QED
        BY <2>5, <4>1, <4>2
    <3>4. IsFiniteSet(T) /\ Len(g[n]) + 1 \notin T /\ Cardinality(T) \in Nat
      <4>1. IsFiniteSet(T)
        BY <2>1, CountType
      <4>2. Len(g[n]) + 1 \notin DOMAIN g[n]
        BY <2>1
      <4> QED
        BY <4>1, <4>2, FS_CardinalityType
    <3> HIDE DEF T
    <3>5. Count(g[n + 1], S) = Cardinality(T) + 1
      BY <3>3, <3>4, FS_AddElement DEF Count
    <3>6. Cardinality(Hits(s, n + 1, S)) = Cardinality(Hits(s, n, S)) + 1
      BY <2>3, <3>1, FS_AddElement
    <3>7. Cardinality(T) = Cardinality(Hits(s, n, S))
      BY <1>2 DEF Count, T
    <3> QED
      BY <2>1, <3>2, <3>5, <3>6, <3>7
  <2> QED
    BY <2>4, <2>5
<1>3. 0..Len(s) \subseteq P
  <2>1. Len(s) \in Nat
    OBVIOUS
  <2> HIDE DEF P
  <2> QED
    BY <1>1, <1>2, <2>1, UpTo
<1> QED
  BY <1>3

(* NonGREASE keeps every other value as often as it is there, and no GREASE. *)
LEMMA NonGREASECounts ==
  ASSUME NEW s \in Seq(Nat), NEW S
  PROVE  /\ NonGREASE(s) \in Seq(Nat)
         /\ Count(NonGREASE(s), S) = Cardinality({i \in DOMAIN s : s[i] \in S /\ ~isGREASE(s[i])})
<1>1. PICK g : KeptUpTo(s, Len(s), g) /\ NonGREASE(s) = g[Len(s)]
  BY NonGREASEIsKept
<1>2. Hits(s, Len(s), S) = {i \in DOMAIN s : s[i] \in S /\ ~isGREASE(s[i])}
  BY DEF Hits
<1> QED
  BY <1>1, <1>2, KeptCounts

-----------------------------------------------------------------------------
(* t is s in another order. *)
Rearranged(s, t) ==
  \E p \in Bijection(DOMAIN t, DOMAIN s) : \A j \in DOMAIN t : t[j] = s[p[j]]

(* What is kept of a list has each value as often, in whatever order it is. *)
LEMMA RearrangedCounts ==
  ASSUME NEW s \in Seq(Nat), NEW t \in Seq(Nat), Rearranged(s, t), NEW S
  PROVE  Count(NonGREASE(t), S) = Count(NonGREASE(s), S)
<1> DEFINE A == {i \in DOMAIN s : s[i] \in S /\ ~isGREASE(s[i])}
           B == {i \in DOMAIN t : t[i] \in S /\ ~isGREASE(t[i])}
<1>1. PICK p \in Bijection(DOMAIN t, DOMAIN s) : \A j \in DOMAIN t : t[j] = s[p[j]]
  BY DEF Rearranged
<1>2. /\ p \in [DOMAIN t -> DOMAIN s]
      /\ \A i, j \in DOMAIN t : p[i] = p[j] => i = j
      /\ \A k \in DOMAIN s : \E j \in DOMAIN t : p[j] = k
  BY DEF Bijection, Injection, Surjection, IsInjective
<1> DEFINE r == [j \in B |-> p[j]]
<1>3. r \in [B -> A] /\ \A j \in B : r[j] = p[j]
  BY <1>1, <1>2
<1>4. \A i, j \in B : r[i] = r[j] => i = j
  BY <1>2
<1>5. \A k \in A : \E j \in B : r[j] = k
  BY <1>1, <1>2
<1>6. ExistsBijection(B, A)
  <2> HIDE DEF A, B, r
  <2>1. r \in Injection(B, A)
    BY <1>3, <1>4 DEF Injection, IsInjective
  <2>2. r \in Surjection(B, A)
    BY <1>3, <1>5 DEF Surjection
  <2> QED
    BY <2>1, <2>2 DEF ExistsBijection, Bijection
<1>7. IsFiniteSet(B)
  <2>1. B \in SUBSET (1..Len(t)) /\ IsFiniteSet(1..Len(t))
    BY FS_Interval
  <2> QED
    BY <2>1, FS_Subset
<1>8. Cardinality(A) = Cardinality(B)
  <2> HIDE DEF A, B
  <2> QED
    BY <1>6, <1>7, FS_Bijection
<1> QED
  BY <1>8, NonGREASECounts

-----------------------------------------------------------------------------
(* Two lists that have every value equally often, in whatever order. *)
SameCounts(a, b) == \A S \in SUBSET Nat : Count(a, S) = Count(b, S)

(* Lists with the same values, each as often, are of one length. *)
LEMMA SameCountsLen ==
  ASSUME NEW a \in Seq(Nat), NEW b \in Seq(Nat), SameCounts(a, b)
  PROVE  Len(a) = Len(b) /\ ToSet(a) = ToSet(b)
<1>1. \A t \in Seq(Nat) : Count(t, Nat) = Len(t)
  BY CountAll
<1>2. ASSUME NEW t \in Seq(Nat), NEW v \in Nat PROVE v \in ToSet(t) <=> Count(t, {v}) # 0
  <2>1. v \in ToSet(t) <=> \E i \in DOMAIN t : t[i] = v
    BY DEF ToSet
  <2>2. Count(t, {v}) = 0 <=> \A i \in DOMAIN t : t[i] \notin {v}
    BY CountType
  <2> QED
    BY <2>1, <2>2
<1>3. ToSet(a) \subseteq Nat /\ ToSet(b) \subseteq Nat
  BY DEF ToSet
<1>4. Len(a) = Len(b)
  BY <1>1 DEF SameCounts
<1>5. \A v \in Nat : v \in ToSet(a) <=> v \in ToSet(b)
  <2>1. \A v \in Nat : Count(a, {v}) = Count(b, {v})
    BY DEF SameCounts
  <2> QED
    BY <1>2, <2>1
<1> QED
  BY <1>3, <1>4, <1>5

(* Sorted, they are the same list: the sorted list depends on counts only. *)
LEMMA SameCountsInOrder ==
  ASSUME NEW a \in Seq(Nat), NEW b \in Seq(Nat), SameCounts(a, b)
  PROVE  InOrder(a) = InOrder(b)
<1> DEFINE low(t, v) == Cardinality({i \in DOMAIN t : t[i] < v})
           upto(t, v) == Cardinality({i \in DOMAIN t : t[i] <= v})
           at(t, k) == CHOOSE v \in ToSet(t) : low(t, v) < k /\ k <= upto(t, v)
<1>1. ASSUME NEW t \in Seq(Nat), NEW v \in Nat
      PROVE  low(t, v) = Count(t, {w \in Nat : w < v}) /\ upto(t, v) = Count(t, {w \in Nat : w <= v})
  <2>1. {i \in DOMAIN t : t[i] < v} = {i \in DOMAIN t : t[i] \in {w \in Nat : w < v}}
    OBVIOUS
  <2>2. {i \in DOMAIN t : t[i] <= v} = {i \in DOMAIN t : t[i] \in {w \in Nat : w <= v}}
    OBVIOUS
  <2> QED
    BY <2>1, <2>2, Zenon DEF Count
<1>2. \A v \in Nat : low(a, v) = low(b, v) /\ upto(a, v) = upto(b, v)
  <2> SUFFICES ASSUME NEW v \in Nat PROVE low(a, v) = low(b, v) /\ upto(a, v) = upto(b, v)
    OBVIOUS
  <2>1. {w \in Nat : w < v} \in SUBSET Nat /\ {w \in Nat : w <= v} \in SUBSET Nat
    OBVIOUS
  <2> QED
    BY <1>1, <2>1, Zenon DEF SameCounts
<1>3. ToSet(a) = ToSet(b) /\ DOMAIN a = DOMAIN b /\ ToSet(a) \subseteq Nat
  <2>1. ToSet(a) = ToSet(b) /\ Len(a) = Len(b)
    BY SameCountsLen
  <2>2. ToSet(a) \subseteq Nat
    BY DEF ToSet
  <2> QED
    BY <2>1, <2>2
<1>4. InOrder(a) = [k \in DOMAIN a |-> at(a, k)] /\ InOrder(b) = [k \in DOMAIN b |-> at(b, k)]
  BY Zenon DEF InOrder
<1> HIDE DEF low, upto
<1>5. \A k : at(a, k) = at(b, k)
  <2> SUFFICES ASSUME NEW k PROVE at(a, k) = at(b, k)
    OBVIOUS
  <2>1. \A v \in ToSet(a) : (low(a, v) < k /\ k <= upto(a, v)) <=> (low(b, v) < k /\ k <= upto(b, v))
    BY <1>2, <1>3
  <2> QED
    BY <1>3, <2>1
<1> HIDE DEF at
<1> QED
  BY <1>3, <1>4, <1>5

(* A list that is shuffled is the same list when it is sorted, and has as     *)
(* many values that count.                                                    *)
LEMMA RearrangedSorted ==
  ASSUME NEW s \in Seq(Nat), NEW t \in Seq(Nat), Rearranged(s, t)
  PROVE  Sorted(t) = Sorted(s) /\ countNonGREASE(t) = countNonGREASE(s)
<1>1. NonGREASE(s) \in Seq(Nat) /\ NonGREASE(t) \in Seq(Nat)
  BY NonGREASECounts
<1>2. SameCounts(NonGREASE(t), NonGREASE(s))
  BY RearrangedCounts DEF SameCounts
<1>3. Len(NonGREASE(t)) = Len(NonGREASE(s))
  BY <1>1, <1>2, SameCountsLen
<1>4. InOrder(NonGREASE(t)) = InOrder(NonGREASE(s))
  BY <1>1, <1>2, SameCountsInOrder
<1> QED
  BY <1>3, <1>4, Zenon DEF Sorted, countNonGREASE

-----------------------------------------------------------------------------
(* The values below v, and those not above it, counted. *)
Below(t, v) == Cardinality({i \in DOMAIN t : t[i] < v})
NotAbove(t, v) == Cardinality({i \in DOMAIN t : t[i] <= v})

LEMMA BelowType ==
  ASSUME NEW t \in Seq(Nat), NEW v \in Nat
  PROVE  /\ Below(t, v) \in Nat /\ NotAbove(t, v) \in Nat
         /\ NotAbove(t, v) = Below(t, v) + Count(t, {v})
         /\ \A w \in Nat : v < w => NotAbove(t, v) <= Below(t, w)
         /\ Below(t, v + 1) = NotAbove(t, v) /\ Below(t, 0) = 0
         /\ NotAbove(t, v) <= Len(t)
<1> DEFINE B(w) == {i \in DOMAIN t : t[i] < w}
           N == {i \in DOMAIN t : t[i] <= v}
           E == {i \in DOMAIN t : t[i] \in {v}}
<1>1. IsFiniteSet(1..Len(t)) /\ Cardinality(1..Len(t)) = Len(t) /\ DOMAIN t = 1..Len(t)
  <2>1. Len(t) \in Nat /\ DOMAIN t = 1..Len(t)
    OBVIOUS
  <2>2. \A n \in Nat : IsFiniteSet(1..n) /\ Cardinality(1..n) = n
    <3> SUFFICES ASSUME NEW n \in Nat PROVE IsFiniteSet(1..n) /\ Cardinality(1..n) = n
      OBVIOUS
    <3>1. Cardinality(1..n) = IF 1 > n THEN 0 ELSE n - 1 + 1
      BY FS_Interval
    <3> QED
      BY <3>1, FS_Interval
  <2> QED
    BY <2>1, <2>2
<1>2. \A i \in DOMAIN t : t[i] \in Nat
  OBVIOUS
<1>3. ASSUME NEW w \in Nat PROVE B(w) \in SUBSET (1..Len(t)) /\ IsFiniteSet(B(w))
  BY <1>1, FS_Subset
<1>4. /\ N \in SUBSET (1..Len(t)) /\ IsFiniteSet(N) /\ IsFiniteSet(E)
      /\ N = B(v) \cup E /\ B(v) \cap E = {} /\ N = B(v + 1) /\ B(0) = {}
  <2>1. N \in SUBSET (1..Len(t)) /\ E \in SUBSET (1..Len(t))
    BY <1>1
  <2>2. N = B(v) \cup E /\ B(v) \cap E = {} /\ N = B(v + 1) /\ B(0) = {}
    BY <1>2
  <2>3. IsFiniteSet(N) /\ IsFiniteSet(E)
    BY <1>1, <2>1, FS_Subset
  <2> QED
    BY <2>1, <2>2, <2>3
<1>5. \A w \in Nat : v < w => N \subseteq B(w)
  BY <1>2
<1>6. /\ \A w : Below(t, w) = Cardinality(B(w))
      /\ NotAbove(t, v) = Cardinality(N) /\ Count(t, {v}) = Cardinality(E)
  BY Zenon DEF Below, NotAbove, Count
<1> HIDE DEF B, N, E
<1>7. Cardinality(N) \in Nat /\ Cardinality(B(v)) \in Nat /\ Cardinality(E) \in Nat
  BY <1>3, <1>4, FS_CardinalityType
<1>8. Cardinality(N) = Cardinality(B(v)) + Cardinality(E)
  <2>1. /\ Cardinality(B(v) \cup E) = Cardinality(B(v)) + Cardinality(E) - Cardinality(B(v) \cap E)
        /\ Cardinality({}) = 0
    BY <1>3, <1>4, FS_Union, FS_EmptySet
  <2>2. Cardinality(B(v) \cap E) = 0 /\ Cardinality(B(v) \cup E) = Cardinality(N)
    BY <1>4, <2>1
  <2> HIDE DEF B
  <2> QED
    BY <1>7, <2>1, <2>2
<1>9. \A w \in Nat : v < w => Cardinality(N) <= Cardinality(B(w))
  BY <1>3, <1>5, FS_Subset
<1>10. Cardinality(N) <= Len(t)
  BY <1>1, <1>4, FS_Subset
<1>11. Cardinality(B(0)) = 0 /\ Cardinality(B(v + 1)) = Cardinality(N)
  BY <1>4, FS_EmptySet
<1> QED
  BY <1>6, <1>7, <1>8, <1>9, <1>10, <1>11

(* A list of numbers has an upper bound. *)
LEMMA Bound ==
  ASSUME NEW t \in Seq(Nat) PROVE \E v \in Nat : \A i \in DOMAIN t : t[i] <= v
<1> DEFINE P == {n \in 0..Len(t) : \E v \in Nat : \A i \in 1..n : t[i] <= v}
<1>1. Len(t) \in Nat /\ DOMAIN t = 1..Len(t)
  OBVIOUS
<1>2. 0 \in P
  <2>1. \A i \in 1..0 : t[i] <= 0
    OBVIOUS
  <2> QED
    BY <1>1, <2>1
<1>3. ASSUME NEW n \in 0..Len(t), n < Len(t), n \in P PROVE n + 1 \in P
  <2>1. PICK v \in Nat : \A i \in 1..n : t[i] <= v
    BY <1>3
  <2>2. n + 1 \in 0..Len(t) /\ \A i \in 1..(n + 1) : t[i] \in Nat
    BY <1>1, <1>3
  <2>3. \A i \in 1..(n + 1) : t[i] <= v + t[n + 1]
    <3> SUFFICES ASSUME NEW i \in 1..(n + 1) PROVE t[i] <= v + t[n + 1]
      OBVIOUS
    <3>1. t[i] \in Nat /\ t[n + 1] \in Nat
      BY <1>1, <2>2
    <3>2. i \in 1..n \/ i = n + 1
      BY <1>1
    <3>3. t[i] <= v \/ i = n + 1
      BY <2>1, <3>2
    <3> QED
      BY <3>1, <3>3
  <2>4. v + t[n + 1] \in Nat
    BY <1>1, <2>2
  <2> QED
    BY <2>2, <2>3, <2>4
<1>4. 0..Len(t) \subseteq P
  <2> HIDE DEF P
  <2> QED
    BY <1>1, <1>2, <1>3, UpTo
<1>5. Len(t) \in P
  <2> HIDE DEF P
  <2> QED
    BY <1>1, <1>4
<1> QED
  BY <1>1, <1>5

(* The value at a position of the sorted list is one of the list, and the     *)
(* position is among those of its value.                                      *)
LEMMA InOrderAt ==
  ASSUME NEW t \in Seq(Nat), NEW k \in DOMAIN t
  PROVE  /\ InOrder(t)[k] \in ToSet(t) /\ InOrder(t)[k] \in Nat
         /\ Below(t, InOrder(t)[k]) < k /\ k <= NotAbove(t, InOrder(t)[k])
<1>1. k \in Nat /\ k # 0 /\ k <= Len(t) /\ Len(t) \in Nat
  OBVIOUS
<1> DEFINE R == {v \in Nat : k <= NotAbove(t, v)}
<1>2. PICK m \in Nat : \A i \in DOMAIN t : t[i] <= m
  BY Bound
<1>3. m \in R
  <2>1. {i \in DOMAIN t : t[i] <= m} = {i \in DOMAIN t : t[i] \in Nat}
    BY <1>2
  <2>2. NotAbove(t, m) = Count(t, Nat)
    BY <2>1, Zenon DEF NotAbove, Count
  <2> QED
    BY <1>1, <2>2, CountAll
<1>4. PICK v \in R : \A w \in R : v <= w
  <2>1. R \in SUBSET Nat /\ R # {}
    BY <1>3
  <2> HIDE DEF R
  <2> QED
    BY <2>1, NatMinimum
<1>5. v \in Nat /\ k <= NotAbove(t, v)
  BY <1>4
<1>6. Below(t, v) < k
  <2>1. CASE v = 0
    <3>1. Below(t, 0) = 0
      BY BelowType
    <3> QED
      BY <1>1, <2>1, <3>1
  <2>2. CASE v # 0
    <3>1. v - 1 \in Nat /\ v - 1 \notin R
      BY <1>4, <1>5, <2>2
    <3>2. NotAbove(t, v - 1) < k
      <4>1. NotAbove(t, v - 1) \in Nat
        BY <3>1, BelowType
      <4>2. ~(k <= NotAbove(t, v - 1))
        BY <3>1
      <4> QED
        BY <1>1, <4>1, <4>2
    <3>3. \A w \in Nat : Below(t, w + 1) = NotAbove(t, w)
      BY BelowType
    <3>4. v - 1 + 1 = v
      BY <1>5
    <3> QED
      BY <3>1, <3>2, <3>3, <3>4
  <2> QED
    BY <2>1, <2>2
<1>7. v \in ToSet(t)
  <2>1. NotAbove(t, v) = Below(t, v) + Count(t, {v}) /\ Below(t, v) \in Nat /\ NotAbove(t, v) \in Nat
    BY <1>5, BelowType
  <2>2. Count(t, {v}) # 0
    <3>1. Count(t, {v}) \in Nat
      BY CountType
    <3> QED
      BY <1>1, <1>5, <1>6, <2>1, <3>1
  <2>3. \E i \in DOMAIN t : t[i] = v
    BY <2>2, CountType
  <2> QED
    BY <2>3 DEF ToSet
<1> DEFINE Q(w) == Below(t, w) < k /\ k <= NotAbove(t, w)
<1>8. InOrder(t)[k] = CHOOSE w \in ToSet(t) : Q(w)
  BY DEF InOrder, Below, NotAbove
<1>9. Q(v)
  BY <1>5, <1>6
<1> HIDE DEF Q
<1>10. InOrder(t)[k] \in ToSet(t) /\ Q(InOrder(t)[k])
  BY <1>7, <1>8, <1>9
<1>11. ToSet(t) \subseteq Nat
  BY DEF ToSet
<1> QED
  BY <1>10, <1>11 DEF Q

(* Sorted puts a list in order: the result ascends, and has each value as     *)
(* often as the list without GREASE.  ja3.go: sort.Strings on what it keeps.  *)
THEOREM SortedSorts ==
  ASSUME NEW s \in Seq(Nat)
  PROVE  /\ Sorted(s) \in Seq(Nat) /\ Len(Sorted(s)) = Len(NonGREASE(s))
         /\ \A j, k \in DOMAIN Sorted(s) : j < k => Sorted(s)[j] <= Sorted(s)[k]
         /\ \A v \in Nat : Count(Sorted(s), {v}) = Count(NonGREASE(s), {v})
<1> DEFINE t == NonGREASE(s)
           o == InOrder(t)
<1>1. t \in Seq(Nat)
  BY NonGREASECounts
<1> HIDE DEF t
<1>2. o \in Seq(Nat) /\ Len(o) = Len(t) /\ DOMAIN o = DOMAIN t /\ DOMAIN t = 1..Len(t) /\ Len(t) \in Nat
  <2>1. Len(t) \in Nat /\ DOMAIN t = 1..Len(t)
    BY <1>1
  <2>2. o = [k \in 1..Len(t) |-> o[k]]
    <3> DEFINE at(k) == CHOOSE v \in ToSet(t) : /\ Cardinality({i \in DOMAIN t : t[i] < v}) < k
                                               /\ k <= Cardinality({i \in DOMAIN t : t[i] <= v})
    <3>1. o = [k \in DOMAIN t |-> at(k)]
      BY Zenon DEF InOrder
    <3> HIDE DEF at, o
    <3> QED
      BY <2>1, <3>1
  <2>3. \A k \in 1..Len(t) : o[k] \in Nat
    BY <1>1, <2>1, InOrderAt
  <2> HIDE DEF o
  <2>4. o \in [1..Len(t) -> Nat]
    BY <2>2, <2>3
  <2> QED
    BY <2>1, <2>4
<1>3. ASSUME NEW k \in DOMAIN t
      PROVE  k \in Nat /\ o[k] \in Nat /\ Below(t, o[k]) < k /\ k <= NotAbove(t, o[k])
  <2>1. k \in Nat
    BY <1>2
  <2>2. o[k] \in Nat /\ Below(t, o[k]) < k /\ k <= NotAbove(t, o[k])
    BY <1>1, InOrderAt
  <2> QED
    BY <2>1, <2>2, Zenon
<1> HIDE DEF o
<1>4. ASSUME NEW k \in DOMAIN t, NEW v \in Nat
      PROVE  /\ v < o[k] => NotAbove(t, v) < k
             /\ o[k] < v => k <= Below(t, v)
             /\ Below(t, v) \in Nat /\ NotAbove(t, v) \in Nat
  <2>1. /\ k \in Nat /\ o[k] \in Nat /\ Below(t, o[k]) < k /\ k <= NotAbove(t, o[k])
    BY <1>3
  <2>2. /\ v < o[k] => NotAbove(t, v) <= Below(t, o[k])
        /\ o[k] < v => NotAbove(t, o[k]) <= Below(t, v)
        /\ Below(t, v) \in Nat /\ NotAbove(t, v) \in Nat
        /\ Below(t, o[k]) \in Nat /\ NotAbove(t, o[k]) \in Nat
    BY <1>1, <2>1, BelowType
  <2> QED
    BY <2>1, <2>2
<1>5. ASSUME NEW j \in DOMAIN t, NEW k \in DOMAIN t, j < k PROVE o[j] <= o[k]
  <2>1. j \in Nat /\ k \in Nat /\ o[j] \in Nat /\ o[k] \in Nat /\ k <= NotAbove(t, o[k])
    BY <1>3
  <2>2. /\ o[k] < o[j] => NotAbove(t, o[k]) < j
        /\ NotAbove(t, o[k]) \in Nat
    BY <1>4, <2>1
  <2> QED
    BY <1>5, <2>1, <2>2
<1>6. ASSUME NEW v \in Nat PROVE Count(o, {v}) = Count(t, {v})
  <2> DEFINE b == Below(t, v)
             n == NotAbove(t, v)
  <2>1. b \in Nat /\ n \in Nat /\ n = b + Count(t, {v}) /\ n <= Len(t) /\ Count(t, {v}) \in Nat
    BY <1>1, BelowType, CountType
  <2>2. ASSUME NEW k \in DOMAIN t PROVE o[k] \in {v} <=> k \in (b + 1)..n
    <3>1. k \in Nat /\ o[k] \in Nat
      BY <1>3
    <3>2. o[k] = v => b < k /\ k <= n
      BY <1>3
    <3>3. (v < o[k] => n < k) /\ (o[k] < v => k <= b)
      BY <1>4
    <3> HIDE DEF b, n
    <3> QED
      BY <2>1, <3>1, <3>2, <3>3
  <2> HIDE DEF b, n
  <2>3. {k \in DOMAIN o : o[k] \in {v}} = (b + 1)..n
    <3>1. (b + 1)..n \subseteq DOMAIN t
      BY <1>2, <2>1
    <3>2. {k \in DOMAIN t : o[k] \in {v}} = (b + 1)..n
      BY <2>2, <3>1
    <3> QED
      BY <1>2, <3>2
  <2>4. Cardinality((b + 1)..n) = IF b + 1 > n THEN 0 ELSE n - (b + 1) + 1
    <3>1. b + 1 \in Int /\ n \in Int
      BY <2>1
    <3> QED
      BY <3>1, FS_Interval
  <2>5. Cardinality((b + 1)..n) = Count(t, {v})
    BY <2>1, <2>4
  <2> QED
    BY <2>3, <2>5, Zenon DEF Count
<1>7. Sorted(s) = o
  BY DEF Sorted, o, t
<1> QED
  BY <1>2, <1>5, <1>6, <1>7 DEF t

-----------------------------------------------------------------------------
(* What is kept has no GREASE, and the loop keeps a list without it whole. *)
LEMMA NonGREASETwice ==
  ASSUME NEW s \in Seq(Nat) PROVE NonGREASE(NonGREASE(s)) = NonGREASE(s)
<1> DEFINE t == NonGREASE(s)
           G == {v \in Nat : isGREASE(v)}
<1>1. t \in Seq(Nat) /\ Len(t) \in Nat
  <2>1. t \in Seq(Nat)
    BY NonGREASECounts
  <2> HIDE DEF t
  <2> QED
    BY <2>1
<1>2. \A i \in DOMAIN t : ~isGREASE(t[i])
  <2>1. {i \in DOMAIN s : s[i] \in G /\ ~isGREASE(s[i])} = {}
    OBVIOUS
  <2>2. Count(t, G) = Cardinality({i \in DOMAIN s : s[i] \in G /\ ~isGREASE(s[i])})
    BY NonGREASECounts
  <2>3. Count(t, G) = 0
    BY <2>1, <2>2, FS_EmptySet
  <2> HIDE DEF t
  <2>4. \A i \in DOMAIN t : t[i] \notin G
    <3> HIDE DEF G
    <3> QED
      BY <1>1, <2>3, CountType
  <2>5. \A i \in DOMAIN t : t[i] \in Nat
    BY <1>1
  <2> QED
    BY <2>4, <2>5
<1> HIDE DEF t
<1>3. PICK g : KeptUpTo(t, Len(t), g) /\ NonGREASE(t) = g[Len(t)]
  BY <1>1, NonGREASEIsKept
<1>4. \A n \in 0..Len(t) : g[n] = IF n = 0 THEN <<>>
                                  ELSE IF isGREASE(t[n]) THEN g[n - 1] ELSE Append(g[n - 1], t[n])
  BY <1>3 DEF KeptUpTo
<1> DEFINE P == {n \in 0..Len(t) : g[n] \in Seq(Nat) /\ Len(g[n]) = n /\ \A i \in 1..n : g[n][i] = t[i]}
<1>5. 0 \in P
  <2>1. g[0] = <<>> /\ 0 \in 0..Len(t)
    BY <1>1, <1>4
  <2>2. g[0] \in Seq(Nat) /\ Len(g[0]) = 0
    BY <2>1
  <2>3. \A i \in 1..0 : g[0][i] = t[i]
    OBVIOUS
  <2> QED
    BY <2>1, <2>2, <2>3, Zenon
<1>6. ASSUME NEW n \in 0..Len(t), n < Len(t), n \in P PROVE n + 1 \in P
  <2>1. n \in Nat /\ n + 1 \in 0..Len(t) /\ n + 1 \in DOMAIN t /\ t[n + 1] \in Nat
    BY <1>1, <1>6
  <2>2. g[n + 1] = Append(g[n], t[n + 1])
    <3>1. ~isGREASE(t[n + 1])
      BY <1>2, <2>1
    <3>2. g[n + 1] = IF isGREASE(t[n + 1]) THEN g[n] ELSE Append(g[n], t[n + 1])
      BY <1>4, <2>1
    <3> QED
      BY <3>1, <3>2
  <2>3. g[n] \in Seq(Nat) /\ Len(g[n]) = n /\ \A i \in 1..n : g[n][i] = t[i]
    BY <1>6
  <2>4. g[n + 1] \in Seq(Nat) /\ Len(g[n + 1]) = n + 1
    BY <2>1, <2>2, <2>3
  <2>5. \A i \in 1..(n + 1) : g[n + 1][i] = t[i]
    BY <2>1, <2>2, <2>3
  <2> QED
    BY <2>1, <2>4, <2>5
<1>7. Len(t) \in P
  <2>1. 0..Len(t) \subseteq P
    <3> HIDE DEF P
    <3> QED
      BY <1>1, <1>5, <1>6, UpTo
  <2> QED
    BY <1>1, <2>1
<1>8. g[Len(t)] = t
  <2> DEFINE u == g[Len(t)]
  <2>1. u \in Seq(Nat) /\ Len(u) = Len(t) /\ \A i \in 1..Len(t) : u[i] = t[i]
    BY <1>7
  <2> HIDE DEF u
  <2>2. u = t
    BY <1>1, <2>1
  <2> QED
    BY <2>2 DEF u
<1> QED
  BY <1>3, <1>8 DEF t

(* Neighbours that change places are one way to rearrange a list. *)
LEMMA SwapRearranges ==
  ASSUME NEW s \in Seq(Nat), NEW i \in 1..(Len(s) - 1),
         NEW t, t = [s EXCEPT ![i] = s[i + 1], ![i + 1] = s[i]]
  PROVE  t \in Seq(Nat) /\ Rearranged(s, t)
<1> DEFINE p == [j \in 1..Len(s) |-> IF j = i THEN i + 1 ELSE IF j = i + 1 THEN i ELSE j]
<1>1. Len(s) \in Nat /\ i \in 1..Len(s) /\ i + 1 \in 1..Len(s) /\ DOMAIN s = 1..Len(s)
  OBVIOUS
<1>2. t \in Seq(Nat) /\ DOMAIN t = 1..Len(s)
  BY <1>1
<1>3. p \in Bijection(1..Len(s), 1..Len(s))
  <2>1. p \in [1..Len(s) -> 1..Len(s)]
    BY <1>1
  <2>2. \A j, k \in 1..Len(s) : p[j] = p[k] => j = k
    BY <1>1
  <2>3. \A k \in 1..Len(s) : \E j \in 1..Len(s) : p[j] = k
    <3> SUFFICES ASSUME NEW k \in 1..Len(s) PROVE \E j \in 1..Len(s) : p[j] = k
      OBVIOUS
    <3>1. p[k] \in 1..Len(s) /\ p[p[k]] = k
      BY <1>1
    <3> QED
      BY <3>1
  <2> HIDE DEF p
  <2> QED
    BY <2>1, <2>2, <2>3 DEF Bijection, Injection, Surjection, IsInjective
<1>4. \A j \in 1..Len(s) : t[j] = s[p[j]]
  BY <1>1
<1> QED
  BY <1>1, <1>2, <1>3, <1>4 DEF Rearranged

(* JA4 looks at the ciphers and the extensions only sorted and counted, and  *)
(* at the versions only without GREASE.                                       *)
LEMMA SameJA4 ==
  ASSUME NEW c, NEW d,
         d.legacyVersion = c.legacyVersion, d.sni = c.sni, d.alpn = c.alpn,
         d.list["sigAlgs"] = c.list["sigAlgs"],
         NonGREASE(d.list["versions"]) = NonGREASE(c.list["versions"]),
         Sorted(d.ciphers) = Sorted(c.ciphers),
         countNonGREASE(d.ciphers) = countNonGREASE(c.ciphers),
         Sorted(d.extensions) = Sorted(c.extensions),
         countNonGREASE(d.extensions) = countNonGREASE(c.extensions)
  PROVE  JA4(d) = JA4(c)
<1>1. ja4Version(d.list["versions"], d.legacyVersion) = ja4Version(c.list["versions"], c.legacyVersion)
  <2> DEFINE of(vs, fallback) ==
               LET offered == {fallback} \cup ToSet(vs)
                   highest == CHOOSE v \in offered : \A w \in offered : w <= v
               IN  IF highest \in Versions THEN highest ELSE 0
  <2>1. \A vs, fallback : ja4Version(vs, fallback) = of(NonGREASE(vs), fallback)
    BY DEF ja4Version
  <2> HIDE DEF of
  <2> QED
    BY <2>1, Zenon
<1>2. ja4Extensions(d.extensions, d.list["sigAlgs"]) = ja4Extensions(c.extensions, c.list["sigAlgs"])
  BY Zenon DEF ja4Extensions
<1> QED
  BY <1>1, <1>2, Zenon DEF JA4

(* A client that shuffles its ciphers, its extensions or both, in any way,    *)
(* keeps its JA4: ja3.go sorts both lists before they are hashed.             *)
THEOREM ShuffledJA4 ==
  ASSUME NEW c, c.ciphers \in Seq(Nat), c.extensions \in Seq(Nat),
         NEW d, d.ciphers \in Seq(Nat), d.extensions \in Seq(Nat),
         Rearranged(c.ciphers, d.ciphers), Rearranged(c.extensions, d.extensions),
         d.legacyVersion = c.legacyVersion, d.sni = c.sni, d.alpn = c.alpn, d.list = c.list
  PROVE  JA4(d) = JA4(c)
<1>1. /\ Sorted(d.ciphers) = Sorted(c.ciphers)
      /\ countNonGREASE(d.ciphers) = countNonGREASE(c.ciphers)
  BY RearrangedSorted
<1>2. /\ Sorted(d.extensions) = Sorted(c.extensions)
      /\ countNonGREASE(d.extensions) = countNonGREASE(c.extensions)
  BY RearrangedSorted
<1> QED
  BY <1>1, <1>2, SameJA4, Zenon
=============================================================================
