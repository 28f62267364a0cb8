------------------------- MODULE RaceTiming_proofs -------------------------
(***************************************************************************)
(* Theorems about RaceTiming: the types, that no reading is lost, and that *)
(* every result from the mats is what the rules make of one listing.       *)
(*                                                                         *)
(* The last has two halves.  A row is the Score of a listing because runs  *)
(* only write what they listed (the inductive invariant), and the Score of *)
(* any finite set of readings agrees with the rules (ScoreByRules).  For   *)
(* that the recursion of Kept is followed to its end; an induction over    *)
(* the listing is done by looking at the smallest place where it fails.    *)
(***************************************************************************)
EXTENDS RaceTiming, FiniteSetTheorems, SequenceTheorems, WellFoundedInduction, TLAPS

(***************************************************************************)
(* Finite sets, and the listing of readings by time.                       *)
(***************************************************************************)

\* A set of natural numbers that is not empty has a least member.
LEMMA Smallest ==
    ASSUME NEW T \in SUBSET Nat, T # {}
    PROVE  \E n \in T : \A k \in T : n <= k
<1> DEFINE R == OpToRel(<, Nat)
<1>1. IsWellFoundedOn(R, Nat)
  BY NatLessThanWellFounded
<1>2. ASSUME NEW n \in Nat, NEW k \in Nat, ~(<<k, n>> \in R) PROVE n <= k
  BY <1>2 DEF OpToRel
<1> HIDE DEF R
<1>3. PICK n \in T : \A k \in T : ~(<<k, n>> \in R)
  BY <1>1, WFMin
<1> QED
  BY <1>2, <1>3

\* A finite set of integers that is not empty has a greatest and a least member.
LEMMA Extremes ==
    ASSUME NEW T \in SUBSET Int, IsFiniteSet(T), T # {}
    PROVE  /\ Max(T) \in T /\ \A x \in T : x <= Max(T)
           /\ Min(T) \in T /\ \A x \in T : Min(T) <= x
<1>1. \E m \in T : \A x \in T : m >= x
  <2> DEFINE above(m) == {x \in T : m < x}
             sizes == {Cardinality(above(m)) : m \in T}
  <2>1. ASSUME NEW m \in T PROVE IsFiniteSet(above(m)) /\ Cardinality(above(m)) \in Nat
    BY FS_Subset, FS_CardinalityType
  <2>2. PICK m \in T : \A k \in T : Cardinality(above(m)) <= Cardinality(above(k))
    <3>1. sizes \in SUBSET Nat /\ sizes # {}
      BY <2>1
    <3>2. PICK k \in sizes : \A j \in sizes : k <= j
      <4> HIDE DEF sizes
      <4> QED
        BY <3>1, Smallest
    <3> QED
      BY <3>2
  <2>3. ASSUME NEW x \in T, m < x PROVE FALSE
    <3>1. above(x) \subseteq above(m) /\ x \in above(m) /\ x \notin above(x)
      <4>1. ASSUME NEW y \in T, x < y PROVE m < y
        BY <2>3, <4>1
      <4>2. ~(x < x)
        OBVIOUS
      <4> QED
        BY <2>3, <4>1, <4>2, Zenon
    <3>2. Cardinality(above(x)) <= Cardinality(above(m))
          /\ (Cardinality(above(m)) = Cardinality(above(x)) => above(m) = above(x))
      BY <2>1, <3>1, FS_Subset
    <3>3. Cardinality(above(m)) <= Cardinality(above(x))
      BY <2>2
    <3>4. Cardinality(above(m)) \in Nat /\ Cardinality(above(x)) \in Nat
      BY <2>1
    <3>5. above(m) = above(x)
      <4> HIDE DEF above
      <4> QED
        BY <3>2, <3>3, <3>4
    <3> QED
      BY <3>1, <3>5
  <2>4. ASSUME NEW x \in T PROVE m >= x
    BY <2>3
  <2> QED
    BY <2>4
<1>2. \E m \in T : \A x \in T : m =< x
  <2> DEFINE below(m) == {x \in T : x < m}
             sizes == {Cardinality(below(m)) : m \in T}
  <2>1. ASSUME NEW m \in T PROVE IsFiniteSet(below(m)) /\ Cardinality(below(m)) \in Nat
    BY FS_Subset, FS_CardinalityType
  <2>2. PICK m \in T : \A k \in T : Cardinality(below(m)) <= Cardinality(below(k))
    <3>1. sizes \in SUBSET Nat /\ sizes # {}
      BY <2>1
    <3>2. PICK k \in sizes : \A j \in sizes : k <= j
      <4> HIDE DEF sizes
      <4> QED
        BY <3>1, Smallest
    <3> QED
      BY <3>2
  <2>3. ASSUME NEW x \in T, x < m PROVE FALSE
    <3>1. below(x) \subseteq below(m) /\ x \in below(m) /\ x \notin below(x)
      <4>1. ASSUME NEW y \in T, y < x PROVE y < m
        BY <2>3, <4>1
      <4>2. ~(x < x)
        OBVIOUS
      <4> QED
        BY <2>3, <4>1, <4>2, Zenon
    <3>2. Cardinality(below(x)) <= Cardinality(below(m))
          /\ (Cardinality(below(m)) = Cardinality(below(x)) => below(m) = below(x))
      BY <2>1, <3>1, FS_Subset
    <3>3. Cardinality(below(m)) <= Cardinality(below(x))
      BY <2>2
    <3>4. Cardinality(below(m)) \in Nat /\ Cardinality(below(x)) \in Nat
      BY <2>1
    <3>5. below(m) = below(x)
      <4> HIDE DEF below
      <4> QED
        BY <3>2, <3>3, <3>4
    <3> QED
      BY <3>1, <3>5
  <2>4. ASSUME NEW x \in T PROVE m =< x
    BY <2>3
  <2> QED
    BY <2>4
<1> QED
  BY <1>1, <1>2 DEF Max, Min

\* The times of finitely many readings are finitely many.
LEMMA TimesFinite ==
    ASSUME NEW S \in SUBSET Readings, IsFiniteSet(S)
    PROVE  IsFiniteSet({TimeOf[p] : p \in S}) /\ {TimeOf[p] : p \in S} \subseteq Nat
<1> DEFINE T == {TimeOf[p] : p \in S}
           f == [p \in S |-> TimeOf[p]]
<1>1. f \in Surjection(S, T)
  BY DEF Surjection
<1>2. IsFiniteSet(T)
  BY <1>1, FS_Surjection
<1>3. T \subseteq Nat
  BY NamesAssumption
<1> QED
  BY <1>2, <1>3

\* Finitely many readings can be listed by time, so the choice of ByTime is of a listing.
LEMMA Listed ==
    ASSUME NEW S \in SUBSET Readings, IsFiniteSet(S)
    PROVE  /\ ByTime(S) \in SetToSeqs(S)
           /\ \A i, j \in DOMAIN ByTime(S) : i < j => TimeOf[ByTime(S)[i]] <= TimeOf[ByTime(S)[j]]
<1> DEFINE Sorted(U, s) == /\ s \in SetToSeqs(U)
                           /\ \A i, j \in DOMAIN s : i < j => TimeOf[s[i]] <= TimeOf[s[j]]
           Bad(n) == \E U \in SUBSET S : Cardinality(U) = n /\ ~\E s : Sorted(U, s)
           bad == {n \in Nat : Bad(n)}
<1>1. SUFFICES ASSUME bad # {} PROVE FALSE
  <2>1. Cardinality(S) \in Nat /\ S \in SUBSET S
    BY FS_CardinalityType
  <2>2. \E s \in SetToSeqs(S) : \A i, j \in DOMAIN s : i < j => TimeOf[s[i]] <= TimeOf[s[j]]
    BY <1>1, <2>1
  <2> QED
    BY <2>2 DEF ByTime
<1>2. PICK n \in bad : \A k \in bad : n <= k
  <2>1. bad \in SUBSET Nat
    OBVIOUS
  <2> HIDE DEF bad
  <2> QED
    BY <1>1, <2>1, Smallest
<1>3. PICK U \in SUBSET S : Cardinality(U) = n /\ ~\E s : Sorted(U, s)
  OBVIOUS
<1>4. IsFiniteSet(U) /\ n \in Nat
  BY <1>3, FS_Subset
<1>5. CASE U = {}
  <2>1. n = 0 /\ 1..n = {}
    BY <1>3, <1>5, FS_EmptySet
  <2> DEFINE s == [i \in 1..n |-> i]
  <2>2. s \in SetToSeqs(U)
    BY <1>3, <2>1 DEF SetToSeqs
  <2>3. DOMAIN s = {}
    BY <2>1
  <2> QED
    BY <1>3, <2>2, <2>3
<1>6. CASE U # {}
  <2> DEFINE times == {TimeOf[p] : p \in U}
  <2>1. IsFiniteSet(times) /\ times \subseteq Nat /\ times # {}
    BY <1>4, <1>6, TimesFinite
  <2>2. PICK p \in U : \A x \in U : TimeOf[x] <= TimeOf[p]
    <3> HIDE DEF times
    <3>1. Max(times) \in times /\ \A x \in times : x <= Max(times)
      BY <2>1, Extremes
    <3> USE DEF times
    <3>2. PICK p \in U : TimeOf[p] = Max(times)
      BY <3>1
    <3> QED
      BY <3>1, <3>2
  <2> DEFINE R == U \ {p}
             m == n - 1
  <2>3. /\ R \in SUBSET S /\ Cardinality(R) = m /\ m \in Nat
    <3>1. Cardinality(R) = n - 1
      BY <1>3, <1>4, <2>2, FS_RemoveElement
    <3>2. IsFiniteSet(R)
      BY <1>4, FS_RemoveElement
    <3>3. Cardinality(R) \in Nat
      BY <3>2, FS_CardinalityType
    <3> QED
      BY <3>1, <3>3
  <2>4. PICK s : Sorted(R, s)
    <3>1. m \notin bad
      <4>1. m < n
        BY <1>4
      <4> HIDE DEF bad
      <4> QED
        BY <1>2, <1>4, <2>3, <4>1
    <3> QED
      BY <2>3, <3>1
  <2> DEFINE t == [i \in 1..n |-> IF i = n THEN p ELSE s[i]]
  <2>5. s \in [1..m -> R] /\ \A i, j \in 1..m : i # j => s[i] # s[j]
    BY <2>3, <2>4 DEF SetToSeqs
  <2>6. ASSUME NEW i \in 1..n, i # n PROVE i \in 1..m /\ t[i] = s[i] /\ t[i] \in R
    BY <1>4, <2>5, <2>6
  <2>7. n \in 1..n /\ t[n] = p
    BY <1>4, <2>3
  <2> HIDE DEF m
  <2>8. t \in SetToSeqs(U)
    <3>1. ASSUME NEW i \in 1..n PROVE t[i] \in U
      BY <2>6, <2>7
    <3>2. ASSUME NEW i \in 1..n, NEW j \in 1..n, i # j PROVE t[i] # t[j]
      BY <2>5, <2>6, <2>7, <3>2
    <3>3. t \in [1..n -> U]
      BY <3>1
    <3> HIDE DEF t
    <3> QED
      BY <1>3, <3>2, <3>3 DEF SetToSeqs
  <2>9. ASSUME NEW i \in 1..n, NEW j \in 1..n, i < j PROVE TimeOf[t[i]] <= TimeOf[t[j]]
    <3>1. i # n
      BY <1>4, <2>9
    <3>2. t[i] = s[i] /\ i \in 1..m /\ s[i] \in U
      BY <2>6, <3>1
    <3>3. CASE j = n
      BY <2>2, <2>7, <3>2, <3>3
    <3>4. CASE j # n
      <4>1. j \in 1..m /\ t[j] = s[j]
        BY <2>6, <3>4
      <4>2. DOMAIN s = 1..m
        BY <2>5
      <4> QED
        BY <2>4, <2>9, <3>2, <4>1, <4>2
    <3> QED
      BY <3>3, <3>4
  <2>10. DOMAIN t = 1..n
    OBVIOUS
  <2> HIDE DEF t
  <2> QED
    BY <1>3, <2>8, <2>9, <2>10
<1> QED
  BY <1>5, <1>6

\* The listing has each reading once.
LEMMA ListedOnce ==
    ASSUME NEW S \in SUBSET Readings, IsFiniteSet(S)
    PROVE  /\ Len(ByTime(S)) \in Nat /\ DOMAIN ByTime(S) = 1..Len(ByTime(S))
           /\ \A i \in 1..Len(ByTime(S)) : ByTime(S)[i] \in S
           /\ \A p \in S : \E i \in 1..Len(ByTime(S)) : ByTime(S)[i] = p
           /\ \A i, j \in 1..Len(ByTime(S)) : i < j =>
                /\ ByTime(S)[i] # ByTime(S)[j]
                /\ TimeOf[ByTime(S)[i]] <= TimeOf[ByTime(S)[j]]
<1> DEFINE s == ByTime(S)
           n == Cardinality(S)
<1>1. n \in Nat /\ IsFiniteSet(1..n) /\ Cardinality(1..n) = n
  BY FS_CardinalityType, FS_Interval
<1>2. s \in [1..n -> S] /\ \A i, j \in 1..n : i # j => s[i] # s[j]
  BY Listed DEF SetToSeqs
<1>3. \A i, j \in DOMAIN s : i < j => TimeOf[s[i]] <= TimeOf[s[j]]
  BY Listed
<1> HIDE DEF s, n
<1>4. s \in Seq(S)
  BY <1>1, <1>2, SeqDef
<1>5. Len(s) = n
  BY <1>1, <1>2, <1>4, LenProperties
<1>6. s \in Injection(1..n, S)
  BY <1>2 DEF Injection, IsInjective
<1>7. s \in Surjection(1..n, S)
  BY <1>1, <1>6, FS_Injection DEF n
<1>8. \A p \in S : \E i \in 1..n : s[i] = p
  BY <1>7 DEF Surjection
<1>9. \A i, j \in 1..n : i < j => s[i] # s[j] /\ TimeOf[s[i]] <= TimeOf[s[j]]
  BY <1>1, <1>2, <1>3
<1> USE DEF s
<1> QED
  BY <1>1, <1>2, <1>5, <1>8, <1>9

\* The recursion of Kept defines a function.
LEMMA KeptInSteps ==
    ASSUME NEW S \in SUBSET Readings, IsFiniteSet(S)
    PROVE  \E k \in [0..Len(ByTime(S)) -> SUBSET S] :
            /\ k[0] = {} /\ Kept(S) = k[Len(ByTime(S))]
            /\ \A i \in 1..Len(ByTime(S)) : k[i] = Counted(k[i - 1], ByTime(S)[i])
<1> DEFINE s == ByTime(S)
           n == Len(s)
           Steps(k, j) == /\ k \in [0..j -> SUBSET S] /\ k[0] = {}
                          /\ \A i \in 1..j : k[i] = Counted(k[i - 1], s[i])
           kept[i \in 0..Len(s)] == IF i = 0 THEN {} ELSE Counted(kept[i - 1], s[i])
<1>1. n \in Nat /\ \A i \in 1..n : s[i] \in S
  BY ListedOnce
<1>2. Kept(S) = kept[n]
  BY DEF Kept
<1>3. ASSUME NEW C \in SUBSET S, NEW i \in 1..n PROVE Counted(C, s[i]) \in SUBSET S
  BY <1>1, <1>3 DEF Counted
<1> HIDE DEF s, n
<1>4. \E k : Steps(k, n)
  <2> DEFINE bad == {j \in 0..n : ~\E k : Steps(k, j)}
  <2>1. SUFFICES ASSUME bad # {} PROVE FALSE
    <3>1. n \in 0..n
      BY <1>1
    <3> HIDE DEF Steps
    <3> QED
      BY <3>1, Zenon
  <2>2. PICK j \in bad : \A i \in bad : j <= i
    <3>1. bad \in SUBSET Nat
      BY <1>1
    <3> HIDE DEF bad
    <3> QED
      BY <2>1, <3>1, Smallest
  <2>3. j \in 0..n /\ j \in Nat /\ ~\E k : Steps(k, j)
    BY <1>1
  <2>4. j # 0
    <3> DEFINE k == [i \in 0..0 |-> {}]
    <3>1. k \in [0..0 -> SUBSET S] /\ k[0] = {} /\ 1..0 = {}
      OBVIOUS
    <3> HIDE DEF k
    <3>2. Steps(k, 0)
      BY <3>1
    <3> QED
      BY <2>3, <3>2
  <2>5. j - 1 \in 0..n /\ j - 1 \in Nat /\ j \in 1..n
    BY <1>1, <2>3, <2>4
  <2>6. PICK k : Steps(k, j - 1)
    <3>1. j - 1 \notin bad
      <4>1. ~(j <= j - 1)
        BY <2>3
      <4> HIDE DEF bad
      <4> QED
        BY <2>2, <4>1
    <3> QED
      BY <2>5, <3>1
  <2> DEFINE next == [i \in 0..j |-> IF i = j THEN Counted(k[j - 1], s[j]) ELSE k[i]]
  <2>7. ASSUME NEW i \in 0..j, i # j PROVE i \in 0..(j - 1) /\ next[i] = k[i]
    BY <2>3, <2>7
  <2>8. next[j] = Counted(k[j - 1], s[j]) /\ next[j] \in SUBSET S
    <3>1. k[j - 1] \in SUBSET S /\ j \in 0..j
      BY <2>3, <2>5, <2>6
    <3> QED
      BY <1>3, <2>5, <3>1
  <2>9. next \in [0..j -> SUBSET S]
    <3>1. ASSUME NEW i \in 0..j PROVE next[i] \in SUBSET S
      BY <2>6, <2>7, <2>8
    <3>2. next = [i \in 0..j |-> next[i]]
      OBVIOUS
    <3> HIDE DEF next
    <3> QED
      BY <3>1, <3>2
  <2>10. next[0] = {}
    BY <2>3, <2>4, <2>6, <2>7
  <2>11. ASSUME NEW i \in 1..j PROVE next[i] = Counted(next[i - 1], s[i])
    <3>1. next[i - 1] = k[i - 1] /\ i - 1 \in 0..j
      BY <2>3, <2>7
    <3>2. CASE i = j
      BY <2>8, <3>1, <3>2
    <3>3. CASE i # j
      <4>1. i \in 1..(j - 1) /\ i \in 0..j
        BY <2>3, <3>3
      <4>2. k[i] = Counted(k[i - 1], s[i])
        BY <2>6, <4>1
      <4> QED
        BY <2>7, <3>1, <3>3, <4>1, <4>2
    <3> QED
      BY <3>2, <3>3
  <2> HIDE DEF next
  <2> QED
    BY <2>3, <2>9, <2>10, <2>11
<1>5. kept = [i \in 0..n |-> IF i = 0 THEN {} ELSE Counted(kept[i - 1], s[i])]
  <2>1. PICK k : Steps(k, n)
    BY <1>4
  <2>2. k = [i \in 0..n |-> IF i = 0 THEN {} ELSE Counted(k[i - 1], s[i])]
    <3>1. ASSUME NEW i \in 0..n, i # 0 PROVE i \in 1..n
      BY <1>1, <3>1
    <3> QED
      BY <2>1, <3>1
  <2> QED
    BY <2>2 DEF n
<1> HIDE DEF kept
<1>6. kept[0] = {} /\ \A i \in 1..n : kept[i] = Counted(kept[i - 1], s[i])
  <2>1. 0 \in 0..n /\ \A i \in 1..n : i \in 0..n /\ i # 0
    BY <1>1
  <2> QED
    BY <1>5, <2>1
<1>7. ASSUME NEW i \in 0..n PROVE kept[i] \in SUBSET S
  <2> DEFINE bad == {j \in 0..n : kept[j] \notin SUBSET S}
  <2>1. SUFFICES ASSUME bad # {} PROVE FALSE
    BY <1>7
  <2>2. PICK j \in bad : \A m \in bad : j <= m
    <3>1. bad \in SUBSET Nat
      BY <1>1
    <3> HIDE DEF bad
    <3> QED
      BY <2>1, <3>1, Smallest
  <2>3. j # 0 /\ j \in 1..n /\ j - 1 \in 0..n /\ ~(j <= j - 1)
    BY <1>1, <1>6
  <2>4. kept[j - 1] \in SUBSET S
    BY <2>2, <2>3
  <2> QED
    BY <1>3, <1>6, <2>3, <2>4
<1>8. kept \in [0..n -> SUBSET S]
  <2>1. kept = [i \in 0..n |-> kept[i]]
    BY <1>5
  <2> QED
    BY <1>7, <2>1
<1> QED
  BY <1>2, <1>6, <1>8 DEF n, s

\* The last time at a mat is that of a reading counted there, and none is later.
LEMMA LastCounted ==
    ASSUME NEW C \in SUBSET Readings, IsFiniteSet(C), NEW m
    PROVE  /\ LastAt(C, m) \in Int
           /\ \A q \in C : MatOf[q] = m => TimeOf[q] <= LastAt(C, m)
           /\ \/ LastAt(C, m) = -Debounce
              \/ \E q \in C : MatOf[q] = m /\ TimeOf[q] = LastAt(C, m)
<1> DEFINE at == {p \in C : MatOf[p] = m}
           times == {TimeOf[q] : q \in at}
           T == {-Debounce} \cup times
<1>1. IsFiniteSet(times) /\ times \subseteq Nat
  <2>1. at \in SUBSET Readings /\ IsFiniteSet(at)
    BY FS_Subset
  <2> HIDE DEF at
  <2> QED
    BY <2>1, TimesFinite
<1>2. -Debounce \in Int
  BY BoundsAssumption
<1>3. T \subseteq Int /\ T # {} /\ IsFiniteSet(T)
  <2>1. T = times \cup {-Debounce}
    OBVIOUS
  <2> HIDE DEF times
  <2> QED
    BY <1>1, <1>2, <2>1, FS_AddElement
<1>4. LastAt(C, m) \in T /\ \A x \in T : x <= LastAt(C, m)
  <2>1. LastAt(C, m) = Max(T)
    BY DEF LastAt
  <2> HIDE DEF T
  <2> QED
    BY <1>3, <2>1, Extremes
<1> QED
  BY <1>3, <1>4

\* The reading q is the reason not to count p, if q counts.
Hides(q, p) == /\ MatOf[q] = MatOf[p] /\ TimeOf[q] <= TimeOf[p]
               /\ TimeOf[p] < TimeOf[q] + Debounce

\* Processor.ProcessEventPassings drops repeated readings as the rules say: what it
\* keeps are the readings that none it keeps has hidden.
LEMMA KeptCounts ==
    ASSUME NEW S \in SUBSET Readings, IsFiniteSet(S)
    PROVE  Kept(S) \in SUBSET S /\ Counts(Kept(S), S)
<1> DEFINE s == ByTime(S)
           n == Len(s)
<1>1. PICK k \in [0..n -> SUBSET S] :
        /\ k[0] = {} /\ Kept(S) = k[n]
        /\ \A i \in 1..n : k[i] = Counted(k[i - 1], s[i])
  BY KeptInSteps
<1>2. /\ n \in Nat /\ \A i \in 1..n : s[i] \in S
      /\ \A p \in S : \E i \in 1..n : s[i] = p
      /\ \A i, j \in 1..n : i < j => s[i] # s[j] /\ TimeOf[s[i]] <= TimeOf[s[j]]
  BY ListedOnce
<1> HIDE DEF s, n
<1> DEFINE Right(j) == /\ \A q \in k[j] : \E i \in 1..j : q = s[i]
                       /\ \A i \in 1..j : s[i] \in k[j] <=>
                            ~\E q \in k[j] \ {s[i]} : Hides(q, s[i])
<1>3. ASSUME NEW p \in Readings PROVE TimeOf[p] \in Nat
  BY NamesAssumption
<1>4. Debounce \in Nat /\ Debounce > 0
  BY BoundsAssumption
<1>5. ASSUME NEW j \in 1..n, Right(j - 1) PROVE Right(j)
  <2> DEFINE C == k[j - 1]
             p == s[j]
             last == LastAt(C, MatOf[p])
  <2>1. j - 1 \in 0..n /\ j \in 0..n /\ C \in SUBSET S /\ IsFiniteSet(C) /\ p \in S
    <3>1. j - 1 \in 0..n /\ j \in 0..n
      BY <1>2
    <3> QED
      BY <1>1, <1>2, <3>1, FS_Subset
  <2>2. k[j] = IF TimeOf[p] - last < Debounce THEN C ELSE C \cup {p}
    BY <1>1 DEF Counted
  <2>3. ASSUME NEW q \in C PROVE q # p /\ TimeOf[q] <= TimeOf[p]
    <3>1. PICK i \in 1..(j - 1) : q = s[i]
      BY <1>5
    <3>2. i \in 1..n /\ i < j
      BY <1>2
    <3> QED
      BY <1>2, <3>1, <3>2
  <2>4. /\ last \in Int /\ \A q \in C : MatOf[q] = MatOf[p] => TimeOf[q] <= last
        /\ \/ last = -Debounce
           \/ \E q \in C : MatOf[q] = MatOf[p] /\ TimeOf[q] = last
    <3> HIDE DEF p, C
    <3> QED
      BY <2>1, LastCounted
  <2>5. ASSUME NEW i \in 1..j, i # j
        PROVE  /\ i \in 1..(j - 1) /\ s[i] \in S /\ s[i] # p /\ TimeOf[s[i]] <= TimeOf[p]
               /\ s[i] \in C <=> ~\E q \in C \ {s[i]} : Hides(q, s[i])
    <3>1. i \in 1..(j - 1) /\ i \in 1..n /\ i < j
      BY <1>2, <2>5
    <3> QED
      BY <1>2, <1>5, <3>1
  <2>6. \A q \in k[j] : \E i \in 1..j : q = s[i]
    <3> SUFFICES ASSUME NEW q \in k[j] PROVE \E i \in 1..j : q = s[i]
      OBVIOUS
    <3>1. CASE q = p
      BY <1>2, <3>1
    <3>2. CASE q \in C
      <4>1. PICK i \in 1..(j - 1) : q = s[i]
        BY <1>5, <3>2
      <4>2. i \in 1..j
        BY <1>2
      <4> QED
        BY <4>1, <4>2
    <3> QED
      BY <2>2, <3>1, <3>2
  <2>7. CASE TimeOf[p] - last < Debounce
    <3>1. k[j] = C
      BY <2>2, <2>7
    <3>2. PICK q \in C : Hides(q, p)
      <4>1. TimeOf[p] - (-Debounce) >= Debounce
        BY <1>3, <1>4, <2>1
      <4>2. last # -Debounce
        <5>1. TimeOf[p] \in Nat
          BY <1>3, <2>1
        <5> HIDE DEF last, p
        <5> QED
          BY <1>4, <2>4, <2>7, <4>1, <5>1
      <4>3. PICK q \in C : MatOf[q] = MatOf[p] /\ TimeOf[q] = last
        BY <2>4, <4>2
      <4>4. TimeOf[p] < TimeOf[q] + Debounce
        <5> HIDE DEF last, p
        <5> QED
          BY <1>3, <1>4, <2>1, <2>4, <2>7, <4>3
      <4> QED
        BY <2>3, <4>3, <4>4 DEF Hides
    <3>3. p \notin C /\ q # p
      BY <2>3
    <3>4. ASSUME NEW i \in 1..j PROVE s[i] \in C <=> ~\E x \in C \ {s[i]} : Hides(x, s[i])
      <4>1. CASE i = j
        BY <3>2, <3>3, <4>1
      <4>2. CASE i # j
        BY <2>5, <4>2
      <4> QED
        BY <4>1, <4>2
    <3> QED
      BY <2>6, <3>1, <3>4
  <2>8. CASE ~(TimeOf[p] - last < Debounce)
    <3>1. k[j] = C \cup {p}
      BY <2>2, <2>8
    <3>2. ASSUME NEW q \in C, MatOf[q] = MatOf[p] PROVE TimeOf[q] + Debounce <= TimeOf[p]
      <4>1. TimeOf[q] <= last /\ TimeOf[q] \in Nat /\ TimeOf[p] \in Nat
        BY <1>3, <2>1, <2>4, <3>2
      <4> HIDE DEF last, p
      <4> QED
        BY <1>4, <2>4, <2>8, <4>1
    <3>3. ASSUME NEW q \in C, Hides(q, p) PROVE FALSE
      <4>1. TimeOf[q] \in Nat /\ TimeOf[p] \in Nat
        BY <1>3, <2>1
      <4> HIDE DEF p
      <4> QED
        BY <1>4, <3>2, <3>3, <4>1 DEF Hides
    <3>4. ASSUME NEW i \in 1..j, i # j
          PROVE  s[i] \in k[j] <=> ~\E x \in k[j] \ {s[i]} : Hides(x, s[i])
      <4>1. s[i] \in C => ~Hides(p, s[i])
        <5> SUFFICES ASSUME s[i] \in C, Hides(p, s[i]) PROVE FALSE
          OBVIOUS
        <5>1. TimeOf[s[i]] + Debounce <= TimeOf[p] /\ TimeOf[p] <= TimeOf[s[i]]
          BY <3>2 DEF Hides
        <5>2. TimeOf[s[i]] \in Nat /\ TimeOf[p] \in Nat
          BY <1>3, <2>1
        <5> HIDE DEF p
        <5> QED
          BY <1>4, <5>1, <5>2
      <4> QED
        BY <2>5, <3>1, <3>4, <4>1
    <3>5. ASSUME NEW i \in 1..j
          PROVE  s[i] \in k[j] <=> ~\E x \in k[j] \ {s[i]} : Hides(x, s[i])
      <4>1. CASE i = j
        BY <3>1, <3>3, <4>1
      <4> QED
        BY <3>4, <4>1
    <3> QED
      BY <2>6, <3>5
  <2> QED
    BY <2>7, <2>8
<1>6. Right(0)
  BY <1>1
<1> HIDE DEF Right
<1>7. Right(n)
  <2> DEFINE bad == {j \in 0..n : ~Right(j)}
  <2>1. SUFFICES ASSUME bad # {} PROVE FALSE
    <3>1. n \in 0..n
      BY <1>2
    <3> QED
      BY <3>1, Zenon
  <2>2. PICK j \in bad : \A i \in bad : j <= i
    <3>1. bad \in SUBSET Nat
      BY <1>2
    <3> HIDE DEF bad
    <3> QED
      BY <2>1, <3>1, Smallest
  <2>3. j # 0 /\ j \in 1..n /\ j - 1 \in 0..n /\ ~(j <= j - 1) /\ ~Right(j)
    BY <1>2, <1>6
  <2>4. Right(j - 1)
    BY <2>2, <2>3
  <2> QED
    BY <1>5, <2>3, <2>4
<1>8. k[n] \in SUBSET S
  BY <1>1, <1>2
<1>9. ASSUME NEW p \in S PROVE p \in k[n] <=> ~\E q \in k[n] \ {p} : Hides(q, p)
  <2>1. PICK i \in 1..n : s[i] = p
    BY <1>2
  <2> QED
    BY <1>7, <2>1 DEF Right
<1> QED
  BY <1>1, <1>8, <1>9 DEF Counts, Hides

-----------------------------------------------------------------------------
(***************************************************************************)
(* The score of a bib's readings.                                          *)
(***************************************************************************)

\* The times at a mat are the empty set or have a first and a last.
LEMMA FirstAndLast ==
    ASSUME NEW C \in SUBSET Readings, IsFiniteSet(C), NEW m, TimesAt(C, m) # {}
    PROVE  /\ \E p \in C : MatOf[p] = m /\ TimeOf[p] = Min(TimesAt(C, m))
           /\ \A p \in C : MatOf[p] = m => Min(TimesAt(C, m)) <= TimeOf[p]
           /\ \E p \in C : MatOf[p] = m /\ TimeOf[p] = Max(TimesAt(C, m))
           /\ \A p \in C : MatOf[p] = m => TimeOf[p] <= Max(TimesAt(C, m))
<1> DEFINE at == {p \in C : MatOf[p] = m}
           T == {TimeOf[p] : p \in at}
<1>1. TimesAt(C, m) = T
  BY DEF TimesAt
<1>2. IsFiniteSet(T) /\ T \subseteq Int
  <2>1. at \in SUBSET Readings /\ IsFiniteSet(at)
    BY FS_Subset
  <2> HIDE DEF at
  <2> QED
    BY <2>1, TimesFinite
<1>3. /\ Min(T) \in T /\ \A x \in T : Min(T) <= x
      /\ Max(T) \in T /\ \A x \in T : x <= Max(T)
  <2> HIDE DEF T
  <2> QED
    BY <1>1, <1>2, Extremes
<1> QED
  BY <1>1, <1>3

\* There is a net (or gun) time when the finish is after the start.
LEMMA ElapsedTime ==
    ASSUME NEW from \in Nat \cup {NoTime}, NEW to \in Nat \cup {NoTime}
    PROVE  \/ /\ from # NoTime /\ from < to /\ Elapsed(from, to) \in Nat
              /\ Elapsed(from, to) > 0 /\ to = from + Elapsed(from, to)
           \/ Elapsed(from, to) = NoTime /\ ~(from # NoTime /\ from < to)
BY DEF Elapsed, NoTime

\* The score of a bib's readings is what the rules make of them.
LEMMA ScoreByRules ==
    ASSUME NEW b \in Bibs, NEW S \in SUBSET Readings, IsFiniteSet(S),
           NEW q \in Policies \cup {DefaultPolicy}
    PROVE  Score(b, S, q) \in Results /\ ByRules(Score(b, S, q), b, S, q)
<1> DEFINE C == Kept(S)
           seen(m) == \E p \in C : MatOf[p] = m
           excused == q.startMode # "CHIP_MANDATORY" /\ q.allowMissingStart
           started(t) == IF seen(StartMat)
                         THEN /\ \E p \in C : MatOf[p] = StartMat /\ TimeOf[p] = t
                              /\ \A p \in C : MatOf[p] = StartMat => t <= TimeOf[p]
                         ELSE excused /\ t = WaveStart[b] /\ t # NoTime
           finished(t) == /\ \E p \in C : MatOf[p] = FinishMat /\ TimeOf[p] = t
                          /\ \A p \in C : MatOf[p] = FinishMat => TimeOf[p] <= t
           times == {TimeOf[p] : p \in S} \cup ({WaveStart[b]} \ {NoTime})
           start == StartTime(b, C, q)
           fin == FinishTime(C)
           w == Score(b, S, q)
<1>1. C \in SUBSET S /\ IsFiniteSet(C) /\ Counts(C, S)
  BY KeptCounts, FS_Subset
<1>2. /\ \A p \in S : TimeOf[p] \in Nat
      /\ WaveStart[b] \in Nat \cup {NoTime}
      /\ times \subseteq Nat
  BY NamesAssumption DEF NoTime
<1>3. /\ q.cutoff \in Nat /\ q.action \in Actions
  <2>1. q \in Policies => q.cutoff \in Nat /\ q.action \in Actions
    BY PoliciesAssumption
  <2>2. DefaultPolicy.cutoff = 0 /\ DefaultPolicy.action = "PENDING_REVIEW"
    BY DEF DefaultPolicy
  <2> QED
    BY <2>1, <2>2 DEF Actions
<1>4. \A m : TimesAt(C, m) # {} <=> seen(m)
  BY DEF TimesAt
<1> HIDE DEF C
<1>5. /\ start \in Nat \cup {NoTime}
      /\ start # NoTime => start \in times /\ started(start)
      /\ \A t \in times : started(t) => t = start
  <2>1. CASE seen(StartMat)
    <3>1. start = Min(TimesAt(C, StartMat))
      BY <1>4, <2>1 DEF StartTime
    <3>2. /\ \E p \in C : MatOf[p] = StartMat /\ TimeOf[p] = start
          /\ \A p \in C : MatOf[p] = StartMat => start <= TimeOf[p]
      BY <1>1, <1>4, <2>1, <3>1, FirstAndLast
    <3> HIDE DEF start
    <3>3. start \in times /\ start \in Nat
      BY <1>1, <1>2, <3>2
    <3>4. ASSUME NEW t \in times, started(t) PROVE t = start
      <4>1. t \in Nat /\ t <= start /\ start <= t
        BY <1>1, <1>2, <2>1, <3>2, <3>4
      <4> QED
        BY <3>3, <4>1
    <3> QED
      BY <2>1, <3>2, <3>3, <3>4
  <2>2. CASE ~seen(StartMat)
    <3>1. start = IF excused THEN WaveStart[b] ELSE NoTime
      BY <1>4, <2>2 DEF StartTime
    <3> HIDE DEF start
    <3>2. NoTime \notin times
      BY <1>2 DEF NoTime
    <3> QED
      BY <1>2, <2>2, <3>1, <3>2
  <2> QED
    BY <2>1, <2>2
<1>6. /\ fin \in Nat \cup {NoTime}
      /\ fin # NoTime => finished(fin)
      /\ \A t \in Nat : finished(t) => t = fin
  <2>1. CASE seen(FinishMat)
    <3>1. fin = Max(TimesAt(C, FinishMat))
      BY <1>4, <2>1 DEF FinishTime
    <3>2. /\ \E p \in C : MatOf[p] = FinishMat /\ TimeOf[p] = fin
          /\ \A p \in C : MatOf[p] = FinishMat => TimeOf[p] <= fin
      BY <1>1, <1>4, <2>1, <3>1, FirstAndLast
    <3> HIDE DEF fin
    <3>3. fin \in times /\ fin \in Nat
      BY <1>1, <1>2, <3>2
    <3>4. ASSUME NEW t \in Nat, finished(t) PROVE t = fin
      <4>1. t <= fin /\ fin <= t
        BY <1>1, <3>2, <3>4
      <4> QED
        BY <3>3, <4>1
    <3> QED
      BY <3>2, <3>3, <3>4
  <2>2. CASE ~seen(FinishMat)
    <3>1. fin = NoTime
      BY <1>4, <2>2 DEF FinishTime
    <3> QED
      BY <2>2, <3>1 DEF NoTime
  <2> QED
    BY <2>1, <2>2
<1> DEFINE missing == \E m \in q.mandatory : ~SeenAt(C, m)
           whole == \A m \in q.mandatory :
                seen(m) /\ m \in SplitMats \cup {StartMat, FinishMat}
           inTime == w.net # NoTime /\ (q.cutoff = 0 \/ w.net <= q.cutoff)
<1>7. /\ w = [status |-> Adjudicated(Status(start, w.net, q), missing, q),
               net |-> Elapsed(start, fin), gun |-> Elapsed(WaveStart[b], fin),
               source |-> "TIMING_API"]
      /\ w.net = Elapsed(start, fin) /\ w.gun = Elapsed(WaveStart[b], fin)
      /\ w.status = Adjudicated(Status(start, w.net, q), missing, q)
  BY DEF Score, C
<1>8. missing <=> ~whole
  BY <1>4 DEF SeenAt
<1> HIDE DEF start, fin, w, started, finished, times, missing, whole
<1>9. /\ \/ /\ start # NoTime /\ start < fin /\ w.net \in Nat
            /\ w.net > 0 /\ fin = start + w.net
         \/ w.net = NoTime /\ ~(start # NoTime /\ start < fin)
      /\ \/ /\ WaveStart[b] # NoTime /\ WaveStart[b] < fin /\ w.gun \in Nat
            /\ w.gun > 0 /\ fin = WaveStart[b] + w.gun
         \/ w.gun = NoTime /\ ~(WaveStart[b] # NoTime /\ WaveStart[b] < fin)
  BY <1>2, <1>5, <1>6, <1>7, ElapsedTime
<1>10. IF w.net # NoTime
       THEN w.net > 0 /\ \E t \in times : started(t) /\ finished(t + w.net)
       ELSE \A t, u \in times : started(t) /\ finished(u) => u <= t
  <2>1. CASE w.net # NoTime
    <3>1. start \in times /\ started(start) /\ w.net > 0 /\ fin = start + w.net
      BY <1>5, <1>9, <2>1
    <3>2. finished(start + w.net)
      <4>1. fin # NoTime
        BY <1>2, <1>9, <2>1, <3>1 DEF NoTime
      <4> QED
        BY <1>6, <3>1, <4>1
    <3> QED
      BY <2>1, <3>1, <3>2
  <2>2. CASE w.net = NoTime
    <3>1. ASSUME NEW t \in times, NEW u \in times, started(t), finished(u)
          PROVE  u <= t
      <4>1. t \in Nat /\ u \in Nat /\ t = start /\ u = fin
        BY <1>2, <1>5, <1>6, <3>1
      <4> QED
        BY <1>9, <2>2, <4>1 DEF NoTime
    <3> QED
      BY <2>2, <3>1
  <2> QED
    BY <2>1, <2>2
<1>11. IF w.gun # NoTime
       THEN w.gun > 0 /\ WaveStart[b] # NoTime /\ finished(WaveStart[b] + w.gun)
       ELSE WaveStart[b] # NoTime => \A u \in times : finished(u) => u <= WaveStart[b]
  <2>1. CASE w.gun # NoTime
    <3>1. w.gun > 0 /\ WaveStart[b] # NoTime /\ fin = WaveStart[b] + w.gun /\ fin # NoTime
      BY <1>2, <1>9, <2>1 DEF NoTime
    <3> QED
      BY <1>6, <2>1, <3>1
  <2>2. CASE w.gun = NoTime
    <3>1. ASSUME WaveStart[b] # NoTime, NEW u \in times, finished(u)
          PROVE  u <= WaveStart[b]
      <4>1. u \in Nat /\ u = fin /\ WaveStart[b] \in Nat
        BY <1>2, <1>6, <3>1
      <4>2. ~(WaveStart[b] < fin)
        BY <1>9, <2>2, <3>1 DEF NoTime
      <4> QED
        BY <4>1, <4>2
    <3> QED
      BY <2>2, <3>1
  <2> QED
    BY <2>1, <2>2
<1>12. /\ start = NoTime => ~\E t \in times : started(t)
       /\ start # NoTime => \E t \in times : started(t)
  BY <1>2, <1>5 DEF NoTime
<1>13. /\ w.status \in Statuses
       /\ w.status = "FINISHED" <=> inTime /\ (whole \/ q.action = "WARNING")
       /\ w.status = "OTL" <=> w.net # NoTime /\ ~inTime
       /\ w.status = "DNS" <=> w.net = NoTime /\ start = NoTime
       /\ inTime /\ w.status # "FINISHED" => w.status = q.action
  <2>1. CASE w.net = NoTime
    <3>1. w.status = IF start # NoTime THEN "DNF" ELSE "DNS"
      BY <1>7, <2>1 DEF Adjudicated, Status
    <3> QED
      BY <2>1, <3>1 DEF Statuses
  <2>2. CASE w.net # NoTime
    <3>1. inTime <=> ~(q.cutoff > 0 /\ w.net > q.cutoff)
      BY <1>3, <1>9, <2>2
    <3>2. CASE ~inTime
      <4>1. w.status = "OTL"
        BY <1>7, <2>2, <3>1, <3>2 DEF Adjudicated, Status
      <4> QED
        BY <2>2, <3>2, <4>1 DEF Statuses
    <3>3. CASE inTime
      <4>1. w.status = IF missing /\ q.action # "WARNING" THEN q.action ELSE "FINISHED"
        BY <1>7, <2>2, <3>1, <3>3 DEF Adjudicated, Status
      <4> QED
        BY <1>3, <1>8, <2>2, <3>3, <4>1 DEF Statuses, Actions
    <3> QED
      BY <3>2, <3>3
  <2> QED
    BY <2>1, <2>2
<1>14. w \in Results
  BY <1>7, <1>9, <1>13 DEF Results
<1>15. ByRules(w, b, S, q)
  <2> USE DEF started, finished, times, whole
  <2> QED
    BY <1>1, <1>10, <1>11, <1>12, <1>13 DEF ByRules
<1> QED
  BY <1>14, <1>15 DEF w

-----------------------------------------------------------------------------
(***************************************************************************)
(* The inductive invariant.                                                *)
(***************************************************************************)

\* A run that scores has the race's policy, and every bib that has a reading in its
\* listing is still to be written or has a result, if nothing was lost.
RunScores(r) ==
    /\ run[r].policy \in {policy, DefaultPolicy}
    /\ \A b \in run[r].todo : ReadingsOf(r, b, run[r].batch) # {}
    /\ \A b \in Bibs : ReadingsOf(r, b, run[r].batch) # {} =>
        /\ ReadingsOf(r, b, run[r].batch) \in parts[b]
        /\ b \notin run[r].todo => (row[b] = NoRow => losses > 0)

\* A row from the mats is the score of readings that a run has scored.
Scored(b) == row[b].source = "TIMING_API" =>
    \E S \in parts[b], q \in {policy, DefaultPolicy} : row[b] = Score(b, S, q)

PartsReceived == \A b \in Bibs : \A S \in parts[b] : S \subseteq received

IInv ==
    /\ TypeOK
    /\ IsFiniteSet(received) /\ PartsReceived
    /\ \A r \in Runs : run[r].at = "scoring" => RunScores(r)
    /\ \A b \in Bibs : Scored(b)
    /\ NoReadingLost

\* What TypeOK says of one run.
RunRecords == [at : {"idle", "read", "scoring"}, map : [Chips -> Bibs \cup {NoBib}],
               batch : SUBSET received, todo : SUBSET Bibs,
               policy : Policies \cup {DefaultPolicy}]

LEMMA InitIInv == Init => IInv
<1> SUFFICES ASSUME Init PROVE IInv
  OBVIOUS
<1> USE DEF Init
<1>1. TypeOK
  <2>1. NoRun \in RunRecords
    BY DEF NoRun, RunRecords
  <2>2. run \in [Runs -> RunRecords]
    BY <2>1
  <2>3. 0 \in 0..MaxLosses
    BY BoundsAssumption
  <2> QED
    BY <2>2, <2>3 DEF TypeOK, RunRecords
<1>2. IsFiniteSet(received) /\ PartsReceived
  BY FS_EmptySet DEF PartsReceived
<1>3. ASSUME NEW r \in Runs, run[r].at = "scoring" PROVE RunScores(r)
  BY <1>3 DEF NoRun
<1>4. ASSUME NEW b \in Bibs PROVE Scored(b)
  BY DEF Scored, NoRow
<1>5. NoReadingLost
  BY DEF NoReadingLost
<1> QED
  BY <1>1, <1>2, <1>3, <1>4, <1>5 DEF IInv

\* A lost statement is counted, and one that was stays counted.
LossesKept == losses' \in 0..MaxLosses /\ (losses > 0 => losses' > 0)

LEMMA LossCounted ==
    ASSUME IInv, Loss \/ UNCHANGED losses
    PROVE  LossesKept /\ (Loss => losses' > 0)
BY BoundsAssumption DEF IInv, TypeOK, Loss, LossesKept

\* Results are replaced, and are gone only when something was lost; parts are added.
RowsKept == \A b \in Bibs : row'[b] = NoRow => row[b] = NoRow \/ losses' > 0
PartsKept == \A b \in Bibs : parts[b] \subseteq parts'[b]

\* A run that is not the one that steps keeps its part of the invariant.
LEMMA ScoringKept ==
    ASSUME IInv, NEW r \in Runs, run'[r] = run[r], run[r].at = "scoring", LossesKept,
           UNCHANGED policy, RowsKept, PartsKept
    PROVE  RunScores(r)'
<1>1. RunScores(r)
  BY DEF IInv
<1>2. \A b, S : ReadingsOf(r, b, S)' = ReadingsOf(r, b, S)
  BY DEF ReadingsOf, BibRead
<1> QED
  BY <1>1, <1>2 DEF RunScores, LossesKept, RowsKept, PartsKept

\* A result that does not change stays the score it is.
LEMMA ScoredKept ==
    ASSUME IInv, UNCHANGED policy, NEW b \in Bibs, row'[b] = row[b], parts[b] \subseteq parts'[b]
    PROVE  Scored(b)'
BY DEF IInv, Scored

\* No reading is lost when none is marked.
LEMMA NoneLost ==
    ASSUME IInv, UNCHANGED marked, LossesKept, RowsKept, PartsKept
    PROVE  NoReadingLost'
<1> SUFFICES ASSUME NEW p \in marked
             PROVE  \E b \in Bibs : /\ \E S \in parts'[b] : p \in S
                                    /\ row'[b] = NoRow => losses' > 0
  BY DEF NoReadingLost
<1>1. PICK b \in Bibs : (\E S \in parts[b] : p \in S) /\ (row[b] = NoRow => losses > 0)
  BY DEF IInv, NoReadingLost
<1> QED
  BY <1>1 DEF LossesKept, RowsKept, PartsKept

\* What else a step keeps that changes none of the variables it is about.
LEMMA OutsideKept ==
    ASSUME IInv, UNCHANGED <<policy, marked, row, run, parts>>, LossesKept
    PROVE  /\ \A r \in Runs : run'[r].at = "scoring" => RunScores(r)'
           /\ \A b \in Bibs : Scored(b)'
           /\ NoReadingLost'
BY ScoringKept, ScoredKept, NoneLost DEF RowsKept, PartsKept

-----------------------------------------------------------------------------
(***************************************************************************)
(* Readings come in; chips are given out.                                  *)
(***************************************************************************)

LEMMA IngestStep == ASSUME IInv, NEW p \in Readings, Ingest(p) PROVE IInv'
<1> USE DEF Ingest
<1>1. TypeOK'
  <2>1. run \in [Runs -> RunRecords] /\ RunRecords \subseteq RunRecords'
    BY DEF IInv, TypeOK, RunRecords
  <2>2. run' \in [Runs -> RunRecords']
    BY <2>1
  <2> QED
    BY <2>2 DEF IInv, TypeOK, RunRecords
<1>2. IsFiniteSet(received')
  BY FS_AddElement DEF IInv
<1>3. PartsReceived'
  BY DEF IInv, PartsReceived
<1> QED
  BY <1>1, <1>2, <1>3, LossCounted, OutsideKept DEF IInv

\* Giving a free chip to a bib without one, or taking chips away, keeps chips apart.
LEMMA ChipsStep ==
    ASSUME IInv, UNCHANGED <<policy, received, marked, row, run, parts>>,
           Loss \/ UNCHANGED losses,
           NEW a \in Assigns, NEW s \in {"new", "bib", "chip", "done"}, AssignTo(a, s),
           chips' \in [Chips -> Bibs \cup {NoBib}],
           \A c, d \in Chips : chips'[c] = chips'[d] /\ chips'[c] # NoBib => c = d
    PROVE  IInv'
<1>1. LossesKept
  BY LossCounted
<1>2. assign' \in [Assigns -> {"new", "bib", "chip", "done"}]
  BY DEF IInv, TypeOK, AssignTo
<1>3. TypeOK'
  BY <1>1, <1>2 DEF IInv, TypeOK, LossesKept
<1>4. IsFiniteSet(received') /\ PartsReceived'
  BY DEF IInv, PartsReceived
<1> QED
  BY <1>1, <1>3, <1>4, OutsideKept DEF IInv

LEMMA AssignStep ==
    ASSUME IInv, NEW a \in Assigns, DeactivateBib(a) \/ DeactivateChip(a) \/ InsertMapping(a)
    PROVE  IInv'
<1>1. /\ chips \in [Chips -> Bibs \cup {NoBib}] /\ BibOf[a] \in Bibs /\ ChipFor[a] \in Chips
      /\ \A c, d \in Chips : chips[c] = chips[d] /\ chips[c] # NoBib => c = d
  BY NamesAssumption DEF IInv, TypeOK
<1>2. CASE DeactivateBib(a)
  <2>1. /\ chips' \in [Chips -> Bibs \cup {NoBib}]
        /\ \A c \in Chips : chips'[c] # NoBib => chips'[c] = chips[c]
    BY <1>1, <1>2 DEF DeactivateBib
  <2> QED
    BY <1>1, <1>2, <2>1, ChipsStep DEF DeactivateBib
<1>3. CASE DeactivateChip(a)
  <2>1. /\ chips' \in [Chips -> Bibs \cup {NoBib}]
        /\ \A c \in Chips : chips'[c] # NoBib => chips'[c] = chips[c]
    BY <1>1, <1>3 DEF DeactivateChip
  <2> QED
    BY <1>1, <1>3, <2>1, ChipsStep DEF DeactivateChip
<1>4. CASE InsertMapping(a)
  <2>1. /\ chips' \in [Chips -> Bibs \cup {NoBib}]
        /\ \A c, d \in Chips : chips'[c] = chips'[d] /\ chips'[c] # NoBib => c = d
    <3>1. CASE MappingIsFree(a)
      <4>1. chips' = [chips EXCEPT ![ChipFor[a]] = BibOf[a]]
        BY <1>4, <3>1 DEF InsertMapping
      <4> QED
        BY <1>1, <3>1, <4>1 DEF MappingIsFree
    <3>2. CASE ~MappingIsFree(a)
      BY <1>1, <1>4, <3>2 DEF InsertMapping
    <3> QED
      BY <3>1, <3>2
  <2> QED
    BY <1>4, <2>1, ChipsStep DEF InsertMapping
<1> QED
  BY <1>2, <1>3, <1>4

-----------------------------------------------------------------------------
(***************************************************************************)
(* ProcessTiming and the results page.                                     *)
(***************************************************************************)

\* A step of one run keeps the types.
LEMMA RunTyped ==
    ASSUME IInv, NEW r \in Runs, NEW rec \in RunRecords,
           run' = [run EXCEPT ![r] = rec], UNCHANGED <<policy, received, chips, assign>>,
           marked' \in SUBSET received, row' \in [Bibs -> Results \cup {NoRow}],
           parts' \in [Bibs -> SUBSET SUBSET Readings], Loss \/ UNCHANGED losses
    PROVE  TypeOK'
<1>1. run \in [Runs -> RunRecords]
  BY DEF IInv, TypeOK, RunRecords
<1>2. run' \in [Runs -> RunRecords]
  BY <1>1
<1>3. losses' \in 0..MaxLosses
  BY LossCounted DEF LossesKept
<1> QED
  BY <1>2, <1>3 DEF IInv, TypeOK, RunRecords

LEMMA NoRunTyped == NoRun \in RunRecords /\ NoRun.at = "idle"
BY DEF NoRun, RunRecords

\* A step that ends a run, or only starts it.
LEMMA RunTurnStep ==
    ASSUME IInv, NEW r \in Runs, NEW rec \in RunRecords, rec.at # "scoring",
           run' = [run EXCEPT ![r] = rec], Loss \/ UNCHANGED losses,
           UNCHANGED <<policy, received, marked, chips, assign, row, parts>>
    PROVE  IInv'
<1>1. TypeOK'
  <2>1. /\ marked \in SUBSET received /\ row \in [Bibs -> Results \cup {NoRow}]
        /\ parts \in [Bibs -> SUBSET SUBSET Readings]
    BY DEF IInv, TypeOK
  <2> QED
    BY <2>1, RunTyped
<1>2. IsFiniteSet(received') /\ PartsReceived'
  BY DEF IInv, PartsReceived
<1>3. LossesKept
  BY LossCounted
<1>4. ASSUME NEW s \in Runs, run'[s].at = "scoring" PROVE RunScores(s)'
  <2>1. s # r /\ run'[s] = run[s]
    BY <1>4 DEF IInv, TypeOK
  <2> QED
    BY <1>3, <1>4, <2>1, ScoringKept DEF RowsKept, PartsKept
<1> QED
  BY <1>1, <1>2, <1>3, <1>4, ScoredKept, NoneLost DEF IInv, RowsKept, PartsKept

LEMMA ReadMappingsStep == ASSUME IInv, NEW r \in Runs, ReadMappings(r) PROVE IInv'
<1> DEFINE rec == [NoRun EXCEPT !.at = "read", !.map = chips]
<1>1. rec \in RunRecords /\ rec.at # "scoring"
  <2>1. rec = [at |-> "read", map |-> chips, batch |-> {}, todo |-> {},
               policy |-> DefaultPolicy]
    <3>1. DOMAIN NoRun = {"at", "map", "batch", "todo", "policy"}
      BY DEF NoRun
    <3>2. rec = [k \in DOMAIN NoRun |-> IF k = "map" THEN chips
                    ELSE IF k = "at" THEN "read" ELSE NoRun[k]]
      BY <3>1, Zenon
    <3> HIDE DEF rec
    <3> QED
      BY <3>1, <3>2 DEF NoRun
  <2> HIDE DEF rec
  <2> QED
    BY <2>1 DEF IInv, TypeOK, RunRecords
<1> QED
  BY <1>1, RunTurnStep DEF ReadMappings

LEMMA RunEndsStep == ASSUME IInv, NEW r \in Runs, ListNothing(r) \/ RunDies(r) PROVE IInv'
BY NoRunTyped, RunTurnStep DEF ListNothing, RunDies

\* The readings a run lists for a bib become one of the bib's parts.
LEMMA ListPassingsStep == ASSUME IInv, NEW r \in Runs, ListPassings(r) PROVE IInv'
<1>1. PICK S \in Listings, q \in {policy, DefaultPolicy} :
        LET seen == {b \in Bibs : ReadingsOf(r, b, S) # {}}
        IN  /\ run' = [run EXCEPT ![r] = [@ EXCEPT
                        !.at = "scoring", !.batch = S, !.todo = seen, !.policy = q]]
            /\ parts' = [b \in Bibs |-> IF b \in seen
                            THEN parts[b] \cup {ReadingsOf(r, b, S)} ELSE parts[b]]
            /\ IF q = policy THEN UNCHANGED losses ELSE Loss
  BY DEF ListPassings
<1> DEFINE seen == {b \in Bibs : ReadingsOf(r, b, S) # {}}
           rec == [at |-> "scoring", map |-> run[r].map, batch |-> S, todo |-> seen,
                   policy |-> q]
<1>2. UNCHANGED <<policy, received, marked, chips, assign, row>> /\ LossesKept
      /\ (Loss \/ UNCHANGED losses)
  BY <1>1, LossCounted DEF ListPassings
<1>3. S \in SUBSET received
  BY DEF Listings, kSubset
<1>4. rec \in RunRecords /\ run \in [Runs -> RunRecords]
  <2>1. run \in [Runs -> RunRecords] /\ q \in Policies \cup {DefaultPolicy}
    BY DEF IInv, TypeOK, RunRecords
  <2>2. run[r].map \in [Chips -> Bibs \cup {NoBib}]
    BY <2>1 DEF RunRecords
  <2> QED
    BY <1>3, <2>1, <2>2 DEF RunRecords
<1>5. run' = [run EXCEPT ![r] = rec]
  <2>1. run[r] = [at |-> run[r].at, map |-> run[r].map, batch |-> run[r].batch,
                  todo |-> run[r].todo, policy |-> run[r].policy]
    BY <1>4 DEF RunRecords
  <2>2. [run[r] EXCEPT !.at = "scoring", !.batch = S, !.todo = seen, !.policy = q] = rec
    <3> DEFINE new == [run[r] EXCEPT !.at = "scoring", !.batch = S, !.todo = seen, !.policy = q]
    <3>1. DOMAIN run[r] = {"at", "map", "batch", "todo", "policy"}
      BY <2>1
    <3>2. new = [k \in DOMAIN run[r] |-> IF k = "policy" THEN q ELSE IF k = "todo" THEN seen
                    ELSE IF k = "batch" THEN S ELSE IF k = "at" THEN "scoring" ELSE run[r][k]]
      BY <3>1, Zenon
    <3> HIDE DEF new, seen
    <3>3. new = rec
      BY <3>1, <3>2
    <3> QED
      BY <3>3 DEF new
  <2> HIDE DEF rec
  <2> QED
    BY <1>1, <2>2
<1>6. /\ \A b \in Bibs : parts'[b] \in SUBSET SUBSET received /\ parts[b] \subseteq parts'[b]
      /\ \A b \in seen : ReadingsOf(r, b, S) \in parts'[b]
      /\ parts' \in [Bibs -> SUBSET SUBSET Readings]
  <2>1. \A b \in Bibs : /\ parts[b] \in SUBSET SUBSET received
                       /\ ReadingsOf(r, b, S) \in SUBSET received
    BY <1>3 DEF IInv, PartsReceived, ReadingsOf
  <2>2. received \subseteq Readings
    BY DEF IInv, TypeOK
  <2> QED
    BY <1>1, <2>1, <2>2
<1>7. TypeOK'
  <2>1. marked' \in SUBSET received /\ row' \in [Bibs -> Results \cup {NoRow}]
    BY <1>2 DEF IInv, TypeOK
  <2> HIDE DEF rec
  <2> QED
    BY <1>2, <1>4, <1>5, <1>6, <2>1, RunTyped
<1>8. IsFiniteSet(received') /\ PartsReceived'
  BY <1>2, <1>6 DEF IInv, PartsReceived
<1>9. run'[r] = rec /\ \A s \in Runs : s # r => run'[s] = run[s]
  BY <1>4, <1>5
<1>10. RunScores(r)'
  <2>1. \A b : ReadingsOf(r, b, S)' = ReadingsOf(r, b, S)
    BY <1>9 DEF ReadingsOf, BibRead
  <2>2. run'[r].batch = S /\ run'[r].todo = seen /\ run'[r].policy = q
    BY <1>9
  <2> QED
    BY <1>2, <1>6, <2>1, <2>2 DEF RunScores
<1>11. ASSUME NEW s \in Runs, s # r, run'[s].at = "scoring" PROVE RunScores(s)'
  BY <1>2, <1>6, <1>9, <1>11, ScoringKept DEF RowsKept, PartsKept
<1> QED
  BY <1>2, <1>6, <1>7, <1>8, <1>10, <1>11, ScoredKept, NoneLost DEF IInv, RowsKept, PartsKept

\* A run writes the score of a part of the bib, or loses the statement.
LEMMA UpsertResultStep ==
    ASSUME IInv, NEW r \in Runs, NEW b \in Bibs, UpsertResult(r, b) PROVE IInv'
<1> DEFINE S == ReadingsOf(r, b, run[r].batch)
           rec == [run[r] EXCEPT !.todo = @ \ {b}]
<1>1. /\ run[r].at = "scoring" /\ b \in run[r].todo /\ RunScores(r)
      /\ S \in parts[b] /\ run[r].policy \in {policy, DefaultPolicy}
  BY DEF UpsertResult, IInv, RunScores
<1>2. /\ UNCHANGED <<policy, received, marked, chips, assign, parts>> /\ LossesKept
      /\ (Loss \/ UNCHANGED losses)
  BY LossCounted DEF UpsertResult
<1>3. Score(b, S, run[r].policy) \in Results
  <2>1. S \in SUBSET Readings /\ IsFiniteSet(S)
    BY <1>1, FS_Subset DEF IInv, TypeOK, PartsReceived
  <2>2. run[r].policy \in Policies \cup {DefaultPolicy}
    BY <1>1 DEF IInv, TypeOK
  <2> QED
    BY <2>1, <2>2, ScoreByRules
<1>4. run \in [Runs -> RunRecords] /\ rec \in RunRecords
  BY DEF IInv, TypeOK, RunRecords
<1>5. run' = [run EXCEPT ![r] = rec]
  BY DEF UpsertResult
<1>6. /\ run'[r] = rec /\ \A s \in Runs : s # r => run'[s] = run[s]
      /\ rec.map = run[r].map /\ rec.batch = run[r].batch /\ rec.policy = run[r].policy
      /\ rec.todo = run[r].todo \ {b}
  BY <1>4, <1>5 DEF RunRecords
<1>7. \/ /\ row' = [row EXCEPT ![b] = Score(b, S, run[r].policy)]
         /\ row'[b] = Score(b, S, run[r].policy) /\ row'[b] \in Results
         /\ \A c \in Bibs : c # b => row'[c] = row[c]
      \/ UNCHANGED row /\ Loss /\ losses' > 0
  <2>1. row \in [Bibs -> Results \cup {NoRow}]
    BY DEF IInv, TypeOK
  <2> QED
    BY <1>3, <2>1, LossCounted DEF UpsertResult
<1>8. NoRow \notin Results
  BY DEF NoRow, Results
<1>9. RowsKept /\ PartsKept /\ (row'[b] = NoRow => losses' > 0)
  BY <1>2, <1>7, <1>8 DEF RowsKept, PartsKept
<1>10. TypeOK'
  <2>1. /\ marked' \in SUBSET received /\ parts' \in [Bibs -> SUBSET SUBSET Readings]
        /\ row \in [Bibs -> Results \cup {NoRow}]
    BY <1>2 DEF IInv, TypeOK
  <2>2. row' \in [Bibs -> Results \cup {NoRow}]
    BY <1>3, <1>7, <2>1
  <2> HIDE DEF rec
  <2> QED
    BY <1>2, <1>4, <1>5, <2>1, <2>2, RunTyped
<1>11. IsFiniteSet(received') /\ PartsReceived'
  BY <1>2 DEF IInv, PartsReceived
<1>12. RunScores(r)'
  <2>1. \A c, T : ReadingsOf(r, c, T)' = ReadingsOf(r, c, T)
    BY <1>6 DEF ReadingsOf, BibRead
  <2> HIDE DEF rec
  <2> QED
    BY <1>1, <1>2, <1>6, <1>9, <2>1 DEF RunScores, RowsKept, LossesKept
<1>13. ASSUME NEW s \in Runs, run'[s].at = "scoring" PROVE RunScores(s)'
  BY <1>2, <1>6, <1>9, <1>12, <1>13, ScoringKept
<1>14. ASSUME NEW c \in Bibs PROVE Scored(c)'
  <2>1. CASE row'[c] = row[c]
    BY <1>2, <2>1, ScoredKept
  <2>2. CASE row'[c] # row[c]
    <3>1. c = b /\ row'[b] = Score(b, S, run[r].policy)
      BY <1>7, <2>2
    <3>2. S \in parts'[b] /\ run[r].policy \in {policy', DefaultPolicy}
      BY <1>1, <1>2
    <3> QED
      BY <3>1, <3>2 DEF Scored
  <2> QED
    BY <2>1, <2>2
<1> QED
  BY <1>2, <1>9, <1>10, <1>11, <1>13, <1>14, NoneLost DEF IInv

\* What a run marks belongs to bibs it has gone through.
LEMMA MarkProcessedStep == ASSUME IInv, NEW r \in Runs, MarkProcessed(r) PROVE IInv'
<1>1. /\ run[r].at = "scoring" /\ run[r].todo = {} /\ RunScores(r)
      /\ UNCHANGED <<policy, received, chips, assign, row, parts>> /\ LossesKept
      /\ (Loss \/ UNCHANGED losses) /\ run' = [run EXCEPT ![r] = NoRun]
  BY LossCounted DEF MarkProcessed, AllWritten, IInv
<1>2. /\ run \in [Runs -> RunRecords] /\ run[r].batch \subseteq received
      /\ received \subseteq Readings
  BY DEF IInv, TypeOK, RunRecords
<1>3. marked' = marked \cup Evaluated(r) \/ marked' = marked
  BY DEF MarkProcessed
<1>4. TypeOK'
  <2>1. /\ marked' \in SUBSET received /\ row' \in [Bibs -> Results \cup {NoRow}]
        /\ parts' \in [Bibs -> SUBSET SUBSET Readings]
    BY <1>1, <1>2, <1>3 DEF IInv, TypeOK, Evaluated
  <2> QED
    BY <1>1, <2>1, NoRunTyped, RunTyped
<1>5. IsFiniteSet(received') /\ PartsReceived'
  BY <1>1 DEF IInv, PartsReceived
<1>6. RowsKept /\ PartsKept
  BY <1>1 DEF RowsKept, PartsKept
<1>7. ASSUME NEW s \in Runs, run'[s].at = "scoring" PROVE RunScores(s)'
  <2>1. s # r /\ run'[s] = run[s]
    BY <1>1, <1>2, <1>7, NoRunTyped
  <2> QED
    BY <1>1, <1>6, <1>7, <2>1, ScoringKept
<1>8. ASSUME NEW p \in marked'
      PROVE  \E b \in Bibs : /\ \E S \in parts[b] : p \in S
                             /\ row[b] = NoRow => losses > 0
  <2>1. CASE p \in marked
    BY <2>1 DEF IInv, NoReadingLost
  <2>2. CASE p \in Evaluated(r)
    <3> DEFINE b == BibRead(r, p)
    <3>1. p \in run[r].batch /\ p \in Readings /\ b # NoBib
      BY <1>2, <2>2 DEF Evaluated
    <3>2. run[r].map \in [Chips -> Bibs \cup {NoBib}]
      BY <1>2 DEF RunRecords
    <3>3. b \in Bibs
      BY <3>1, <3>2, NamesAssumption DEF BibRead
    <3>4. p \in ReadingsOf(r, b, run[r].batch)
      BY <3>1 DEF ReadingsOf
    <3> QED
      BY <1>1, <3>3, <3>4 DEF RunScores
  <2> QED
    BY <1>3, <1>8, <2>1, <2>2
<1>9. NoReadingLost'
  BY <1>1, <1>8 DEF NoReadingLost, LossesKept
<1> QED
  BY <1>1, <1>4, <1>5, <1>6, <1>7, <1>9, ScoredKept DEF IInv, PartsKept

\* An imported row is not from the mats, so nothing is claimed of it.
LEMMA ImportRowStep ==
    ASSUME IInv, NEW b \in Bibs, NEW w \in CsvRows, ImportRow(b, w) PROVE IInv'
<1> DEFINE v == [w EXCEPT !.status =
                    IF @ = "FINISHED" /\ w.net = NoTime /\ w.gun = NoTime THEN "DNF" ELSE @]
<1>1. v \in Results /\ v.source = "CSV"
  <2>1. w \in Results /\ w.source = "CSV"
    BY RowsAssumption
  <2> QED
    BY <2>1 DEF Results, Statuses
<1>2. row' = [row EXCEPT ![b] = v]
  BY DEF ImportRow
<1> HIDE DEF v
<1>3. /\ UNCHANGED <<policy, received, marked, chips, assign, run, parts, losses>>
      /\ LossesKept /\ row \in [Bibs -> Results \cup {NoRow}]
  BY LossCounted DEF ImportRow, IInv, TypeOK
<1>4. TypeOK'
  BY <1>1, <1>2, <1>3 DEF IInv, TypeOK
<1>5. IsFiniteSet(received') /\ PartsReceived'
  BY <1>3 DEF IInv, PartsReceived
<1>6. RowsKept /\ PartsKept
  <2>1. v # NoRow
    BY <1>1 DEF NoRow
  <2> QED
    BY <1>2, <1>3, <2>1 DEF RowsKept, PartsKept
<1>7. ASSUME NEW c \in Bibs PROVE Scored(c)'
  <2>1. CASE c = b
    BY <1>1, <1>2, <1>3, <2>1 DEF Scored
  <2>2. CASE c # b
    BY <1>2, <1>3, <2>2, ScoredKept
  <2> QED
    BY <2>1, <2>2
<1> QED
  BY <1>3, <1>4, <1>5, <1>6, <1>7, ScoringKept, NoneLost DEF IInv

\* Deleting the results counts as a loss.
LEMMA DeleteAllStep == ASSUME IInv, DeleteAll PROVE IInv'
<1>1. /\ UNCHANGED <<policy, received, marked, chips, assign, run, parts>>
      /\ LossesKept /\ losses' > 0 /\ row' = [b \in Bibs |-> NoRow]
  BY LossCounted DEF DeleteAll
<1>2. TypeOK'
  BY <1>1 DEF IInv, TypeOK, LossesKept
<1>3. IsFiniteSet(received') /\ PartsReceived'
  BY <1>1 DEF IInv, PartsReceived
<1>4. RowsKept /\ PartsKept
  BY <1>1 DEF RowsKept, PartsKept
<1>5. ASSUME NEW c \in Bibs PROVE Scored(c)'
  BY <1>1 DEF Scored, NoRow
<1> QED
  BY <1>1, <1>2, <1>3, <1>4, <1>5, ScoringKept, NoneLost DEF IInv

LEMMA NextStep == ASSUME IInv, [Next]_vars PROVE IInv'
<1>1. CASE Next
  BY <1>1, IngestStep, AssignStep, ReadMappingsStep, ListPassingsStep, RunEndsStep,
     MarkProcessedStep, UpsertResultStep, ImportRowStep, DeleteAllStep DEF Next
<1>2. CASE UNCHANGED vars
  <2>1. LossesKept
    BY <1>2, LossCounted DEF vars
  <2>2. TypeOK' /\ IsFiniteSet(received') /\ PartsReceived'
    BY <1>2 DEF IInv, TypeOK, PartsReceived, vars
  <2> QED
    BY <1>2, <2>1, <2>2, OutsideKept DEF IInv, vars
<1> QED
  BY <1>1, <1>2

-----------------------------------------------------------------------------
\* The invariant of the timing of a race holds in every state.
THEOREM InductiveInvariant == Spec => []IInv
BY InitIInv, NextStep, PTL DEF Spec

\* The variables have their types: a chip is one bib's and a bib has one chip, whatever
\* deactivations fail (uniq_bib_transponder_active_bib and _active_transponder).
THEOREM TypeCorrect == Spec => []TypeOK
<1>1. IInv => TypeOK
  BY DEF IInv
<1> QED
  BY <1>1, InductiveInvariant, PTL

\* MarkPassingsProcessed takes a reading off the list only when a run has scored it.
THEOREM ReadingsKept == Spec => []NoReadingLost
<1>1. IInv => NoReadingLost
  BY DEF IInv
<1> QED
  BY <1>1, InductiveInvariant, PTL

\* Every result of ProcessTiming is what the rules make of readings of its bib that one
\* run has listed together.
THEOREM ResultsRight == Spec => []ResultsByRules
<1>1. IInv => ResultsByRules
  <2> SUFFICES ASSUME IInv, NEW b \in Bibs, row[b].source = "TIMING_API"
               PROVE  \E S \in parts[b], q \in {policy, DefaultPolicy} : ByRules(row[b], b, S, q)
    BY DEF ResultsByRules
  <2>1. PICK S \in parts[b], q \in {policy, DefaultPolicy} : row[b] = Score(b, S, q)
    BY DEF IInv, Scored
  <2>2. S \in SUBSET Readings /\ IsFiniteSet(S) /\ q \in Policies \cup {DefaultPolicy}
    BY FS_Subset DEF IInv, TypeOK, PartsReceived
  <2> QED
    BY <2>1, <2>2, ScoreByRules
<1> QED
  BY <1>1, InductiveInvariant, PTL
=============================================================================
