-------------------------- MODULE CollectionLemmas --------------------------
(***************************************************************************)
(* Facts about sets of numbers and sequences that the proofs about several *)
(* components need and the library does not state.                         *)
(***************************************************************************)
EXTENDS Lists, SequencesExt,
        FiniteSetTheorems, FunctionTheorems, SequenceTheorems, TLAPS

\* A set of naturals that is not empty has a least element, and Min finds it.
LEMMA MinOfNaturals ==
  ASSUME NEW S \in SUBSET Nat, S # {}
  PROVE  Min(S) \in S /\ \A y \in S : Min(S) <= y
<1> DEFINE R == OpToRel(<, Nat)
<1>1. \A x, y \in Nat : <<y, x>> \notin R => x <= y
  BY DEF OpToRel
<1>2. PICK x \in S : \A y \in S : <<y, x>> \notin R
  BY NatLessThanWellFounded, WFMin
<1>3. \A y \in S : x <= y
  <2> HIDE DEF R
  <2> QED
    BY <1>1, <1>2
<1> QED
  BY <1>3 DEF Min

\* A finite set of naturals that is not empty has a greatest element: Max.
LEMMA MaxOfNaturals ==
  ASSUME NEW S \in SUBSET Nat, IsFiniteSet(S), S # {}
  PROVE  Max(S) \in S /\ \A y \in S : y <= Max(S)
<1> DEFINE HasMax(T) == \E x \in T : \A y \in T : x >= y
           Sizes == {Cardinality(T) : T \in {T \in SUBSET S : T # {} /\ ~HasMax(T)}}
<1>1. \A T \in SUBSET S : IsFiniteSet(T) /\ Cardinality(T) \in Nat
  BY FS_Subset, FS_CardinalityType
<1>2. Sizes = {}
  <2> SUFFICES ASSUME Sizes # {} PROVE FALSE
    OBVIOUS
  <2>1. Sizes \in SUBSET Nat
    BY <1>1
  <2>2. PICK n \in Sizes : \A k \in Sizes : n <= k
    <3> HIDE DEF Sizes
    <3> QED
      BY <2>1, MinOfNaturals
  <2>3. PICK T \in SUBSET S : T # {} /\ ~HasMax(T) /\ Cardinality(T) = n
    OBVIOUS
  <2>4. PICK x \in T : TRUE
    BY <2>3
  <2> DEFINE rest == T \ {x}
  <2>5. rest \in SUBSET S /\ Cardinality(rest) = Cardinality(T) - 1 /\ Cardinality(T) \in Nat
    BY <1>1, <2>3, <2>4, FS_RemoveElement
  <2>6. CASE rest = {}
    <3>1. T = {x} /\ x >= x
      BY <2>3, <2>4, <2>6
    <3> QED
      BY <2>3, <3>1
  <2>7. CASE rest # {}
    <3>1. ~(n <= Cardinality(rest))
      BY <2>3, <2>5
    <3>2. HasMax(rest)
      BY <2>2, <2>5, <2>7, <3>1
    <3>3. PICK m \in rest : \A y \in rest : m >= y
      BY <3>2
    <3>4. m \in Nat /\ x \in Nat /\ m \in T /\ \A y \in T : y \in Nat /\ (y = x \/ y \in rest)
      BY <2>3, <2>4
    <3>5. CASE m >= x
      <4>1. \A y \in T : m >= y
        BY <3>3, <3>4, <3>5
      <4> QED
        BY <2>3, <3>4, <4>1
    <3>6. CASE ~(m >= x)
      <4>1. \A y \in T : x >= y
        BY <3>3, <3>4, <3>6
      <4> QED
        BY <2>3, <2>4, <4>1
    <3> QED
      BY <3>5, <3>6
  <2> QED
    BY <2>6, <2>7
<1>3. HasMax(S)
  <2>1. S \in {T \in SUBSET S : T # {} /\ ~HasMax(T)} => Cardinality(S) \in Sizes
    OBVIOUS
  <2> HIDE DEF HasMax, Sizes
  <2> QED
    BY <1>2, <2>1
<1>4. PICK x \in S : \A y \in S : x >= y
  BY <1>3
<1>5. Max(S) \in S /\ \A y \in S : Max(S) >= y
  BY <1>4 DEF Max
<1> QED
  BY <1>5

\* Appending adds the element to those of the sequence.
LEMMA ToSetOfAppend ==
  ASSUME NEW S, NEW seq \in Seq(S), NEW e \in S
  PROVE  ToSet(Append(seq, e)) = ToSet(seq) \cup {e}
<1>1. /\ Append(seq, e) \in Seq(S)
      /\ Len(Append(seq, e)) = Len(seq) + 1
      /\ \A i \in 1..Len(seq) : Append(seq, e)[i] = seq[i]
      /\ Append(seq, e)[Len(seq) + 1] = e
      /\ Len(seq) \in Nat
  BY AppendProperties, LenProperties
<1>2. DOMAIN seq = 1..Len(seq) /\ DOMAIN Append(seq, e) = 1..(Len(seq) + 1)
  BY <1>1, LenProperties
<1>3. ASSUME NEW x \in ToSet(seq) PROVE x \in ToSet(Append(seq, e))
  <2>1. PICK i \in 1..Len(seq) : x = seq[i]
    BY <1>2 DEF ToSet
  <2>2. i \in DOMAIN Append(seq, e) /\ Append(seq, e)[i] = x
    BY <1>1, <1>2, <2>1
  <2> QED
    BY <2>2 DEF ToSet
<1>4. e \in ToSet(Append(seq, e))
  <2>1. Len(seq) + 1 \in DOMAIN Append(seq, e)
    BY <1>1, <1>2
  <2> QED
    BY <1>1, <2>1 DEF ToSet
<1>5. ASSUME NEW x \in ToSet(Append(seq, e)) PROVE x \in ToSet(seq) \cup {e}
  <2>1. PICK i \in 1..(Len(seq) + 1) : x = Append(seq, e)[i]
    BY <1>2 DEF ToSet
  <2>2. CASE i \in 1..Len(seq)
    BY <1>1, <1>2, <2>1, <2>2 DEF ToSet
  <2>3. CASE i = Len(seq) + 1
    BY <1>1, <2>1, <2>3
  <2> QED
    BY <1>1, <2>2, <2>3
<1> QED
  BY <1>3, <1>4, <1>5

\* The union of n sets of at most k elements has at most n * k.
LEMMA UnionOfSmallSets ==
  ASSUME NEW n \in Nat, NEW k \in Nat, NEW F,
         \A i \in 1..n : IsFiniteSet(F[i]) /\ Cardinality(F[i]) <= k
  PROVE  LET U == UNION {F[i] : i \in 1..n}
         IN  IsFiniteSet(U) /\ Cardinality(U) <= n * k
<1> DEFINE U(m) == UNION {F[i] : i \in 1..m}
           Small(m) == IsFiniteSet(U(m)) /\ Cardinality(U(m)) <= m * k
           Large == {m \in 0..n : ~Small(m)}
<1>1. Small(0)
  <2>1. U(0) = {}
    OBVIOUS
  <2> QED
    BY <2>1, FS_EmptySet
<1>2. ASSUME NEW m \in 1..n, Small(m - 1) PROVE Small(m)
  <2> DEFINE V == U(m - 1)
  <2>1. U(m) = V \cup F[m]
    OBVIOUS
  <2>2. /\ IsFiniteSet(V) /\ Cardinality(V) <= (m - 1) * k
        /\ IsFiniteSet(F[m]) /\ Cardinality(F[m]) <= k
    BY <1>2
  <2> HIDE DEF V, U
  <2>3. /\ IsFiniteSet(V \cup F[m])
        /\ Cardinality(V \cup F[m]) = Cardinality(V) + Cardinality(F[m]) - Cardinality(V \cap F[m])
        /\ Cardinality(V) \in Nat /\ Cardinality(F[m]) \in Nat
        /\ Cardinality(V \cap F[m]) \in Nat
    BY <2>2, FS_Union, FS_Intersection, FS_CardinalityType
  <2>4. (m - 1) * k + k = m * k /\ (m - 1) * k \in Int
    OBVIOUS
  <2>5. Cardinality(V \cup F[m]) <= m * k
    <3> DEFINE before == (m - 1) * k
               after == m * k
    <3>1. after = before + k /\ before \in Int
      BY <2>4
    <3> HIDE DEF before, after
    <3>2. Cardinality(V) <= before
      BY <2>2 DEF before
    <3>3. Cardinality(V \cup F[m]) <= after
      BY <2>2, <2>3, <3>1, <3>2
    <3> QED
      BY <3>3 DEF after
  <2> QED
    BY <2>1, <2>3, <2>5
<1> HIDE DEF Small
<1>3. Large = {}
  <2> SUFFICES ASSUME Large # {} PROVE FALSE
    OBVIOUS
  <2>1. Large \in SUBSET Nat
    OBVIOUS
  <2>2. PICK m \in Large : \A l \in Large : m <= l
    <3> HIDE DEF Large
    <3> QED
      BY <2>1, MinOfNaturals
  <2>3. m # 0
    BY <1>1
  <2>4. m - 1 \in 0..n /\ m \in 1..n /\ ~(m <= m - 1)
    BY <2>3
  <2>5. Small(m - 1)
    BY <2>2, <2>4
  <2> QED
    BY <1>2, <2>4, <2>5
<1>4. Small(n)
  BY <1>3
<1> QED
  BY <1>4 DEF Small

\* n indices reach at most n elements.
LEMMA IndicesReach ==
  ASSUME NEW n \in Nat, NEW S, NEW f \in [1..n -> S], NEW T,
         \A x \in T : \E k \in 1..n : x = f[k]
  PROVE  IsFiniteSet(T) /\ Cardinality(T) <= n
<1> DEFINE Reached == {f[k] : k \in 1..n}
<1>1. IsFiniteSet(1..n) /\ Cardinality(1..n) = n
  BY FS_Interval
<1>2. f \in Surjection(1..n, Reached)
  BY DEF Surjection
<1>3. T \in SUBSET Reached
  OBVIOUS
<1> HIDE DEF Reached
<1>4. IsFiniteSet(Reached) /\ Cardinality(Reached) <= n
  BY <1>1, <1>2, FS_Surjection
<1>5. IsFiniteSet(T) /\ Cardinality(T) <= Cardinality(Reached)
  BY <1>3, <1>4, FS_Subset
<1>6. Cardinality(T) \in Nat /\ Cardinality(Reached) \in Nat
  BY <1>4, <1>5, FS_CardinalityType
<1> QED
  BY <1>4, <1>5, <1>6

\* Indices that increase reach as many elements as there are of them.
LEMMA IncreasingIndices ==
  ASSUME NEW n \in Nat, NEW S, IsFiniteSet(S), NEW f \in [1..n -> S],
         \A j, k \in 1..n : j < k => f[j] # f[k]
  PROVE  n <= Cardinality(S)
<1>1. IsFiniteSet(1..n) /\ Cardinality(1..n) = n
  BY FS_Interval
<1>2. \A j, k \in 1..n : f[j] = f[k] => j = k
  <2> SUFFICES ASSUME NEW j \in 1..n, NEW k \in 1..n, f[j] = f[k] PROVE j = k
    OBVIOUS
  <2>1. ~(j < k) /\ ~(k < j)
    OBVIOUS
  <2> QED
    BY <2>1
<1>3. f \in Injection(1..n, S)
  BY <1>2 DEF Injection, IsInjective
<1> QED
  BY <1>1, <1>3, FS_Injection

----------------------------------------------------------------------------
(* Lists *)

\* Nth counts off a set of positions in their order, and misses none.
LEMMA NthFacts ==
  ASSUME NEW bound \in Nat, NEW P \in SUBSET (1..bound)
  PROVE  /\ IsFiniteSet(P) /\ Cardinality(P) \in 0..bound
         /\ \A n \in 1..Cardinality(P) : Nth(P, n) \in P
         /\ \A i \in P : \E n \in 1..Cardinality(P) : Nth(P, n) = i
         /\ \A m, n \in 1..Cardinality(P) : m < n => Nth(P, m) < Nth(P, n)
<1> DEFINE N == Cardinality(P)
           upTo(i) == {j \in P : j <= i}
           rank == [i \in P |-> Cardinality(upTo(i))]
<1>0. \A i \in P : i \in Int
  OBVIOUS
<1>1. IsFiniteSet(P) /\ N \in 0..bound
  <2>1. IsFiniteSet(1..bound) /\ Cardinality(1..bound) = bound
    BY FS_Interval
  <2>2. IsFiniteSet(P) /\ N <= bound
    BY <2>1, FS_Subset
  <2> QED
    BY <2>2, FS_CardinalityType
<1>2. \A i \in P : IsFiniteSet(upTo(i)) /\ rank[i] \in 1..N
  <2> TAKE i \in P
  <2>1. upTo(i) \in SUBSET P /\ i \in upTo(i)
    OBVIOUS
  <2> HIDE DEF upTo, N
  <2>2. IsFiniteSet(upTo(i)) /\ Cardinality(upTo(i)) <= Cardinality(P)
    BY <1>1, <2>1, FS_Subset
  <2>3. Cardinality(upTo(i)) \in Nat /\ Cardinality(upTo(i)) # 0
    BY <2>1, <2>2, FS_CardinalityType, FS_EmptySet
  <2> QED
    BY <1>1, <2>2, <2>3 DEF N
<1>3. \A i, k \in P : i < k => rank[i] < rank[k]
  <2> SUFFICES ASSUME NEW i \in P, NEW k \in P, i < k PROVE rank[i] < rank[k]
    OBVIOUS
  <2>1. upTo(i) \in SUBSET upTo(k) /\ k \in upTo(k) /\ k \notin upTo(i)
    <3>1. \A j \in P : j <= i => j <= k
      BY <1>0
    <3>2. i \in Int /\ k \in Int /\ k <= k /\ ~(k <= i)
      BY <1>0
    <3> QED
      BY <3>1, <3>2
  <2> HIDE DEF upTo, N
  <2>2. Cardinality(upTo(i)) <= Cardinality(upTo(k)) /\ Cardinality(upTo(i)) # Cardinality(upTo(k))
    BY <1>2, <2>1, FS_Subset
  <2>3. Cardinality(upTo(i)) \in Nat /\ Cardinality(upTo(k)) \in Nat
    BY <1>2, FS_CardinalityType
  <2> QED
    BY <2>2, <2>3
<1>4. rank \in Surjection(P, 1..N)
  <2> HIDE DEF N, upTo
  <2>1. rank \in [P -> 1..N]
    BY <1>2
  <2>2. \A i, k \in P : rank[i] = rank[k] => i = k
    <3> SUFFICES ASSUME NEW i \in P, NEW k \in P, rank[i] = rank[k], i # k PROVE FALSE
      OBVIOUS
    <3>1. i < k \/ k < i
      OBVIOUS
    <3>2. rank[i] \in Int /\ rank[k] \in Int
      BY <2>1
    <3> HIDE DEF rank
    <3> QED
      BY <1>3, <3>1, <3>2
  <2> HIDE DEF rank
  <2>3. rank \in Injection(P, 1..N)
    BY <2>1, <2>2, Fun_IsInj
  <2>4. IsFiniteSet(1..N) /\ Cardinality(1..N) = N
    BY <1>1, FS_Interval
  <2> QED
    BY <2>3, <2>4, FS_Injection DEF N
<1>5. \A n \in 1..N : Nth(P, n) \in P /\ rank[Nth(P, n)] = n
  <2> TAKE n \in 1..N
  <2>1. \E i \in P : rank[i] = n
    <3> HIDE DEF rank, N
    <3> QED
      BY <1>4 DEF Surjection
  <2>2. \E i \in P : Cardinality({j \in P : j <= i}) = n
    <3> HIDE DEF N
    <3> QED
      BY <2>1
  <2> HIDE DEF N
  <2> QED
    BY <2>2 DEF Nth
<1>6. \A i \in P : rank[i] \in 1..N
  BY <1>2
<1> HIDE DEF rank, N
<1>7. \A m, n \in 1..N : m < n => Nth(P, m) < Nth(P, n)
  <2> SUFFICES ASSUME NEW m \in 1..N, NEW n \in 1..N, m < n, ~(Nth(P, m) < Nth(P, n))
               PROVE  FALSE
    OBVIOUS
  <2>1. Nth(P, m) \in P /\ Nth(P, n) \in P /\ rank[Nth(P, m)] = m /\ rank[Nth(P, n)] = n
    BY <1>5
  <2>2. Nth(P, n) < Nth(P, m) \/ Nth(P, n) = Nth(P, m)
    <3> DEFINE x == Nth(P, m)
               y == Nth(P, n)
    <3>1. x \in Int /\ y \in Int
      BY <1>0, <2>1
    <3> HIDE DEF x, y
    <3>2. x < y \/ y < x \/ y = x
      BY <3>1
    <3> QED
      BY <3>2 DEF x, y
  <2>3. rank[Nth(P, n)] < rank[Nth(P, m)] \/ rank[Nth(P, n)] = rank[Nth(P, m)]
    BY <1>3, <2>1, <2>2
  <2> QED
    BY <2>1, <2>3
<1>8. \A i \in P : \E n \in 1..N : Nth(P, n) = i
  <2> SUFFICES ASSUME NEW i \in P PROVE Nth(P, rank[i]) = i
    BY <1>6
  <2>1. Nth(P, rank[i]) \in P /\ rank[Nth(P, rank[i])] = rank[i]
    BY <1>5, <1>6
  <2>2. Nth(P, rank[i]) < i \/ i < Nth(P, rank[i]) \/ Nth(P, rank[i]) = i
    <3> DEFINE x == Nth(P, rank[i])
    <3>1. x \in Int /\ i \in Int
      BY <1>0, <2>1
    <3> HIDE DEF x
    <3>2. x < i \/ i < x \/ x = i
      BY <3>1
    <3> QED
      BY <3>2 DEF x
  <2>3. rank[i] \in Int /\ ~(rank[i] < rank[i])
    BY <1>6
  <2>4. i \in P
    OBVIOUS
  <2>5. Nth(P, rank[i]) # i => rank[Nth(P, rank[i])] < rank[i] \/ rank[i] < rank[Nth(P, rank[i])]
    BY <1>3, <2>1, <2>2, <2>4
  <2> QED
    BY <2>1, <2>3, <2>5
<1> QED
  BY <1>1, <1>5, <1>7, <1>8 DEF N

\* A part of a list has what the list has at the positions kept, in their order.
LEMMA SublistFacts ==
  ASSUME NEW S, NEW list \in Seq(S), NEW P \in SUBSET DOMAIN list
  PROVE  /\ Sublist(list, P) \in Seq(S)
         /\ Len(Sublist(list, P)) = Cardinality(P)
         /\ DOMAIN Sublist(list, P) = 1..Cardinality(P)
         /\ \A n \in 1..Cardinality(P) : /\ Nth(P, n) \in P
                                         /\ Sublist(list, P)[n] = list[Nth(P, n)]
         /\ ToSet(Sublist(list, P)) = {list[i] : i \in P}
         /\ (\A i, j \in P : list[i] = list[j] => i = j) =>
              \A m, n \in DOMAIN Sublist(list, P) :
                Sublist(list, P)[m] = Sublist(list, P)[n] => m = n
         /\ P # {} => Sublist(list, P) # <<>>
<1> DEFINE N == Cardinality(P)
           part == Sublist(list, P)
<1>1. Len(list) \in Nat /\ DOMAIN list = 1..Len(list) /\ \A i \in DOMAIN list : list[i] \in S
  BY LenProperties, ElementOfSeq
<1>2. /\ IsFiniteSet(P) /\ N \in Nat
      /\ \A n \in 1..N : Nth(P, n) \in P
      /\ \A i \in P : \E n \in 1..N : Nth(P, n) = i
      /\ \A m, n \in 1..N : m < n => Nth(P, m) < Nth(P, n)
  BY <1>1, NthFacts
<1>3. part = [n \in 1..N |-> list[Nth(P, n)]]
  BY DEF Sublist
<1> HIDE DEF N, part
<1>4. \A n \in 1..N : list[Nth(P, n)] \in S
  BY <1>1, <1>2
<1>5. part \in Seq(S) /\ Len(part) = N /\ DOMAIN part = 1..N
  BY <1>2, <1>3, <1>4
<1>6. ToSet(part) = {list[i] : i \in P}
  <2>1. ToSet(part) = {list[Nth(P, n)] : n \in 1..N}
    BY <1>3, <1>5 DEF ToSet
  <2> QED
    BY <1>2, <2>1
<1>7. ASSUME \A i, j \in P : list[i] = list[j] => i = j,
             NEW m \in DOMAIN part, NEW n \in DOMAIN part, part[m] = part[n]
      PROVE  m = n
  <2>1. m \in 1..N /\ n \in 1..N
    BY <1>5
  <2>2. Nth(P, m) = Nth(P, n)
    BY <1>2, <1>3, <1>7, <2>1
  <2>3. Nth(P, m) \in Int
    BY <1>1, <1>2, <2>1
  <2>4. ~(m < n) /\ ~(n < m)
    BY <1>2, <2>1, <2>2, <2>3
  <2> QED
    BY <1>2, <2>1, <2>4
<1>8. P # {} => part # <<>>
  <2>1. P # {} => N # 0
    BY <1>2, FS_EmptySet DEF N
  <2> QED
    BY <1>2, <1>5, <2>1, EmptySeq
<1> QED
  BY <1>2, <1>3, <1>5, <1>6, <1>7, <1>8 DEF part, N

\* Everything kept is everything there was.
LEMMA SublistAll ==
  ASSUME NEW S, NEW list \in Seq(S)
  PROVE  Sublist(list, DOMAIN list) = list
<1> DEFINE P == DOMAIN list
           L == Len(list)
           Off == {n \in 1..L : Nth(P, n) # n}
<1>1. L \in Nat /\ P = 1..L
  BY LenProperties
<1>2. Cardinality(P) = L
  BY <1>1, FS_Interval
<1>3. /\ \A n \in 1..L : Nth(P, n) \in 1..L
      /\ \A i \in 1..L : \E n \in 1..L : Nth(P, n) = i
      /\ \A m, n \in 1..L : m < n => Nth(P, m) < Nth(P, n)
  <2>1. P \in SUBSET (1..L)
    BY <1>1
  <2> HIDE DEF P, L
  <2> QED
    BY <1>1, <1>2, <2>1, NthFacts
<1>4. Off = {}
  <2> SUFFICES ASSUME Off # {} PROVE FALSE
    OBVIOUS
  <2>1. Off \in SUBSET Nat
    OBVIOUS
  <2>2. PICK m \in Off : \A l \in Off : m <= l
    <3> HIDE DEF Off
    <3> QED
      BY <2>1, MinOfNaturals
  <2>3. m \in 1..L /\ Nth(P, m) # m
    OBVIOUS
  <2>4. \A l \in 1..L : l < m => Nth(P, l) = l
    BY <2>2, <2>3
  <2>5. PICK k \in 1..L : Nth(P, k) = m
    BY <1>3, <2>3
  <2>6. k > m
    BY <2>3, <2>4, <2>5
  <2>7. Nth(P, m) < m /\ Nth(P, m) \in 1..L
    BY <1>3, <2>3, <2>5, <2>6
  <2> HIDE DEF P, L
  <2>8. Nth(P, Nth(P, m)) = Nth(P, m)
    BY <2>4, <2>7
  <2>9. Nth(P, Nth(P, m)) < Nth(P, m)
    BY <1>3, <2>3, <2>7
  <2> QED
    BY <1>1, <2>7, <2>8, <2>9
<1>5. Sublist(list, P) = [n \in 1..L |-> list[n]]
  BY <1>2, <1>4 DEF Sublist
<1>6. list = [n \in 1..L |-> list[n]]
  BY <1>1
<1> QED
  BY <1>5, <1>6

\* Dedupe, like dict.fromkeys, drops later occurrences only.
LEMMA DedupeFacts ==
  ASSUME NEW S, NEW list \in Seq(S)
  PROVE  /\ Dedupe(list) \in Seq(S)
         /\ \A i, j \in DOMAIN Dedupe(list) : Dedupe(list)[i] = Dedupe(list)[j] => i = j
         /\ ToSet(Dedupe(list)) = ToSet(list)
         /\ Len(Dedupe(list)) <= Len(list)
         /\ list # <<>> => Dedupe(list) # <<>>
<1>1. Len(list) \in Nat /\ DOMAIN list = 1..Len(list)
  BY LenProperties
<1>2. Firsts(list) \in SUBSET DOMAIN list
  BY DEF Firsts
<1>3. \A i, k \in Firsts(list) : list[i] = list[k] => i = k
  BY <1>1 DEF Firsts
<1>4. \A i \in DOMAIN list : \E k \in Firsts(list) : list[k] = list[i]
  <2> TAKE i \in DOMAIN list
  <2> DEFINE same == {k \in 1..Len(list) : list[k] = list[i]}
  <2>1. same \in SUBSET Nat /\ same # {}
    BY <1>1
  <2>2. PICK m \in same : \A k \in same : m <= k
    <3> HIDE DEF same
    <3> QED
      BY <2>1, MinOfNaturals
  <2>3. m \in 1..Len(list) /\ list[m] = list[i]
    OBVIOUS
  <2>4. \A j \in 1..(m - 1) : list[j] # list[m]
    BY <1>1, <2>2, <2>3
  <2> QED
    BY <1>1, <2>3, <2>4 DEF Firsts
<1>5. {list[i] : i \in Firsts(list)} = ToSet(list)
  BY <1>2, <1>4 DEF ToSet
<1>6. list # <<>> => Firsts(list) # {}
  <2> SUFFICES ASSUME list # <<>> PROVE Firsts(list) # {}
    OBVIOUS
  <2>1. 1 \in DOMAIN list
    BY <1>1, EmptySeq
  <2> QED
    BY <1>4, <2>1
<1>7. Cardinality(Firsts(list)) <= Len(list)
  BY <1>1, <1>2, NthFacts
<1> DEFINE P == Firsts(list)
<1> HIDE DEF P
<1>8. Dedupe(list) = Sublist(list, P)
  BY DEF Dedupe, P
<1>9. P \in SUBSET DOMAIN list
  BY <1>2 DEF P
<1>10. /\ Sublist(list, P) \in Seq(S)
       /\ Len(Sublist(list, P)) = Cardinality(P)
       /\ ToSet(Sublist(list, P)) = {list[i] : i \in P}
       /\ (\A i, j \in P : list[i] = list[j] => i = j) =>
            \A m, n \in DOMAIN Sublist(list, P) :
              Sublist(list, P)[m] = Sublist(list, P)[n] => m = n
       /\ P # {} => Sublist(list, P) # <<>>
  BY <1>9, SublistFacts
<1> QED
  BY <1>3, <1>5, <1>6, <1>7, <1>8, <1>10 DEF P

\* A list without repetitions has nothing to drop.
LEMMA DedupeOfDistinct ==
  ASSUME NEW S, NEW list \in Seq(S), \A i, j \in DOMAIN list : list[i] = list[j] => i = j
  PROVE  Dedupe(list) = list
<1>1. Len(list) \in Nat /\ DOMAIN list = 1..Len(list)
  BY LenProperties
<1>2. Firsts(list) = DOMAIN list
  <2>1. ASSUME NEW i \in DOMAIN list, NEW j \in 1..(i - 1) PROVE list[j] # list[i]
    <3>1. j \in DOMAIN list /\ j # i
      BY <1>1
    <3> QED
      BY <3>1
  <2> QED
    BY <2>1 DEF Firsts
<1> QED
  BY <1>2, SublistAll DEF Dedupe

\* Keep keeps the elements of the set, and what was distinct stays distinct.
LEMMA KeepFacts ==
  ASSUME NEW S, NEW list \in Seq(S), NEW wanted
  PROVE  /\ Keep(list, wanted) \in Seq(S)
         /\ ToSet(Keep(list, wanted)) = ToSet(list) \cap wanted
         /\ (\A i, j \in DOMAIN list : list[i] = list[j] => i = j) =>
              \A i, j \in DOMAIN Keep(list, wanted) :
                Keep(list, wanted)[i] = Keep(list, wanted)[j] => i = j
         /\ ToSet(list) \cap wanted # {} => Keep(list, wanted) # <<>>
<1> DEFINE P == {i \in DOMAIN list : list[i] \in wanted}
<1>1. P \in SUBSET DOMAIN list
  OBVIOUS
<1>2. {list[i] : i \in P} = ToSet(list) \cap wanted
  BY DEF ToSet
<1>3. ToSet(list) \cap wanted # {} => P # {}
  BY DEF ToSet
<1>4. Keep(list, wanted) = Sublist(list, P)
  BY DEF Keep
<1> HIDE DEF P
<1> QED
  BY <1>1, <1>2, <1>3, <1>4, SublistFacts

\* An element put in front of a list that does not have it.
LEMMA InFrontFacts ==
  ASSUME NEW S, NEW first \in S, NEW rest \in Seq(S),
         \A i, j \in DOMAIN rest : rest[i] = rest[j] => i = j,
         first \notin ToSet(rest)
  PROVE  LET list == <<first>> \o rest
         IN  /\ list \in Seq(S)
             /\ \A i, j \in DOMAIN list : list[i] = list[j] => i = j
             /\ ToSet(list) = {first} \cup ToSet(rest)
<1> DEFINE list == <<first>> \o rest
<1>1. Len(rest) \in Nat /\ DOMAIN rest = 1..Len(rest)
  BY LenProperties
<1>2. /\ list \in Seq(S) /\ DOMAIN list = 1..(Len(rest) + 1)
      /\ list[1] = first
      /\ \A i \in 1..Len(rest) : list[i + 1] = rest[i]
  BY <1>1
<1> HIDE DEF list
<1>3. \A i \in DOMAIN list : i = 1 \/ (i - 1 \in DOMAIN rest /\ list[i] = rest[i - 1])
  <2> TAKE i \in DOMAIN list
  <2>1. i \in Int /\ (i = 1 \/ i - 1 \in 1..Len(rest)) /\ (i - 1) + 1 = i
    BY <1>1, <1>2
  <2> QED
    BY <1>1, <1>2, <2>1
<1>4. \A i \in DOMAIN rest : rest[i] # first
  BY DEF ToSet
<1>5. ASSUME NEW i \in DOMAIN list, NEW j \in DOMAIN list, list[i] = list[j] PROVE i = j
  <2>1. i \in Int /\ j \in Int
    BY <1>1, <1>2
  <2>2. (i = 1) <=> (j = 1)
    BY <1>2, <1>3, <1>4, <1>5
  <2>3. i # 1 /\ j # 1 => i - 1 = j - 1
    BY <1>3, <1>5
  <2> QED
    BY <2>1, <2>2, <2>3
<1>6. ToSet(list) = {first} \cup ToSet(rest)
  <2>1. 1 \in DOMAIN list /\ \A i \in DOMAIN rest : i + 1 \in DOMAIN list
    BY <1>1, <1>2
  <2>2. ASSUME NEW x \in ToSet(list) PROVE x \in {first} \cup ToSet(rest)
    <3>1. PICK i \in DOMAIN list : x = list[i]
      BY DEF ToSet
    <3> QED
      BY <1>2, <1>3, <3>1 DEF ToSet
  <2>3. ASSUME NEW x \in {first} \cup ToSet(rest) PROVE x \in ToSet(list)
    <3>1. CASE x = first
      BY <1>2, <2>1, <3>1 DEF ToSet
    <3>2. CASE x \in ToSet(rest)
      <4>1. PICK i \in DOMAIN rest : x = rest[i]
        BY <3>2 DEF ToSet
      <4>2. i + 1 \in DOMAIN list /\ list[i + 1] = x
        BY <1>1, <1>2, <2>1, <4>1
      <4> QED
        BY <4>2 DEF ToSet
    <3> QED
      BY <2>3, <3>1, <3>2
  <2> QED
    BY <2>2, <2>3
<1> QED
  BY <1>2, <1>5, <1>6 DEF list

\* A list is its first element in front of its tail.
LEMMA FirstAndTail ==
  ASSUME NEW S, NEW list \in Seq(S), list # <<>>
  PROVE  Tail(list) \in Seq(S) /\ <<list[1]>> \o Tail(list) = list
<1>1. Len(list) \in Nat /\ Len(list) >= 1 /\ DOMAIN list = 1..Len(list)
  BY LenProperties, EmptySeq
<1>2. list[1] \in S
  BY <1>1, ElementOfSeq
<1>3. /\ Tail(list) \in Seq(S) /\ Len(Tail(list)) = Len(list) - 1
      /\ \A i \in 1..Len(Tail(list)) : Tail(list)[i] = list[i + 1]
  BY <1>1, HeadTailProperties
<1> DEFINE again == <<list[1]>> \o Tail(list)
<1>4. /\ again \in Seq(S) /\ Len(again) = Len(list)
      /\ again[1] = list[1]
      /\ \A i \in 1..(Len(list) - 1) : again[i + 1] = Tail(list)[i]
  BY <1>1, <1>2, <1>3
<1> HIDE DEF again
<1>5. \A i \in 1..Len(list) : again[i] = list[i]
  <2> TAKE i \in 1..Len(list)
  <2>1. i = 1 \/ (i - 1 \in 1..(Len(list) - 1) /\ (i - 1) + 1 = i)
    BY <1>1
  <2> QED
    BY <1>3, <1>4, <2>1
<1>6. again = list
  BY <1>4, <1>5, SeqEqual
<1> QED
  BY <1>3, <1>6 DEF again

\* For a key that orders the elements, ties allowed, some element of a list is
\* the first of the best: FirstBest finds it, and nothing in the list is better.
LEMMA FirstBestFacts ==
  ASSUME NEW S, NEW list \in Seq(S), list # <<>>, NEW better,
         \A x, y \in ToSet(list) : <<x, y>> \in better => <<y, x>> \notin better,
         \A x, y, z \in ToSet(list) :
           <<x, z>> \in better => <<x, y>> \in better \/ <<y, z>> \in better
  PROVE  /\ FirstBest(list, better) \in ToSet(list)
         /\ \A x \in ToSet(list) : <<x, FirstBest(list, better)>> \notin better
<1> DEFINE L == Len(list)
           Best(n, i) == /\ i \in 1..n
                         /\ \A j \in 1..n : /\ <<list[j], list[i]>> \notin better
                                            /\ j < i => <<list[i], list[j]>> \in better
           None == {n \in 1..L : ~ \E i \in 1..n : Best(n, i)}
<1>1. L \in Nat /\ L >= 1 /\ DOMAIN list = 1..L
  BY LenProperties, EmptySeq
<1>2. \A i \in 1..L : list[i] \in ToSet(list)
  BY <1>1 DEF ToSet
<1>3. \A i \in 1..L : <<list[i], list[i]>> \notin better
  BY <1>2
<1>4. Best(1, 1)
  BY <1>1, <1>3
<1>5. ASSUME NEW n \in 1..L, n # L, NEW i \in 1..n, Best(n, i)
      PROVE  \E k \in 1..(n + 1) : Best(n + 1, k)
  <2>1. /\ n + 1 \in 1..L /\ i \in 1..L
        /\ \A j \in 1..(n + 1) : j \in 1..L /\ (j \in 1..n \/ j = n + 1)
    <3> HIDE DEF Best, L
    <3>1. n \in Nat /\ i \in Nat /\ 1 <= n /\ n <= L /\ 1 <= i /\ i <= n
      BY <1>1
    <3>2. n < L
      BY <1>1, <1>5, <3>1
    <3> QED
      BY <1>1, <3>1, <3>2
  <2>2. CASE <<list[n + 1], list[i]>> \in better
    <3>1. ASSUME NEW j \in 1..n
          PROVE  /\ <<list[n + 1], list[j]>> \in better
                 /\ <<list[j], list[n + 1]>> \notin better
      <4>1. <<list[j], list[i]>> \notin better /\ j \in 1..L
        <5>1. j \in 1..(n + 1)
          OBVIOUS
        <5> QED
          BY <1>5, <2>1, <5>1
      <4> QED
        BY <1>2, <2>1, <2>2, <4>1
    <3>2. Best(n + 1, n + 1)
      <4>1. \A j \in 1..(n + 1) : j < n + 1 => j \in 1..n
        OBVIOUS
      <4> QED
        BY <1>3, <2>1, <3>1, <4>1
    <3> QED
      BY <2>1, <3>2
  <2>3. CASE <<list[n + 1], list[i]>> \notin better
    <3>1. \A j \in 1..(n + 1) : j < i => j \in 1..n
      OBVIOUS
    <3>2. Best(n + 1, i)
      BY <1>5, <2>1, <2>3, <3>1
    <3> QED
      BY <3>2
  <2> QED
    BY <2>2, <2>3
<1> HIDE DEF Best
<1>6. None = {}
  <2> SUFFICES ASSUME None # {} PROVE FALSE
    OBVIOUS
  <2>1. None \in SUBSET Nat
    OBVIOUS
  <2>2. PICK n \in None : \A l \in None : n <= l
    <3> HIDE DEF None
    <3> QED
      BY <2>1, MinOfNaturals
  <2>3. n \in 1..L /\ ~ \E i \in 1..n : Best(n, i)
    OBVIOUS
  <2>4. n # 1
    BY <1>4, <2>3
  <2>5. n - 1 \in 1..L /\ n - 1 # L /\ ~(n <= n - 1) /\ (n - 1) + 1 = n
    BY <1>1, <2>3, <2>4
  <2>6. PICK i \in 1..(n - 1) : Best(n - 1, i)
    BY <2>2, <2>5
  <2>7. \E k \in 1..((n - 1) + 1) : Best((n - 1) + 1, k)
    BY <1>5, <2>5, <2>6
  <2> QED
    BY <2>3, <2>5, <2>7
<1>7. \E i \in DOMAIN list : IsFirstBest(list, better, i)
  <2>1. PICK i \in 1..L : Best(L, i)
    BY <1>1, <1>6
  <2> QED
    BY <1>1, <2>1 DEF IsFirstBest, Best
<1> DEFINE at == CHOOSE i \in DOMAIN list : IsFirstBest(list, better, i)
<1>8. at \in DOMAIN list /\ IsFirstBest(list, better, at)
  BY <1>7
<1>9. FirstBest(list, better) = list[at]
  BY DEF FirstBest
<1> HIDE DEF at
<1> QED
  BY <1>8, <1>9 DEF IsFirstBest, ToSet
=============================================================================
