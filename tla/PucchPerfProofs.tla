--------------------------- MODULE PucchPerfProofs ---------------------------
(***************************************************************************)
(* Proofs about PucchPerf, for any number of objects, any SNR values, any  *)
(* configurations and any lists that users simulate.                       *)
(*                                                                         *)
(* The arrays of a simulation are sorted by SNR value, one counter after   *)
(* the other, with one order that was found for the SNR values.  What is   *)
(* proved first is that this keeps each row next to its value; then, that  *)
(* it does so under any sequence of calls, with results that clones share. *)
(***************************************************************************)
EXTENDS PucchPerf, FiniteSetTheorems, TLAPS

-----------------------------------------------------------------------------
(***************************************************************************)
(* Sorting.                                                                *)
(***************************************************************************)

\* A strict total order on S, as a set of pairs.
IsOrder(before, S) ==
    /\ \A x \in S : <<x, x>> \notin before
    /\ \A x, y \in S : x = y \/ <<x, y>> \in before \/ <<y, x>> \in before
    /\ \A x, y, z \in S : <<x, y>> \in before /\ <<y, z>> \in before => <<x, z>> \in before

\* The elements of S before x.
Before(S, before, x) == {y \in S : <<y, x>> \in before}

\* Fewer elements come before x than before what x comes before.
LEMMA RankGrows ==
    ASSUME NEW S, IsFiniteSet(S), NEW before, IsOrder(before, S),
           NEW x \in S, NEW y \in S, <<x, y>> \in before
    PROVE  Cardinality(Before(S, before, x)) < Cardinality(Before(S, before, y))
PROOF
<1> DEFINE bx == Before(S, before, x)
           by == Before(S, before, y)
<1>1. bx \subseteq by /\ x \in by /\ x \notin bx
  BY DEF Before, IsOrder
<1>2. IsFiniteSet(bx) /\ IsFiniteSet(by)
  BY FS_Subset DEF Before
<1>3. bx \cup {x} \subseteq by
  BY <1>1
<1>4. IsFiniteSet(bx \cup {x}) /\ Cardinality(bx \cup {x}) = Cardinality(bx) + 1
  BY <1>1, <1>2, FS_AddElement
<1>5. Cardinality(bx \cup {x}) <= Cardinality(by)
  BY <1>2, <1>3, FS_Subset
<1>6. Cardinality(bx) \in Nat /\ Cardinality(by) \in Nat
  BY <1>2, FS_CardinalityType
<1> QED BY <1>4, <1>5, <1>6

\* An element of S comes after fewer elements than S has.
LEMMA RankBound ==
    ASSUME NEW S, IsFiniteSet(S), NEW before, IsOrder(before, S), NEW x \in S
    PROVE  Cardinality(Before(S, before, x)) \in 0..Cardinality(S) - 1
PROOF
<1> DEFINE bx == Before(S, before, x)
<1>1. bx \subseteq S \ {x}
  BY DEF Before, IsOrder
<1>2. IsFiniteSet(S \ {x}) /\ Cardinality(S \ {x}) = Cardinality(S) - 1
  BY FS_RemoveElement
<1>3. IsFiniteSet(bx) /\ Cardinality(bx) <= Cardinality(S \ {x})
  BY <1>1, <1>2, FS_Subset
<1>4. Cardinality(bx) \in Nat /\ Cardinality(S) \in Nat
  BY <1>3, FS_CardinalityType
<1> QED BY <1>2, <1>3, <1>4

\* Every place is that of some element: the number of elements before is an injection into
\* as many numbers, which is onto.
LEMMA RankIsUsed ==
    ASSUME NEW S, IsFiniteSet(S), NEW before, IsOrder(before, S), NEW i \in 1..Cardinality(S)
    PROVE  \E x \in S : Cardinality(Before(S, before, x)) = i - 1
PROOF
<1> DEFINE n == Cardinality(S)
           rank == [x \in S |-> Cardinality(Before(S, before, x))]
<1>1. n \in Nat
  BY FS_CardinalityType
<1>2. IsFiniteSet(0..n - 1) /\ Cardinality(0..n - 1) = n
  <2> HIDE DEF n
  <2>1. 0 \in Int /\ n - 1 \in Int
    BY <1>1
  <2>2. /\ IsFiniteSet(0..n - 1)
        /\ Cardinality(0..n - 1) = IF 0 > n - 1 THEN 0 ELSE (n - 1) - 0 + 1
    BY <2>1, FS_Interval
  <2> QED BY <1>1, <2>2
<1>3. rank \in [S -> 0..n - 1]
  BY RankBound
<1>4. ASSUME NEW x \in S, NEW y \in S, rank[x] = rank[y]
      PROVE  x = y
  <2>1. rank[x] \in 0..n - 1
    BY <1>3
  <2>2. CASE <<x, y>> \in before
    <3>1. Cardinality(Before(S, before, x)) < Cardinality(Before(S, before, y))
      BY <2>2, RankGrows
    <3> QED BY <1>4, <2>1, <3>1
  <2>3. CASE <<y, x>> \in before
    <3>1. Cardinality(Before(S, before, y)) < Cardinality(Before(S, before, x))
      BY <2>3, RankGrows
    <3> QED BY <1>4, <2>1, <3>1
  <2> QED BY <2>2, <2>3 DEF IsOrder
<1>5. rank \in Injection(S, 0..n - 1)
  BY <1>3, <1>4 DEF Injection, IsInjective
<1>6. rank \in Surjection(S, 0..n - 1)
  BY <1>2, <1>5, FS_Injection
<1>7. i - 1 \in 0..n - 1
  BY <1>1
<1>8. \E x \in S : rank[x] = i - 1
  BY <1>6, <1>7 DEF Surjection
<1> QED BY <1>8

\* Ranked lists each element of S once, in the order before.
LEMMA RankedSorts ==
    ASSUME NEW S, IsFiniteSet(S), NEW before, IsOrder(before, S)
    PROVE  /\ Cardinality(S) \in Nat
           /\ Ranked(S, before) \in [1..Cardinality(S) -> S]
           /\ \A i, j \in 1..Cardinality(S) :
                 i < j => <<Ranked(S, before)[i], Ranked(S, before)[j]>> \in before
           /\ \A x \in S : \E i \in 1..Cardinality(S) : Ranked(S, before)[i] = x
PROOF
<1> DEFINE n == Cardinality(S)
           rank(x) == Cardinality(Before(S, before, x))
           r == Ranked(S, before)
<1>1. n \in Nat
  BY FS_CardinalityType
<1>2. r = [i \in 1..n |-> CHOOSE x \in S : rank(x) = i - 1]
  BY DEF Ranked, Before
<1>3. ASSUME NEW i \in 1..n
      PROVE  r[i] \in S /\ rank(r[i]) = i - 1
  <2>1. \E x \in S : rank(x) = i - 1
    BY RankIsUsed
  <2>2. r[i] = CHOOSE x \in S : rank(x) = i - 1
    BY <1>2
  <2> HIDE DEF rank, r
  <2> QED BY <2>1, <2>2
<1>4. r \in [1..n -> S]
  <2>1. r = [i \in 1..n |-> r[i]]
    BY <1>2
  <2> HIDE DEF r
  <2> QED BY <1>3, <2>1
<1>5. ASSUME NEW x \in S, NEW y \in S, rank(x) < rank(y)
      PROVE  <<x, y>> \in before
  <2>1. rank(x) \in Nat /\ rank(y) \in Nat
    BY <1>1, RankBound
  <2>2. <<y, x>> \in before => rank(y) < rank(x)
    BY RankGrows
  <2> HIDE DEF rank
  <2>3. x # y /\ <<y, x>> \notin before
    BY <1>5, <2>1, <2>2
  <2> QED BY <2>3 DEF IsOrder
<1>6. ASSUME NEW x \in S, NEW y \in S, rank(x) = rank(y)
      PROVE  x = y
  <2>1. rank(x) \in Nat
    BY <1>1, RankBound
  <2>2. (<<y, x>> \in before => rank(y) < rank(x)) /\ (<<x, y>> \in before => rank(x) < rank(y))
    BY RankGrows
  <2> HIDE DEF rank
  <2> QED BY <1>6, <2>1, <2>2 DEF IsOrder
<1>7. ASSUME NEW i \in 1..n, NEW j \in 1..n, i < j
      PROVE  <<r[i], r[j]>> \in before
  <2>1. r[i] \in S /\ r[j] \in S /\ rank(r[i]) = i - 1 /\ rank(r[j]) = j - 1
    BY <1>3
  <2>2. rank(r[i]) < rank(r[j])
    <3> HIDE DEF rank, r
    <3> QED BY <1>1, <1>7, <2>1
  <2> HIDE DEF rank, r
  <2> QED BY <1>5, <2>1, <2>2
<1>8. ASSUME NEW x \in S
      PROVE  \E i \in 1..n : r[i] = x
  <2>1. rank(x) \in 0..n - 1
    BY RankBound
  <2> HIDE DEF rank, r
  <2>2. rank(x) + 1 \in 1..n /\ (rank(x) + 1) - 1 = rank(x)
    BY <1>1, <2>1
  <2>3. r[rank(x) + 1] \in S /\ rank(r[rank(x) + 1]) = rank(x)
    BY <1>3, <2>2
  <2>4. r[rank(x) + 1] = x
    BY <1>6, <2>3
  <2> QED BY <2>2, <2>4
<1> QED BY <1>1, <1>4, <1>7, <1>8

\* Ascending (unique, and the positions left by array(idx) = []) lists a finite set of
\* integers in increasing order.
LEMMA AscendingSorts ==
    ASSUME NEW S \in SUBSET Int, IsFiniteSet(S)
    PROVE  /\ Ascending(S) \in Seq(S) /\ Len(Ascending(S)) = Cardinality(S)
           /\ DOMAIN Ascending(S) = 1..Cardinality(S) /\ Cardinality(S) \in Nat
           /\ \A i \in DOMAIN Ascending(S) : Ascending(S)[i] \in S
           /\ \A i, j \in DOMAIN Ascending(S) : i < j => Ascending(S)[i] < Ascending(S)[j]
           /\ \A x \in S : \E i \in DOMAIN Ascending(S) : Ascending(S)[i] = x
PROOF
<1> DEFINE before == {pair \in S \X S : pair[1] < pair[2]}
           r == Ranked(S, before)
<1>1. \A x, y \in S : <<x, y>> \in before <=> x < y
  OBVIOUS
<1>2. IsOrder(before, S)
  <2> HIDE DEF before
  <2> QED BY <1>1 DEF IsOrder
<1>3. Ascending(S) = r
  BY DEF Ascending
<1> HIDE DEF before
<1>4. /\ Cardinality(S) \in Nat /\ r \in [1..Cardinality(S) -> S]
      /\ \A i, j \in 1..Cardinality(S) : i < j => <<r[i], r[j]>> \in before
      /\ \A x \in S : \E i \in 1..Cardinality(S) : r[i] = x
  BY <1>2, RankedSorts
<1> HIDE DEF r
<1> DEFINE n == Cardinality(S)
<1> HIDE DEF n
<1>5. n \in Nat /\ r \in [1..n -> S] /\ r \in Seq(S) /\ Len(r) = n /\ DOMAIN r = 1..n
  BY <1>4 DEF n
<1>6. \A i \in 1..n : r[i] \in S
  BY <1>5
<1>7. \A i, j \in 1..n : i < j => r[i] < r[j]
  BY <1>1, <1>4, <1>6 DEF n
<1>8. \A x \in S : \E i \in 1..n : r[i] = x
  BY <1>4 DEF n
<1> QED BY <1>3, <1>5, <1>6, <1>7, <1>8 DEF n

-----------------------------------------------------------------------------
(***************************************************************************)
(* The positions that stay.                                                *)
(***************************************************************************)

\* The positions of the rows that stay in an array.
Kept(array, idx) == Ascending(DOMAIN array \ idx)

\* The rows that stay are those of the positions not in idx, in their order.
KeepsRows(T, array, idx) ==
    /\ Kept(array, idx) \in Seq(DOMAIN array \ idx)
    /\ Len(Kept(array, idx)) = Cardinality(DOMAIN array \ idx)
    /\ \A i \in DOMAIN Kept(array, idx) : Kept(array, idx)[i] \in DOMAIN array \ idx
    /\ \A i, j \in DOMAIN Kept(array, idx) : i < j => Kept(array, idx)[i] < Kept(array, idx)[j]
    /\ \A k \in DOMAIN array \ idx : \E i \in DOMAIN Kept(array, idx) : Kept(array, idx)[i] = k
    /\ RemoveIdx(array, idx) \in Seq(T)
    /\ Len(RemoveIdx(array, idx)) = Len(Kept(array, idx))
    /\ \A i \in DOMAIN Kept(array, idx) : RemoveIdx(array, idx)[i] = array[Kept(array, idx)[i]]

\* What array(idx) = [] leaves of an array.
LEMMA KeptRows ==
    ASSUME NEW T, NEW array \in Seq(T), NEW idx
    PROVE  KeepsRows(T, array, idx)
PROOF
<1> DEFINE S == DOMAIN array \ idx
           kept == Kept(array, idx)
<1>1. IsFiniteSet(S) /\ S \in SUBSET Int
  <2>1. DOMAIN array = 1..Len(array) /\ Len(array) \in Nat
    OBVIOUS
  <2>2. IsFiniteSet(DOMAIN array)
    BY <2>1, FS_Interval
  <2> QED BY <2>1, <2>2, FS_Subset
<1>2. /\ kept \in Seq(S) /\ Len(kept) = Cardinality(S)
      /\ \A i \in DOMAIN kept : kept[i] \in S
      /\ \A i, j \in DOMAIN kept : i < j => kept[i] < kept[j]
      /\ \A k \in S : \E i \in DOMAIN kept : kept[i] = k
  BY <1>1, AscendingSorts DEF Kept
<1>3. RemoveIdx(array, idx) = [i \in DOMAIN kept |-> array[kept[i]]]
  BY DEF RemoveIdx, Kept
<1> HIDE DEF kept
<1>4. \A i \in DOMAIN kept : array[kept[i]] \in T
  BY <1>2
<1>5. RemoveIdx(array, idx) \in Seq(T) /\ Len(RemoveIdx(array, idx)) = Len(kept)
  <2>1. Len(kept) \in Nat /\ DOMAIN kept = 1..Len(kept)
    BY <1>2
  <2>2. RemoveIdx(array, idx) \in [1..Len(kept) -> T]
    BY <1>3, <1>4, <2>1
  <2> QED BY <2>1, <2>2
<1> QED BY <1>2, <1>3, <1>5 DEF kept, KeepsRows

\* A function on 1..n is a sequence of length n.
LEMMA FunctionIsSeq ==
    ASSUME NEW n \in Nat, NEW T, NEW f \in [1..n -> T]
    PROVE  f \in Seq(T) /\ Len(f) = n
OBVIOUS

\* The rows of one array on top of another.
LEMMA Concat ==
    ASSUME NEW T, NEW a \in Seq(T), NEW b \in Seq(T)
    PROVE  /\ a \o b \in Seq(T) /\ Len(a \o b) = Len(a) + Len(b)
           /\ \A i \in 1..Len(a) : (a \o b)[i] = a[i]
           /\ \A i \in 1..Len(b) : (a \o b)[Len(a) + i] = b[i]
OBVIOUS

\* The second result of sort is a permutation of the positions that puts the values in
\* order.
LEMMA SortedIdxSorts ==
    ASSUME NEW values \in Seq(Int)
    PROVE  /\ SortedIdx(values) \in [1..Len(values) -> 1..Len(values)]
           /\ \A i, j \in 1..Len(values) : i < j =>
                 LET p == SortedIdx(values)[i]
                     q == SortedIdx(values)[j]
                 IN  p # q /\ values[p] <= values[q]
           /\ \A p \in 1..Len(values) : \E i \in 1..Len(values) : SortedIdx(values)[i] = p
PROOF
<1> DEFINE D == DOMAIN values
           before == {pair \in D \X D :
                         \/ values[pair[1]] < values[pair[2]]
                         \/ values[pair[1]] = values[pair[2]] /\ pair[1] < pair[2]}
           r == Ranked(D, before)
           n == Len(values)
<1>1. D = 1..n /\ n \in Nat /\ \A p \in D : values[p] \in Int
  OBVIOUS
<1>2. IsFiniteSet(D) /\ Cardinality(D) = n
  <2> HIDE DEF D, n
  <2> QED BY <1>1, FS_Interval
<1>3. \A p, q \in D : <<p, q>> \in before <=>
          values[p] < values[q] \/ (values[p] = values[q] /\ p < q)
  OBVIOUS
<1>4. SortedIdx(values) = r
  BY DEF SortedIdx
<1> HIDE DEF before, D
<1>5. IsOrder(before, D)
  <2>1. \A p \in D : p \in Int /\ values[p] \in Int
    BY <1>1
  <2>2. \A p \in D : <<p, p>> \notin before
    BY <1>3, <2>1
  <2>3. \A p, q \in D : p = q \/ <<p, q>> \in before \/ <<q, p>> \in before
    <3> TAKE p, q \in D
    <3>1. p \in Int /\ q \in Int /\ values[p] \in Int /\ values[q] \in Int
      BY <2>1
    <3>2. values[p] < values[q] \/ values[q] < values[p] \/ values[p] = values[q]
      BY <3>1
    <3>3. p = q \/ p < q \/ q < p
      BY <3>1
    <3> QED BY <1>3, <3>2, <3>3
  <2>4. \A p, q, k \in D : <<p, q>> \in before /\ <<q, k>> \in before => <<p, k>> \in before
    BY <1>3, <2>1
  <2> QED BY <2>2, <2>3, <2>4 DEF IsOrder
<1>6. /\ r \in [1..n -> D]
      /\ \A i, j \in 1..n : i < j => <<r[i], r[j]>> \in before
      /\ \A p \in D : \E i \in 1..n : r[i] = p
  BY <1>2, <1>5, RankedSorts
<1> HIDE DEF r, n
<1>7. ASSUME NEW i \in 1..n, NEW j \in 1..n, i < j
      PROVE  r[i] # r[j] /\ values[r[i]] <= values[r[j]]
  <2>1. r[i] \in D /\ r[j] \in D /\ <<r[i], r[j]>> \in before
    BY <1>6, <1>7
  <2>2. values[r[i]] < values[r[j]] \/ (values[r[i]] = values[r[j]] /\ r[i] < r[j])
    BY <1>3, <2>1
  <2>3. r[i] \in Int /\ r[j] \in Int /\ values[r[i]] \in Int /\ values[r[j]] \in Int
    BY <1>1, <2>1
  <2> QED BY <2>2, <2>3
<1> QED BY <1>1, <1>4, <1>6, <1>7 DEF n

-----------------------------------------------------------------------------
(***************************************************************************)
(* joinArrays.                                                             *)
(***************************************************************************)

\* Sorted, without repetitions.
Increasing(values) == \A i, j \in DOMAIN values : i < j => values[i] < values[j]

\* A value of an increasing sequence stands at one position.
LEMMA IncreasingIsDistinct ==
    ASSUME NEW values \in Seq(Int), Increasing(values),
           NEW i \in DOMAIN values, NEW j \in DOMAIN values, values[i] = values[j]
    PROVE  i = j
PROOF
<1>1. i \in Int /\ j \in Int /\ values[i] \in Int /\ values[j] \in Int
  OBVIOUS
<1>2. ~(i < j) /\ ~(j < i)
  BY <1>1 DEF Increasing
<1> QED BY <1>1, <1>2

\* An array of one row per value of range, with new rows at the end.
WithNew(array, range, SNRIn, new) == RemoveIdx(array, RepeatedIdx(range, SNRIn)) \o new

\* The number of SNR values that are not simulated again.
OldRows(range, SNRIn) == Len(Kept(range, RepeatedIdx(range, SNRIn)))

\* Row p of an array with new rows at the end: row k of the array, or new row k.
IsOld(range, SNRIn, p, k) ==
    /\ p \in DOMAIN Kept(range, RepeatedIdx(range, SNRIn))
    /\ k = Kept(range, RepeatedIdx(range, SNRIn))[p]
    /\ k \in DOMAIN range
    /\ range[k] \notin ToSet(SNRIn)
IsNew(range, SNRIn, p, k) ==
    /\ k \in DOMAIN SNRIn
    /\ p = OldRows(range, SNRIn) + k

\* An array with new rows at the end: each row is an old or a new one, with what it was
\* there.
HasRows(T, mixed, range, SNRIn, array, new) ==
    /\ OldRows(range, SNRIn) \in Nat
    /\ mixed \in Seq(T)
    /\ Len(mixed) = OldRows(range, SNRIn) + Len(SNRIn)
    /\ \A p \in DOMAIN mixed : \E k : IsOld(range, SNRIn, p, k) \/ IsNew(range, SNRIn, p, k)
    /\ \A p, k : IsOld(range, SNRIn, p, k) => mixed[p] = array[k]
    /\ \A p, k : IsNew(range, SNRIn, p, k) => mixed[p] = new[k]

\* Arrays that have a row for each SNR value have, once the new rows are at the end, rows
\* for the same SNR values in the same places: updateCounters uses one order for all of
\* them.
LEMMA MixedRows ==
    ASSUME NEW range \in Seq(Int), NEW SNRIn \in Seq(Int),
           NEW T, NEW array \in Seq(T), DOMAIN array = DOMAIN range,
           NEW new \in Seq(T), Len(new) = Len(SNRIn)
    PROVE  HasRows(T, WithNew(array, range, SNRIn, new), range, SNRIn, array, new)
PROOF
<1> DEFINE rep == RepeatedIdx(range, SNRIn)
           kept == Kept(range, rep)
           m == Len(kept)
           old == RemoveIdx(array, rep)
           mixed == old \o new
<1>1. Kept(array, rep) = kept
  BY DEF Kept
<1> HIDE DEF rep
<1>2. /\ kept \in Seq(DOMAIN range \ rep)
      /\ \A i \in DOMAIN kept : kept[i] \in DOMAIN range \ rep
      /\ old \in Seq(T) /\ Len(old) = m
      /\ \A i \in DOMAIN kept : old[i] = array[kept[i]]
  <2>1. /\ Kept(array, rep) \in Seq(DOMAIN array \ rep)
        /\ \A i \in DOMAIN Kept(array, rep) : Kept(array, rep)[i] \in DOMAIN array \ rep
        /\ old \in Seq(T) /\ Len(old) = Len(Kept(array, rep))
        /\ \A i \in DOMAIN Kept(array, rep) : old[i] = array[Kept(array, rep)[i]]
    <3>1. KeepsRows(T, array, rep)
      BY KeptRows
    <3> QED BY <3>1 DEF KeepsRows
  <2> HIDE DEF kept, old
  <2> QED BY <1>1, <2>1
<1>3. \A k \in DOMAIN range \ rep : range[k] \notin ToSet(SNRIn)
  BY DEF RepeatedIdx, rep
<1>4. \A p, k : IsOld(range, SNRIn, p, k) <=>
          p \in DOMAIN kept /\ k = kept[p] /\ k \in DOMAIN range /\ range[k] \notin ToSet(SNRIn)
  BY DEF IsOld, rep
<1>5. \A p, k : IsNew(range, SNRIn, p, k) <=> k \in DOMAIN SNRIn /\ p = m + k
  BY DEF IsNew, rep, OldRows
<1> HIDE DEF kept, old
<1>6. m \in Nat /\ DOMAIN kept = 1..m /\ mixed \in Seq(T) /\ Len(mixed) = m + Len(SNRIn)
  <2>1. m \in Nat /\ DOMAIN kept = 1..m
    BY <1>2
  <2>2. mixed \in Seq(T) /\ Len(mixed) = Len(old) + Len(new)
    BY <1>2, Concat
  <2> QED BY <1>2, <2>1, <2>2
<1>7. DOMAIN mixed = 1..m + Len(SNRIn) /\ Len(SNRIn) \in Nat /\ DOMAIN SNRIn = 1..Len(SNRIn)
  BY <1>6
<1>8. ASSUME NEW p \in DOMAIN mixed
      PROVE  \E k : IsOld(range, SNRIn, p, k) \/ IsNew(range, SNRIn, p, k)
  <2>1. CASE p <= m
    <3>1. p \in DOMAIN kept
      BY <1>6, <1>7, <2>1
    <3> QED BY <1>2, <1>3, <1>4, <3>1
  <2>2. CASE ~(p <= m)
    <3>1. p - m \in DOMAIN SNRIn /\ p = m + (p - m)
      BY <1>6, <1>7, <2>2
    <3> QED BY <1>5, <3>1
  <2> QED BY <2>1, <2>2
<1>9. ASSUME NEW p, NEW k, IsOld(range, SNRIn, p, k)
      PROVE  mixed[p] = array[k]
  <2>1. p \in 1..m /\ k = kept[p]
    BY <1>4, <1>6, <1>9
  <2>2. mixed[p] = old[p]
    BY <1>2, <1>6, <2>1
  <2> QED BY <1>2, <1>6, <2>1, <2>2
<1>10. ASSUME NEW p, NEW k, IsNew(range, SNRIn, p, k)
       PROVE  mixed[p] = new[k]
  <2>1. k \in 1..Len(new) /\ p = Len(old) + k
    BY <1>2, <1>5, <1>7, <1>10
  <2> QED BY <1>2, <2>1
<1>11. mixed = WithNew(array, range, SNRIn, new) /\ m = OldRows(range, SNRIn)
  BY DEF WithNew, OldRows, rep, kept, old
<1> QED BY <1>6, <1>8, <1>9, <1>10, <1>11 DEF HasRows

\* The SNR values in the order in which updateCounters appends them, the order that sorts
\* them, and the new SNRrange.
MixedRange(range, SNRIn) == WithNew(range, range, SNRIn, SNRIn)
Order(range, SNRIn) == SortedIdx(MixedRange(range, SNRIn))
NewRange(range, SNRIn) ==
    [i \in DOMAIN Order(range, SNRIn) |-> MixedRange(range, SNRIn)[Order(range, SNRIn)[i]]]

\* MixedRows for the SNR values themselves.
LEMMA MixedRangeRows ==
    ASSUME NEW range \in Seq(Int), NEW SNRIn \in Seq(Int)
    PROVE  HasRows(Int, MixedRange(range, SNRIn), range, SNRIn, range, SNRIn)
BY MixedRows DEF MixedRange

\* The SNR values that are sorted are different: those simulated again were taken out.
LEMMA MixedRangeIsDistinct ==
    ASSUME NEW range \in Seq(Int), NEW SNRIn \in Seq(Int), Increasing(range), Increasing(SNRIn),
           NEW p \in DOMAIN MixedRange(range, SNRIn), NEW q \in DOMAIN MixedRange(range, SNRIn),
           MixedRange(range, SNRIn)[p] = MixedRange(range, SNRIn)[q]
    PROVE  p = q
PROOF
<1> DEFINE mixed == MixedRange(range, SNRIn)
           kept == Kept(range, RepeatedIdx(range, SNRIn))
           Old(i, k) == IsOld(range, SNRIn, i, k)
           New(i, k) == IsNew(range, SNRIn, i, k)
<1>1. /\ \A i \in DOMAIN mixed : \E k : Old(i, k) \/ New(i, k)
      /\ \A i, k : Old(i, k) => mixed[i] = range[k]
      /\ \A i, k : New(i, k) => mixed[i] = SNRIn[k]
  <2>1. HasRows(Int, mixed, range, SNRIn, range, SNRIn)
    BY MixedRangeRows
  <2> QED BY <2>1 DEF HasRows
<1>2. \A i, k : Old(i, k) =>
          i \in DOMAIN kept /\ k = kept[i] /\ k \in DOMAIN range /\ range[k] \notin ToSet(SNRIn)
  BY DEF IsOld
<1>3. \A i, k : New(i, k) =>
          /\ k \in DOMAIN SNRIn /\ i = OldRows(range, SNRIn) + k
          /\ SNRIn[k] \in ToSet(SNRIn)
  BY DEF IsNew, ToSet
<1>4. /\ \A i, j \in DOMAIN kept : i < j => kept[i] < kept[j]
      /\ kept \in Seq(Int)
  <2>1. KeepsRows(Int, range, RepeatedIdx(range, SNRIn))
    BY KeptRows
  <2>2. DOMAIN range \ RepeatedIdx(range, SNRIn) \in SUBSET Int
    OBVIOUS
  <2>3. /\ \A i, j \in DOMAIN kept : i < j => kept[i] < kept[j]
        /\ kept \in Seq(DOMAIN range \ RepeatedIdx(range, SNRIn))
    BY <2>1 DEF KeepsRows
  <2> HIDE DEF kept
  <2> QED BY <2>2, <2>3
<1> HIDE DEF mixed, Old, New, kept
<1>5. PICK k : Old(p, k) \/ New(p, k)
  BY <1>1 DEF mixed
<1>6. PICK l : Old(q, l) \/ New(q, l)
  BY <1>1 DEF mixed
<1>7. mixed[p] = mixed[q]
  BY DEF mixed
<1>8. CASE Old(p, k) /\ Old(q, l)
  <2>1. range[k] = range[l] /\ k \in DOMAIN range /\ l \in DOMAIN range
    BY <1>1, <1>2, <1>7, <1>8
  <2>2. k = l
    BY <2>1, IncreasingIsDistinct
  <2>3. kept[p] = kept[q] /\ p \in DOMAIN kept /\ q \in DOMAIN kept
    BY <1>2, <1>8, <2>2
  <2> QED BY <1>4, <2>3, IncreasingIsDistinct DEF Increasing
<1>9. CASE New(p, k) /\ New(q, l)
  <2>1. SNRIn[k] = SNRIn[l] /\ k \in DOMAIN SNRIn /\ l \in DOMAIN SNRIn
    BY <1>1, <1>3, <1>7, <1>9
  <2>2. k = l
    BY <2>1, IncreasingIsDistinct
  <2> QED BY <1>3, <1>9, <2>2
<1>10. ~(Old(p, k) /\ New(q, l)) /\ ~(New(p, k) /\ Old(q, l))
  BY <1>1, <1>2, <1>3, <1>7
<1> QED BY <1>5, <1>6, <1>8, <1>9, <1>10

\* SNRrange stays sorted and without repetitions.
LEMMA NewRangeIsSorted ==
    ASSUME NEW range \in Seq(Int), NEW SNRIn \in Seq(Int), Increasing(range), Increasing(SNRIn)
    PROVE  /\ NewRange(range, SNRIn) \in Seq(Int)
           /\ Increasing(NewRange(range, SNRIn))
PROOF
<1> DEFINE mixed == MixedRange(range, SNRIn)
           order == SortedIdx(mixed)
           n == Len(mixed)
           new == NewRange(range, SNRIn)
<1>1. mixed \in Seq(Int)
  BY MixedRangeRows DEF HasRows
<1>2. \A p, q \in DOMAIN mixed : mixed[p] = mixed[q] => p = q
  BY MixedRangeIsDistinct
<1>3. new = [i \in DOMAIN order |-> mixed[order[i]]]
  BY DEF NewRange, Order
<1> HIDE DEF mixed, new
<1>4. /\ order \in [1..n -> 1..n]
      /\ \A i, j \in 1..n : i < j => order[i] # order[j] /\ mixed[order[i]] <= mixed[order[j]]
  BY <1>1, SortedIdxSorts
<1> HIDE DEF order
<1>5. n \in Nat /\ DOMAIN mixed = 1..n /\ \A p \in 1..n : mixed[p] \in Int
  BY <1>1
<1>6. new \in [1..n -> Int]
  BY <1>3, <1>4, <1>5
<1>7. ASSUME NEW i \in 1..n, NEW j \in 1..n, i < j
      PROVE  new[i] < new[j]
  <2>1. order[i] \in 1..n /\ order[j] \in 1..n /\ order[i] # order[j]
    BY <1>4, <1>7
  <2>2. mixed[order[i]] <= mixed[order[j]] /\ mixed[order[i]] # mixed[order[j]]
    BY <1>2, <1>4, <1>5, <1>7, <2>1
  <2>3. new[i] = mixed[order[i]] /\ new[j] = mixed[order[j]]
    BY <1>3, <1>4
  <2> QED BY <1>5, <2>1, <2>2, <2>3
<1> HIDE DEF n
<1> QED BY <1>5, <1>6, <1>7 DEF Increasing, new

\* The order is a permutation of the positions of the mixed SNR values.
LEMMA OrderPermutes ==
    ASSUME NEW range \in Seq(Int), NEW SNRIn \in Seq(Int)
    PROVE  /\ Order(range, SNRIn)
                 \in [1..Len(MixedRange(range, SNRIn)) -> 1..Len(MixedRange(range, SNRIn))]
           /\ \A p \in 1..Len(MixedRange(range, SNRIn)) :
                 \E i \in 1..Len(MixedRange(range, SNRIn)) : Order(range, SNRIn)[i] = p
PROOF
<1>1. MixedRange(range, SNRIn) \in Seq(Int)
  BY MixedRangeRows DEF HasRows
<1> QED BY <1>1, SortedIdxSorts DEF Order

\* SNRrange then has the values it had and those of the call, no others.
LEMMA NewRangeValues ==
    ASSUME NEW range \in Seq(Int), NEW SNRIn \in Seq(Int)
    PROVE  ToSet(NewRange(range, SNRIn)) = ToSet(range) \cup ToSet(SNRIn)
PROOF
<1> DEFINE mixed == MixedRange(range, SNRIn)
           order == Order(range, SNRIn)
           n == Len(mixed)
           new == NewRange(range, SNRIn)
           rep == RepeatedIdx(range, SNRIn)
           kept == Kept(range, rep)
           Old(i, k) == IsOld(range, SNRIn, i, k)
           New(i, k) == IsNew(range, SNRIn, i, k)
<1>1. /\ mixed \in Seq(Int) /\ n = OldRows(range, SNRIn) + Len(SNRIn)
      /\ OldRows(range, SNRIn) \in Nat
      /\ \A i \in DOMAIN mixed : \E k : Old(i, k) \/ New(i, k)
      /\ \A i, k : Old(i, k) => mixed[i] = range[k]
      /\ \A i, k : New(i, k) => mixed[i] = SNRIn[k]
  <2>1. HasRows(Int, mixed, range, SNRIn, range, SNRIn)
    BY MixedRangeRows
  <2> QED BY <2>1 DEF HasRows
<1>2. order \in [1..n -> 1..n] /\ \A p \in 1..n : \E i \in 1..n : order[i] = p
  BY OrderPermutes
<1>3. new = [i \in DOMAIN order |-> mixed[order[i]]]
  BY DEF NewRange
<1>4. /\ kept \in Seq(DOMAIN range \ rep)
      /\ \A k \in DOMAIN range \ rep : \E i \in DOMAIN kept : kept[i] = k
  <2>1. KeepsRows(Int, range, rep)
    BY KeptRows
  <2> QED BY <2>1 DEF KeepsRows
<1>5. \A k \in DOMAIN range : k \notin rep <=> range[k] \notin ToSet(SNRIn)
  BY DEF RepeatedIdx
<1>6. OldRows(range, SNRIn) = Len(kept)
  BY DEF OldRows
<1>7. \A i, k : Old(i, k) => k \in DOMAIN range
  BY DEF IsOld
<1>8. \A i, k : New(i, k) <=> k \in DOMAIN SNRIn /\ i = Len(kept) + k
  BY <1>6 DEF IsNew
<1>9. \A i \in DOMAIN kept : kept[i] \in DOMAIN range /\ range[kept[i]] \notin ToSet(SNRIn)
                             => Old(i, kept[i])
  BY DEF IsOld
<1> HIDE DEF mixed, order, new, rep, kept, Old, New
<1>10. /\ DOMAIN mixed = 1..n /\ n \in Nat
       /\ DOMAIN kept = 1..Len(kept) /\ DOMAIN SNRIn = 1..Len(SNRIn)
  BY <1>1, <1>4
<1>11. ToSet(new) = ToSet(mixed)
  <2>1. DOMAIN order = 1..n
    BY <1>2
  <2>2. \A v : v \in ToSet(new) <=> \E i \in 1..n : v = mixed[order[i]]
    BY <1>3, <2>1 DEF ToSet
  <2>3. \A v : v \in ToSet(mixed) <=> \E p \in 1..n : v = mixed[p]
    BY <1>10 DEF ToSet
  <2> QED BY <1>2, <2>2, <2>3
<1>12. ASSUME NEW v \in ToSet(mixed)
       PROVE  v \in ToSet(range) \cup ToSet(SNRIn)
  <2>1. PICK p \in DOMAIN mixed : v = mixed[p]
    BY DEF ToSet
  <2>2. PICK k : Old(p, k) \/ New(p, k)
    BY <1>1
  <2> QED BY <1>1, <1>7, <1>8, <2>1, <2>2 DEF ToSet
<1>13. ASSUME NEW v \in ToSet(SNRIn)
       PROVE  v \in ToSet(mixed)
  <2>1. PICK k \in DOMAIN SNRIn : v = SNRIn[k]
    BY DEF ToSet
  <2>2. New(Len(kept) + k, k) /\ Len(kept) + k \in DOMAIN mixed
    BY <1>1, <1>6, <1>8, <1>10
  <2> QED BY <1>1, <2>1, <2>2 DEF ToSet
<1>14. ASSUME NEW v \in ToSet(range), v \notin ToSet(SNRIn)
       PROVE  v \in ToSet(mixed)
  <2>1. PICK k \in DOMAIN range : v = range[k]
    BY DEF ToSet
  <2>2. PICK i \in DOMAIN kept : kept[i] = k
    BY <1>4, <1>5, <1>14, <2>1
  <2>3. Old(i, k)
    BY <1>9, <1>14, <2>1, <2>2
  <2>4. i \in 1..Len(kept) /\ Len(kept) <= n
    <3>1. Len(kept) \in Nat /\ Len(SNRIn) \in Nat
      BY <1>1, <1>6
    <3> QED BY <1>1, <1>6, <1>10, <2>2, <3>1
  <2>5. i \in DOMAIN mixed
    BY <1>10, <2>4
  <2> QED BY <1>1, <2>1, <2>3, <2>5 DEF ToSet
<1> QED BY <1>11, <1>12, <1>13, <1>14 DEF new

\* The joined array has, next to an SNR value of the call, the new row for it, and next to
\* any other the row that the array had for it.
IsJoin(T, joined, range, SNRIn, array, new) ==
    /\ joined \in Seq(T)
    /\ DOMAIN joined = DOMAIN NewRange(range, SNRIn)
    /\ \A i \in DOMAIN joined :
          \/ \E k \in DOMAIN SNRIn : NewRange(range, SNRIn)[i] = SNRIn[k] /\ joined[i] = new[k]
          \/ \E k \in DOMAIN range :
                /\ range[k] \notin ToSet(SNRIn)
                /\ NewRange(range, SNRIn)[i] = range[k] /\ joined[i] = array[k]

\* joinArrays on an array with a row for each SNR value.
LEMMA RowsAreJoined ==
    ASSUME NEW range \in Seq(Int), NEW SNRIn \in Seq(Int),
           NEW T, NEW array \in Seq(T), DOMAIN array = DOMAIN range,
           NEW new \in Seq(T), Len(new) = Len(SNRIn)
    PROVE  IsJoin(T, joinArrays(array, new, RepeatedIdx(range, SNRIn), Order(range, SNRIn)),
                  range, SNRIn, array, new)
PROOF
<1> DEFINE mixed == WithNew(array, range, SNRIn, new)
           mixedRange == MixedRange(range, SNRIn)
           order == Order(range, SNRIn)
           n == Len(mixedRange)
           joined == joinArrays(array, new, RepeatedIdx(range, SNRIn), order)
           newRange == NewRange(range, SNRIn)
           Old(i, k) == IsOld(range, SNRIn, i, k)
           New(i, k) == IsNew(range, SNRIn, i, k)
<1>1. joined = [i \in DOMAIN order |-> mixed[order[i]]]
  BY DEF joinArrays, WithNew
<1>2. newRange = [i \in DOMAIN order |-> mixedRange[order[i]]]
  BY DEF NewRange
<1>3. /\ mixed \in Seq(T) /\ Len(mixed) = OldRows(range, SNRIn) + Len(SNRIn)
      /\ \A i \in DOMAIN mixed : \E k : Old(i, k) \/ New(i, k)
      /\ \A i, k : Old(i, k) => mixed[i] = array[k]
      /\ \A i, k : New(i, k) => mixed[i] = new[k]
  <2>1. HasRows(T, mixed, range, SNRIn, array, new)
    BY MixedRows
  <2> QED BY <2>1 DEF HasRows
<1>4. /\ mixedRange \in Seq(Int) /\ n = OldRows(range, SNRIn) + Len(SNRIn)
      /\ \A i, k : Old(i, k) => mixedRange[i] = range[k]
      /\ \A i, k : New(i, k) => mixedRange[i] = SNRIn[k]
  <2>1. HasRows(Int, mixedRange, range, SNRIn, range, SNRIn)
    BY MixedRangeRows
  <2> QED BY <2>1 DEF HasRows
<1>5. order \in [1..n -> 1..n]
  BY OrderPermutes
<1>6. \A i, k : Old(i, k) => k \in DOMAIN range /\ range[k] \notin ToSet(SNRIn)
  BY DEF IsOld
<1>7. \A i, k : New(i, k) => k \in DOMAIN SNRIn
  BY DEF IsNew
<1> HIDE DEF mixed, mixedRange, order, joined, newRange, Old, New
<1>8. n \in Nat /\ DOMAIN mixed = 1..n /\ DOMAIN order = 1..n
  BY <1>3, <1>4, <1>5
<1>9. joined \in [1..n -> T]
  BY <1>1, <1>3, <1>5, <1>8
<1>10. ASSUME NEW i \in 1..n
       PROVE  \/ \E k \in DOMAIN SNRIn : newRange[i] = SNRIn[k] /\ joined[i] = new[k]
              \/ \E k \in DOMAIN range :
                    /\ range[k] \notin ToSet(SNRIn)
                    /\ newRange[i] = range[k] /\ joined[i] = array[k]
  <2>1. order[i] \in DOMAIN mixed
    BY <1>5, <1>8
  <2>2. PICK k : Old(order[i], k) \/ New(order[i], k)
    BY <1>3, <2>1
  <2>3. joined[i] = mixed[order[i]] /\ newRange[i] = mixedRange[order[i]]
    BY <1>1, <1>2, <1>8
  <2>4. CASE Old(order[i], k)
    BY <1>3, <1>4, <1>6, <2>3, <2>4
  <2>5. CASE New(order[i], k)
    BY <1>3, <1>4, <1>7, <2>3, <2>5
  <2> QED BY <2>2, <2>4, <2>5
<1>11. DOMAIN joined = 1..n /\ DOMAIN newRange = 1..n
  BY <1>1, <1>2, <1>8
<1> HIDE DEF n
<1>12. joined \in Seq(T)
  BY <1>8, <1>9, FunctionIsSeq
<1> QED BY <1>10, <1>11, <1>12 DEF IsJoin, joined, newRange, order

\* joinArrays, when it does not fail, returns one row per SNR value, whatever array it
\* gets.
LEMMA JoinTypes ==
    ASSUME NEW range \in Seq(Int), NEW SNRIn \in Seq(Int),
           NEW T, NEW array \in Seq(T), NEW new \in Seq(T), NEW width,
           ~JoinFails(array, new, width, RepeatedIdx(range, SNRIn), Order(range, SNRIn))
    PROVE  /\ joinArrays(array, new, RepeatedIdx(range, SNRIn), Order(range, SNRIn)) \in Seq(T)
           /\ DOMAIN joinArrays(array, new, RepeatedIdx(range, SNRIn), Order(range, SNRIn))
                  = DOMAIN NewRange(range, SNRIn)
PROOF
<1> DEFINE rep == RepeatedIdx(range, SNRIn)
           order == Order(range, SNRIn)
           n == Len(MixedRange(range, SNRIn))
           old == RemoveIdx(array, rep)
           mixed == old \o new
           joined == joinArrays(array, new, rep, order)
<1>1. joined = [i \in DOMAIN order |-> mixed[order[i]]]
  BY DEF joinArrays
<1>2. old \in Seq(T)
  <2>1. KeepsRows(T, array, rep)
    BY KeptRows
  <2> QED BY <2>1 DEF KeepsRows
<1>3. order \in [1..n -> 1..n]
  BY OrderPermutes
<1>4. \A i \in DOMAIN order : ~(order[i] > Len(old) + Len(new))
  BY DEF JoinFails
<1>5. n \in Nat
  <2>1. HasRows(Int, MixedRange(range, SNRIn), range, SNRIn, range, SNRIn)
    BY MixedRangeRows
  <2>2. MixedRange(range, SNRIn) \in Seq(Int)
    BY <2>1 DEF HasRows
  <2> QED BY <2>2
<1>6. DOMAIN NewRange(range, SNRIn) = DOMAIN order
  BY DEF NewRange
<1> HIDE DEF rep, order, n, old, joined
<1>7. mixed \in Seq(T) /\ Len(mixed) = Len(old) + Len(new)
  BY <1>2, Concat
<1>8. ASSUME NEW i \in 1..n
      PROVE  mixed[order[i]] \in T
  <2>1. order[i] \in 1..n /\ DOMAIN order = 1..n
    BY <1>3
  <2>2. order[i] \in Nat /\ order[i] >= 1
    BY <1>5, <2>1
  <2>4. ~(order[i] > Len(mixed))
    BY <1>4, <1>7, <2>1
  <2> HIDE DEF mixed
  <2>5. Len(mixed) \in Nat
    BY <1>7
  <2>3. order[i] \in 1..Len(mixed)
    BY <2>2, <2>4, <2>5
  <2> QED BY <1>7, <2>3
<1> HIDE DEF mixed
<1>9. DOMAIN order = 1..n
  BY <1>3
<1>10. joined \in [1..n -> T]
  BY <1>1, <1>8, <1>9
<1>11. joined \in Seq(T)
  BY <1>5, <1>10, FunctionIsSeq
<1> QED BY <1>1, <1>6, <1>11 DEF joined, rep, order

\* joinArrays does not fail on columns and an array with at least a row for each SNR value:
\* the positions of updateCounters exist in it.
LEMMA NoFail ==
    ASSUME NEW range \in Seq(Int), NEW SNRIn \in Seq(Int),
           NEW T, NEW array \in Seq(T), DOMAIN range \subseteq DOMAIN array,
           NEW new \in Seq(T), Len(new) = Len(SNRIn)
    PROVE  ~JoinFails(array, new, 1, RepeatedIdx(range, SNRIn), Order(range, SNRIn))
PROOF
<1> DEFINE rep == RepeatedIdx(range, SNRIn)
           order == Order(range, SNRIn)
           n == Len(MixedRange(range, SNRIn))
<1>1. rep \subseteq DOMAIN array
  BY DEF RepeatedIdx
<1>2. order \in [1..n -> 1..n]
  BY OrderPermutes
<1>3. n = OldRows(range, SNRIn) + Len(SNRIn) /\ OldRows(range, SNRIn) \in Nat
  <2>1. HasRows(Int, MixedRange(range, SNRIn), range, SNRIn, range, SNRIn)
    BY MixedRangeRows
  <2> QED BY <2>1 DEF HasRows
<1>4. OldRows(range, SNRIn) = Cardinality(DOMAIN range \ rep)
  <2>1. KeepsRows(Int, range, rep)
    BY KeptRows
  <2> QED BY <2>1 DEF KeepsRows, OldRows
<1>5. /\ RemoveIdx(array, rep) \in Seq(T)
      /\ Len(RemoveIdx(array, rep)) = Cardinality(DOMAIN array \ rep)
  <2>1. KeepsRows(T, array, rep)
    BY KeptRows
  <2> QED BY <2>1 DEF KeepsRows
<1>6. Cardinality(DOMAIN range \ rep) <= Cardinality(DOMAIN array \ rep)
  <2>1. DOMAIN array = 1..Len(array) /\ Len(array) \in Nat
    OBVIOUS
  <2>2. IsFiniteSet(DOMAIN array)
    BY <2>1, FS_Interval
  <2>3. IsFiniteSet(DOMAIN array \ rep)
    BY <2>2, FS_Subset
  <2>4. DOMAIN range \ rep \subseteq DOMAIN array \ rep
    OBVIOUS
  <2> HIDE DEF rep
  <2> QED BY <2>3, <2>4, FS_Subset
<1> HIDE DEF rep, order, n
<1>7. ASSUME NEW i \in DOMAIN order
      PROVE  ~(order[i] > Len(RemoveIdx(array, rep)) + Len(new))
  <2>1. order[i] \in 1..n
    BY <1>2
  <2>2. Len(SNRIn) \in Nat /\ Len(RemoveIdx(array, rep)) \in Nat
    BY <1>5
  <2> QED BY <1>3, <1>4, <1>5, <1>6, <2>1, <2>2
<1> QED BY <1>1, <1>7 DEF JoinFails, rep, order

-----------------------------------------------------------------------------
(***************************************************************************)
(* updateCounters.                                                         *)
(***************************************************************************)

\* updateCounters, with names for its parts.
NewColumn(d, c, SNRIn, nFrames) == Column(d.prop.PUCCHFormat, c, SNRIn, nFrames)

Fails(d, c, SNRIn, nFrames) ==
    JoinFails(d.ctr[c], NewColumn(d, c, SNRIn, nFrames), Width(d.prop.PUCCHFormat, c, Len(SNRIn)),
              RepeatedIdx(d.SNRrange, SNRIn), Order(d.SNRrange, SNRIn))

Joins(d, c, SNRIn, nFrames) ==
    joinArrays(d.ctr[c], NewColumn(d, c, SNRIn, nFrames),
               RepeatedIdx(d.SNRrange, SNRIn), Order(d.SNRrange, SNRIn))

UpdatedCounters(d, SNRIn, nFrames) ==
    {c \in Shown(d.prop) :
        \E j \in DOMAIN Exported(d.prop) :
            /\ Exported(d.prop)[j] = c
            /\ \A i \in 1..j : ~Fails(d, Exported(d.prop)[i], SNRIn, nFrames)}

IsUpdate(d, SNRIn, nFrames, out) ==
    /\ out.details.prop = d.prop
    /\ out.details.SNRrange = NewRange(d.SNRrange, SNRIn)
    /\ out.details.ctr = [c \in DOMAIN d.ctr |->
            IF c \in UpdatedCounters(d, SNRIn, nFrames) THEN Joins(d, c, SNRIn, nFrames)
            ELSE d.ctr[c]]
    /\ out.details = [prop |-> d.prop, SNRrange |-> out.details.SNRrange,
                      ctr |-> out.details.ctr]
    /\ out.failed <=> UpdatedCounters(d, SNRIn, nFrames) # Shown(d.prop)

\* The fields of result arrays.
LEMMA DetailsParts ==
    ASSUME NEW d, IsDetails(d)
    PROVE  /\ d.prop \in Properties
           /\ d.SNRrange \in Seq(SNRs) /\ d.SNRrange \in Seq(Int)
           /\ d.ctr \in [Counters(d.prop.PUCCHFormat) -> Seq(Entries)]
           /\ d = [prop |-> d.prop, SNRrange |-> d.SNRrange, ctr |-> d.ctr]
PROOF
<1>1. PICK p \in Properties :
          d \in [prop : {p}, SNRrange : Seq(SNRs), ctr : [Counters(p.PUCCHFormat) -> Seq(Entries)]]
  BY DEF IsDetails
<1>2. d.prop = p
  BY <1>1
<1>3. d.SNRrange \in Seq(SNRs)
  BY <1>1
<1>4. d.SNRrange \in Seq(Int)
  <2> DEFINE range == d.SNRrange
  <2> HIDE DEF range
  <2>1. range \in Seq(SNRs)
    BY <1>3 DEF range
  <2>2. Len(range) \in Nat /\ range \in [1..Len(range) -> SNRs]
    BY <2>1
  <2>3. range \in [1..Len(range) -> Int]
    BY <2>2, SNRsAssumption
  <2>4. range \in Seq(Int)
    BY <2>2, <2>3, FunctionIsSeq
  <2> QED BY <2>4 DEF range
<1> QED BY <1>1, <1>2, <1>3, <1>4

\* UpdateOutcome, by its parts.
LEMMA UpdateParts ==
    ASSUME NEW d, IsDetails(d), NEW SNRIn, NEW nFrames
    PROVE  IsUpdate(d, SNRIn, nFrames, UpdateOutcome(d, SNRIn, nFrames))
PROOF
<1> DEFINE out == UpdateOutcome(d, SNRIn, nFrames)
           upd == UpdatedCounters(d, SNRIn, nFrames)
<1>1. d = [prop |-> d.prop, SNRrange |-> d.SNRrange, ctr |-> d.ctr]
  BY DetailsParts
<1>2. ToSet(Exported(d.prop)) = Shown(d.prop)
  BY DEF ToSet, Shown
<1>3. out = [details |-> [d EXCEPT
                !.SNRrange = NewRange(d.SNRrange, SNRIn),
                !.ctr = [c \in DOMAIN d.ctr |->
                    IF c \in upd THEN Joins(d, c, SNRIn, nFrames) ELSE d.ctr[c]]],
             failed |-> upd # Shown(d.prop)]
  BY <1>2 DEF UpdateOutcome, UpdatedCounters, Joins, Fails, NewColumn, NewRange, Order,
              MixedRange, WithNew
<1> DEFINE range == NewRange(d.SNRrange, SNRIn)
           ctr == [c \in DOMAIN d.ctr |->
                      IF c \in upd THEN Joins(d, c, SNRIn, nFrames) ELSE d.ctr[c]]
<1> HIDE DEF out, upd, range, ctr
<1>4. out.failed = (upd # Shown(d.prop))
  BY <1>3
<1>5. out.details = [d EXCEPT !.SNRrange = range, !.ctr = ctr]
  BY <1>3 DEF range, ctr
<1>6. out.details = [prop |-> d.prop, SNRrange |-> range, ctr |-> ctr]
  BY <1>1, <1>5
<1>7. /\ out.details.prop = d.prop /\ out.details.SNRrange = range /\ out.details.ctr = ctr
  BY <1>6
<1> QED BY <1>4, <1>6, <1>7 DEF IsUpdate, out, upd, range, ctr

-----------------------------------------------------------------------------
(***************************************************************************)
(* Counters and columns.                                                   *)
(***************************************************************************)

\* The counter that is updated first.
FirstOf(d) == Exported(d.prop)[1]

\* A sequence with an element on top.
LEMMA WithFirst ==
    ASSUME NEW T, NEW x \in T, NEW b \in Seq(T)
    PROVE  /\ <<x>> \o b \in Seq(T) /\ (<<x>> \o b)[1] = x
           /\ Len(<<x>> \o b) \in Nat \ {0}
PROOF
<1> DEFINE a == <<x>>
<1>1. a \in Seq(T) /\ Len(a) = 1 /\ a[1] = x
  OBVIOUS
<1> HIDE DEF a
<1>2. /\ a \o b \in Seq(T) /\ Len(a \o b) = Len(a) + Len(b)
      /\ \A i \in 1..Len(a) : (a \o b)[i] = a[i]
  BY <1>1, Concat
<1>4. (a \o b)[1] = a[1]
  BY <1>1, <1>2
<1>3. Len(b) \in Nat
  OBVIOUS
<1> QED BY <1>1, <1>2, <1>3, <1>4 DEF a

\* The counters of a configuration are counters of its format; the first is allocated as a
\* column and cleared by reset.
LEMMA ExportedCounters ==
    ASSUME NEW p \in Properties
    PROVE  /\ p.PUCCHFormat \in 0..4
           /\ Shown(p) \subseteq Counters(p.PUCCHFormat)
           /\ 1 \in DOMAIN Exported(p)
           /\ Exported(p) \in Seq(Counters(p.PUCCHFormat))
           /\ DOMAIN Exported(p) \subseteq Nat \ {0}
           /\ Exported(p)[1] \in Shown(p)
           /\ Exported(p)[1] \notin KeptByReset(p.PUCCHFormat)
           /\ \A k : Width(p.PUCCHFormat, Exported(p)[1], k) = 1
PROOF
<1> DEFINE f == p.PUCCHFormat
           names == Exported(p)
<1>1. f \in 0..4 /\ p.isDetectionTest \in BOOLEAN
  BY DEF Properties
<1>2. CASE f = 0
  <2>1. names = <<"TotalBlocks">> \o
            (IF p.isDetectionTest THEN <<"TransmittedACKs", "MissedACKs", "MissedSRs">>
                                  ELSE <<"FalseACKs", "FalseSRs">>)
    BY <1>2 DEF Exported
  <2>2. names \in Seq(CountersOfF0) /\ names[1] = "TotalBlocks" /\ Len(names) \in Nat \ {0}
    <3> DEFINE rest == IF p.isDetectionTest
                       THEN <<"TransmittedACKs", "MissedACKs", "MissedSRs">>
                       ELSE <<"FalseACKs", "FalseSRs">>
    <3>1. "TotalBlocks" \in CountersOfF0 /\ rest \in Seq(CountersOfF0)
      <4>1. <<"TransmittedACKs", "MissedACKs", "MissedSRs">>
              \in Seq(CountersOfF0)
        BY DEF CountersOfF0
      <4>2. <<"FalseACKs", "FalseSRs">> \in Seq(CountersOfF0)
        BY DEF CountersOfF0
      <4>3. "TotalBlocks" \in CountersOfF0
        BY DEF CountersOfF0
      <4> QED BY <4>1, <4>2, <4>3
    <3>2. names = <<"TotalBlocks">> \o rest
      BY <2>1
    <3> HIDE DEF rest
    <3> QED BY <3>1, <3>2, WithFirst
  <2> QED BY <1>1, <1>2, <2>2 DEF Shown, Counters, KeptByReset, Width
<1>3. CASE f = 1
  <2>1. names = <<"ACKOccasions">> \o
            (IF p.isDetectionTest
             THEN <<"TransmittedACKs", "TransmittedNACKs", "MissedACKs",
                    "NACK2ACKs", "MissedOccasions">>
             ELSE <<"FalseACKs">>)
    BY <1>3 DEF Exported
  <2>2. names \in Seq(CountersOfF1) /\ names[1] = "ACKOccasions" /\ Len(names) \in Nat \ {0}
    <3> DEFINE rest == IF p.isDetectionTest
                       THEN <<"TransmittedACKs", "TransmittedNACKs", "MissedACKs",
                              "NACK2ACKs", "MissedOccasions">>
                       ELSE <<"FalseACKs">>
    <3>1. "ACKOccasions" \in CountersOfF1 /\ rest \in Seq(CountersOfF1)
      <4>1. <<"TransmittedACKs", "TransmittedNACKs", "MissedACKs",
                    "NACK2ACKs", "MissedOccasions">>
              \in Seq(CountersOfF1)
        BY DEF CountersOfF1
      <4>2. <<"FalseACKs">> \in Seq(CountersOfF1)
        BY DEF CountersOfF1
      <4>3. "ACKOccasions" \in CountersOfF1
        BY DEF CountersOfF1
      <4> QED BY <4>1, <4>2, <4>3
    <3>2. names = <<"ACKOccasions">> \o rest
      BY <2>1
    <3> HIDE DEF rest
    <3> QED BY <3>1, <3>2, WithFirst
  <2> QED BY <1>1, <1>3, <2>2 DEF Shown, Counters, KeptByReset, Width
<1>4. CASE f \in 2..4
  <2>1. names =
            <<"TotalBlocks", IF p.isDetectionTest THEN "MissedBlocks" ELSE "FalseBlocks">>
    BY <1>4 DEF Exported
  <2>2. names \in Seq(CountersOfF2) /\ names[1] = "TotalBlocks" /\ Len(names) \in Nat \ {0}
    BY <2>1 DEF CountersOfF2
  <2> QED BY <1>1, <1>4, <2>2 DEF Shown, Counters, KeptByReset, Width
<1> QED BY <1>1, <1>2, <1>3, <1>4

\* What is joined to a counter is a quantity that is counted.
LEMMA JoinedIsCounter ==
    ASSUME NEW f \in 0..4, NEW c \in Counters(f)
    PROVE  Joined(f, c) \in AllCounters
BY DEF Joined, Counters, AllCounters, CountersOfF0, CountersOfF1, CountersOfF2

\* A new column has one entry for each SNR value of the call.
LEMMA ColumnTypes ==
    ASSUME NEW f \in 0..4, NEW c \in Counters(f),
           NEW SNRIn \in Seq(SNRs), NEW nFrames \in Frames
    PROVE  /\ Column(f, c, SNRIn, nFrames) \in Seq(Entries)
           /\ Len(Column(f, c, SNRIn, nFrames)) = Len(SNRIn)
           /\ \A k \in DOMAIN SNRIn : Column(f, c, SNRIn, nFrames)[k]
                  = [quantity |-> Joined(f, c), snr |-> SNRIn[k], nFrames |-> nFrames]
PROOF
<1> DEFINE col == Column(f, c, SNRIn, nFrames)
<1>1. col = [k \in DOMAIN SNRIn |->
                [quantity |-> Joined(f, c), snr |-> SNRIn[k], nFrames |-> nFrames]]
  BY DEF Column
<1>2. /\ DOMAIN SNRIn = 1..Len(SNRIn) /\ Len(SNRIn) \in Nat
      /\ \A k \in DOMAIN SNRIn : SNRIn[k] \in SNRs
  OBVIOUS
<1>3. Joined(f, c) \in AllCounters
  BY JoinedIsCounter
<1> HIDE DEF col
<1>4. \A k \in DOMAIN SNRIn :
          [quantity |-> Joined(f, c), snr |-> SNRIn[k], nFrames |-> nFrames] \in Entries
  BY <1>2, <1>3 DEF Entries
<1>5. col \in [1..Len(SNRIn) -> Entries]
  BY <1>1, <1>2, <1>4
<1>6. col \in Seq(Entries) /\ Len(col) = Len(SNRIn)
  BY <1>2, <1>5, FunctionIsSeq
<1> QED BY <1>1, <1>6 DEF col

\* SNR values are integers.
LEMMA SeqOfInt ==
    ASSUME NEW values \in Seq(SNRs)
    PROVE  values \in Seq(Int)
PROOF
<1>1. Len(values) \in Nat /\ values \in [1..Len(values) -> SNRs]
  OBVIOUS
<1>2. values \in [1..Len(values) -> Int]
  BY <1>1, SNRsAssumption
<1> QED BY <1>1, <1>2, FunctionIsSeq

\* SNRrange stays a sequence of SNR values.
LEMMA NewRangeIsSeq ==
    ASSUME NEW range \in Seq(SNRs), NEW SNRIn \in Seq(SNRs)
    PROVE  NewRange(range, SNRIn) \in Seq(SNRs)
PROOF
<1> DEFINE new == NewRange(range, SNRIn)
           n == Len(MixedRange(range, SNRIn))
<1>1. range \in Seq(Int) /\ SNRIn \in Seq(Int)
  BY SeqOfInt
<1>2. Order(range, SNRIn) \in [1..n -> 1..n]
  BY <1>1, OrderPermutes
<1>3. n \in Nat
  <2>1. HasRows(Int, MixedRange(range, SNRIn), range, SNRIn, range, SNRIn)
    BY <1>1, MixedRangeRows
  <2>2. MixedRange(range, SNRIn) \in Seq(Int)
    BY <2>1 DEF HasRows
  <2> QED BY <2>2
<1>4. new = [i \in 1..n |-> new[i]]
  <2>1. new = [i \in 1..n |-> MixedRange(range, SNRIn)[Order(range, SNRIn)[i]]]
    BY <1>2 DEF NewRange
  <2> HIDE DEF new
  <2> QED BY <2>1
<1>5. ToSet(new) = ToSet(range) \cup ToSet(SNRIn)
  BY <1>1, NewRangeValues
<1>6. ToSet(range) \subseteq SNRs /\ ToSet(SNRIn) \subseteq SNRs
  BY DEF ToSet
<1> HIDE DEF new, n
<1>7. \A i \in 1..n : new[i] \in SNRs
  BY <1>4, <1>5, <1>6 DEF ToSet
<1>8. new \in [1..n -> SNRs]
  BY <1>4, <1>7
<1>9. new \in Seq(SNRs)
  BY <1>3, <1>8, FunctionIsSeq
<1> QED BY <1>9 DEF new

\* unique returns the values it gets, sorted.
LEMMA UniqueValues ==
    ASSUME NEW f \in 0..4, NEW S \in SNRLists[f]
    PROVE  /\ S \in (SUBSET SNRs) \ {{}}
           /\ Unique(S) \in Seq(SNRs) /\ Unique(S) \in Seq(Int)
           /\ Len(Unique(S)) = Cardinality(S)
           /\ Increasing(Unique(S))
           /\ ToSet(Unique(S)) = S
PROOF
<1> DEFINE u == Unique(S)
<1>1. S \in (SUBSET SNRs) \ {{}} /\ IsFiniteSet(S)
  <2>1. SNRLists[f] \in SUBSET ((SUBSET SNRs) \ {{}})
    BY SNRListsAssumption
  <2> QED BY <2>1, SNRListsAssumption
<1>2. S \in SUBSET Int
  BY <1>1, SNRsAssumption
<1>3. /\ u \in Seq(S) /\ Len(u) = Cardinality(S)
      /\ \A i \in DOMAIN u : u[i] \in S
      /\ \A i, j \in DOMAIN u : i < j => u[i] < u[j]
      /\ \A x \in S : \E i \in DOMAIN u : u[i] = x
  BY <1>1, <1>2, AscendingSorts DEF Unique
<1> HIDE DEF u
<1>4. u \in Seq(SNRs)
  <2>1. Len(u) \in Nat /\ u \in [1..Len(u) -> S]
    BY <1>3
  <2>2. u \in [1..Len(u) -> SNRs]
    BY <1>1, <2>1
  <2> QED BY <2>1, <2>2, FunctionIsSeq
<1>5. u \in Seq(Int)
  BY <1>4, SeqOfInt
<1>6. ToSet(u) = S
  BY <1>3 DEF ToSet
<1> QED BY <1>1, <1>3, <1>4, <1>5, <1>6 DEF u, Increasing

-----------------------------------------------------------------------------
(***************************************************************************)
(* New, reset and updated result arrays have their type.                   *)
(***************************************************************************)

\* New result arrays are of the configuration they are made for.
LEMMA NewDetailsFit ==
    ASSUME NEW p \in Properties
    PROVE  IsDetails(NewDetails(p)) /\ NewDetails(p).prop = p
PROOF
<1> DEFINE ctr == [c \in Counters(p.PUCCHFormat) |-> <<>>]
<1>1. ctr \in [Counters(p.PUCCHFormat) -> Seq(Entries)]
  OBVIOUS
<1>2. NewDetails(p) = [prop |-> p, SNRrange |-> <<>>, ctr |-> ctr]
  BY DEF NewDetails
<1> HIDE DEF ctr
<1>3. <<>> \in Seq(SNRs)
  OBVIOUS
<1> QED BY <1>1, <1>2, <1>3 DEF IsDetails

\* reset empties SNRrange and all counters but the ones it forgets, and nothing else.
LEMMA ResetParts ==
    ASSUME NEW d, IsDetails(d)
    PROVE  /\ ResetDetails(d).prop = d.prop
           /\ ResetDetails(d).SNRrange = <<>>
           /\ ResetDetails(d).ctr = [c \in DOMAIN d.ctr |->
                  IF c \in KeptByReset(d.prop.PUCCHFormat) THEN d.ctr[c] ELSE <<>>]
           /\ IsDetails(ResetDetails(d))
PROOF
<1> DEFINE ctr == [c \in DOMAIN d.ctr |->
                      IF c \in KeptByReset(d.prop.PUCCHFormat) THEN d.ctr[c] ELSE <<>>]
<1>1. /\ d.prop \in Properties
      /\ d.ctr \in [Counters(d.prop.PUCCHFormat) -> Seq(Entries)]
      /\ d = [prop |-> d.prop, SNRrange |-> d.SNRrange, ctr |-> d.ctr]
  BY DetailsParts
<1>2. ResetDetails(d) = [d EXCEPT !.SNRrange = <<>>, !.ctr = ctr]
  BY DEF ResetDetails
<1>3. ctr \in [Counters(d.prop.PUCCHFormat) -> Seq(Entries)]
  BY <1>1
<1> HIDE DEF ctr
<1>4. ResetDetails(d) = [prop |-> d.prop, SNRrange |-> <<>>, ctr |-> ctr]
  BY <1>1, <1>2
<1>5. <<>> \in Seq(SNRs)
  OBVIOUS
<1>6. IsDetails(ResetDetails(d))
  BY <1>1, <1>3, <1>4, <1>5 DEF IsDetails
<1> QED BY <1>4, <1>6 DEF ctr

\* A counter that is updated has one row per SNR value.
LEMMA CounterIsJoined ==
    ASSUME NEW d, IsDetails(d), NEW SNRIn \in Seq(SNRs), NEW nFrames \in Frames,
           NEW c \in UpdatedCounters(d, SNRIn, nFrames)
    PROVE  /\ c \in Counters(d.prop.PUCCHFormat)
           /\ Joins(d, c, SNRIn, nFrames) \in Seq(Entries)
           /\ DOMAIN Joins(d, c, SNRIn, nFrames) = DOMAIN NewRange(d.SNRrange, SNRIn)
PROOF
<1>1. /\ d.prop \in Properties /\ d.SNRrange \in Seq(Int)
      /\ d.ctr \in [Counters(d.prop.PUCCHFormat) -> Seq(Entries)]
  BY DetailsParts
<1>2. c \in Counters(d.prop.PUCCHFormat) /\ d.prop.PUCCHFormat \in 0..4
  BY <1>1, ExportedCounters DEF UpdatedCounters
<1>3. NewColumn(d, c, SNRIn, nFrames) \in Seq(Entries)
  BY <1>2, ColumnTypes DEF NewColumn
<1>4. ~Fails(d, c, SNRIn, nFrames)
  <2>1. PICK j \in DOMAIN Exported(d.prop) :
            /\ Exported(d.prop)[j] = c
            /\ \A i \in 1..j : ~Fails(d, Exported(d.prop)[i], SNRIn, nFrames)
    BY DEF UpdatedCounters
  <2>2. j \in 1..j
    BY <1>1, ExportedCounters
  <2> QED BY <2>1, <2>2
<1>5. SNRIn \in Seq(Int) /\ d.ctr[c] \in Seq(Entries)
  BY <1>1, <1>2, SeqOfInt
<1> QED BY <1>1, <1>2, <1>3, <1>4, <1>5, JoinTypes DEF Joins, Fails

\* updateCounters leaves arrays of the same configuration, even when it fails half way.
LEMMA UpdateKeepsDetails ==
    ASSUME NEW d, IsDetails(d), NEW SNRIn \in Seq(SNRs), NEW nFrames \in Frames
    PROVE  /\ IsDetails(UpdateOutcome(d, SNRIn, nFrames).details)
           /\ UpdateOutcome(d, SNRIn, nFrames).details.prop = d.prop
PROOF
<1> DEFINE e == UpdateOutcome(d, SNRIn, nFrames).details
           f == d.prop.PUCCHFormat
<1>1. /\ d.prop \in Properties /\ d.SNRrange \in Seq(SNRs)
      /\ d.ctr \in [Counters(f) -> Seq(Entries)]
  BY DetailsParts
<1>2. IsUpdate(d, SNRIn, nFrames, UpdateOutcome(d, SNRIn, nFrames))
  BY UpdateParts
<1>3. /\ e.SNRrange = NewRange(d.SNRrange, SNRIn)
      /\ e.ctr = [c \in DOMAIN d.ctr |->
            IF c \in UpdatedCounters(d, SNRIn, nFrames) THEN Joins(d, c, SNRIn, nFrames)
            ELSE d.ctr[c]]
      /\ e = [prop |-> d.prop, SNRrange |-> e.SNRrange, ctr |-> e.ctr]
      /\ e.prop = d.prop
  BY <1>2 DEF IsUpdate
<1>4. e.SNRrange \in Seq(SNRs)
  BY <1>1, <1>3, NewRangeIsSeq
<1>5. \A c \in UpdatedCounters(d, SNRIn, nFrames) : Joins(d, c, SNRIn, nFrames) \in Seq(Entries)
  BY CounterIsJoined
<1> HIDE DEF e
<1>6. e.ctr \in [Counters(f) -> Seq(Entries)]
  BY <1>1, <1>3, <1>5
<1>7. IsDetails(e)
  BY <1>1, <1>3, <1>4, <1>6 DEF IsDetails
<1> QED BY <1>3, <1>7 DEF e

-----------------------------------------------------------------------------
(***************************************************************************)
(* The first counter.                                                      *)
(***************************************************************************)

\* The SNR values are sorted, and the first counter has a row about each.
FirstFits(d) ==
    /\ Increasing(d.SNRrange)
    /\ DOMAIN d.ctr[FirstOf(d)] = DOMAIN d.SNRrange
    /\ \A i \in DOMAIN d.SNRrange : d.ctr[FirstOf(d)][i].snr = d.SNRrange[i]

\* updateCounters keeps the first counter in step with SNRrange: it never fails before it,
\* since the first counter is a column with the right number of rows.
LEMMA UpdateKeepsFirst ==
    ASSUME NEW d, IsDetails(d), FirstFits(d),
           NEW SNRIn \in Seq(SNRs), Increasing(SNRIn), NEW nFrames \in Frames
    PROVE  FirstFits(UpdateOutcome(d, SNRIn, nFrames).details)
PROOF
<1> DEFINE e == UpdateOutcome(d, SNRIn, nFrames).details
           c == FirstOf(d)
           array == d.ctr[c]
           new == NewColumn(d, c, SNRIn, nFrames)
           joined == Joins(d, c, SNRIn, nFrames)
           newRange == NewRange(d.SNRrange, SNRIn)
<1>1. /\ d.prop \in Properties /\ d.SNRrange \in Seq(Int)
      /\ d.ctr \in [Counters(d.prop.PUCCHFormat) -> Seq(Entries)]
      /\ SNRIn \in Seq(Int)
  BY DetailsParts, SeqOfInt
<1>2. /\ c \in Counters(d.prop.PUCCHFormat) /\ c \in Shown(d.prop)
      /\ Width(d.prop.PUCCHFormat, c, Len(SNRIn)) = 1 /\ d.prop.PUCCHFormat \in 0..4
  BY <1>1, ExportedCounters DEF FirstOf
<1>3. /\ new \in Seq(Entries) /\ Len(new) = Len(SNRIn)
      /\ \A k \in DOMAIN SNRIn : new[k].snr = SNRIn[k]
  <2>1. /\ Column(d.prop.PUCCHFormat, c, SNRIn, nFrames) \in Seq(Entries)
        /\ Len(Column(d.prop.PUCCHFormat, c, SNRIn, nFrames)) = Len(SNRIn)
        /\ \A k \in DOMAIN SNRIn : Column(d.prop.PUCCHFormat, c, SNRIn, nFrames)[k]
               = [quantity |-> Joined(d.prop.PUCCHFormat, c), snr |-> SNRIn[k],
                  nFrames |-> nFrames]
    BY <1>2, ColumnTypes
  <2>2. new = Column(d.prop.PUCCHFormat, c, SNRIn, nFrames)
    BY DEF NewColumn
  <2> HIDE DEF new, c
  <2>3. ASSUME NEW k \in DOMAIN SNRIn
        PROVE  new[k].snr = SNRIn[k]
    <3> DEFINE q == Joined(d.prop.PUCCHFormat, c)
    <3> HIDE DEF q
    <3>1. new[k] = [quantity |-> q, snr |-> SNRIn[k], nFrames |-> nFrames]
      BY <2>1, <2>2 DEF q
    <3> QED BY <3>1
  <2> QED BY <2>1, <2>2, <2>3
<1>4. array \in Seq(Entries) /\ DOMAIN array = DOMAIN d.SNRrange
  BY <1>1, <1>2 DEF FirstFits
<1>5. ~Fails(d, c, SNRIn, nFrames)
  <2>1. ~JoinFails(array, new, 1, RepeatedIdx(d.SNRrange, SNRIn), Order(d.SNRrange, SNRIn))
    BY <1>1, <1>3, <1>4, NoFail
  <2> QED BY <1>2, <2>1 DEF Fails
<1>6. c \in UpdatedCounters(d, SNRIn, nFrames)
  <2>1. 1 \in DOMAIN Exported(d.prop) /\ Exported(d.prop)[1] = c
    BY <1>1, ExportedCounters DEF FirstOf
  <2>2. \A i \in 1..1 : Exported(d.prop)[i] = c
    BY <2>1
  <2>3. \A i \in 1..1 : ~Fails(d, Exported(d.prop)[i], SNRIn, nFrames)
    BY <1>5, <2>2
  <2> QED BY <1>2, <2>1, <2>3 DEF UpdatedCounters
<1>7. /\ e.SNRrange = newRange /\ e.prop = d.prop /\ e.ctr[c] = joined /\ FirstOf(e) = c
  <2>1. IsUpdate(d, SNRIn, nFrames, UpdateOutcome(d, SNRIn, nFrames))
    BY UpdateParts
  <2>2. e.SNRrange = newRange /\ e.prop = d.prop
        /\ e.ctr = [b \in DOMAIN d.ctr |->
               IF b \in UpdatedCounters(d, SNRIn, nFrames) THEN Joins(d, b, SNRIn, nFrames)
               ELSE d.ctr[b]]
    BY <2>1 DEF IsUpdate
  <2> HIDE DEF e
  <2>3. e.ctr[c] = joined
    BY <1>1, <1>2, <1>6, <2>2
  <2> QED BY <2>2, <2>3 DEF FirstOf
<1>8. IsJoin(Entries, joined, d.SNRrange, SNRIn, array, new)
  <2>1. IsJoin(Entries, joinArrays(array, new, RepeatedIdx(d.SNRrange, SNRIn),
                                   Order(d.SNRrange, SNRIn)),
               d.SNRrange, SNRIn, array, new)
    BY <1>1, <1>3, <1>4, RowsAreJoined
  <2> QED BY <2>1 DEF Joins
<1>9. Increasing(newRange)
  BY <1>1, NewRangeIsSorted DEF FirstFits
<1>10. \A k \in DOMAIN d.SNRrange : array[k].snr = d.SNRrange[k]
  BY DEF FirstFits
<1> HIDE DEF e, array, new, joined, newRange, c
<1>11. ASSUME NEW i \in DOMAIN newRange
       PROVE  joined[i].snr = newRange[i]
  BY <1>3, <1>8, <1>10 DEF IsJoin, newRange
<1>12. DOMAIN joined = DOMAIN newRange
  BY <1>8 DEF IsJoin, newRange
<1> QED BY <1>7, <1>9, <1>11, <1>12 DEF FirstFits, e

\* New arrays are empty.
LEMMA NewFitsFirst ==
    ASSUME NEW p \in Properties
    PROVE  FirstFits(NewDetails(p))
PROOF
<1>1. Exported(p)[1] \in Counters(p.PUCCHFormat)
  BY ExportedCounters
<1> QED BY <1>1 DEF FirstFits, NewDetails, FirstOf, Increasing

\* reset empties the first counter along with SNRrange.
LEMMA ResetKeepsFirst ==
    ASSUME NEW d, IsDetails(d)
    PROVE  FirstFits(ResetDetails(d))
PROOF
<1> DEFINE e == ResetDetails(d)
<1>1. /\ d.prop \in Properties
      /\ d.ctr \in [Counters(d.prop.PUCCHFormat) -> Seq(Entries)]
  BY DetailsParts
<1>2. /\ FirstOf(d) \in Counters(d.prop.PUCCHFormat)
      /\ FirstOf(d) \notin KeptByReset(d.prop.PUCCHFormat)
  BY <1>1, ExportedCounters DEF FirstOf
<1>3. /\ e.prop = d.prop /\ e.SNRrange = <<>>
      /\ e.ctr = [c \in DOMAIN d.ctr |->
             IF c \in KeptByReset(d.prop.PUCCHFormat) THEN d.ctr[c] ELSE <<>>]
  BY ResetParts
<1> HIDE DEF e
<1>4. FirstOf(e) = FirstOf(d) /\ e.ctr[FirstOf(d)] = <<>>
  BY <1>1, <1>2, <1>3 DEF FirstOf
<1> QED BY <1>3, <1>4 DEF FirstFits, Increasing, e

-----------------------------------------------------------------------------
(***************************************************************************)
(* Counters that are long enough.                                          *)
(***************************************************************************)

\* No counter is shorter than SNRrange (NACK2ACKs of Format 1, which reset keeps, may be
\* longer).
LongEnough(d) == \A c \in Shown(d.prop) : DOMAIN d.SNRrange \subseteq DOMAIN d.ctr[c]

\* Statistics are columns, except those of several SNR values with Formats 2 to 4.
LEMMA WidthIsOne ==
    ASSUME NEW f \in 0..4, NEW k, f >= 2 => k = 1, NEW c
    PROVE  Width(f, c, k) = 1
BY DEF Width

\* On counters that are long enough, updateCounters updates all of them, and they stay long
\* enough.
LEMMA UpdateSucceeds ==
    ASSUME NEW d, IsDetails(d), LongEnough(d),
           NEW SNRIn \in Seq(SNRs), d.prop.PUCCHFormat >= 2 => Len(SNRIn) = 1,
           NEW nFrames \in Frames
    PROVE  /\ UpdatedCounters(d, SNRIn, nFrames) = Shown(d.prop)
           /\ ~UpdateOutcome(d, SNRIn, nFrames).failed
           /\ LongEnough(UpdateOutcome(d, SNRIn, nFrames).details)
           /\ \A c \in Shown(d.prop) :
                  UpdateOutcome(d, SNRIn, nFrames).details.ctr[c] = Joins(d, c, SNRIn, nFrames)
PROOF
<1> DEFINE e == UpdateOutcome(d, SNRIn, nFrames).details
           names == Exported(d.prop)
<1>1. /\ d.prop \in Properties /\ d.SNRrange \in Seq(Int)
      /\ d.ctr \in [Counters(d.prop.PUCCHFormat) -> Seq(Entries)]
      /\ SNRIn \in Seq(Int)
  BY DetailsParts, SeqOfInt
<1>2. /\ Shown(d.prop) \subseteq Counters(d.prop.PUCCHFormat) /\ d.prop.PUCCHFormat \in 0..4
      /\ DOMAIN names \subseteq Nat \ {0}
  BY <1>1, ExportedCounters
<1>3. ASSUME NEW c \in Shown(d.prop)
      PROVE  ~Fails(d, c, SNRIn, nFrames)
  <2>1. Width(d.prop.PUCCHFormat, c, Len(SNRIn)) = 1
    BY <1>2, WidthIsOne
  <2>2. NewColumn(d, c, SNRIn, nFrames) \in Seq(Entries)
        /\ Len(NewColumn(d, c, SNRIn, nFrames)) = Len(SNRIn)
    BY <1>2, ColumnTypes DEF NewColumn
  <2>3. d.ctr[c] \in Seq(Entries) /\ DOMAIN d.SNRrange \subseteq DOMAIN d.ctr[c]
    BY <1>1, <1>2 DEF LongEnough
  <2>4. ~JoinFails(d.ctr[c], NewColumn(d, c, SNRIn, nFrames), 1,
                   RepeatedIdx(d.SNRrange, SNRIn), Order(d.SNRrange, SNRIn))
    BY <1>1, <2>2, <2>3, NoFail
  <2> QED BY <2>1, <2>4 DEF Fails
<1>4. ASSUME NEW c \in Shown(d.prop)
      PROVE  c \in UpdatedCounters(d, SNRIn, nFrames)
  <2>1. PICK j \in DOMAIN names : c = names[j]
    BY DEF Shown
  <2>2. \A i \in 1..j : i \in DOMAIN names
    <3>1. names \in Seq(Counters(d.prop.PUCCHFormat))
      BY <1>1, ExportedCounters
    <3>2. DOMAIN names = 1..Len(names) /\ Len(names) \in Nat
      BY <3>1
    <3> QED BY <3>2
  <2>3. \A i \in 1..j : names[i] \in Shown(d.prop)
    BY <2>2 DEF Shown
  <2>4. \A i \in 1..j : ~Fails(d, names[i], SNRIn, nFrames)
    BY <1>3, <2>3
  <2> QED BY <2>1, <2>4 DEF UpdatedCounters
<1>5. UpdatedCounters(d, SNRIn, nFrames) = Shown(d.prop)
  BY <1>4 DEF UpdatedCounters
<1>6. IsUpdate(d, SNRIn, nFrames, UpdateOutcome(d, SNRIn, nFrames))
  BY UpdateParts
<1>7. ~UpdateOutcome(d, SNRIn, nFrames).failed
  BY <1>5, <1>6 DEF IsUpdate
<1>8. e.prop = d.prop /\ e.SNRrange = NewRange(d.SNRrange, SNRIn)
      /\ e.ctr = [c \in DOMAIN d.ctr |->
               IF c \in UpdatedCounters(d, SNRIn, nFrames) THEN Joins(d, c, SNRIn, nFrames)
               ELSE d.ctr[c]]
  BY <1>6 DEF IsUpdate
<1> HIDE DEF e
<1>9. \A c \in Shown(d.prop) : e.ctr[c] = Joins(d, c, SNRIn, nFrames)
  BY <1>1, <1>2, <1>5, <1>8
<1>10. \A c \in Shown(d.prop) : DOMAIN e.ctr[c] = DOMAIN e.SNRrange
  BY <1>4, <1>8, <1>9, CounterIsJoined
<1>11. LongEnough(e)
  BY <1>8, <1>10 DEF LongEnough
<1> QED BY <1>5, <1>7, <1>9, <1>11 DEF e

-----------------------------------------------------------------------------
(***************************************************************************)
(* Handles and types.                                                      *)
(***************************************************************************)

\* Some object holds handle h; an object other than o does.
Held(h) == \E o \in Objects : FormatDetailsOf[o] = h

HeldByOther(o, h) == \E y \in Objects \ {o} : FormatDetailsOf[y] = h

\* There is a handle for a new object: fewer handles are held by the others than there are
\* objects.
LEMMA NewHandleIsFree ==
    ASSUME NEW o \in Objects
    PROVE  NewHandle(o) \in Handles /\ ~HeldByOther(o, NewHandle(o))
PROOF
<1> DEFINE others == Objects \ {o}
           used == {FormatDetailsOf[y] : y \in others}
<1>1. IsFiniteSet(others) /\ Cardinality(others) = Cardinality(Objects) - 1
  BY ObjectsAssumption, FS_RemoveElement
<1>2. IsFiniteSet(used) /\ Cardinality(used) <= Cardinality(others)
  <2> DEFINE f == [y \in others |-> FormatDetailsOf[y]]
  <2>1. f \in Surjection(others, used)
    BY DEF Surjection
  <2> HIDE DEF f, used, others
  <2> QED BY <1>1, <2>1, FS_Surjection
<1>3. ~(Objects \subseteq used)
  <2>1. SUFFICES ASSUME Objects \subseteq used PROVE FALSE
    OBVIOUS
  <2> HIDE DEF used, others
  <2>2. Cardinality(Objects) <= Cardinality(used)
    BY <1>2, <2>1, FS_Subset
  <2>3. Cardinality(Objects) \in Nat /\ Cardinality(used) \in Nat /\ Cardinality(others) \in Nat
    BY <1>1, <1>2, ObjectsAssumption, FS_CardinalityType
  <2> QED BY <1>1, <1>2, <2>2, <2>3
<1>4. \E h \in Handles : \A y \in others : FormatDetailsOf[y] # h
  BY <1>3 DEF Handles
<1>5. NewHandle(o) = CHOOSE h \in Handles : \A y \in others : FormatDetailsOf[y] # h
  BY DEF NewHandle
<1>6. NewHandle(o) \in Handles /\ \A y \in others : FormatDetailsOf[y] # NewHandle(o)
  BY <1>4, <1>5
<1> QED BY <1>6 DEF HeldByOther

\* TypeOK, by what the lemmas below use of it.
LEMMA TypeParts ==
    ASSUME TypeOK
    PROVE  /\ prop \in [Objects -> UserProperties] /\ prop \in [Objects -> Properties]
           /\ locked \in [Objects -> BOOLEAN]
           /\ FormatDetailsOf \in [Objects -> Handles \cup {NoHandle}]
           /\ DOMAIN heap = Handles
           /\ NoHandle \notin Handles
           /\ \A h \in Handles : Held(h) => IsDetails(heap[h]) /\ heap[h] # NoDetails
           /\ \A h \in Handles : ~Held(h) => heap[h] = NoDetails
           /\ \A o \in Objects : locked[o] =>
                  /\ FormatDetailsOf[o] \in Handles /\ Held(FormatDetailsOf[o])
                  /\ heap[FormatDetailsOf[o]].prop = prop[o]
PROOF
<1>1. prop \in [Objects -> Properties] /\ NoHandle \notin Handles
  BY UserPropertiesAssumption, ObjectsAssumption DEF TypeOK, Handles
<1>2. \A h \in Handles : Held(h) => IsDetails(heap[h]) /\ heap[h] # NoDetails
  BY NoDetailsAssumption DEF TypeOK, Held
<1>3. \A h \in Handles : ~Held(h) => heap[h] = NoDetails
  BY DEF TypeOK, Held
<1>4. ASSUME NEW o \in Objects, locked[o]
      PROVE  /\ FormatDetailsOf[o] \in Handles /\ Held(FormatDetailsOf[o])
             /\ heap[FormatDetailsOf[o]].prop = prop[o]
  BY <1>4 DEF TypeOK, DetailsFit, Held
<1> QED BY <1>1, <1>2, <1>3, <1>4 DEF TypeOK

\* The handles after Assign: o holds h, the others what they held.
AssignKeeps(o, h, d) ==
    /\ FormatDetailsOf' \in [Objects -> Handles \cup {NoHandle}]
    /\ FormatDetailsOf'[o] = h
    /\ \A y \in Objects \ {o} : FormatDetailsOf'[y] = FormatDetailsOf[y]
    /\ DOMAIN heap' = Handles
    /\ h \in Handles => heap'[h] = d
    /\ \A x \in Handles : x # h /\ HeldByOther(o, x) => heap'[x] = heap[x]
    /\ \A x \in Handles : x # h /\ ~HeldByOther(o, x) => heap'[x] = NoDetails
    /\ \A x \in Handles : Held(x)' <=> (x = h \/ HeldByOther(o, x))

\* What Assign does.
LEMMA AssignParts ==
    ASSUME TypeOK, NEW o \in Objects, NEW h \in Handles \cup {NoHandle}, NEW d, Assign(o, h, d)
    PROVE  AssignKeeps(o, h, d)
PROOF
<1>1. /\ FormatDetailsOf \in [Objects -> Handles \cup {NoHandle}]
      /\ FormatDetailsOf' = [FormatDetailsOf EXCEPT ![o] = h]
  BY DEF TypeOK, Assign
<1>2. /\ FormatDetailsOf' \in [Objects -> Handles \cup {NoHandle}]
      /\ FormatDetailsOf'[o] = h
      /\ \A y \in Objects \ {o} : FormatDetailsOf'[y] = FormatDetailsOf[y]
  BY <1>1
<1>3. heap' = [x \in Handles |->
            IF x = h THEN d ELSE IF HeldByOther(o, x) THEN heap[x] ELSE NoDetails]
  BY DEF Assign, HeldByOther
<1>4. ASSUME NEW x \in Handles
      PROVE  Held(x)' <=> (x = h \/ HeldByOther(o, x))
  BY <1>2 DEF Held, HeldByOther
<1>5. /\ DOMAIN heap' = Handles
      /\ h \in Handles => heap'[h] = d
      /\ \A x \in Handles : x # h /\ HeldByOther(o, x) => heap'[x] = heap[x]
      /\ \A x \in Handles : x # h /\ ~HeldByOther(o, x) => heap'[x] = NoDetails
  BY <1>3
<1> QED BY <1>2, <1>4, <1>5 DEF AssignKeeps

\* A handle that another object holds is held.
LEMMA OthersHold ==
    ASSUME NEW o \in Objects, NEW x, HeldByOther(o, x)
    PROVE  Held(x)
BY DEF Held, HeldByOther

\* What TypeOK says after Assign; h is no handle, new, or refers to d already.
LEMMA AssignKeepsTypes ==
    ASSUME TypeOK, NEW o \in Objects, NEW h \in Handles \cup {NoHandle}, NEW d, Assign(o, h, d),
           h \in Handles => IsDetails(d),
           \/ h \notin Handles
           \/ ~HeldByOther(o, h)
           \/ heap[h] = d,
           prop' \in [Objects -> UserProperties], locked' \in [Objects -> BOOLEAN],
           call' \in [obj : Objects, end : Ends],
           \A y \in Objects \ {o} : prop'[y] = prop[y] /\ locked'[y] = locked[y],
           locked'[o] => h \in Handles /\ d.prop = prop'[o]
    PROVE  TypeOK'
PROOF
<1>1. AssignKeeps(o, h, d)
  BY AssignParts
<1>2. /\ FormatDetailsOf' \in [Objects -> Handles \cup {NoHandle}]
      /\ FormatDetailsOf'[o] = h
      /\ \A y \in Objects \ {o} : FormatDetailsOf'[y] = FormatDetailsOf[y]
      /\ DOMAIN heap' = Handles
      /\ h \in Handles => heap'[h] = d
      /\ \A x \in Handles : x # h /\ HeldByOther(o, x) => heap'[x] = heap[x]
      /\ \A x \in Handles : x # h /\ ~HeldByOther(o, x) => heap'[x] = NoDetails
      /\ \A x \in Handles : Held(x)' <=> (x = h \/ HeldByOther(o, x))
  BY <1>1 DEF AssignKeeps
<1>3. ASSUME NEW x \in Handles
      PROVE  IF \E y \in Objects : FormatDetailsOf'[y] = x
             THEN IsDetails(heap'[x]) ELSE heap'[x] = NoDetails
  <2>1. Held(x)' <=> \E y \in Objects : FormatDetailsOf'[y] = x
    BY DEF Held
  <2>2. CASE x = h
    BY <1>2, <2>1, <2>2
  <2>3. CASE x # h /\ HeldByOther(o, x)
    <3>1. IsDetails(heap[x])
      BY <2>3, OthersHold, TypeParts
    <3> QED BY <1>2, <2>1, <2>3, <3>1
  <2>4. CASE x # h /\ ~HeldByOther(o, x)
    BY <1>2, <2>1, <2>4
  <2> QED BY <2>2, <2>3, <2>4
<1>4. ASSUME NEW y \in Objects, locked'[y]
      PROVE  FormatDetailsOf'[y] # NoHandle /\ heap'[FormatDetailsOf'[y]].prop = prop'[y]
  <2>0. NoHandle \notin Handles
    BY TypeParts
  <2>1. CASE y = o
    BY <1>2, <1>4, <2>0, <2>1
  <2>2. CASE y # o
    <3> DEFINE x == FormatDetailsOf[y]
    <3>1. locked[y] /\ FormatDetailsOf'[y] = x /\ prop'[y] = prop[y]
      BY <1>2, <1>4, <2>2
    <3>2. x \in Handles /\ heap[x].prop = prop[y]
      BY <3>1, TypeParts
    <3>3. HeldByOther(o, x)
      BY <2>2 DEF HeldByOther
    <3>4. heap'[x] = heap[x]
      BY <1>2, <3>2, <3>3
    <3> QED BY <2>0, <3>1, <3>2, <3>4
  <2> QED BY <2>1, <2>2
<1>5. DetailsFit'
  BY <1>4 DEF DetailsFit
<1> QED BY <1>2, <1>3, <1>5 DEF TypeOK

\* At first no object is locked, and none holds a handle.
LEMMA TypeInit ==
    ASSUME Init
    PROVE  TypeOK
PROOF
<1>1. (CHOOSE o \in Objects : TRUE) \in Objects
  BY ObjectsAssumption
<1>2. call \in [obj : Objects, end : Ends]
  BY <1>1 DEF Init, Ends
<1>3. \A h \in Handles : heap[h] = NoDetails /\ ~(\E o \in Objects : FormatDetailsOf[o] = h)
  BY ObjectsAssumption DEF Init, Handles
<1>4. DetailsFit
  BY DEF DetailsFit, Init
<1>5. /\ prop \in [Objects -> UserProperties] /\ locked \in [Objects -> BOOLEAN]
      /\ FormatDetailsOf \in [Objects -> Handles \cup {NoHandle}] /\ DOMAIN heap = Handles
  BY DEF Init
<1> QED BY <1>2, <1>3, <1>4, <1>5 DEF TypeOK

\* The record of a call has its type.
LEMMA CalledType ==
    ASSUME NEW o \in Objects, NEW end \in Ends, Called(o, end)
    PROVE  call' \in [obj : Objects, end : Ends]
BY DEF Called

\* Details change under the handle of a locked object; everything else stays.
LEMMA ChangeKeepsTypes ==
    ASSUME TypeOK, NEW o \in Objects, locked[o], NEW d, IsDetails(d), d.prop = prop[o],
           heap' = [heap EXCEPT ![FormatDetailsOf[o]] = d],
           call' \in [obj : Objects, end : Ends],
           UNCHANGED <<prop, locked, FormatDetailsOf>>
    PROVE  TypeOK'
PROOF
<1> DEFINE h == FormatDetailsOf[o]
<1>1. h \in Handles /\ Held(h) /\ heap[h].prop = prop[o] /\ DOMAIN heap = Handles
  BY TypeParts
<1>2. heap'[h] = d /\ \A x \in Handles : x # h => heap'[x] = heap[x]
  BY <1>1
<1>3. ASSUME NEW x \in Handles
      PROVE  IF \E y \in Objects : FormatDetailsOf'[y] = x
             THEN IsDetails(heap'[x]) ELSE heap'[x] = NoDetails
  BY <1>1, <1>2 DEF TypeOK, Held
<1>4. ASSUME NEW y \in Objects, locked'[y]
      PROVE  FormatDetailsOf'[y] # NoHandle /\ heap'[FormatDetailsOf'[y]].prop = prop'[y]
  <2>1. locked[y] /\ FormatDetailsOf'[y] = FormatDetailsOf[y] /\ prop'[y] = prop[y]
    BY <1>4
  <2>2. FormatDetailsOf[y] \in Handles /\ heap[FormatDetailsOf[y]].prop = prop[y]
        /\ NoHandle \notin Handles
    BY <2>1, TypeParts
  <2>3. CASE FormatDetailsOf[y] = h
    BY <1>1, <1>2, <2>1, <2>2, <2>3
  <2>4. CASE FormatDetailsOf[y] # h
    BY <1>2, <2>1, <2>2, <2>4
  <2> QED BY <2>3, <2>4
<1>5. DetailsFit'
  BY <1>4 DEF DetailsFit
<1>6. DOMAIN heap' = Handles
  BY <1>1
<1> QED BY <1>3, <1>5, <1>6 DEF TypeOK

\* Setting properties keeps TypeOK: a locked object would no longer fit its details.
LEMMA ConfigureTypes ==
    ASSUME TypeOK, NEW o \in Objects, NEW p \in UserProperties, Configure(o, p)
    PROVE  TypeOK'
PROOF
<1>1. prop' = [prop EXCEPT ![o] = p] /\ prop \in [Objects -> UserProperties] /\ ~locked[o]
      /\ UNCHANGED <<locked, FormatDetailsOf, heap>>
  BY DEF Configure, TypeOK
<1>2. prop' \in [Objects -> UserProperties] /\ \A y \in Objects \ {o} : prop'[y] = prop[y]
  BY <1>1
<1>3. call' \in [obj : Objects, end : Ends]
  BY CalledType DEF Configure, Ends
<1>4. DetailsFit'
  BY <1>1, <1>2 DEF DetailsFit, TypeOK
<1> QED BY <1>1, <1>2, <1>3, <1>4 DEF TypeOK

\* setupImpl only changes the type of test.
LEMMA TestTypeSetKeeps ==
    ASSUME NEW p \in Properties
    PROVE  TestTypeSet(p) \in Properties /\ TestTypeSet(p).checksOK = p.checksOK
           /\ TestTypeSet(p).PUCCHFormat = p.PUCCHFormat
BY DEF TestTypeSet, Properties

\* Setup keeps TypeOK.
LEMMA SetupTypes ==
    ASSUME TypeOK, NEW o \in Objects, Setup(o)
    PROVE  TypeOK'
PROOF
<1> DEFINE h == NewHandle(o)
           d == NewDetails(prop'[o])
<1>1. prop \in [Objects -> UserProperties] /\ locked \in [Objects -> BOOLEAN]
      /\ prop \in [Objects -> Properties]
  BY TypeParts
<1>2. /\ prop' = [prop EXCEPT ![o] = TestTypeSet(prop[o])]
      /\ locked' = [locked EXCEPT ![o] = prop[o].checksOK]
      /\ Assign(o, h, d)
  BY DEF Setup
<1>3. TestTypeSet(prop[o]) \in UserProperties /\ TestTypeSet(prop[o]) \in Properties
  BY <1>1, UserPropertiesAssumption, TestTypeSetKeeps
<1>4. prop[o].checksOK \in BOOLEAN
  BY <1>1 DEF Properties
<1>5. /\ prop' \in [Objects -> UserProperties] /\ prop'[o] \in Properties
      /\ locked' \in [Objects -> BOOLEAN]
      /\ \A y \in Objects \ {o} : prop'[y] = prop[y] /\ locked'[y] = locked[y]
  BY <1>1, <1>2, <1>3, <1>4
<1>6. h \in Handles /\ ~HeldByOther(o, h)
  BY NewHandleIsFree
<1>7. IsDetails(d) /\ d.prop = prop'[o]
  BY <1>5, NewDetailsFit
<1>8. call' \in [obj : Objects, end : Ends]
  BY CalledType DEF Setup, Ends
<1> HIDE DEF h, d
<1> QED BY <1>2, <1>5, <1>6, <1>7, <1>8, AssignKeepsTypes

\* A call of step keeps TypeOK.
LEMMA StepTypes ==
    ASSUME TypeOK, NEW o \in Objects, NEW S \in SNRLists[prop[o].PUCCHFormat],
           NEW nFrames \in Frames, Step(o, Unique(S), nFrames)
    PROVE  TypeOK'
PROOF
<1> DEFINE d == heap[FormatDetailsOf[o]]
           out == UpdateOutcome(d, Unique(S), nFrames)
<1>1. /\ locked[o] /\ heap' = [heap EXCEPT ![FormatDetailsOf[o]] = out.details]
      /\ UNCHANGED <<prop, locked, FormatDetailsOf>>
  BY DEF Step
<1>2. IsDetails(d) /\ d.prop = prop[o] /\ prop[o] \in Properties
  BY <1>1, TypeParts
<1>3. Unique(S) \in Seq(SNRs)
  BY <1>2, UniqueValues DEF Properties
<1>4. IsDetails(out.details) /\ out.details.prop = prop[o]
  BY <1>2, <1>3, UpdateKeepsDetails
<1>5. call' \in [obj : Objects, end : Ends]
  <2>1. Called(o, IF out.failed THEN "failed" ELSE "ok")
    BY DEF Step
  <2> QED BY <2>1, CalledType DEF Ends
<1> HIDE DEF out
<1> QED BY <1>1, <1>4, <1>5, ChangeKeepsTypes

\* Reset keeps TypeOK.
LEMMA ResetTypes ==
    ASSUME TypeOK, NEW o \in Objects, Reset(o)
    PROVE  TypeOK'
PROOF
<1> DEFINE d == heap[FormatDetailsOf[o]]
<1>1. /\ locked[o] /\ heap' = [heap EXCEPT ![FormatDetailsOf[o]] = ResetDetails(d)]
      /\ UNCHANGED <<prop, locked, FormatDetailsOf>>
  BY DEF Reset
<1>2. IsDetails(d) /\ d.prop = prop[o]
  BY <1>1, TypeParts
<1>3. IsDetails(ResetDetails(d)) /\ ResetDetails(d).prop = prop[o]
  BY <1>2, ResetParts
<1>4. call' \in [obj : Objects, end : Ends]
  BY CalledType DEF Reset, Ends
<1> QED BY <1>1, <1>3, <1>4, ChangeKeepsTypes

\* What Release does; other objects that hold the handle keep it.
LEMMA ReleaseParts ==
    ASSUME TypeOK, NEW o \in Objects, Release(o)
    PROVE  /\ locked[o] /\ UNCHANGED prop
           /\ locked' = [locked EXCEPT ![o] = FALSE]
           /\ FormatDetailsOf' = [FormatDetailsOf EXCEPT ![o] = NoHandle]
           /\ DOMAIN heap' = Handles
           /\ heap'[FormatDetailsOf[o]] =
                  IF HeldByOther(o, FormatDetailsOf[o])
                  THEN ResetDetails(heap[FormatDetailsOf[o]]) ELSE NoDetails
           /\ \A x \in Handles : x # FormatDetailsOf[o] => heap'[x] = heap[x]
           /\ \A x \in Handles : Held(x)' <=> HeldByOther(o, x)
           /\ \A x \in Handles : x # FormatDetailsOf[o] => (Held(x) <=> HeldByOther(o, x))
PROOF
<1>1. locked[o]
  BY DEF Release
<1>2. FormatDetailsOf[o] \in Handles /\ DOMAIN heap = Handles /\ NoHandle \notin Handles
      /\ FormatDetailsOf \in [Objects -> Handles \cup {NoHandle}]
  BY <1>1, TypeParts
<1>3. heap' = [heap EXCEPT ![FormatDetailsOf[o]] =
            IF HeldByOther(o, FormatDetailsOf[o])
            THEN ResetDetails(heap[FormatDetailsOf[o]]) ELSE NoDetails]
  BY DEF Release, HeldByOther
<1>4. FormatDetailsOf' = [FormatDetailsOf EXCEPT ![o] = NoHandle]
  BY DEF Release
<1>5. \A x \in Handles : Held(x)' <=> HeldByOther(o, x)
  BY <1>2, <1>4 DEF Held, HeldByOther
<1>6. \A x \in Handles : x # FormatDetailsOf[o] => (Held(x) <=> HeldByOther(o, x))
  BY DEF Held, HeldByOther
<1>7. /\ DOMAIN heap' = Handles
      /\ heap'[FormatDetailsOf[o]] =
                  IF HeldByOther(o, FormatDetailsOf[o])
                  THEN ResetDetails(heap[FormatDetailsOf[o]]) ELSE NoDetails
      /\ \A x \in Handles : x # FormatDetailsOf[o] => heap'[x] = heap[x]
  BY <1>2, <1>3
<1> QED BY <1>1, <1>4, <1>5, <1>6, <1>7 DEF Release

\* Release keeps TypeOK.
LEMMA ReleaseTypes ==
    ASSUME TypeOK, NEW o \in Objects, Release(o)
    PROVE  TypeOK'
PROOF
<1> DEFINE h == FormatDetailsOf[o]
<1>1. /\ locked[o] /\ UNCHANGED prop
      /\ locked' = [locked EXCEPT ![o] = FALSE]
      /\ FormatDetailsOf' = [FormatDetailsOf EXCEPT ![o] = NoHandle]
      /\ DOMAIN heap' = Handles
      /\ heap'[h] = IF HeldByOther(o, h) THEN ResetDetails(heap[h]) ELSE NoDetails
      /\ \A x \in Handles : x # h => heap'[x] = heap[x]
      /\ \A x \in Handles : Held(x)' <=> HeldByOther(o, x)
      /\ \A x \in Handles : x # h => (Held(x) <=> HeldByOther(o, x))
  BY ReleaseParts
<1>2. /\ h \in Handles /\ Held(h) /\ IsDetails(heap[h])
      /\ IsDetails(ResetDetails(heap[h])) /\ ResetDetails(heap[h]).prop = heap[h].prop
  BY <1>1, TypeParts, ResetParts
<1>3. ASSUME NEW x \in Handles
      PROVE  IF \E y \in Objects : FormatDetailsOf'[y] = x
             THEN IsDetails(heap'[x]) ELSE heap'[x] = NoDetails
  <2>1. Held(x)' <=> \E y \in Objects : FormatDetailsOf'[y] = x
    BY DEF Held
  <2>2. CASE x = h
    BY <1>1, <1>2, <2>1, <2>2
  <2>3. CASE x # h
    <3>1. (Held(x) => IsDetails(heap[x])) /\ (~Held(x) => heap[x] = NoDetails)
      BY TypeParts
    <3> QED BY <1>1, <2>1, <2>3, <3>1
  <2> QED BY <2>2, <2>3
<1>4. ASSUME NEW y \in Objects, locked'[y]
      PROVE  FormatDetailsOf'[y] # NoHandle /\ heap'[FormatDetailsOf'[y]].prop = prop'[y]
  <2> DEFINE x == FormatDetailsOf[y]
  <2>1. y # o /\ locked[y] /\ FormatDetailsOf'[y] = x /\ prop'[y] = prop[y]
    BY <1>1, <1>4 DEF TypeOK
  <2>2. x \in Handles /\ heap[x].prop = prop[y] /\ NoHandle \notin Handles
    BY <2>1, TypeParts
  <2>3. HeldByOther(o, x)
    BY <2>1 DEF HeldByOther
  <2>4. CASE x = h
    BY <1>1, <1>2, <2>1, <2>2, <2>3, <2>4
  <2>5. CASE x # h
    BY <1>1, <2>1, <2>2, <2>5
  <2> QED BY <2>4, <2>5
<1>5. DetailsFit'
  BY <1>4 DEF DetailsFit
<1>6. /\ FormatDetailsOf' \in [Objects -> Handles \cup {NoHandle}]
      /\ locked' \in [Objects -> BOOLEAN] /\ prop' \in [Objects -> UserProperties]
  BY <1>1 DEF TypeOK
<1>7. call' \in [obj : Objects, end : Ends]
  BY CalledType DEF Release, Ends
<1> QED BY <1>1, <1>3, <1>5, <1>6, <1>7 DEF TypeOK

\* A copy takes the properties of src and whether it is locked.
LEMMA CopyTypes ==
    ASSUME TypeOK, NEW o \in Objects, NEW src \in Objects \ {o}, CopyState(o, src)
    PROVE  /\ prop' \in [Objects -> UserProperties] /\ locked' \in [Objects -> BOOLEAN]
           /\ prop'[o] = prop[src] /\ locked'[o] = locked[src]
           /\ \A y \in Objects \ {o} : prop'[y] = prop[y] /\ locked'[y] = locked[y]
           /\ call' \in [obj : Objects, end : Ends]
PROOF
<1>1. /\ prop' = [prop EXCEPT ![o] = prop[src]] /\ locked' = [locked EXCEPT ![o] = locked[src]]
      /\ prop \in [Objects -> UserProperties] /\ locked \in [Objects -> BOOLEAN]
  BY DEF CopyState, TypeOK
<1>2. call' \in [obj : Objects, end : Ends]
  BY CalledType DEF CopyState, Ends
<1> QED BY <1>1, <1>2

\* Object o takes a handle h for the details of src, which is locked.
LEMMA TakeTypes ==
    ASSUME TypeOK, NEW o \in Objects, NEW src \in Objects \ {o}, CopyState(o, src),
           locked[src],
           NEW h \in Handles, h = FormatDetailsOf[src] \/ ~HeldByOther(o, h),
           Assign(o, h, heap[FormatDetailsOf[src]])
    PROVE  TypeOK'
PROOF
<1> DEFINE d == heap[FormatDetailsOf[src]]
<1>1. IsDetails(d) /\ d.prop = prop[src]
  BY TypeParts
<1>2. /\ prop' \in [Objects -> UserProperties] /\ locked' \in [Objects -> BOOLEAN]
      /\ prop'[o] = prop[src]
      /\ \A y \in Objects \ {o} : prop'[y] = prop[y] /\ locked'[y] = locked[y]
      /\ call' \in [obj : Objects, end : Ends]
  BY CopyTypes
<1>3. ~HeldByOther(o, h) \/ heap[h] = d
  OBVIOUS
<1> HIDE DEF d
<1>4. Assign(o, h, d)
  BY DEF d
<1> QED BY <1>1, <1>2, <1>3, <1>4, AssignKeepsTypes

\* Object o takes no handle, as src has none to give.
LEMMA DropTypes ==
    ASSUME TypeOK, NEW o \in Objects, NEW src \in Objects \ {o}, CopyState(o, src),
           ~locked[src],
           Assign(o, NoHandle, NoDetails)
    PROVE  TypeOK'
PROOF
<1>1. NoHandle \notin Handles
  BY TypeParts
<1>2. /\ prop' \in [Objects -> UserProperties] /\ locked' \in [Objects -> BOOLEAN]
      /\ locked'[o] = locked[src]
      /\ \A y \in Objects \ {o} : prop'[y] = prop[y] /\ locked'[y] = locked[y]
      /\ call' \in [obj : Objects, end : Ends]
  BY CopyTypes
<1> QED BY <1>1, <1>2, AssignKeepsTypes

\* Loading a saved object keeps TypeOK.
LEMMA ReloadTypes ==
    ASSUME TypeOK, NEW o \in Objects, NEW src \in Objects \ {o}, Reload(o, src)
    PROVE  TypeOK'
PROOF
<1>1. CASE locked[src]
  <2>1. NewHandle(o) \in Handles /\ ~HeldByOther(o, NewHandle(o))
    BY NewHandleIsFree
  <2>2. CopyState(o, src) /\ Assign(o, NewHandle(o), heap[FormatDetailsOf[src]])
    BY <1>1 DEF Reload
  <2> QED BY <1>1, <2>1, <2>2, TakeTypes
<1>2. CASE ~locked[src]
  <2>1. CopyState(o, src) /\ Assign(o, NoHandle, NoDetails)
    BY <1>2 DEF Reload
  <2> QED BY <1>2, <2>1, DropTypes
<1> QED BY <1>1, <1>2

\* Cloning keeps TypeOK.
LEMMA CloneTypes ==
    ASSUME TypeOK, NEW o \in Objects, NEW src \in Objects \ {o}, Clone(o, src)
    PROVE  TypeOK'
PROOF
<1>1. CASE locked[src]
  <2>1. FormatDetailsOf[src] \in Handles
    BY <1>1, TypeParts
  <2>2. CopyState(o, src) /\ Assign(o, FormatDetailsOf[src], heap[FormatDetailsOf[src]])
    BY <1>1 DEF Clone
  <2> QED BY <1>1, <2>1, <2>2, TakeTypes
<1>2. CASE ~locked[src]
  <2>1. CopyState(o, src) /\ Assign(o, NoHandle, NoDetails)
    BY <1>2 DEF Clone
  <2> QED BY <1>2, <2>1, DropTypes
<1> QED BY <1>1, <1>2

\* Every step keeps TypeOK.
LEMMA NextTypes ==
    ASSUME TypeOK, [Next]_vars
    PROVE  TypeOK'
PROOF
<1>1. ASSUME NEW o \in Objects, Call(o)
      PROVE  TypeOK'
  <2>1. ASSUME NEW p \in UserProperties, Configure(o, p) PROVE TypeOK'
    BY <2>1, ConfigureTypes
  <2>2. CASE Setup(o)
    BY <2>2, SetupTypes
  <2>3. ASSUME NEW S \in SNRLists[prop[o].PUCCHFormat], NEW nFrames \in Frames,
               Step(o, Unique(S), nFrames)
        PROVE  TypeOK'
    BY <2>3, StepTypes
  <2>4. CASE Reset(o)
    BY <2>4, ResetTypes
  <2>5. CASE Release(o)
    BY <2>5, ReleaseTypes
  <2>6. ASSUME NEW src \in Objects \ {o}, Reload(o, src) PROVE TypeOK'
    BY <2>6, ReloadTypes
  <2>7. ASSUME NEW src \in Objects \ {o}, Clone(o, src) PROVE TypeOK'
    BY <2>7, CloneTypes
  <2> QED BY <1>1, <2>1, <2>2, <2>3, <2>4, <2>5, <2>6, <2>7 DEF Call
<1>2. CASE UNCHANGED vars
  BY <1>2 DEF vars, TypeOK, DetailsFit
<1> QED BY <1>1, <1>2 DEF Next

\* The state of the objects and of the heap has its type; details exist for the handles
\* that are held, and a locked object holds details of its configuration.
THEOREM TypesHold == Spec => []TypeOK
PROOF
<1>1. Init => TypeOK
  BY TypeInit
<1>2. TypeOK /\ [Next]_vars => TypeOK'
  BY NextTypes
<1> QED BY <1>1, <1>2, PTL DEF Spec

-----------------------------------------------------------------------------
(***************************************************************************)
(* Where result arrays come from.                                          *)
(***************************************************************************)

\* Where the details under handle x come from in a step.
IsNewDetails(x) == \E p \in Properties : heap'[x] = NewDetails(p)

IsHeldBefore(x) == \E y \in Handles : Held(y) /\ heap'[x] = heap[y]

IsReset(x) ==
    \E o \in Objects : locked[o] /\ heap'[x] = ResetDetails(heap[FormatDetailsOf[o]])

IsUpdated(x) ==
    \E o \in Objects : locked[o] /\
        \E S \in SNRLists[prop[o].PUCCHFormat], nFrames \in Frames :
            heap'[x] = UpdateOutcome(heap[FormatDetailsOf[o]], Unique(S), nFrames).details

HasOrigin(x) ==
    \/ heap'[x] = NoDetails
    \/ IsNewDetails(x)
    \/ IsHeldBefore(x)
    \/ IsReset(x)
    \/ IsUpdated(x)

\* What stays has an origin.
LEMMA KeptHasOrigin ==
    ASSUME TypeOK, NEW x \in Handles, heap'[x] = heap[x]
    PROVE  HasOrigin(x)
BY TypeParts DEF HasOrigin, IsHeldBefore

\* Assign leaves what other handles refer to, or nothing.
LEMMA AssignOrigin ==
    ASSUME TypeOK, NEW o \in Objects, NEW h \in Handles \cup {NoHandle}, NEW d, Assign(o, h, d),
           NEW x \in Handles, x # h
    PROVE  HasOrigin(x)
PROOF
<1>1. AssignKeeps(o, h, d)
  BY AssignParts
<1>2. heap'[x] = heap[x] \/ heap'[x] = NoDetails
  BY <1>1 DEF AssignKeeps
<1> QED BY <1>2, KeptHasOrigin DEF HasOrigin

\* The details of a copy are those of the object copied.
LEMMA CopyOrigin ==
    ASSUME TypeOK, NEW o \in Objects, NEW src \in Objects, NEW x \in Handles,
           Reload(o, src) \/ Clone(o, src)
    PROVE  HasOrigin(x)
PROOF
<1>1. CASE locked[src]
  <2> DEFINE d == heap[FormatDetailsOf[src]]
  <2>1. FormatDetailsOf[src] \in Handles /\ Held(FormatDetailsOf[src])
    BY <1>1, TypeParts
  <2>2. PICK h \in Handles : Assign(o, h, d)
    BY <1>1, <2>1, NewHandleIsFree DEF Reload, Clone
  <2>3. CASE x = h
    <3>1. AssignKeeps(o, h, d)
      BY <2>2, AssignParts
    <3>2. heap'[x] = d
      BY <2>3, <3>1 DEF AssignKeeps
    <3> QED BY <2>1, <3>2 DEF HasOrigin, IsHeldBefore
  <2>4. CASE x # h
    BY <2>2, <2>4, AssignOrigin
  <2> QED BY <2>3, <2>4
<1>2. CASE ~locked[src]
  <2>1. Assign(o, NoHandle, NoDetails)
    BY <1>2 DEF Reload, Clone
  <2>2. x # NoHandle
    BY TypeParts
  <2> QED BY <2>1, <2>2, AssignOrigin
<1> QED BY <1>1, <1>2

\* In every step, what a handle refers to is new, was held before, or is reset or updated.
\* So a property of result arrays always holds, if new ones have it and reset and
\* updateCounters keep it.
LEMMA EveryStepHasOrigins ==
    ASSUME TypeOK, [Next]_vars, NEW x \in Handles
    PROVE  HasOrigin(x)
PROOF
<1>1. ASSUME NEW o \in Objects, Call(o)
      PROVE  HasOrigin(x)
  <2> DEFINE h == FormatDetailsOf[o]
  <2>0. locked[o] => h \in Handles /\ DOMAIN heap = Handles
    BY TypeParts
  <2>1. ASSUME NEW p \in UserProperties, Configure(o, p) PROVE HasOrigin(x)
    BY <2>1, KeptHasOrigin DEF Configure
  <2>2. CASE Setup(o)
    <3> DEFINE n == NewHandle(o)
               d == NewDetails(prop'[o])
    <3>1. n \in Handles /\ Assign(o, n, d)
      BY <2>2, NewHandleIsFree DEF Setup
    <3>2. prop'[o] \in Properties
      <4>1. prop \in [Objects -> Properties] /\ prop' = [prop EXCEPT ![o] = TestTypeSet(prop[o])]
        BY <2>2, TypeParts DEF Setup
      <4>2. TestTypeSet(prop[o]) \in Properties
        BY <4>1, TestTypeSetKeeps
      <4> QED BY <4>1, <4>2
    <3> HIDE DEF n
    <3>3. CASE x = n
      <4>1. AssignKeeps(o, n, d)
        BY <3>1, AssignParts
      <4>2. heap'[x] = d
        BY <3>3, <4>1 DEF AssignKeeps
      <4> QED BY <3>2, <4>2 DEF HasOrigin, IsNewDetails
    <3>4. CASE x # n
      BY <3>1, <3>4, AssignOrigin
    <3> QED BY <3>3, <3>4
  <2>3. ASSUME NEW S \in SNRLists[prop[o].PUCCHFormat], NEW nFrames \in Frames,
               Step(o, Unique(S), nFrames)
        PROVE  HasOrigin(x)
    <3>1. locked[o] /\ heap' = [heap EXCEPT ![h] =
              UpdateOutcome(heap[h], Unique(S), nFrames).details]
      BY <2>3 DEF Step
    <3>2. CASE x = h
      <4>1. heap'[x] = UpdateOutcome(heap[h], Unique(S), nFrames).details
        BY <2>0, <3>1, <3>2
      <4> QED BY <3>1, <4>1 DEF HasOrigin, IsUpdated
    <3>3. CASE x # h
      <4>1. heap'[x] = heap[x]
        BY <2>0, <3>1, <3>3
      <4> QED BY <4>1, KeptHasOrigin
    <3> QED BY <3>2, <3>3
  <2>4. CASE Reset(o)
    <3>1. locked[o] /\ heap' = [heap EXCEPT ![h] = ResetDetails(heap[h])]
      BY <2>4 DEF Reset
    <3>2. CASE x = h
      <4>1. heap'[x] = ResetDetails(heap[h])
        BY <2>0, <3>1, <3>2
      <4> QED BY <3>1, <4>1 DEF HasOrigin, IsReset
    <3>3. CASE x # h
      <4>1. heap'[x] = heap[x]
        BY <2>0, <3>1, <3>3
      <4> QED BY <4>1, KeptHasOrigin
    <3> QED BY <3>2, <3>3
  <2>5. CASE Release(o)
    <3>1. /\ locked[o]
          /\ heap'[h] = IF HeldByOther(o, h) THEN ResetDetails(heap[h]) ELSE NoDetails
          /\ \A y \in Handles : y # h => heap'[y] = heap[y]
      BY <2>5, ReleaseParts
    <3>2. CASE x = h
      BY <3>1, <3>2 DEF HasOrigin, IsReset
    <3>3. CASE x # h
      BY <3>1, <3>3, KeptHasOrigin
    <3> QED BY <3>2, <3>3
  <2>6. ASSUME NEW src \in Objects \ {o}, Reload(o, src) \/ Clone(o, src) PROVE HasOrigin(x)
    BY <2>6, CopyOrigin
  <2> QED BY <1>1, <2>1, <2>2, <2>3, <2>4, <2>5, <2>6 DEF Call
<1>2. CASE UNCHANGED vars
  BY <1>2, KeptHasOrigin DEF vars
<1> QED BY <1>1, <1>2 DEF Next

-----------------------------------------------------------------------------
(***************************************************************************)
(* The first counter always matches.                                       *)
(***************************************************************************)

\* The invariant of the first counter.
FirstsFit == \A h \in Handles : Held(h) => FirstFits(heap[h])

\* Every step keeps it, that of a call of step that fails, too.
LEMMA NextFirstsFit ==
    ASSUME TypeOK, FirstsFit, [Next]_vars
    PROVE  FirstsFit'
PROOF
<1>1. TypeOK'
  BY NextTypes
<1>2. ASSUME NEW x \in Handles, Held(x)'
      PROVE  FirstFits(heap'[x])
  <2>1. heap'[x] # NoDetails
    <3>1. IsDetails(heap'[x])
      BY <1>1, <1>2 DEF TypeOK, Held
    <3> QED BY <3>1, NoDetailsAssumption
  <2>2. HasOrigin(x)
    BY EveryStepHasOrigins
  <2>3. CASE IsNewDetails(x)
    BY <2>3, NewFitsFirst DEF IsNewDetails
  <2>4. CASE IsHeldBefore(x)
    BY <2>4 DEF IsHeldBefore, FirstsFit
  <2>5. CASE IsReset(x)
    <3>1. PICK o \in Objects : locked[o] /\ heap'[x] = ResetDetails(heap[FormatDetailsOf[o]])
      BY <2>5 DEF IsReset
    <3>2. IsDetails(heap[FormatDetailsOf[o]])
      BY <3>1, TypeParts
    <3> QED BY <3>1, <3>2, ResetKeepsFirst
  <2>6. CASE IsUpdated(x)
    <3>1. PICK o \in Objects : locked[o] /\
              \E S \in SNRLists[prop[o].PUCCHFormat], nFrames \in Frames :
                  heap'[x] = UpdateOutcome(heap[FormatDetailsOf[o]], Unique(S), nFrames).details
      BY <2>6 DEF IsUpdated
    <3> DEFINE d == heap[FormatDetailsOf[o]]
    <3>2. PICK S \in SNRLists[prop[o].PUCCHFormat], nFrames \in Frames :
              heap'[x] = UpdateOutcome(d, Unique(S), nFrames).details
      BY <3>1
    <3>3. IsDetails(d) /\ FirstFits(d) /\ prop[o].PUCCHFormat \in 0..4
      BY <3>1, TypeParts DEF FirstsFit, Properties
    <3>4. Unique(S) \in Seq(SNRs) /\ Increasing(Unique(S))
      BY <3>3, UniqueValues
    <3> HIDE DEF d
    <3> QED BY <3>2, <3>3, <3>4, UpdateKeepsFirst
  <2> QED BY <2>1, <2>2, <2>3, <2>4, <2>5, <2>6 DEF HasOrigin
<1> QED BY <1>2 DEF FirstsFit

\* The invariant says what FirstCounterMatches does.
LEMMA FirstsFitMatches ==
    ASSUME TypeOK, FirstsFit
    PROVE  FirstCounterMatches
PROOF
<1>1. ASSUME NEW d \in Results
      PROVE  FirstFits(d)
  <2>1. PICK h \in Handles : heap[h] # NoDetails /\ d = heap[h]
    BY DEF Results
  <2>2. Held(h)
    BY <2>1, TypeParts
  <2> QED BY <2>1, <2>2 DEF FirstsFit
<1> QED BY <1>1 DEF FirstCounterMatches, FirstFits, FirstOf, Increasing

\* Whatever users configure, call, copy and clone, and even when calls of step fail half
\* way: the SNR values of a simulation are sorted and without repetitions, and its first
\* counter has one row for each, about that value.
THEOREM FirstCounterAlwaysMatches == Spec => []FirstCounterMatches
PROOF
<1>1. Init => TypeOK /\ FirstsFit
  <2>1. ASSUME Init PROVE FirstsFit
    BY <2>1, ObjectsAssumption DEF Init, FirstsFit, Held, Handles
  <2> QED BY <2>1, TypeInit
<1>2. TypeOK /\ FirstsFit /\ [Next]_vars => TypeOK' /\ FirstsFit'
  BY NextTypes, NextFirstsFit
<1>3. TypeOK /\ FirstsFit => FirstCounterMatches
  BY FirstsFitMatches
<1> QED BY <1>1, <1>2, <1>3, PTL DEF Spec

-----------------------------------------------------------------------------
(***************************************************************************)
(* Calls of step succeed.                                                  *)
(***************************************************************************)

\* Users simulate one SNR value per call with Formats 2 to 4.
SingleSNRs == \A format \in 2..4 : \A S \in SNRLists[format] : Cardinality(S) = 1

\* The invariant for calls of step that succeed.
LongCounters ==
    /\ \A h \in Handles : Held(h) => LongEnough(heap[h])
    /\ StepsSucceed

\* New arrays are for no SNR value.
LEMMA NewIsLongEnough ==
    ASSUME NEW p \in Properties
    PROVE  LongEnough(NewDetails(p))
BY DEF LongEnough, NewDetails

\* After reset no SNR value is left, so the counters it forgets are long enough.
LEMMA ResetIsLongEnough ==
    ASSUME NEW d, IsDetails(d)
    PROVE  LongEnough(ResetDetails(d))
PROOF
<1>1. ResetDetails(d).SNRrange = <<>>
  BY ResetParts
<1>2. DOMAIN <<>> = {}
  OBVIOUS
<1> QED BY <1>1, <1>2 DEF LongEnough

\* What users simulate, sorted.
LEMMA ListsAreSingle ==
    ASSUME SingleSNRs, NEW f \in 0..4, NEW S \in SNRLists[f]
    PROVE  /\ Unique(S) \in Seq(SNRs) /\ Increasing(Unique(S))
           /\ f >= 2 => Len(Unique(S)) = 1
PROOF
<1>1. Unique(S) \in Seq(SNRs) /\ Len(Unique(S)) = Cardinality(S) /\ Increasing(Unique(S))
  BY UniqueValues
<1>2. f >= 2 => f \in 2..4
  OBVIOUS
<1> QED BY <1>1, <1>2 DEF SingleSNRs

\* Every step keeps the invariant: no call fails.
LEMMA NextLongCounters ==
    ASSUME SingleSNRs, TypeOK, LongCounters, [Next]_vars
    PROVE  LongCounters'
PROOF
<1>1. TypeOK'
  BY NextTypes
<1>2. ASSUME NEW x \in Handles, Held(x)'
      PROVE  LongEnough(heap'[x])
  <2>1. heap'[x] # NoDetails
    <3>1. IsDetails(heap'[x])
      BY <1>1, <1>2 DEF TypeOK, Held
    <3> QED BY <3>1, NoDetailsAssumption
  <2>2. HasOrigin(x)
    BY EveryStepHasOrigins
  <2>3. CASE IsNewDetails(x)
    BY <2>3, NewIsLongEnough DEF IsNewDetails
  <2>4. CASE IsHeldBefore(x)
    BY <2>4 DEF IsHeldBefore, LongCounters
  <2>5. CASE IsReset(x)
    <3>1. PICK o \in Objects : locked[o] /\ heap'[x] = ResetDetails(heap[FormatDetailsOf[o]])
      BY <2>5 DEF IsReset
    <3>2. IsDetails(heap[FormatDetailsOf[o]])
      BY <3>1, TypeParts
    <3> QED BY <3>1, <3>2, ResetIsLongEnough
  <2>6. CASE IsUpdated(x)
    <3>1. PICK o \in Objects : locked[o] /\
              \E S \in SNRLists[prop[o].PUCCHFormat], nFrames \in Frames :
                  heap'[x] = UpdateOutcome(heap[FormatDetailsOf[o]], Unique(S), nFrames).details
      BY <2>6 DEF IsUpdated
    <3> DEFINE d == heap[FormatDetailsOf[o]]
    <3>2. PICK S \in SNRLists[prop[o].PUCCHFormat], nFrames \in Frames :
              heap'[x] = UpdateOutcome(d, Unique(S), nFrames).details
      BY <3>1
    <3>3. IsDetails(d) /\ LongEnough(d) /\ d.prop.PUCCHFormat = prop[o].PUCCHFormat
          /\ prop[o].PUCCHFormat \in 0..4
      BY <3>1, TypeParts DEF LongCounters, Properties
    <3>4. Unique(S) \in Seq(SNRs) /\ (d.prop.PUCCHFormat >= 2 => Len(Unique(S)) = 1)
      BY <3>3, ListsAreSingle
    <3> HIDE DEF d
    <3> QED BY <3>2, <3>3, <3>4, UpdateSucceeds
  <2> QED BY <2>1, <2>2, <2>3, <2>4, <2>5, <2>6 DEF HasOrigin
<1>3. StepsSucceed'
  <2>1. ASSUME NEW o \in Objects, NEW S \in SNRLists[prop[o].PUCCHFormat], NEW nFrames \in Frames,
               Step(o, Unique(S), nFrames)
        PROVE  StepsSucceed'
    <3> DEFINE d == heap[FormatDetailsOf[o]]
               out == UpdateOutcome(d, Unique(S), nFrames)
    <3>1. locked[o] /\ Called(o, IF out.failed THEN "failed" ELSE "ok")
      BY <2>1 DEF Step
    <3>2. IsDetails(d) /\ LongEnough(d) /\ d.prop.PUCCHFormat = prop[o].PUCCHFormat
          /\ prop[o].PUCCHFormat \in 0..4
      BY <3>1, TypeParts DEF LongCounters, Properties
    <3>3. Unique(S) \in Seq(SNRs) /\ (d.prop.PUCCHFormat >= 2 => Len(Unique(S)) = 1)
      BY <3>2, ListsAreSingle
    <3>4. ~out.failed
      <4> HIDE DEF d
      <4> QED BY <3>2, <3>3, UpdateSucceeds
    <3> HIDE DEF out
    <3> QED BY <3>1, <3>4 DEF Called, StepsSucceed
  <2>2. ASSUME NEW o \in Objects, NEW end \in {"ok", "rejected"}, Called(o, end)
        PROVE  StepsSucceed'
    BY <2>2 DEF Called, StepsSucceed
  <2>3. ASSUME NEW o \in Objects, NEW p, Configure(o, p) PROVE StepsSucceed'
    BY <2>2, <2>3 DEF Configure
  <2>4. ASSUME NEW o \in Objects, Setup(o) PROVE StepsSucceed'
    BY <2>2, <2>4 DEF Setup
  <2>5. ASSUME NEW o \in Objects, Reset(o) \/ Release(o) PROVE StepsSucceed'
    BY <2>2, <2>5 DEF Reset, Release
  <2>6. ASSUME NEW o \in Objects, NEW src, Reload(o, src) \/ Clone(o, src) PROVE StepsSucceed'
    BY <2>2, <2>6 DEF Reload, Clone, CopyState
  <2>7. CASE UNCHANGED vars
    BY <2>7 DEF vars, LongCounters, StepsSucceed
  <2> QED BY <2>1, <2>3, <2>4, <2>5, <2>6, <2>7 DEF Next, Call
<1> QED BY <1>2, <1>3 DEF LongCounters

\* When users simulate one SNR value per call with Formats 2 to 4 (as the documentation does
\* not ask them to), no call of step fails: any calls of reset, release and setup, any
\* saved and cloned objects.
THEOREM StepsAlwaysSucceed ==
    ASSUME SingleSNRs
    PROVE  Spec => []StepsSucceed
PROOF
<1>1. Init => TypeOK /\ LongCounters
  <2>1. ASSUME Init PROVE LongCounters
    BY <2>1, ObjectsAssumption DEF Init, LongCounters, Held, Handles, StepsSucceed
  <2> QED BY <2>1, TypeInit
<1>2. TypeOK /\ LongCounters /\ [Next]_vars => TypeOK' /\ LongCounters'
  BY NextTypes, NextLongCounters
<1>3. LongCounters => StepsSucceed
  BY DEF LongCounters
<1> QED BY <1>1, <1>2, <1>3, PTL DEF Spec

-----------------------------------------------------------------------------
(***************************************************************************)
(* Aligned counters.                                                       *)
(***************************************************************************)

\* Configurations whose counters are joined from what they count, and which reset clears.
IsSound(p) ==
    /\ p.PUCCHFormat = 0 => p.isDetectionTest
    /\ p.PUCCHFormat = 1 => ~p.isDetectionTest

SoundConfigurations == \A p \in UserProperties : p.checksOK => IsSound(p)

\* Each counter that users see has one row per SNR value; objects that are locked passed
\* the checks of their configuration.
Aligned(d) ==
    /\ Increasing(d.SNRrange)
    /\ \A c \in Shown(d.prop) : DOMAIN d.ctr[c] = DOMAIN d.SNRrange

AlignedTables ==
    /\ \A h \in Handles : Held(h) => Aligned(heap[h])
    /\ \A o \in Objects : locked[o] => prop[o].checksOK

\* With a sound configuration, what is joined to a counter is what it counts, and reset
\* clears it.
LEMMA SoundCounters ==
    ASSUME NEW p \in Properties, IsSound(p), NEW c \in Shown(p)
    PROVE  Joined(p.PUCCHFormat, c) = c /\ c \notin KeptByReset(p.PUCCHFormat)
PROOF
<1>1. PICK j \in DOMAIN Exported(p) : c = Exported(p)[j]
  BY DEF Shown
<1>2. CASE p.PUCCHFormat = 0
  <2>1. Exported(p) = <<"TotalBlocks">> \o <<"TransmittedACKs", "MissedACKs", "MissedSRs">>
    BY <1>2 DEF Exported, IsSound
  <2> DEFINE T == {"TotalBlocks", "TransmittedACKs", "MissedACKs", "MissedSRs"}
  <2>2. "TotalBlocks" \in T /\ <<"TransmittedACKs", "MissedACKs", "MissedSRs">> \in Seq(T)
    OBVIOUS
  <2>4. "FalseSRs" \notin T
    OBVIOUS
  <2> HIDE DEF T
  <2>5. Exported(p) \in Seq(T)
    BY <2>1, <2>2, WithFirst
  <2>3. c # "FalseSRs"
    BY <1>1, <2>4, <2>5
  <2> QED BY <1>2, <2>3 DEF Joined, KeptByReset
<1>3. CASE p.PUCCHFormat = 1
  <2>1. Exported(p) = <<"ACKOccasions">> \o <<"FalseACKs">>
    BY <1>3 DEF Exported, IsSound
  <2> DEFINE T == {"ACKOccasions", "FalseACKs"}
  <2>2. "ACKOccasions" \in T /\ <<"FalseACKs">> \in Seq(T)
    OBVIOUS
  <2>4. "NACK2ACKs" \notin T
    OBVIOUS
  <2> HIDE DEF T
  <2>5. Exported(p) \in Seq(T)
    BY <2>1, <2>2, WithFirst
  <2>3. c # "NACK2ACKs"
    BY <1>1, <2>4, <2>5
  <2> QED BY <1>3, <2>3 DEF Joined, KeptByReset
<1>4. CASE p.PUCCHFormat # 0 /\ p.PUCCHFormat # 1
  BY <1>4 DEF Joined, KeptByReset
<1> QED BY <1>2, <1>3, <1>4

\* New arrays are all empty.
LEMMA NewIsAligned ==
    ASSUME NEW p \in Properties
    PROVE  Aligned(NewDetails(p))
PROOF
<1>1. Shown(p) \subseteq Counters(p.PUCCHFormat)
  BY ExportedCounters
<1> QED BY <1>1 DEF Aligned, NewDetails, Increasing

\* So are those after reset, with a sound configuration.
LEMMA ResetIsAligned ==
    ASSUME NEW d, IsDetails(d), IsSound(d.prop)
    PROVE  Aligned(ResetDetails(d))
PROOF
<1> DEFINE e == ResetDetails(d)
<1>1. /\ d.prop \in Properties
      /\ d.ctr \in [Counters(d.prop.PUCCHFormat) -> Seq(Entries)]
  BY DetailsParts
<1>2. \A c \in Shown(d.prop) : c \in DOMAIN d.ctr /\ c \notin KeptByReset(d.prop.PUCCHFormat)
  BY <1>1, ExportedCounters, SoundCounters
<1>3. /\ e.prop = d.prop /\ e.SNRrange = <<>>
      /\ e.ctr = [c \in DOMAIN d.ctr |->
             IF c \in KeptByReset(d.prop.PUCCHFormat) THEN d.ctr[c] ELSE <<>>]
  BY ResetParts
<1> HIDE DEF e
<1>4. \A c \in Shown(d.prop) : e.ctr[c] = <<>>
  BY <1>2, <1>3
<1>5. \A c \in Shown(e.prop) : DOMAIN e.ctr[c] = DOMAIN e.SNRrange
  BY <1>3, <1>4
<1>6. Increasing(e.SNRrange)
  BY <1>3 DEF Increasing
<1>7. Aligned(e)
  BY <1>5, <1>6 DEF Aligned
<1> QED BY <1>7 DEF e

\* Aligned counters are long enough.
LEMMA AlignedIsLongEnough ==
    ASSUME NEW d, Aligned(d)
    PROVE  LongEnough(d)
BY DEF Aligned, LongEnough

\* updateCounters keeps the counters aligned.
LEMMA UpdateIsAligned ==
    ASSUME NEW d, IsDetails(d), Aligned(d),
           NEW SNRIn \in Seq(SNRs), Increasing(SNRIn),
           d.prop.PUCCHFormat >= 2 => Len(SNRIn) = 1, NEW nFrames \in Frames
    PROVE  Aligned(UpdateOutcome(d, SNRIn, nFrames).details)
PROOF
<1> DEFINE e == UpdateOutcome(d, SNRIn, nFrames).details
<1>1. LongEnough(d) /\ SNRIn \in Seq(Int) /\ d.SNRrange \in Seq(Int)
  BY AlignedIsLongEnough, SeqOfInt, DetailsParts
<1>2. /\ UpdatedCounters(d, SNRIn, nFrames) = Shown(d.prop)
      /\ \A c \in Shown(d.prop) : e.ctr[c] = Joins(d, c, SNRIn, nFrames)
  BY <1>1, UpdateSucceeds
<1>3. e.prop = d.prop /\ e.SNRrange = NewRange(d.SNRrange, SNRIn)
  <2>1. IsUpdate(d, SNRIn, nFrames, UpdateOutcome(d, SNRIn, nFrames))
    BY UpdateParts
  <2> QED BY <2>1 DEF IsUpdate
<1> HIDE DEF e
<1>4. \A c \in Shown(d.prop) : DOMAIN e.ctr[c] = DOMAIN e.SNRrange
  BY <1>2, <1>3, CounterIsJoined
<1>5. Increasing(e.SNRrange)
  BY <1>1, <1>3, NewRangeIsSorted DEF Aligned
<1> QED BY <1>3, <1>4, <1>5 DEF Aligned, e

\* An object is locked only with a configuration that setupImpl accepts.
LEMMA NextChecked ==
    ASSUME TypeOK, AlignedTables, [Next]_vars, NEW y \in Objects, locked'[y]
    PROVE  prop'[y].checksOK
PROOF
<1>0. /\ prop \in [Objects -> Properties] /\ locked \in [Objects -> BOOLEAN]
      /\ \A o \in Objects : locked[o] => prop[o].checksOK
  BY TypeParts DEF AlignedTables
<1>1. ASSUME NEW o \in Objects, Call(o)
      PROVE  prop'[y].checksOK
  <2>1. ASSUME NEW p \in UserProperties, Configure(o, p) PROVE prop'[y].checksOK
    BY <1>0, <2>1 DEF Configure
  <2>2. CASE Setup(o)
    <3>1. /\ prop' = [prop EXCEPT ![o] = TestTypeSet(prop[o])]
          /\ locked' = [locked EXCEPT ![o] = prop[o].checksOK]
      BY <2>2 DEF Setup
    <3>2. TestTypeSet(prop[o]).checksOK = prop[o].checksOK
      BY <1>0, TestTypeSetKeeps
    <3> QED BY <1>0, <3>1, <3>2
  <2>3. ASSUME NEW S \in SNRLists[prop[o].PUCCHFormat], NEW nFrames \in Frames,
               Step(o, Unique(S), nFrames)
        PROVE  prop'[y].checksOK
    BY <1>0, <2>3 DEF Step
  <2>4. CASE Reset(o)
    BY <1>0, <2>4 DEF Reset
  <2>5. CASE Release(o)
    BY <1>0, <2>5 DEF Release
  <2>6. ASSUME NEW src \in Objects \ {o}, CopyState(o, src) PROVE prop'[y].checksOK
    BY <1>0, <2>6 DEF CopyState
  <2>7. ASSUME NEW src \in Objects \ {o}, Reload(o, src) \/ Clone(o, src)
        PROVE  prop'[y].checksOK
    BY <2>6, <2>7 DEF Reload, Clone
  <2> QED BY <1>1, <2>1, <2>2, <2>3, <2>4, <2>5, <2>7 DEF Call
<1>2. CASE UNCHANGED vars
  BY <1>0, <1>2 DEF vars
<1> QED BY <1>1, <1>2 DEF Next

\* The details of a locked object are aligned and of a sound configuration.
LEMMA LockedIsSound ==
    ASSUME SoundConfigurations, TypeOK, AlignedTables, NEW o \in Objects, locked[o]
    PROVE  /\ IsDetails(heap[FormatDetailsOf[o]]) /\ Aligned(heap[FormatDetailsOf[o]])
           /\ heap[FormatDetailsOf[o]].prop = prop[o]
           /\ IsSound(prop[o]) /\ prop[o] \in Properties /\ prop[o].PUCCHFormat \in 0..4
PROOF
<1>1. /\ IsDetails(heap[FormatDetailsOf[o]]) /\ Aligned(heap[FormatDetailsOf[o]])
      /\ heap[FormatDetailsOf[o]].prop = prop[o]
  BY TypeParts DEF AlignedTables
<1>2. prop[o] \in UserProperties /\ prop[o] \in Properties
  BY TypeParts
<1>3. IsSound(prop[o])
  BY <1>2 DEF AlignedTables, SoundConfigurations
<1> QED BY <1>1, <1>2, <1>3 DEF Properties

\* Every step keeps the counters aligned; reset and step are called on locked objects only.
LEMMA NextAligned ==
    ASSUME SingleSNRs, SoundConfigurations, TypeOK, AlignedTables, [Next]_vars
    PROVE  AlignedTables'
PROOF
<1>1. TypeOK'
  BY NextTypes
<1>2. ASSUME NEW x \in Handles, Held(x)'
      PROVE  Aligned(heap'[x])
  <2>1. heap'[x] # NoDetails
    <3>1. IsDetails(heap'[x])
      BY <1>1, <1>2 DEF TypeOK, Held
    <3> QED BY <3>1, NoDetailsAssumption
  <2>2. HasOrigin(x)
    BY EveryStepHasOrigins
  <2>3. CASE IsNewDetails(x)
    BY <2>3, NewIsAligned DEF IsNewDetails
  <2>4. CASE IsHeldBefore(x)
    BY <2>4 DEF IsHeldBefore, AlignedTables
  <2>5. CASE IsReset(x)
    <3>1. PICK o \in Objects : locked[o] /\ heap'[x] = ResetDetails(heap[FormatDetailsOf[o]])
      BY <2>5 DEF IsReset
    <3>2. IsDetails(heap[FormatDetailsOf[o]]) /\ IsSound(heap[FormatDetailsOf[o]].prop)
      BY <3>1, LockedIsSound
    <3> QED BY <3>1, <3>2, ResetIsAligned
  <2>6. CASE IsUpdated(x)
    <3>1. PICK o \in Objects : locked[o] /\
              \E S \in SNRLists[prop[o].PUCCHFormat], nFrames \in Frames :
                  heap'[x] = UpdateOutcome(heap[FormatDetailsOf[o]], Unique(S), nFrames).details
      BY <2>6 DEF IsUpdated
    <3> DEFINE d == heap[FormatDetailsOf[o]]
    <3>2. PICK S \in SNRLists[prop[o].PUCCHFormat], nFrames \in Frames :
              heap'[x] = UpdateOutcome(d, Unique(S), nFrames).details
      BY <3>1
    <3>3. IsDetails(d) /\ Aligned(d) /\ d.prop.PUCCHFormat = prop[o].PUCCHFormat
          /\ prop[o].PUCCHFormat \in 0..4
      BY <3>1, LockedIsSound
    <3>4. /\ Unique(S) \in Seq(SNRs) /\ Increasing(Unique(S))
          /\ d.prop.PUCCHFormat >= 2 => Len(Unique(S)) = 1
      BY <3>3, ListsAreSingle
    <3> HIDE DEF d
    <3> QED BY <3>2, <3>3, <3>4, UpdateIsAligned
  <2> QED BY <2>1, <2>2, <2>3, <2>4, <2>5, <2>6 DEF HasOrigin
<1> QED BY <1>2, NextChecked DEF AlignedTables

-----------------------------------------------------------------------------
(***************************************************************************)
(* Tables.                                                                 *)
(***************************************************************************)

\* The tables that details show.
NoRows == [s \in {} |-> [c \in {} |-> 0]]

TableUnder(d) == IF d = NoDetails THEN NoRows ELSE TableOf(d)

\* Arrays without SNR values show nothing.
LEMMA EmptyTable ==
    ASSUME NEW d, d.SNRrange = <<>>
    PROVE  TableUnder(d) = NoRows
PROOF
<1>1. ToSet(d.SNRrange) = {}
  BY DEF ToSet
<1>2. TableOf(d) = NoRows
  BY <1>1 DEF TableOf, NoRows
<1> QED BY <1>2 DEF TableUnder

\* The position of an SNR value in SNRrange is the only one that has it.
LEMMA PositionIs ==
    ASSUME NEW d, d.SNRrange \in Seq(Int), Increasing(d.SNRrange), NEW k \in DOMAIN d.SNRrange
    PROVE  PositionOf(d, d.SNRrange[k]) = k
PROOF
<1> DEFINE s == d.SNRrange[k]
           i == PositionOf(d, s)
<1>1. i = CHOOSE j \in DOMAIN d.SNRrange : d.SNRrange[j] = s
  BY DEF PositionOf
<1>2. i \in DOMAIN d.SNRrange /\ d.SNRrange[i] = s
  BY <1>1
<1> QED BY <1>2, IncreasingIsDistinct

\* The table of d where the points of S are simulated (again).
HasTable(e, d, S, n) ==
    TableOf(e) =
        [s \in ToSet(d.SNRrange) \cup S |->
            IF s \in S
            THEN [c \in Shown(d.prop) |-> [quantity |-> c, snr |-> s, nFrames |-> n]]
            ELSE TableOf(d)[s]]

\* updateCounters writes the rows of the SNR values of the call and keeps all others.
LEMMA UpdatedTable ==
    ASSUME NEW d, IsDetails(d), Aligned(d), IsSound(d.prop),
           NEW SNRIn \in Seq(SNRs), Increasing(SNRIn),
           d.prop.PUCCHFormat >= 2 => Len(SNRIn) = 1, NEW nFrames \in Frames
    PROVE  HasTable(UpdateOutcome(d, SNRIn, nFrames).details, d, ToSet(SNRIn), nFrames)
PROOF
<1> DEFINE e == UpdateOutcome(d, SNRIn, nFrames).details
           Row(s) == [c \in Shown(d.prop) |-> [quantity |-> c, snr |-> s, nFrames |-> nFrames]]
           newRange == NewRange(d.SNRrange, SNRIn)
           Cell(s, c) == IF PositionOf(e, s) \in DOMAIN e.ctr[c] THEN e.ctr[c][PositionOf(e, s)]
                         ELSE NoDetails
<1>1. /\ d.prop \in Properties /\ d.SNRrange \in Seq(Int) /\ SNRIn \in Seq(Int)
      /\ d.ctr \in [Counters(d.prop.PUCCHFormat) -> Seq(Entries)] /\ LongEnough(d)
  BY DetailsParts, SeqOfInt, AlignedIsLongEnough
<1>2. Shown(d.prop) \subseteq Counters(d.prop.PUCCHFormat) /\ d.prop.PUCCHFormat \in 0..4
  BY <1>1, ExportedCounters
<1>3. \A c \in Shown(d.prop) : e.ctr[c] = Joins(d, c, SNRIn, nFrames)
  BY <1>1, UpdateSucceeds
<1>4. e.prop = d.prop /\ e.SNRrange = newRange
  <2>1. IsUpdate(d, SNRIn, nFrames, UpdateOutcome(d, SNRIn, nFrames))
    BY UpdateParts
  <2> QED BY <2>1 DEF IsUpdate
<1>5. newRange \in Seq(Int) /\ Increasing(newRange)
      /\ ToSet(newRange) = ToSet(d.SNRrange) \cup ToSet(SNRIn)
  BY <1>1, NewRangeIsSorted, NewRangeValues DEF Aligned
<1>6. TableOf(e) = [s \in ToSet(newRange) |-> [c \in Shown(d.prop) |-> Cell(s, c)]]
  BY <1>4 DEF TableOf
<1>7. ASSUME NEW s \in ToSet(newRange), NEW c \in Shown(d.prop)
      PROVE  Cell(s, c) = IF s \in ToSet(SNRIn)
                          THEN [quantity |-> c, snr |-> s, nFrames |-> nFrames]
                          ELSE TableOf(d)[s][c]
  <2> DEFINE array == d.ctr[c]
             new == NewColumn(d, c, SNRIn, nFrames)
             joined == Joins(d, c, SNRIn, nFrames)
  <2>1. PICK i \in DOMAIN newRange : newRange[i] = s
    BY DEF ToSet
  <2>2. PositionOf(e, s) = i
    BY <1>4, <1>5, <2>1, PositionIs
  <2>3. /\ new \in Seq(Entries) /\ Len(new) = Len(SNRIn)
        /\ \A k \in DOMAIN SNRIn : new[k] =
               [quantity |-> Joined(d.prop.PUCCHFormat, c), snr |-> SNRIn[k], nFrames |-> nFrames]
    BY <1>2, ColumnTypes DEF NewColumn
  <2>4. Joined(d.prop.PUCCHFormat, c) = c
    BY <1>1, SoundCounters
  <2>5. array \in Seq(Entries) /\ DOMAIN array = DOMAIN d.SNRrange
    BY <1>1, <1>2 DEF Aligned
  <2>6. IsJoin(Entries, joined, d.SNRrange, SNRIn, array, new)
    <3>1. IsJoin(Entries, joinArrays(array, new, RepeatedIdx(d.SNRrange, SNRIn),
                                     Order(d.SNRrange, SNRIn)),
                 d.SNRrange, SNRIn, array, new)
      BY <1>1, <2>3, <2>5, RowsAreJoined
    <3> QED BY <3>1 DEF Joins
  <2> HIDE DEF array, new, joined
  <2>7. /\ DOMAIN joined = DOMAIN newRange
        /\ \/ \E k \in DOMAIN SNRIn : newRange[i] = SNRIn[k] /\ joined[i] = new[k]
           \/ \E k \in DOMAIN d.SNRrange :
                 /\ d.SNRrange[k] \notin ToSet(SNRIn)
                 /\ newRange[i] = d.SNRrange[k] /\ joined[i] = array[k]
    BY <2>1, <2>6 DEF IsJoin
  <2>8. Cell(s, c) = joined[i]
    BY <1>3, <2>1, <2>2, <2>7 DEF joined
  <2> HIDE DEF Cell, newRange
  <2>9. CASE \E k \in DOMAIN SNRIn : newRange[i] = SNRIn[k] /\ joined[i] = new[k]
    <3>1. PICK k \in DOMAIN SNRIn : newRange[i] = SNRIn[k] /\ joined[i] = new[k]
      BY <2>9
    <3>2. s \in ToSet(SNRIn) /\ s = SNRIn[k]
      BY <2>1, <3>1 DEF ToSet
    <3> QED BY <2>3, <2>4, <2>8, <3>1, <3>2
  <2>10. CASE \E k \in DOMAIN d.SNRrange :
                 /\ d.SNRrange[k] \notin ToSet(SNRIn)
                 /\ newRange[i] = d.SNRrange[k] /\ joined[i] = array[k]
    <3>1. PICK k \in DOMAIN d.SNRrange :
                 /\ d.SNRrange[k] \notin ToSet(SNRIn)
                 /\ newRange[i] = d.SNRrange[k] /\ joined[i] = array[k]
      BY <2>10
    <3>2. s \notin ToSet(SNRIn) /\ s = d.SNRrange[k] /\ s \in ToSet(d.SNRrange)
      BY <2>1, <3>1 DEF ToSet
    <3>3. PositionOf(d, s) = k
      BY <1>1, <3>2, PositionIs DEF Aligned
    <3>4. TableOf(d)[s][c] = array[k]
      <4>1. TableOf(d)[s] = [b \in Shown(d.prop) |->
                IF PositionOf(d, s) \in DOMAIN d.ctr[b] THEN d.ctr[b][PositionOf(d, s)]
                ELSE NoDetails]
        BY <3>2 DEF TableOf
      <4> QED BY <2>5, <3>3, <4>1 DEF array
    <3> QED BY <2>8, <3>1, <3>2, <3>4
  <2> QED BY <2>7, <2>9, <2>10
<1>8. ASSUME NEW s \in ToSet(newRange)
      PROVE  [c \in Shown(d.prop) |-> Cell(s, c)]
                = IF s \in ToSet(SNRIn) THEN Row(s) ELSE TableOf(d)[s]
  <2> HIDE DEF Cell
  <2>1. CASE s \in ToSet(SNRIn)
    BY <1>7, <2>1
  <2>2. CASE s \notin ToSet(SNRIn)
    <3>1. s \in ToSet(d.SNRrange)
      BY <1>5, <2>2
    <3>2. TableOf(d)[s] = [c \in Shown(d.prop) |-> TableOf(d)[s][c]]
      <4>1. TableOf(d)[s] = [b \in Shown(d.prop) |->
                IF PositionOf(d, s) \in DOMAIN d.ctr[b] THEN d.ctr[b][PositionOf(d, s)]
                ELSE NoDetails]
        BY <3>1 DEF TableOf
      <4> QED BY <4>1
    <3>3. \A c \in Shown(d.prop) : Cell(s, c) = TableOf(d)[s][c]
      BY <1>7, <2>2
    <3> DEFINE t == TableOf(d)[s]
    <3> HIDE DEF t
    <3>4. t = [c \in Shown(d.prop) |-> t[c]] /\ \A c \in Shown(d.prop) : Cell(s, c) = t[c]
      BY <3>2, <3>3 DEF t
    <3>5. [c \in Shown(d.prop) |-> Cell(s, c)] = t
      BY <3>4
    <3> QED BY <2>2, <3>5 DEF t
  <2> QED BY <2>1, <2>2
<1> HIDE DEF Cell, Row, newRange, e
<1>9. TableOf(e) = [s \in ToSet(newRange) |-> IF s \in ToSet(SNRIn) THEN Row(s) ELSE TableOf(d)[s]]
  BY <1>6, <1>8
<1> QED BY <1>5, <1>9 DEF e, Row, HasTable

-----------------------------------------------------------------------------
(***************************************************************************)
(* The promise of ResultTables is kept.                                    *)
(***************************************************************************)

\* The promise, ResultTables.
Table == [h \in Handles |-> TableUnder(heap[h])]

\* Both modules speak of the same configurations and counters.
LEMMA PromiseFormats ==
    /\ Promise!Properties = Properties
    /\ \A p : Promise!TestTypeSet(p) = TestTypeSet(p)
    /\ \A p : Promise!Shown(p) = Shown(p)
BY DEF Promise!Properties, Properties, Promise!TestTypeSet, TestTypeSet,
       Promise!Shown, Shown, Promise!Exported, Exported

\* Assign is Hold: no handle that another object holds is touched.
LEMMA PromiseHold ==
    ASSUME TypeOK, NEW o \in Objects, NEW h \in Handles \cup {NoHandle}, NEW d, Assign(o, h, d)
    PROVE  Promise!Hold(o, h, TableUnder(d))
PROOF
<1>1. AssignKeeps(o, h, d)
  BY AssignParts
<1>2. FormatDetailsOf' = [FormatDetailsOf EXCEPT ![o] = h]
  BY DEF Assign
<1>3. ASSUME NEW x \in Handles
      PROVE  TableUnder(heap'[x]) =
                IF x = h THEN TableUnder(d)
                ELSE IF x \in Promise!HeldByOthers(o) THEN Table[x] ELSE Promise!NoResults
  <2>1. x \in Promise!HeldByOthers(o) <=> HeldByOther(o, x)
    BY DEF Promise!HeldByOthers, HeldByOther
  <2>2. TableUnder(NoDetails) = Promise!NoResults
    BY DEF TableUnder, NoRows, Promise!NoResults
  <2>3. CASE x = h
    BY <1>1, <2>3 DEF AssignKeeps
  <2>4. CASE x # h /\ HeldByOther(o, x)
    <3>1. heap'[x] = heap[x]
      BY <1>1, <2>4 DEF AssignKeeps
    <3> QED BY <2>1, <2>4, <3>1 DEF Table
  <2>5. CASE x # h /\ ~HeldByOther(o, x)
    <3>1. heap'[x] = NoDetails
      BY <1>1, <2>5 DEF AssignKeeps
    <3> QED BY <2>1, <2>2, <2>5, <3>1
  <2> QED BY <2>3, <2>4, <2>5
<1>4. Table' = [x \in Handles |->
            IF x = h THEN TableUnder(d)
            ELSE IF x \in Promise!HeldByOthers(o) THEN Table[x] ELSE Promise!NoResults]
  BY <1>3 DEF Table
<1> QED BY <1>2, <1>4 DEF Promise!Hold, Table, TableUnder, NoRows

\* The handle of a new object is a table that nobody else holds.
LEMMA PromiseHoldNew ==
    ASSUME TypeOK, NEW o \in Objects, NEW d, Assign(o, NewHandle(o), d)
    PROVE  Promise!HoldNew(o, TableUnder(d))
PROOF
<1>1. NewHandle(o) \in Handles /\ ~HeldByOther(o, NewHandle(o))
  BY NewHandleIsFree
<1>2. NewHandle(o) \in Handles \ Promise!HeldByOthers(o)
  BY <1>1 DEF Promise!HeldByOthers, HeldByOther
<1>3. Promise!Hold(o, NewHandle(o), TableUnder(d))
  BY <1>1, PromiseHold
<1> QED BY <1>2, <1>3 DEF Promise!HoldNew

\* New details show no results.
LEMMA PromiseNew ==
    ASSUME NEW p
    PROVE  TableUnder(NewDetails(p)) = Promise!NoResults
PROOF
<1>1. NewDetails(p).SNRrange = <<>>
  BY DEF NewDetails
<1> QED BY <1>1, EmptyTable DEF NoRows, Promise!NoResults

\* Setup starts from scratch, on a table of its own.
LEMMA PromiseSetup ==
    ASSUME TypeOK, NEW o \in Objects, Setup(o)
    PROVE  Promise!Setup(o)
PROOF
<1>1. Promise!HoldNew(o, TableUnder(NewDetails(prop'[o])))
  BY PromiseHoldNew DEF Setup
<1>2. Promise!HoldNew(o, Promise!NoResults)
  BY <1>1, PromiseNew
<1> QED BY <1>2, PromiseFormats DEF Setup, Promise!Setup

\* One table changes, that under the handle of o.
LEMMA PromiseChange ==
    ASSUME TypeOK, NEW o \in Objects, locked[o], NEW d,
           heap' = [heap EXCEPT ![FormatDetailsOf[o]] = d]
    PROVE  Table' = [Table EXCEPT ![FormatDetailsOf[o]] = TableUnder(d)]
PROOF
<1>1. FormatDetailsOf[o] \in Handles /\ DOMAIN heap = Handles
  BY TypeParts
<1>2. \A x \in Handles : heap'[x] = IF x = FormatDetailsOf[o] THEN d ELSE heap[x]
  BY <1>1
<1>3. Table' = [x \in Handles |-> TableUnder(heap'[x])]
  BY DEF Table
<1>4. \A x \in Handles :
          TableUnder(heap'[x]) = IF x = FormatDetailsOf[o] THEN TableUnder(d) ELSE Table[x]
  BY <1>2 DEF Table
<1>5. DOMAIN Table = Handles
  BY DEF Table
<1> HIDE DEF Table
<1> QED BY <1>1, <1>3, <1>4, <1>5

\* A call of step is one of the promise.
LEMMA PromiseStep ==
    ASSUME SingleSNRs, SoundConfigurations, TypeOK, AlignedTables,
           NEW o \in Objects, NEW S \in SNRLists[prop[o].PUCCHFormat],
           NEW nFrames \in Frames, Step(o, Unique(S), nFrames)
    PROVE  Promise!Step(o, S, nFrames) /\ S \in (SUBSET SNRs) \ {{}}
PROOF
<1> DEFINE h == FormatDetailsOf[o]
           d == heap[h]
           e == UpdateOutcome(d, Unique(S), nFrames).details
<1>1. /\ locked[o] /\ heap' = [heap EXCEPT ![h] = e]
      /\ UNCHANGED <<prop, locked, FormatDetailsOf>>
  BY DEF Step
<1>2. /\ IsDetails(d) /\ Aligned(d) /\ d.prop = prop[o] /\ IsSound(prop[o])
      /\ prop[o].PUCCHFormat \in 0..4 /\ h \in Handles
  BY <1>1, LockedIsSound, TypeParts
<1>3. /\ S \in (SUBSET SNRs) \ {{}} /\ ToSet(Unique(S)) = S
      /\ Unique(S) \in Seq(SNRs) /\ Increasing(Unique(S))
      /\ prop[o].PUCCHFormat >= 2 => Len(Unique(S)) = 1
  BY <1>2, UniqueValues, ListsAreSingle
<1>4. IsDetails(e)
  BY <1>2, <1>3, UpdateKeepsDetails
<1>5. d # NoDetails /\ e # NoDetails
  BY <1>2, <1>4, NoDetailsAssumption
<1>6. TableOf(e) =
              [s \in ToSet(d.SNRrange) \cup S |->
                  IF s \in S
                  THEN [c \in Shown(prop[o]) |-> [quantity |-> c, snr |-> s, nFrames |-> nFrames]]
                  ELSE TableOf(d)[s]]
  <2> DEFINE u == Unique(S)
  <2> HIDE DEF d, u
  <2>1. /\ IsDetails(d) /\ Aligned(d) /\ IsSound(d.prop) /\ u \in Seq(SNRs) /\ Increasing(u)
        /\ d.prop.PUCCHFormat >= 2 => Len(u) = 1
    BY <1>2, <1>3 DEF u
  <2>2. HasTable(UpdateOutcome(d, u, nFrames).details, d, ToSet(u), nFrames)
    BY <2>1, UpdatedTable
  <2>3. ToSet(u) = S /\ d.prop = prop[o] /\ e = UpdateOutcome(d, u, nFrames).details
    BY <1>2, <1>3 DEF u
  <2> HIDE DEF e
  <2>4. HasTable(e, d, S, nFrames)
    BY <2>2, <2>3
  <2> QED BY <2>3, <2>4 DEF HasTable
<1>7. Table[h] = TableOf(d) /\ DOMAIN TableOf(d) = ToSet(d.SNRrange)
  BY <1>2, <1>5 DEF Table, TableUnder, TableOf
<1>8. \A s : Promise!Row(prop[o], s, nFrames)
                = [c \in Shown(prop[o]) |-> [quantity |-> c, snr |-> s, nFrames |-> nFrames]]
  BY PromiseFormats DEF Promise!Row
<1>9. TableUnder(e) = [s \in DOMAIN Table[h] \cup S |->
                IF s \in S THEN Promise!Row(prop[o], s, nFrames) ELSE Table[h][s]]
  <2>1. TableUnder(e) = TableOf(e)
    BY <1>5 DEF TableUnder
  <2> HIDE DEF d, e
  <2> QED BY <1>6, <1>7, <1>8, <2>1
<1>10. Table' = [Table EXCEPT ![h] = TableUnder(e)]
  <2> HIDE DEF e
  <2> QED BY <1>1, PromiseChange
<1>11. Table' = [Table EXCEPT ![h] = [s \in DOMAIN @ \cup S |->
                IF s \in S THEN Promise!Row(prop[o], s, nFrames) ELSE @[s]]]
  BY <1>9, <1>10
<1> HIDE DEF d, e
<1> QED BY <1>1, <1>3, <1>11 DEF Promise!Step, Table, TableUnder, NoRows

\* Reset is one of the promise, for all objects that hold the table.
LEMMA PromiseReset ==
    ASSUME TypeOK, NEW o \in Objects, Reset(o)
    PROVE  Promise!Reset(o)
PROOF
<1> DEFINE h == FormatDetailsOf[o]
           e == ResetDetails(heap[h])
<1>1. /\ locked[o] /\ heap' = [heap EXCEPT ![h] = e]
      /\ UNCHANGED <<prop, locked, FormatDetailsOf>>
  BY DEF Reset
<1>2. e.SNRrange = <<>>
  BY <1>1, TypeParts, ResetParts
<1>3. TableUnder(e) = Promise!NoResults
  BY <1>2, EmptyTable DEF NoRows, Promise!NoResults
<1> HIDE DEF e
<1>4. Table' = [Table EXCEPT ![h] = Promise!NoResults]
  BY <1>1, <1>3, PromiseChange
<1> QED BY <1>1, <1>4 DEF Promise!Reset, Table, TableUnder, NoRows

\* Release is one of the promise.
LEMMA PromiseRelease ==
    ASSUME TypeOK, NEW o \in Objects, Release(o)
    PROVE  Promise!Release(o)
PROOF
<1> DEFINE h == FormatDetailsOf[o]
           e == IF HeldByOther(o, h) THEN ResetDetails(heap[h]) ELSE NoDetails
<1>1. /\ locked[o] /\ UNCHANGED prop
      /\ locked' = [locked EXCEPT ![o] = FALSE]
      /\ FormatDetailsOf' = [FormatDetailsOf EXCEPT ![o] = NoHandle]
      /\ heap' = [heap EXCEPT ![h] = e]
  BY DEF Release, HeldByOther
<1>2. IsDetails(heap[h])
  BY <1>1, TypeParts
<1>3. TableUnder(e) = Promise!NoResults
  <2>1. TableUnder(ResetDetails(heap[h])) = NoRows
    BY <1>2, ResetParts, EmptyTable
  <2>2. TableUnder(NoDetails) = NoRows
    BY DEF TableUnder
  <2> QED BY <2>1, <2>2 DEF NoRows, Promise!NoResults
<1> HIDE DEF e
<1>4. Table' = [Table EXCEPT ![h] = Promise!NoResults]
  BY <1>1, <1>3, PromiseChange
<1> QED BY <1>1, <1>4 DEF Promise!Release, Table, TableUnder, NoRows

\* An object that takes no handle holds no table.
LEMMA PromiseDrop ==
    ASSUME TypeOK, NEW o \in Objects, Assign(o, NoHandle, NoDetails)
    PROVE  Promise!Hold(o, NoHandle, Promise!NoResults)
PROOF
<1>1. TableUnder(NoDetails) = Promise!NoResults
  BY DEF TableUnder, NoRows, Promise!NoResults
<1>2. Promise!Hold(o, NoHandle, TableUnder(NoDetails))
  BY PromiseHold
<1> QED BY <1>1, <1>2

\* A saved object that is loaded is a copy with results of its own.
LEMMA PromiseCopy ==
    ASSUME TypeOK, NEW o \in Objects, NEW src \in Objects \ {o}, Reload(o, src)
    PROVE  Promise!Copy(o, src)
PROOF
<1>1. Promise!CopyState(o, src)
  BY DEF Reload, CopyState, Promise!CopyState
<1>2. CASE locked[src]
  <2>1. FormatDetailsOf[src] \in Handles
    BY <1>2, TypeParts
  <2>2. Promise!HoldNew(o, TableUnder(heap[FormatDetailsOf[src]]))
    BY <1>2, PromiseHoldNew DEF Reload
  <2>3. Promise!HoldNew(o, Table[FormatDetailsOf[src]])
    BY <2>1, <2>2 DEF Table
  <2> QED BY <1>1, <1>2, <2>3 DEF Promise!Copy, Table, TableUnder, NoRows
<1>3. CASE ~locked[src]
  BY <1>1, <1>3, PromiseDrop DEF Promise!Copy, Reload
<1> QED BY <1>2, <1>3

\* A clone holds the table of the object it was made of.
LEMMA PromiseClone ==
    ASSUME TypeOK, NEW o \in Objects, NEW src \in Objects \ {o}, Clone(o, src)
    PROVE  Promise!Clone(o, src)
PROOF
<1>1. Promise!CopyState(o, src)
  BY DEF Clone, CopyState, Promise!CopyState
<1>2. CASE locked[src]
  <2>1. FormatDetailsOf[src] \in Handles
    BY <1>2, TypeParts
  <2>2. PICK h \in Handles : h = FormatDetailsOf[src]
    BY <2>1
  <2>3. PICK d : d = heap[h]
    OBVIOUS
  <2>4. Assign(o, h, d)
    BY <1>2, <2>2, <2>3 DEF Clone, Assign
  <2>5. Promise!Hold(o, h, TableUnder(d))
    BY <2>4, PromiseHold
  <2>6. Table[FormatDetailsOf[src]] = TableUnder(d)
    BY <2>2, <2>3 DEF Table
  <2>7. Promise!Hold(o, FormatDetailsOf[src], Table[FormatDetailsOf[src]])
    BY <2>2, <2>5, <2>6 DEF Promise!Hold
  <2> QED BY <1>1, <1>2, <2>7 DEF Promise!Clone, Table, TableUnder, NoRows
<1>3. CASE ~locked[src]
  BY <1>1, <1>3, PromiseDrop DEF Promise!Clone, Clone
<1> QED BY <1>2, <1>3

\* At first no object holds a table.
LEMMA PromiseInit ==
    ASSUME Init
    PROVE  Promise!Init
PROOF
<1>1. prop \in [Objects -> Promise!Properties]
  BY PromiseFormats, UserPropertiesAssumption DEF Init
<1>2. Table = [h \in Handles |-> Promise!NoResults]
  BY DEF Init, Table, TableUnder, NoRows, Promise!NoResults
<1> QED BY <1>1, <1>2 DEF Init, Promise!Init, Table, TableUnder, NoRows

\* Every step is one of the promise, or changes nothing it speaks of.
LEMMA PromiseNext ==
    ASSUME SingleSNRs, SoundConfigurations, TypeOK, AlignedTables, [Next]_vars
    PROVE  [Promise!Next]_Promise!vars
PROOF
<1>1. ASSUME NEW o \in Objects, Call(o)
      PROVE  Promise!Call(o)
  <2>1. ASSUME NEW p \in UserProperties, Configure(o, p) PROVE Promise!Call(o)
    <3>1. p \in Promise!Properties
      BY PromiseFormats, UserPropertiesAssumption
    <3>2. Promise!Configure(o, p)
      BY <2>1 DEF Configure, Promise!Configure
    <3> QED BY <3>1, <3>2 DEF Promise!Call
  <2>2. CASE Setup(o)
    BY <2>2, PromiseSetup DEF Promise!Call
  <2>3. ASSUME NEW S \in SNRLists[prop[o].PUCCHFormat], NEW nFrames \in Frames,
               Step(o, Unique(S), nFrames)
        PROVE  Promise!Call(o)
    <3>1. Promise!Step(o, S, nFrames) /\ S \in (SUBSET SNRs) \ {{}}
      BY <2>3, PromiseStep
    <3> QED BY <3>1 DEF Promise!Call
  <2>4. CASE Reset(o)
    BY <2>4, PromiseReset DEF Promise!Call
  <2>5. CASE Release(o)
    BY <2>5, PromiseRelease DEF Promise!Call
  <2>6. ASSUME NEW src \in Objects \ {o}, Reload(o, src) PROVE Promise!Call(o)
    BY <2>6, PromiseCopy DEF Promise!Call
  <2>7. ASSUME NEW src \in Objects \ {o}, Clone(o, src) PROVE Promise!Call(o)
    BY <2>7, PromiseClone DEF Promise!Call
  <2> QED BY <1>1, <2>1, <2>2, <2>3, <2>4, <2>5, <2>6, <2>7 DEF Call
<1>2. CASE UNCHANGED vars
  BY <1>2 DEF vars, Promise!vars
<1>3. CASE Next
  BY <1>1, <1>3 DEF Next, Promise!Next
<1> QED BY <1>2, <1>3

\* Simulators keep the promise of ResultTables when users simulate one SNR value per call
\* with Formats 2 to 4 and avoid the two kinds of tests whose counters are wrong (false
\* alarms with Format 0, where FalseSRs repeats FalseACKs, and detection with Format 1,
\* where reset forgets NACK2ACKs): calls of step combine, later ones overwrite the results
\* of the same SNR value, clones share results, saved objects have their own, and reset and
\* release start from scratch.
THEOREM ResultsAlwaysCombine ==
    ASSUME SingleSNRs, SoundConfigurations
    PROVE  Spec => ResultsCombine
PROOF
<1>1. Init => TypeOK /\ AlignedTables
  <2>1. ASSUME Init PROVE AlignedTables
    BY <2>1, ObjectsAssumption DEF Init, AlignedTables, Held, Handles
  <2> QED BY <2>1, TypeInit
<1>2. TypeOK /\ AlignedTables /\ [Next]_vars => TypeOK' /\ AlignedTables'
  BY NextTypes, NextAligned
<1>3. Init => Promise!Init
  BY PromiseInit
<1>4. TypeOK /\ AlignedTables /\ [Next]_vars => [Promise!Next]_Promise!vars
  BY PromiseNext
<1> QED BY <1>1, <1>2, <1>3, <1>4, PTL DEF Spec, ResultsCombine, Promise!Spec
=============================================================================
