---------------------------- MODULE ParallelProofs ----------------------------
(***************************************************************************)
(* The two drivers of the parallel engine, run_streaming and               *)
(* run_aggregate, for every table, number of workers and morsel size.      *)
(*                                                                         *)
(* run_streaming implements the single-threaded plan.  Its steps are pool  *)
(* steps, so the exchange finds every morsel once in the workers' lists:   *)
(* the order it concatenates them in is a rearrangement of the table's.    *)
(* Sequences in another order flatten to the same rows in another order,   *)
(* and the morsels in the table's order flatten to the drain of the whole  *)
(* table.  A stable sort puts row k where k - 1 rows come before, a        *)
(* rearrangement in ascending order of the keys; and two ascending         *)
(* rearrangements of the same rows have the same key in every place.       *)
(*                                                                         *)
(* run_aggregate adds a merge loop that runs where the pool stands still:  *)
(* every map the merge reads is final and together the maps stand for      *)
(* every morsel once.  Then the maps themselves: the sum, least and        *)
(* greatest value of two disjoint sets of rows are those of the two (by    *)
(* induction over the rows, NaN included), so a map that takes in one more *)
(* morsel, or one more worker, is the aggregate of exactly the rows        *)
(* drained so far.  The invariant carries that to the result: counts, sums *)
(* and averages are those of the single-threaded plan, and so is the whole *)
(* result when no value is NaN.                                            *)
(***************************************************************************)
EXTENDS ParallelStreaming, ParallelAggregate, MorselPoolProofs

-----------------------------------------------------------------------------
(***************************************************************************)
(* STREAMING.                                                              *)
(***************************************************************************)

(***************************************************************************)
(* The stable sort.                                                        *)
(***************************************************************************)
KeysAscend(s) == \A i, j \in DOMAIN s : i < j => SortKey(s[i]) <= SortKey(s[j])

\* The sort rearranges its input into ascending order of the keys.
LEMMA SortFacts ==
    ASSUME NEW s \in Seq(OutRows)
    PROVE  /\ StableSort(s) \in Seq(OutRows) /\ Len(StableSort(s)) = Len(s)
           /\ Permuted(StableSort(s), s)
           /\ KeysAscend(StableSort(s))
<1> DEFINE n == Len(s)
           D == 1 .. n
           R == {x \in D \X D : Before(s, x[1], x[2])}
           rank == [i \in D |-> Cardinality(Earlier(R, D, i))]
           places == {<<i, Cardinality({j \in DOMAIN s : Before(s, j, i)}) + 1>> : i \in DOMAIN s}
           at == [k \in D |-> (CHOOSE p \in places : p[2] = k)[1]]
           t == StableSort(s)
<1>1. n \in Nat /\ DOMAIN s = D /\ \A i \in D : s[i] \in OutRows /\ SortKey(s[i]) \in Int
  BY StreamingAssumption
<1>2. \A i, j \in D : <<i, j>> \in R <=> Before(s, i, j)
  OBVIOUS
<1>3. StrictTotal(R, D)
  <2>1. \A i \in D : ~Before(s, i, i)
    BY <1>1 DEF Before
  <2>2. \A i, j \in D : i # j => Before(s, i, j) \/ Before(s, j, i)
    BY <1>1 DEF Before
  <2>3. \A i, j, k \in D : Before(s, i, j) /\ Before(s, j, k) => Before(s, i, k)
    BY <1>1 DEF Before
  <2> HIDE DEF R, D
  <2>. QED BY <1>2, <2>1, <2>2, <2>3 DEF StrictTotal
<1>4. OneToOne(rank, D, 0 .. n - 1) /\ \A i, j \in D : <<i, j>> \in R => rank[i] < rank[j]
  <2> HIDE DEF R, n
  <2>. QED BY <1>1, <1>3, RanksNumber
<1>5. places = {<<i, rank[i] + 1>> : i \in D}
  <2>1. \A i \in D : Earlier(R, D, i) = {j \in D : Before(s, j, i)}
    BY <1>2 DEF Earlier
  <2>. QED BY <1>1, <2>1
<1>6. t = [k \in D |-> s[at[k]]]
  BY <1>1 DEF StableSort
<1>7. \A i \in D : rank[i] \in 0 .. n - 1
  BY <1>4 DEF OneToOne
<1> HIDE DEF rank, t, R
<1>8. ASSUME NEW k \in D PROVE at[k] \in D /\ rank[at[k]] = k - 1
  <2>1. k - 1 \in 0 .. n - 1
    BY <1>1
  <2>2. PICK i \in D : rank[i] = k - 1
    BY <1>4, <2>1 DEF OneToOne
  <2>3. <<i, k>> \in places /\ <<i, k>>[2] = k
    <3>1. rank[i] + 1 = k
      BY <2>2, <1>1
    <3> HIDE DEF places
    <3>. QED BY <1>5, <2>2, <3>1
  <2> DEFINE p == CHOOSE p \in places : p[2] = k
  <2>4. p \in places /\ p[2] = k /\ at[k] = p[1]
    BY <2>3
  <2> HIDE DEF p, places, at
  <2>5. PICK j \in D : p = <<j, rank[j] + 1>>
    BY <1>5, <2>4
  <2>6. at[k] = j /\ rank[j] + 1 = k
    BY <2>4, <2>5
  <2>. QED BY <2>5, <2>6, <1>7
<1>d. at = [k \in D |-> at[k]]
  OBVIOUS
<1> HIDE DEF at, places
<1>9. OneToOne(at, D, D)
  <2>1. at \in [D -> D]
    BY <1>8, <1>d
  <2>2. ASSUME NEW k \in D, NEW m \in D, at[k] = at[m] PROVE k = m
    <3>1. k - 1 = m - 1
      BY <1>8, <2>2
    <3>. QED BY <3>1
  <2>3. ASSUME NEW i \in D PROVE \E k \in D : at[k] = i
    <3>1. rank[i] \in 0 .. n - 1
      BY <1>7
    <3>2. rank[i] + 1 \in D /\ (rank[i] + 1) - 1 = rank[i]
      BY <3>1, <1>1
    <3>3. at[rank[i] + 1] \in D /\ rank[at[rank[i] + 1]] = rank[i]
      BY <1>8, <3>2
    <3>. QED BY <1>4, <3>2, <3>3 DEF OneToOne
  <2>. QED BY <2>1, <2>2, <2>3 DEF OneToOne
<1>10. t \in Seq(OutRows) /\ Len(t) = n /\ DOMAIN t = D /\ \A k \in D : t[k] = s[at[k]]
  BY <1>1, <1>6, <1>8
<1>11. Permuted(t, s)
  BY <1>1, <1>9, <1>10 DEF Permuted
<1>12. KeysAscend(t)
  <2>1. SUFFICES ASSUME NEW i \in D, NEW j \in D, i < j PROVE SortKey(t[i]) <= SortKey(t[j])
    BY <1>10 DEF KeysAscend
  <2> DEFINE x == at[i]
             y == at[j]
  <2>2. x \in D /\ y \in D /\ rank[x] = i - 1 /\ rank[y] = j - 1
    BY <1>8
  <2> HIDE DEF x, y
  <2>3. <<y, x>> \notin R /\ x # y
    <3>1. <<y, x>> \in R => j - 1 < i - 1
      BY <1>4, <2>2
    <3>2. i # j
      BY <2>1
    <3>. QED BY <2>1, <2>2, <3>1, <3>2
  <2>4. Before(s, x, y)
    BY <1>2, <1>3, <2>2, <2>3 DEF StrictTotal
  <2>5. SortKey(s[x]) <= SortKey(s[y])
    BY <1>1, <2>2, <2>4 DEF Before
  <2>. QED BY <1>10, <2>5 DEF x, y
<1>. QED BY <1>10, <1>11, <1>12 DEF t

\* The output rows whose key is at most K.
UpTo(K) == {x \in OutRows : SortKey(x) <= K}

\* Of two ascending sequences with as many keys up to every bound, neither has
\* a smaller key anywhere.
LEMMA NotSmaller ==
    ASSUME NEW s \in Seq(OutRows), NEW t \in Seq(OutRows), KeysAscend(s), KeysAscend(t),
           Len(s) = Len(t),
           \A K : Cardinality(Holders(s, UpTo(K))) = Cardinality(Holders(t, UpTo(K))),
           NEW k \in 1 .. Len(s)
    PROVE  ~(SortKey(s[k]) < SortKey(t[k]))
<1> DEFINE n == Len(s)
           K == SortKey(s[k])
<1>1. /\ n \in Nat /\ DOMAIN s = 1 .. n /\ DOMAIN t = 1 .. n
      /\ \A i \in 1 .. n : s[i] \in OutRows /\ SortKey(s[i]) \in Int
                        /\ t[i] \in OutRows /\ SortKey(t[i]) \in Int
  BY StreamingAssumption
<1>2. SUFFICES ASSUME K < SortKey(t[k]) PROVE FALSE
  OBVIOUS
<1>3. 1 .. k \in SUBSET Holders(s, UpTo(K))
  <2>1. ASSUME NEW i \in 1 .. k PROVE i \in 1 .. n /\ SortKey(s[i]) <= K
    <3>1. i \in 1 .. n /\ (i < k \/ i = k)
      BY <1>1
    <3>. QED BY <3>1, <1>1 DEF KeysAscend
  <2>. QED BY <2>1, <1>1 DEF Holders, UpTo
<1>4. Holders(t, UpTo(K)) \in SUBSET (1 .. k - 1)
  <2>1. ASSUME NEW i \in 1 .. n, SortKey(t[i]) <= K PROVE i \in 1 .. k - 1
    <3>1. SUFFICES ASSUME i >= k PROVE FALSE
      BY <1>1
    <3>2. SortKey(t[i]) >= SortKey(t[k])
      <4>1. k < i \/ k = i
        BY <3>1, <1>1
      <4>2. k < i => SortKey(t[k]) <= SortKey(t[i])
        BY <1>1 DEF KeysAscend
      <4>3. SortKey(t[k]) \in Int
        BY <1>1
      <4>. QED BY <4>1, <4>2, <4>3
    <3>. QED BY <1>1, <1>2, <2>1, <3>2
  <2>. QED BY <2>1, <1>1 DEF Holders, UpTo
<1> DEFINE c == Cardinality(Holders(s, UpTo(K)))
<1>5. IsFiniteSet(Holders(s, UpTo(K)))
  <2>1. IsFiniteSet(1 .. n) /\ Holders(s, UpTo(K)) \in SUBSET (1 .. n)
    BY <1>1, FS_Interval DEF Holders
  <2>. QED BY <2>1, FS_Subset
<1>6. k <= c /\ c \in Nat
  <2>1. Cardinality(1 .. k) = k
    BY FS_Interval
  <2>. QED BY <1>3, <1>5, <2>1, FS_Subset, FS_CardinalityType
<1>7. c <= k - 1
  <2>1. Cardinality(1 .. k - 1) = k - 1 /\ IsFiniteSet(1 .. k - 1)
    <3>1. 1 \in Int /\ k - 1 \in Int /\ k >= 1
      BY <1>1
    <3>2. IsFiniteSet(1 .. k - 1)
          /\ Cardinality(1 .. k - 1) = IF 1 > k - 1 THEN 0 ELSE (k - 1) - 1 + 1
      BY <3>1, FS_Interval, Zenon
    <3>. QED BY <3>1, <3>2
  <2>2. Cardinality(Holders(t, UpTo(K))) <= k - 1
    BY <1>4, <2>1, FS_Subset
  <2>. QED BY <2>2
<1> HIDE DEF c
<1>. QED BY <1>6, <1>7

\* Sorting two arrangements of the same rows gives the same keys in the same places.
LEMMA SortedKeysAgree ==
    ASSUME NEW s \in Seq(OutRows), NEW t \in Seq(OutRows), Permuted(s, t)
    PROVE  /\ Len(StableSort(s)) = Len(StableSort(t))
           /\ \A k \in DOMAIN StableSort(t) :
                SortKey(StableSort(s)[k]) = SortKey(StableSort(t)[k])
<1> DEFINE u == StableSort(s)
           v == StableSort(t)
<1>1. /\ u \in Seq(OutRows) /\ Len(u) = Len(s) /\ Permuted(u, s) /\ KeysAscend(u)
      /\ v \in Seq(OutRows) /\ Len(v) = Len(t) /\ Permuted(v, t) /\ KeysAscend(v)
  BY SortFacts
<1> HIDE DEF u, v
<1>2. ASSUME NEW C PROVE Cardinality(Holders(u, C)) = Cardinality(Holders(v, C))
  <2>1. Cardinality(Holders(u, C)) = Cardinality(Holders(s, C))
    BY <1>1, PermutedCount
  <2>2. Cardinality(Holders(s, C)) = Cardinality(Holders(t, C))
    BY PermutedCount
  <2>3. Cardinality(Holders(v, C)) = Cardinality(Holders(t, C))
    BY <1>1, PermutedCount
  <2>. QED BY <2>1, <2>2, <2>3
<1>3. Len(u) = Len(v)
  <2>1. ASSUME NEW w \in Seq(OutRows) PROVE Cardinality(Holders(w, OutRows)) = Len(w)
    <3>1. Holders(w, OutRows) = 1 .. Len(w) /\ Len(w) \in Nat
      BY DEF Holders
    <3>2. 1 \in Int /\ Len(w) \in Int
      BY <3>1
    <3>3. Cardinality(1 .. Len(w)) = IF 1 > Len(w) THEN 0 ELSE Len(w) - 1 + 1
      BY <3>2, FS_Interval, Zenon
    <3>. QED BY <3>1, <3>3
  <2>. QED BY <1>1, <1>2, <2>1
<1>4. ASSUME NEW k \in 1 .. Len(v) PROVE SortKey(u[k]) = SortKey(v[k])
  <2>1. ~(SortKey(u[k]) < SortKey(v[k])) /\ ~(SortKey(v[k]) < SortKey(u[k]))
    BY <1>1, <1>2, <1>3, NotSmaller
  <2>2. u[k] \in OutRows /\ v[k] \in OutRows
    BY <1>1, <1>3
  <2>3. SortKey(u[k]) \in Int /\ SortKey(v[k]) \in Int
    BY <2>2, StreamingAssumption
  <2>. QED BY <2>1, <2>3
<1>5. DOMAIN v = 1 .. Len(v)
  BY <1>1
<1>. QED BY <1>3, <1>4, <1>5 DEF u, v

-----------------------------------------------------------------------------
(***************************************************************************)
(* Draining.                                                               *)
(***************************************************************************)
\* The output of the rows a .. b-1, one sequence per row.
Outputs(tbl, a, b) == [i \in 1 .. b - a |-> Emit(tbl[a + i])]

\* a .. b-1 are row indices of the table.
RowRange(tbl, a, b) == tbl \in Seq(Rows) /\ a \in Nat /\ b \in Nat /\ a <= b /\ b <= Len(tbl)

\* A drain puts out a sequence of rows.
LEMMA DrainType ==
    ASSUME NEW tbl, NEW a, NEW b, RowRange(tbl, a, b)
    PROVE  /\ SeqsOf(Outputs(tbl, a, b), OutRows) /\ Len(Outputs(tbl, a, b)) = b - a
           /\ DrainRange(tbl, a, b) = FlattenSeq(Outputs(tbl, a, b))
           /\ DrainRange(tbl, a, b) \in Seq(OutRows)
<1>1. ASSUME NEW i \in 1 .. b - a PROVE Emit(tbl[a + i]) \in Seq(OutRows)
  <2>1. a + i \in 1 .. Len(tbl)
    BY DEF RowRange
  <2>2. tbl[a + i] \in Rows
    BY <2>1 DEF RowRange
  <2>. QED BY <2>2, StreamingAssumption
<1>2. b - a \in Nat
  BY DEF RowRange
<1> DEFINE A == Seq(OutRows)
<1> HIDE DEF A
<1>3. Outputs(tbl, a, b) \in Seq(A) /\ Len(Outputs(tbl, a, b)) = b - a
  BY <1>1, <1>2 DEF Outputs, A
<1>4. SeqsOf(Outputs(tbl, a, b), OutRows)
  BY <1>3 DEF SeqsOf, A
<1>5. DrainRange(tbl, a, b) = FlattenSeq(Outputs(tbl, a, b))
  BY DEF DrainRange, Outputs
<1>6. FlattenSeq(Outputs(tbl, a, b)) \in Seq(OutRows)
  <2>1. PICK h : /\ h \in [0 .. Len(Outputs(tbl, a, b)) -> Seq(OutRows)]
                 /\ FlattenSeq(Outputs(tbl, a, b)) = h[Len(Outputs(tbl, a, b))]
    BY <1>4, FlattenTable DEF SeqsOf
  <2>. QED BY <2>1, <1>2, <1>3
<1>. QED BY <1>3, <1>4, <1>5, <1>6

\* Nothing comes out of no rows.
LEMMA DrainNothing == ASSUME NEW tbl, NEW a \in Nat PROVE DrainRange(tbl, a, a) = <<>>
<1>1. a - a = 0 /\ 1 .. 0 = {}
  OBVIOUS
<1>2. [i \in 1 .. a - a |-> Emit(tbl[a + i])] = <<>>
  BY <1>1
<1>. QED BY <1>2, FlattenEmpty DEF DrainRange

\* Two adjacent ranges of rows drain to what they drain to together.
LEMMA DrainSplit ==
    ASSUME NEW tbl, NEW a, NEW b, NEW c, RowRange(tbl, a, b), RowRange(tbl, b, c)
    PROVE  DrainRange(tbl, a, c) = Cat(DrainRange(tbl, a, b), DrainRange(tbl, b, c))
<1> DEFINE A == Seq(OutRows)
           x == Outputs(tbl, a, b)
           y == Outputs(tbl, b, c)
           z == Outputs(tbl, a, c)
<1>1. RowRange(tbl, a, c) /\ a \in Nat /\ b \in Nat /\ c \in Nat /\ a <= b /\ b <= c
  BY DEF RowRange
<1>2. /\ x \in Seq(A) /\ Len(x) = b - a /\ DrainRange(tbl, a, b) = FlattenSeq(x)
      /\ y \in Seq(A) /\ Len(y) = c - b /\ DrainRange(tbl, b, c) = FlattenSeq(y)
      /\ z \in Seq(A) /\ Len(z) = c - a /\ DrainRange(tbl, a, c) = FlattenSeq(z)
  BY <1>1, DrainType DEF SeqsOf
<1>3. /\ \A i \in 1 .. b - a : x[i] = Emit(tbl[a + i])
      /\ \A i \in 1 .. c - b : y[i] = Emit(tbl[b + i])
      /\ \A i \in 1 .. c - a : z[i] = Emit(tbl[a + i])
  BY DEF Outputs
<1> HIDE DEF x, y, z, A
<1>4. z = x \o y
  <2>1. x \o y \in Seq(A) /\ Len(x \o y) = c - a
    BY <1>1, <1>2
  <2>2. ASSUME NEW i \in 1 .. c - a PROVE z[i] = (x \o y)[i]
    <3>1. CASE i <= b - a
      <4>1. i \in 1 .. b - a
        BY <3>1, <1>1
      <4>2. (x \o y)[i] = x[i]
        BY <4>1, <1>2
      <4>. QED BY <4>1, <4>2, <1>3
    <3>2. CASE i > b - a
      <4> DEFINE j == i - (b - a)
      <4>1. j \in 1 .. c - b /\ (b - a) + j = i /\ b + j = a + i
        BY <3>2, <1>1
      <4> HIDE DEF j
      <4>2. (x \o y)[i] = y[j]
        BY <4>1, <1>2
      <4>. QED BY <4>1, <4>2, <1>3
    <3>3. i <= b - a \/ i > b - a
      BY <1>1
    <3>. QED BY <3>1, <3>2, <3>3
  <2>3. /\ z = [i \in 1 .. Len(z) |-> z[i]]
        /\ x \o y = [i \in 1 .. Len(x \o y) |-> (x \o y)[i]]
    <3>1. \A s \in Seq(A) : s = [i \in 1 .. Len(s) |-> s[i]]
      OBVIOUS
    <3>. QED BY <2>1, <1>2, <3>1, Zenon
  <2> DEFINE u == x \o y
  <2>4. u = [i \in 1 .. c - a |-> u[i]] /\ z = [i \in 1 .. c - a |-> z[i]]
        /\ \A i \in 1 .. c - a : z[i] = u[i]
    BY <2>1, <2>2, <2>3, <1>2
  <2> HIDE DEF u
  <2>5. z = u
    BY <2>4
  <2>. QED BY <2>5 DEF u
<1>5. FlattenSeq(Cat(x, y)) = Cat(FlattenSeq(x), FlattenSeq(y))
  BY <1>2, FlattenConcat DEF A
<1>. QED BY <1>2, <1>4, <1>5 DEF Cat

\* Every morsel starts inside the table, and the last one ends with it.
LEMMA MorselBounds ==
    ASSUME total \in Nat
    PROVE  /\ NumMorsels \in Nat /\ NumMorsels > 0
           /\ NumMorsels * MorselRows >= total
           /\ \A k \in 0 .. NumMorsels - 1 : k * MorselRows \in Nat /\ k * MorselRows <= total
<1> USE Sizes
<1>1. CASE total = 0
  <2>1. NumMorsels = 1
    BY <1>1 DEF NumMorsels
  <2>2. 1 * MorselRows = MorselRows /\ 0 * MorselRows = 0 /\ 0 .. NumMorsels - 1 = {0}
    BY <2>1
  <2>. QED BY <1>1, <2>1, <2>2
<1>2. CASE total # 0
  <2> DEFINE x == total + MorselRows - 1
             q == x \div MorselRows
  <2>1. x \in Nat /\ NumMorsels = q /\ x = total + MorselRows - 1
    BY <1>2 DEF NumMorsels
  <2>2. x = MorselRows * q + (x % MorselRows) /\ x % MorselRows \in 0 .. MorselRows - 1 /\ q \in Nat
    BY <2>1, DivMod
  <2> HIDE DEF x, q
  <2>3. q * MorselRows = MorselRows * q /\ MorselRows * q \in Nat
    BY <2>2
  <2>4. q # 0
    <3>1. SUFFICES ASSUME q = 0 PROVE FALSE
      OBVIOUS
    <3>2. MorselRows * q = 0
      BY <3>1
    <3>. QED BY <1>2, <2>1, <2>2, <3>2
  <2>5. q * MorselRows >= total
    BY <2>1, <2>2, <2>3
  <2>6. ASSUME NEW k \in 0 .. q - 1 PROVE k * MorselRows \in Nat /\ k * MorselRows <= total
    <3> DEFINE d == q - 1 - k
    <3>1. k \in Nat /\ d \in Nat /\ q = k + 1 + d
      BY <2>2
    <3> HIDE DEF d
    <3>2. d * MorselRows \in Nat /\ k * MorselRows \in Nat
      BY <3>1
    <3>3. (k + 1 + d) * MorselRows = k * MorselRows + MorselRows + d * MorselRows
      BY <3>1
    <3>. QED BY <2>1, <2>2, <2>3, <3>1, <3>2, <3>3
  <2>. QED BY <2>1, <2>2, <2>4, <2>5, <2>6
<1>. QED BY <1>1, <1>2

\* What a worker drains from a morsel, and the morsels in the order of the table.
MorselDrain(m) == DrainRange(table, Start(m), End(m))
InOrder == [k \in 1 .. NumMorsels |-> MorselDrain(k - 1)]

TableOK == table \in Tables /\ total = Len(table) /\ sorted \in BOOLEAN

\* Draining the morsels in order is draining the table.
LEMMA WholeTable ==
    ASSUME TableOK
    PROVE  /\ total \in Nat
           /\ \A m \in 0 .. NumMorsels - 1 : MorselDrain(m) \in Seq(OutRows)
           /\ SeqsOf(InOrder, OutRows) /\ DOMAIN InOrder = 1 .. NumMorsels
           /\ FlattenSeq(InOrder) = DrainRange(table, 0, total)
           /\ RowRange(table, 0, total)
<1>1. table \in Seq(Rows) /\ total = Len(table) /\ total \in Nat
  BY StreamingAssumption DEF TableOK
<1> DEFINE N == NumMorsels
           cut == [k \in 0 .. N |-> Lesser(k * MorselRows, total)]
           g == [k \in 0 .. N |-> DrainRange(table, 0, cut[k])]
<1>2. /\ N \in Nat /\ N > 0 /\ N * MorselRows >= total
      /\ \A k \in 0 .. N - 1 : k * MorselRows \in Nat /\ k * MorselRows <= total
  BY <1>1, MorselBounds
<1>3. cut[0] = 0 /\ cut[N] = total
  <2>1. 0 * MorselRows = 0 /\ N * MorselRows \in Nat /\ 0 \in 0 .. N /\ N \in 0 .. N
    BY <1>2, Sizes
  <2>. QED BY <2>1, <1>1, <1>2 DEF Lesser
<1>4. ASSUME NEW m \in 0 .. N - 1
      PROVE /\ cut[m] = Start(m) /\ cut[m + 1] = End(m)
            /\ Start(m) \in Nat /\ End(m) \in Nat /\ Start(m) <= End(m) /\ End(m) <= total
  <2>1. m \in Nat /\ m \in 0 .. N /\ m + 1 \in 0 .. N /\ m * MorselRows \in Nat /\ m * MorselRows <= total
    BY <1>2
  <2>2. (m + 1) * MorselRows = m * MorselRows + MorselRows
    BY <2>1, Sizes
  <2>. QED BY <2>1, <2>2, <1>1, Sizes DEF Start, End, Lesser
<1> HIDE DEF cut
<1>5. \A m \in 0 .. N - 1 : RowRange(table, Start(m), End(m)) /\ RowRange(table, 0, Start(m))
  BY <1>1, <1>4 DEF RowRange
<1>6. \A m \in 0 .. N - 1 : MorselDrain(m) \in Seq(OutRows)
  BY <1>5, DrainType DEF MorselDrain
<1>7. InOrder \in Seq(Seq(OutRows)) /\ Len(InOrder) = N
  <2> DEFINE A == Seq(OutRows)
  <2> HIDE DEF A, N
  <2>1. \A k \in 1 .. N : MorselDrain(k - 1) \in A
    <3>1. \A k \in 1 .. N : k - 1 \in 0 .. N - 1
      BY <1>2
    <3>. QED BY <1>6, <3>1 DEF A
  <2>2. InOrder = [k \in 1 .. N |-> MorselDrain(k - 1)]
    BY DEF InOrder, N
  <2>. QED BY <1>2, <2>1, <2>2 DEF A
<1>8. JoinTable(g, InOrder)
  <2>1. g[0] = <<>>
    <3>1. g[0] = DrainRange(table, 0, 0)
      BY <1>2, <1>3
    <3>. QED BY <3>1, DrainNothing
  <2>2. ASSUME NEW k \in 1 .. N PROVE g[k] = g[k - 1] \o InOrder[k]
    <3> DEFINE m == k - 1
    <3>1. m \in 0 .. N - 1 /\ m + 1 = k /\ m \in 0 .. N /\ k \in 0 .. N
      BY <1>2
    <3>2. InOrder[k] = DrainRange(table, Start(m), End(m))
      BY DEF InOrder, MorselDrain
    <3> HIDE DEF m
    <3>3. g[k] = DrainRange(table, 0, End(m)) /\ g[m] = DrainRange(table, 0, Start(m))
      BY <1>4, <3>1
    <3>4. RowRange(table, 0, Start(m)) /\ RowRange(table, Start(m), End(m))
      BY <1>5, <3>1
    <3>5. DrainRange(table, 0, End(m)) = Cat(DrainRange(table, 0, Start(m)),
                                             DrainRange(table, Start(m), End(m)))
      BY <3>4, DrainSplit
    <3> HIDE DEF g
    <3>6. g[k] = Cat(g[m], InOrder[k])
      BY <3>2, <3>3, <3>5
    <3>. QED BY <3>6 DEF Cat, m
  <2> HIDE DEF g
  <2>. QED BY <1>7, <2>1, <2>2 DEF JoinTable
<1>9. g[N] = DrainRange(table, 0, total)
  BY <1>2, <1>3
<1> HIDE DEF g
<1>10. FlattenSeq(InOrder) = g[N]
  BY <1>7, <1>8, FlattenIs
<1>11. DOMAIN InOrder = 1 .. NumMorsels
  BY DEF InOrder
<1>12. RowRange(table, 0, total)
  BY <1>1 DEF RowRange
<1>. QED BY <1>1, <1>6, <1>7, <1>9, <1>10, <1>11, <1>12 DEF SeqsOf

\* The morsels in the order the exchange concatenates them.
Lists == [w \in 1 .. Threads |-> parts[w - 1]]
DrainOrder == FlattenSeq(Lists)

(***************************************************************************)
(* When the exchange runs, every morsel occurs once in the order of the    *)
(* concatenation.                                                          *)
(***************************************************************************)
LEMMA EachMorselOnce ==
    ASSUME PoolInv, mainpc = "merge", total \in Nat
    PROVE  /\ \A i \in DOMAIN DrainOrder : DrainOrder[i] \in 0 .. NumMorsels - 1
           /\ OneToOne([i \in DOMAIN DrainOrder |-> DrainOrder[i] + 1],
                       DOMAIN DrainOrder, 1 .. NumMorsels)
           /\ DrainOrder \in Seq(Nat)
<1> DEFINE d == DrainOrder
           T == 1 .. Threads
           P == Pairs(Lists, DOMAIN Lists)
           N == NumMorsels
<1>0. PoolTypeOK /\ N \in Nat
  BY NumMorselsType DEF PoolInv
<1>1. \A w \in T : w - 1 \in Workers /\ parts[w - 1] \in Seq(Nat)
  <2>1. \A w \in T : w - 1 \in Workers
    BY Sizes DEF Workers
  <2>. QED BY <2>1, <1>0 DEF PoolTypeOK
<1>2. \A w \in Workers : w + 1 \in T /\ (w + 1) - 1 = w
  BY Sizes DEF Workers
<1>3. Lists \in Seq(Seq(Nat)) /\ DOMAIN Lists = T /\ \A w \in T : Lists[w] = parts[w - 1]
  <2> DEFINE A == Seq(Nat)
  <2> HIDE DEF A
  <2>1. \A w \in T : parts[w - 1] \in A
    BY <1>1 DEF A
  <2>2. Lists \in Seq(A)
    BY <2>1, Sizes DEF Lists
  <2>. QED BY <2>2 DEF A, Lists
<1>4. PICK b : Locates(b, P, d, Lists)
  BY <1>3, FlattenPlaces DEF SeqsOf, DrainOrder
<1>d. d \in Seq(Nat)
  <2>1. PICK h : /\ h \in [0 .. Len(Lists) -> Seq(Nat)] /\ d = h[Len(Lists)]
    BY <1>3, FlattenTable DEF DrainOrder
  <2>2. Len(Lists) \in Nat
    BY <1>3
  <2>. QED BY <2>1, <2>2
<1>5. /\ NoMorselTwice /\ NoMorselLost
      /\ \A w \in Workers : \A m \in Drained(w) : m \in 0 .. N - 1
  <2>1. \A w \in Workers : \A m \in Drained(w) : m < N
    BY DEF PoolInv, Dispensing, Claims, Owned
  <2>2. \A w \in Workers : \A m \in Drained(w) : m \in Nat
    BY <1>0 DEF PoolTypeOK, Drained
  <2>. QED BY <1>0, <2>1, <2>2, PoolInvImplies
<1> HIDE DEF N
<1>6. \A x \in P : x[1] \in T /\ x[2] \in DOMAIN parts[x[1] - 1] /\ x = <<x[1], x[2]>>
  BY <1>3 DEF Pairs, InRow
<1>7. \A w \in Workers : \A j \in DOMAIN parts[w] : <<w + 1, j>> \in P
  <2>1. ASSUME NEW w \in Workers, NEW j \in DOMAIN parts[w] PROVE <<w + 1, j>> \in P
    <3>1. w + 1 \in DOMAIN Lists /\ Lists[w + 1] = parts[w]
      BY <1>2, <1>3
    <3>2. j \in DOMAIN Lists[w + 1]
      BY <3>1
    <3> HIDE DEF T
    <3>. QED BY <3>1, <3>2 DEF Pairs, InRow
  <2>. QED BY <2>1
<1> HIDE DEF P, d, T
<1>8. \A i \in DOMAIN d : \E x \in P : b[x] = i /\ d[i] = parts[x[1] - 1][x[2]]
  <2>1. ASSUME NEW i \in DOMAIN d PROVE \E x \in P : b[x] = i /\ d[i] = parts[x[1] - 1][x[2]]
    <3>1. PICK x \in P : b[x] = i
      BY <1>4 DEF Locates, OneToOne
    <3>2. d[i] = Lists[x[1]][x[2]]
      BY <3>1, <1>4 DEF Locates
    <3>. QED BY <3>1, <3>2, <1>3, <1>6
  <2>. QED BY <2>1
<1>9. ASSUME NEW x \in P
      PROVE  /\ x[1] - 1 \in Workers /\ parts[x[1] - 1][x[2]] \in Drained(x[1] - 1)
             /\ b[x] \in DOMAIN d /\ d[b[x]] = parts[x[1] - 1][x[2]]
  <2>1. x[1] \in T /\ x[2] \in DOMAIN parts[x[1] - 1]
    BY <1>6
  <2>2. b[x] \in DOMAIN d /\ d[b[x]] = Lists[x[1]][x[2]]
    BY <1>4 DEF Locates, OneToOne
  <2>. QED BY <2>1, <2>2, <1>1, <1>3 DEF Drained
<1>10. ASSUME NEW i \in DOMAIN d PROVE d[i] \in 0 .. N - 1
  BY <1>5, <1>8, <1>9
<1>11. ASSUME NEW i \in DOMAIN d, NEW j \in DOMAIN d, d[i] = d[j] PROVE i = j
  <2>1. PICK x \in P : b[x] = i /\ d[i] = parts[x[1] - 1][x[2]]
    BY <1>8
  <2>2. PICK y \in P : b[y] = j /\ d[j] = parts[y[1] - 1][y[2]]
    BY <1>8
  <2> DEFINE v == x[1] - 1
             w == y[1] - 1
  <2>3. v \in Workers /\ w \in Workers /\ d[i] \in Drained(v) /\ d[i] \in Drained(w)
    BY <1>9, <1>11, <2>1, <2>2
  <2>4. v = w
    BY <2>3, <1>5 DEF NoMorselTwice, Owned
  <2>5. x[1] = y[1]
    <3>1. x[1] \in Int /\ y[1] \in Int
      BY <1>6 DEF T
    <3>. QED BY <2>4, <3>1
  <2>6. x[2] \in DOMAIN parts[v] /\ y[2] \in DOMAIN parts[v] /\ parts[v][x[2]] = parts[v][y[2]]
        /\ x[2] \in Nat /\ y[2] \in Nat /\ parts[v] \in Seq(Nat)
    <3>1. x[2] \in DOMAIN parts[v] /\ y[2] \in DOMAIN parts[v] /\ parts[v][x[2]] = parts[v][y[2]]
      BY <1>6, <1>11, <2>1, <2>2, <2>4
    <3>2. parts[v] \in Seq(Nat)
      BY <2>3, <1>0 DEF PoolTypeOK
    <3> HIDE DEF v
    <3>3. DOMAIN parts[v] \in SUBSET Nat
      BY <3>2
    <3>. QED BY <3>1, <3>2, <3>3
  <2> HIDE DEF v, w
  <2>7. x[2] = y[2]
    <3>1. \A p, q \in DOMAIN parts[v] : p < q => parts[v][p] < parts[v][q]
      BY <2>3, <1>5 DEF NoMorselTwice
    <3>2. parts[v][x[2]] \in Nat
      BY <2>6
    <3>3. ~(x[2] < y[2]) /\ ~(y[2] < x[2])
      <4>1. ~(parts[v][x[2]] < parts[v][y[2]]) /\ ~(parts[v][y[2]] < parts[v][x[2]])
        BY <2>6, <3>2
      <4>. QED BY <2>6, <3>1, <4>1
    <3>. QED BY <2>6, <3>3
  <2>8. x = y
    BY <1>6, <2>5, <2>7
  <2>. QED BY <2>1, <2>2, <2>8
<1>12. ASSUME NEW m \in 0 .. N - 1 PROVE \E i \in DOMAIN d : d[i] = m
  <2>1. PICK w \in Workers : m \in Drained(w)
    BY <1>5 DEF NoMorselLost, N
  <2>2. PICK j \in DOMAIN parts[w] : parts[w][j] = m
    BY <2>1 DEF Drained
  <2> DEFINE x == <<w + 1, j>>
  <2>3. x \in P /\ x[1] - 1 = w /\ x[2] = j
    BY <1>2, <1>7
  <2> HIDE DEF x
  <2>. QED BY <1>9, <2>2, <2>3
<1> DEFINE f == [i \in DOMAIN d |-> d[i] + 1]
<1>13. OneToOne(f, DOMAIN d, 1 .. N)
  <2>1. f \in [DOMAIN d -> 1 .. N]
    <3>1. \A i \in DOMAIN d : d[i] + 1 \in 1 .. N
      BY <1>0, <1>10
    <3>. QED BY <3>1
  <2>2. ASSUME NEW i \in DOMAIN d, NEW j \in DOMAIN d, f[i] = f[j] PROVE i = j
    <3>1. d[i] \in Int /\ d[j] \in Int /\ d[i] + 1 = d[j] + 1
      BY <1>10, <2>2
    <3>2. d[i] = d[j]
      BY <3>1
    <3>. QED BY <1>11, <3>2
  <2>3. ASSUME NEW k \in 1 .. N PROVE \E i \in DOMAIN d : f[i] = k
    <3>1. k - 1 \in 0 .. N - 1 /\ (k - 1) + 1 = k
      BY <1>0
    <3>2. PICK i \in DOMAIN d : d[i] = k - 1
      BY <1>12, <3>1
    <3>. QED BY <3>1, <3>2
  <2> HIDE DEF f
  <2>. QED BY <2>1, <2>2, <2>3 DEF OneToOne
<1>. QED BY <1>10, <1>13, <1>d DEF d, N

(***************************************************************************)
(* When the exchange runs, it concatenates the rows the single-threaded    *)
(* plan puts out, each as often, in some order.                            *)
(***************************************************************************)
LEMMA ConcatenationFacts ==
    ASSUME PoolInv, TableOK, mainpc = "merge"
    PROVE  /\ Concatenation \in Seq(OutRows)
           /\ DrainRange(table, 0, Len(table)) \in Seq(OutRows)
           /\ Permuted(Concatenation, DrainRange(table, 0, Len(table)))
<1> DEFINE d == DrainOrder
           N == NumMorsels
           ss == [i \in DOMAIN d |-> MorselDrain(d[i])]
           f == [i \in DOMAIN d |-> d[i] + 1]
<1>1. /\ total \in Nat /\ total = Len(table)
      /\ \A m \in 0 .. N - 1 : MorselDrain(m) \in Seq(OutRows)
      /\ SeqsOf(InOrder, OutRows) /\ DOMAIN InOrder = 1 .. N
      /\ FlattenSeq(InOrder) = DrainRange(table, 0, total)
      /\ RowRange(table, 0, total)
  BY WholeTable DEF TableOK
<1>2. /\ \A i \in DOMAIN d : d[i] \in 0 .. N - 1
      /\ OneToOne(f, DOMAIN d, 1 .. N)
      /\ d \in Seq(Nat)
  BY <1>1, EachMorselOnce
<1>3. Concatenation = FlattenSeq(ss)
  BY DEF Concatenation, DrainOrder, Lists, MorselDrain
<1> HIDE DEF d
<1>4. SeqsOf(ss, OutRows) /\ DOMAIN ss = DOMAIN d
  <2> DEFINE A == Seq(OutRows)
  <2> HIDE DEF A
  <2>1. \A i \in DOMAIN d : MorselDrain(d[i]) \in A
    BY <1>1, <1>2 DEF A
  <2>2. DOMAIN d = 1 .. Len(d) /\ Len(d) \in Nat
    BY <1>2
  <2>3. ss \in Seq(A)
    BY <2>1, <2>2
  <2>. QED BY <2>3 DEF SeqsOf, A
<1>5. \A i \in DOMAIN d : InOrder[f[i]] = ss[i]
  <2>1. ASSUME NEW i \in DOMAIN d PROVE InOrder[f[i]] = ss[i]
    <3>1. d[i] \in 0 .. N - 1 /\ N \in Nat
      BY <1>1, <1>2, NumMorselsType
    <3>2. d[i] + 1 \in 1 .. N /\ (d[i] + 1) - 1 = d[i]
      BY <3>1
    <3>3. f[i] = d[i] + 1
      OBVIOUS
    <3>4. InOrder[d[i] + 1] = MorselDrain((d[i] + 1) - 1)
      BY <3>2 DEF InOrder
    <3>. QED BY <3>2, <3>3, <3>4
  <2>. QED BY <2>1
<1> HIDE DEF f, ss
<1>6. Permuted(ss, InOrder)
  BY <1>1, <1>2, <1>4, <1>5 DEF Permuted
<1>7. Permuted(FlattenSeq(ss), FlattenSeq(InOrder))
  BY <1>1, <1>4, <1>6, FlattenPermuted
<1>8. Concatenation \in Seq(OutRows)
  <2>1. ss \in Seq(Seq(OutRows)) /\ Len(ss) \in Nat
    BY <1>4 DEF SeqsOf
  <2>2. PICK h : h \in [0 .. Len(ss) -> Seq(OutRows)] /\ FlattenSeq(ss) = h[Len(ss)]
    BY <2>1, FlattenTable
  <2>. QED BY <1>3, <2>1, <2>2
<1>9. DrainRange(table, 0, total) \in Seq(OutRows)
  BY <1>1, DrainType
<1>. QED BY <1>1, <1>3, <1>7, <1>8, <1>9

-----------------------------------------------------------------------------
(***************************************************************************)
(* The inductive invariant.  A result exists only after the return, and    *)
(* is then what the exchange made of every worker's final list.            *)
(***************************************************************************)
Delivered ==
    result # NoResult =>
      /\ mainpc = "returned"
      /\ result \in Seq(OutRows)
      /\ ToBag(result) = ToBag(DrainRange(table, 0, Len(table)))

StreamInv == PoolInv /\ TableOK /\ Delivered /\ SortedByKey

\* What the exchange delivers.
LEMMA ExchangeDelivers ==
    ASSUME PoolInv, TableOK, Exchange
    PROVE  Delivered' /\ SortedByKey' /\ TableOK' /\ result' # NoResult
           /\ ToBag(result') = ToBag(DrainRange(table, 0, Len(table)))
<1> DEFINE rows == Concatenation
           all == DrainRange(table, 0, Len(table))
<1>1. /\ mainpc = "merge" /\ mainpc' = "returned" /\ total' = total
      /\ table' = table /\ sorted' = sorted
      /\ result' = IF sorted THEN StableSort(rows) ELSE rows
  BY DEF Exchange, Return
<1>2. rows \in Seq(OutRows) /\ all \in Seq(OutRows) /\ Permuted(rows, all)
  BY <1>1, ConcatenationFacts
<1>t. TableOK' /\ sorted \in BOOLEAN
  BY <1>1 DEF TableOK
<1> HIDE DEF rows, all
<1>3. ToBag(rows) = ToBag(all)
  BY <1>2, PermutedBag
<1>4. StableSort(rows) \in Seq(OutRows) /\ ToBag(StableSort(rows)) = ToBag(rows)
  <2>1. StableSort(rows) \in Seq(OutRows) /\ Permuted(StableSort(rows), rows)
    BY <1>2, SortFacts
  <2>. QED BY <2>1, PermutedBag
<1>5. result' \in Seq(OutRows) /\ ToBag(result') = ToBag(all)
  <2>1. result' = StableSort(rows) \/ result' = rows
    BY <1>1
  <2>. QED BY <2>1, <1>2, <1>3, <1>4
<1>6. result' # NoResult
  BY <1>5, StreamingAssumption
<1>7. SortedByKey'
  <2>1. SUFFICES ASSUME sorted
                 PROVE  /\ Len(StableSort(rows)) = Len(StableSort(all))
                        /\ \A i \in DOMAIN StableSort(all) :
                             SortKey(StableSort(rows)[i]) = SortKey(StableSort(all)[i])
    BY <1>1 DEF SortedByKey, SingleThreadRows, all
  <2>. QED BY <1>2, SortedKeysAgree
<1>8. Delivered'
  BY <1>1, <1>5 DEF Delivered, all
<1>. QED BY <1>t, <1>5, <1>6, <1>7, <1>8 DEF all

\* The invariant holds at the start.
LEMMA StreamInit == Init => StreamInv
<1> SUFFICES ASSUME Init PROVE StreamInv
  OBVIOUS
<1>1. total \in Nat /\ TableOK /\ result = NoResult
  BY StreamingAssumption DEF Init, TableOK
<1>2. PoolInv
  BY <1>1, PoolInvInit DEF Init
<1>. QED BY <1>1, <1>2 DEF StreamInv, Delivered, SortedByKey

\* Every step of the driver is a step of the pool or leaves it alone.
LEMMA StreamingStep == [Next]_vars => [PoolNext]_poolVars
BY DEF Next, MainStep, WorkerStep, PoolStep, Exchange, Terminated, PoolNext, vars

\* A step other than the exchange leaves the result, and leaves "returned" for good.
LEMMA OtherStep ==
    ASSUME StreamInv, [Next]_vars, ~Exchange
    PROVE  UNCHANGED <<table, sorted, result>> /\ total' = total
           /\ (mainpc = "returned" => mainpc' = "returned")
<1>1. UNCHANGED <<table, sorted, result>>
  BY DEF Next, MainStep, WorkerStep, PoolStep, Terminated, vars
<1>2. /\ total' = total
      /\ mainpc = "returned" => mainpc' = "returned" \/ \E w \in Workers : pc[w] = "scan"
  BY DEF Next, MainStep, WorkerStep, PoolStep, Terminated, vars, poolVars, Spawn, EnterWork,
         LeaveWork, Join, BeginMerge, Abort, Fetch, Pull, Finish
<1>3. mainpc = "returned" => \A w \in Workers : pc[w] = "done"
  BY PoolInvImplies DEF StreamInv, MergeAfterAllDone
<1>. QED BY <1>1, <1>2, <1>3

\* The invariant holds after every step.
LEMMA StreamStep == StreamInv /\ [Next]_vars => StreamInv'
<1> SUFFICES ASSUME StreamInv, [Next]_vars PROVE StreamInv'
  OBVIOUS
<1>1. PoolInv'
  BY StreamingStep, PoolInvStep DEF StreamInv
<1>2. CASE Exchange
  BY <1>1, <1>2, ExchangeDelivers DEF StreamInv
<1>3. CASE ~Exchange
  <2>1. UNCHANGED <<table, sorted, result>> /\ total' = total
        /\ (mainpc = "returned" => mainpc' = "returned")
    BY <1>3, OtherStep
  <2>2. TableOK' /\ Delivered'
    BY <2>1 DEF StreamInv, TableOK, Delivered
  <2>3. SortedByKey'
    BY <2>1 DEF StreamInv, SortedByKey, SingleThreadRows
  <2>. QED BY <1>1, <2>2, <2>3 DEF StreamInv
<1>. QED BY <1>2, <1>3

(***************************************************************************)
(* In every execution of run_streaming: no morsel is processed twice or    *)
(* lost, the exchange runs when every worker is done, batches are aligned. *)
(***************************************************************************)
THEOREM StreamingSafety ==
    Spec => [](NoMorselTwice /\ NoMorselLost /\ MergeAfterAllDone /\ BatchesAligned)
<1>1. StreamInv => NoMorselTwice /\ NoMorselLost /\ MergeAfterAllDone /\ BatchesAligned
  BY PoolInvImplies DEF StreamInv
<1>. QED BY <1>1, StreamInit, StreamStep, PTL DEF Spec

(***************************************************************************)
(* Type correctness, and the order of a sorted result: position by         *)
(* position its keys are those of the single-threaded plan, whichever      *)
(* worker drained which morsel.                                            *)
(***************************************************************************)
THEOREM StreamingSorted == Spec => [](TypeOK /\ SortedByKey)
<1>1. StreamInv => TypeOK /\ SortedByKey
  BY StreamingAssumption DEF StreamInv, TypeOK, PoolInv, TableOK, Delivered
<1>. QED BY <1>1, StreamInit, StreamStep, PTL DEF Spec

(***************************************************************************)
(* run_streaming implements the single-threaded plan: it delivers one      *)
(* answer, whose bag of rows is the one the lowered plan drains.           *)
(***************************************************************************)
THEOREM StreamingImplements == Spec => SameRows
<1>1. Init => Reference!Init
  BY DEF Init, Reference!Init, Bag
<1>2. StreamInv /\ [Next]_vars => [Reference!Run]_<<table, Bag(result)>>
  <2> SUFFICES ASSUME StreamInv, [Next]_vars
               PROVE  Reference!Run \/ UNCHANGED <<table, Bag(result)>>
    OBVIOUS
  <2>1. CASE Exchange
    <3>1. result = NoResult /\ table' = table
      <4>1. mainpc = "merge" /\ table' = table
        BY <2>1 DEF Exchange, Return
      <4>. QED BY <4>1 DEF StreamInv, Delivered
    <3>2. result' # NoResult /\ ToBag(result') = ToBag(DrainRange(table, 0, Len(table)))
      BY <2>1, ExchangeDelivers DEF StreamInv
    <3>3. Bag(result) = NoResult
      BY <3>1 DEF Bag
    <3>4. Bag(result)' = ToBag(result')
      BY <3>2 DEF Bag
    <3>. QED BY <3>1, <3>2, <3>3, <3>4 DEF Reference!Run
  <2>2. CASE ~Exchange
    <3>1. UNCHANGED <<table, result>>
      BY <2>2, OtherStep
    <3>. QED BY <3>1 DEF Bag
  <2>. QED BY <2>1, <2>2
<1>. QED BY <1>1, <1>2, StreamInit, StreamStep, PTL DEF Spec, SameRows, Reference!Spec

-----------------------------------------------------------------------------
(***************************************************************************)
(* PARTIAL AGGREGATION.                                                    *)
(***************************************************************************)

(***************************************************************************)
(* Every step of the driver is a step of the pool or leaves it alone.      *)
(***************************************************************************)
LEMMA AggregateStep == [AggNext]_aggVars => [PoolNext]_poolVars
BY DEF AggNext, AggMainStep, AggWorkerStep, AggPoolStep, FoldMorsel, MergeWorker, Deliver, AggTerminated,
       PoolNext, aggVars

\* The pool starts in its invariant, the table being a sequence.
LEMMA AggregateInit == AggInit => PoolInv
<1> SUFFICES ASSUME AggInit PROVE PoolInv
  OBVIOUS
<1>1. total \in Nat
  BY AggAssumption DEF AggInit
<1>. QED BY <1>1, PoolInvInit DEF AggInit

(***************************************************************************)
(* In every execution of run_aggregate, for every table and number of      *)
(* workers: no morsel is folded twice, none is missing, and no map is      *)
(* merged before its worker has folded its last morsel.                    *)
(***************************************************************************)
THEOREM AggregateSafety ==
    AggSpec => [](NoMorselTwice /\ NoMorselLost /\ MergeAfterAllDone /\ BatchesAligned)
<1>1. PoolInv /\ [AggNext]_aggVars => PoolInv'
  BY AggregateStep, PoolInvStep
<1>. QED BY <1>1, AggregateInit, PoolInvImplies, PTL DEF AggSpec

-----------------------------------------------------------------------------
(***************************************************************************)
(* Sums of values, NaN absorbing.                                          *)
(***************************************************************************)
Num == Int \union {NaN}

\* Addition of numbers, NaN absorbing, is associative and commutative with unit 0.
LEMMA PlusLaws ==
    /\ \A a, b \in Num : Plus(a, b) \in Num /\ Plus(a, b) = Plus(b, a)
    /\ \A a, b, c \in Num : Plus(a, Plus(b, c)) = Plus(Plus(a, b), c)
    /\ \A a \in Num : Plus(0, a) = a /\ Plus(a, 0) = a
BY AggAssumption DEF Num, Plus

\* The fold in Cells, over the rows R of a table.
Pick(T) == CHOOSE r \in T : TRUE

\* The rows R hold numbers.
Numeric(tbl, R) == IsFiniteSet(R) /\ \A r \in R : tbl[r + 1].v \in Num

\* g is the table of partial sums over the subsets of R.
Sums(g, tbl, R) ==
    /\ g \in [SUBSET R -> Num]
    /\ g[{}] = 0
    /\ \A T \in SUBSET R : T # {} => g[T] = Plus(tbl[Pick(T) + 1].v, g[T \ {Pick(T)}])

\* SUM over a finite set of rows is a recursion over its subsets, and so has a value.
LEMMA SumsExist ==
    ASSUME NEW tbl, NEW R, Numeric(tbl, R)
    PROVE  \E g : Sums(g, tbl, R) /\ Total(tbl, R) = g[R]
<1> DEFINE pick == [T \in SUBSET R |-> Pick(T)]
           step == [r \in R |-> [a \in Num |-> Plus(tbl[r + 1].v, a)]]
           body(f) == [s \in SUBSET R |->
                         IF s = {} THEN 0
                         ELSE Plus(tbl[(CHOOSE r \in s : TRUE) + 1].v,
                                   f[s \ {CHOOSE r \in s : TRUE}])]
           iter == CHOOSE f : f = body(f)
<1>1. \A T \in SUBSET R : T # {} => pick[T] \in T
  BY DEF Pick
<1>2. \A r \in R, a \in Num : step[r][a] \in Num
  BY PlusLaws DEF Numeric
<1>3. 0 \in Num /\ IsFiniteSet(R)
  BY DEF Num, Numeric
<1>4. PICK g \in [SUBSET R -> Num] :
         /\ g[{}] = 0
         /\ \A T \in SUBSET R : T # {} => g[T] = step[pick[T]][g[T \ {pick[T]}]]
  <2> HIDE DEF pick, step
  <2>1. Foldable(R, Num, 0, pick, step)
    BY <1>1, <1>2, <1>3 DEF Foldable
  <2>2. PICK g : FoldTable(g, R, Num, 0, pick, step)
    BY <2>1, SetFoldExists
  <2>. QED BY <2>2 DEF FoldTable
<1>5. ASSUME NEW T \in SUBSET R, T # {}
      PROVE  /\ pick[T] = Pick(T) /\ Pick(T) \in R /\ T \ {Pick(T)} \in SUBSET R
             /\ g[T] = Plus(tbl[Pick(T) + 1].v, g[T \ {Pick(T)}])
  <2>1. pick[T] = Pick(T) /\ Pick(T) \in R /\ T \ {Pick(T)} \in SUBSET R
    BY <1>5 DEF Pick
  <2>2. g[T] = step[Pick(T)][g[T \ {Pick(T)}]] /\ g[T \ {Pick(T)}] \in Num
    BY <1>4, <1>5, <2>1
  <2>. QED BY <2>1, <2>2
<1>6. g = body(g)
  BY <1>4, <1>5 DEF Pick
<1>7. iter = body(iter)
  <2> HIDE DEF body
  <2>. QED BY <1>6
<1>8. Total(tbl, R) = iter[R]
  BY Zenon DEF Total, MapThenFoldSet
<1> HIDE DEF iter
<1>9. ASSUME NEW T \in SUBSET R
      PROVE  iter[T] = IF T = {} THEN 0 ELSE Plus(tbl[Pick(T) + 1].v, iter[T \ {Pick(T)}])
  BY <1>7 DEF Pick
<1>10. R \in SUBSET R
  OBVIOUS
<1>11. \A T \in SUBSET R : iter[T] \in Num 
  <2> DEFINE N == {k \in Nat : \A T \in SUBSET R : Cardinality(T) = k => iter[T] = g[T]}
  <2>1. 0 \in N
    <3>1. ASSUME NEW T \in SUBSET R, Cardinality(T) = 0 PROVE T = {}
      BY <3>1, <1>3, FS_Subset, FS_EmptySet
    <3>. QED BY <3>1, <1>4, <1>9
  <2>2. ASSUME NEW k \in Nat, k \in N PROVE k + 1 \in N
    <3>1. SUFFICES ASSUME NEW T \in SUBSET R, Cardinality(T) = k + 1 PROVE iter[T] = g[T]
      OBVIOUS
    <3>2. T # {} /\ IsFiniteSet(T)
      BY <3>1, <1>3, FS_Subset, FS_EmptySet
    <3>3. Pick(T) \in T /\ T \ {Pick(T)} \in SUBSET R
      BY <3>2 DEF Pick
    <3>4. Cardinality(T \ {Pick(T)}) = k
      BY <3>1, <3>2, <3>3, FS_RemoveElement
    <3>5. iter[T \ {Pick(T)}] = g[T \ {Pick(T)}]
      BY <2>2, <3>3, <3>4
    <3>. QED BY <1>5, <1>9, <3>2, <3>5
  <2> HIDE DEF N
  <2>3. \A k \in Nat : k \in N
    BY <2>1, <2>2, SetInduction
  <2>4. ASSUME NEW T \in SUBSET R PROVE iter[T] = g[T]
    <3>1. Cardinality(T) \in Nat
      BY <1>3, FS_Subset, FS_CardinalityType
    <3>. QED BY <3>1, <2>3 DEF N
  <2>. QED BY <2>4, <1>4
<1>12. Sums(iter, tbl, R)
  <2>1. iter \in [SUBSET R -> Num]
    BY <1>7, <1>11
  <2>. QED BY <2>1, <1>9 DEF Sums
<1>. QED BY <1>8, <1>12

\* Tables of partial sums agree where both are defined.
LEMMA SumsAgree ==
    ASSUME NEW tbl, NEW R, Numeric(tbl, R), NEW g, Sums(g, tbl, R),
           NEW Q \in SUBSET R, NEW f, Sums(f, tbl, Q)
    PROVE  \A T \in SUBSET Q : f[T] = g[T]
<1> DEFINE N == {k \in Nat : \A T \in SUBSET Q : Cardinality(T) = k => f[T] = g[T]}
<1>0. IsFiniteSet(R) /\ \A T \in SUBSET Q : T \in SUBSET R /\ IsFiniteSet(T) /\ Cardinality(T) \in Nat
  <2>1. \A T \in SUBSET Q : T \in SUBSET R
    OBVIOUS
  <2>. QED BY <2>1, FS_Subset, FS_CardinalityType DEF Numeric
<1>1. 0 \in N
  <2>1. ASSUME NEW T \in SUBSET Q, Cardinality(T) = 0 PROVE T = {}
    BY <2>1, <1>0, FS_EmptySet
  <2>. QED BY <2>1 DEF Sums
<1>2. ASSUME NEW k \in Nat, k \in N PROVE k + 1 \in N
  <2>1. SUFFICES ASSUME NEW T \in SUBSET Q, Cardinality(T) = k + 1 PROVE f[T] = g[T]
    OBVIOUS
  <2>2. T # {} /\ IsFiniteSet(T)
    BY <2>1, <1>0, FS_EmptySet
  <2>3. Pick(T) \in T /\ T \ {Pick(T)} \in SUBSET Q
    BY <2>2 DEF Pick
  <2>4. Cardinality(T \ {Pick(T)}) = k
    <3>1. Cardinality(T \ {Pick(T)}) = Cardinality(T) - 1
      BY <2>2, <2>3, FS_RemoveElement
    <3>. QED BY <2>1, <3>1
  <2>5. f[T \ {Pick(T)}] = g[T \ {Pick(T)}]
    BY <1>2, <2>3, <2>4
  <2>. QED BY <2>2, <2>5 DEF Sums
<1> HIDE DEF N
<1>3. \A k \in Nat : k \in N
  BY <1>1, <1>2, SetInduction
<1>. QED BY <1>0, <1>3 DEF N

\* Sum has a value, and is 0 over no rows.
LEMMA SumRec ==
    ASSUME NEW tbl, NEW R, Numeric(tbl, R)
    PROVE  /\ Total(tbl, R) \in Num
           /\ R = {} => Total(tbl, R) = 0
           /\ R # {} => /\ Pick(R) \in R
                        /\ Total(tbl, R) = Plus(tbl[Pick(R) + 1].v, Total(tbl, R \ {Pick(R)}))
<1>1. PICK g : Sums(g, tbl, R) /\ Total(tbl, R) = g[R]
  BY SumsExist
<1>2. ASSUME R # {}
      PROVE  Pick(R) \in R /\ Total(tbl, R) = Plus(tbl[Pick(R) + 1].v, Total(tbl, R \ {Pick(R)}))
  <2> DEFINE Q == R \ {Pick(R)}
  <2>1. Pick(R) \in R /\ Q \in SUBSET R
    BY <1>2 DEF Pick
  <2>2. Numeric(tbl, Q)
    BY <2>1, FS_Subset DEF Numeric
  <2>3. PICK f : Sums(f, tbl, Q) /\ Total(tbl, Q) = f[Q]
    BY <2>2, SumsExist
  <2>4. f[Q] = g[Q]
    BY <1>1, <2>1, <2>3, SumsAgree
  <2>. QED BY <1>1, <1>2, <2>1, <2>3, <2>4 DEF Sums
<1>. QED BY <1>1, <1>2 DEF Sums

(***************************************************************************)
(* Any row can be taken out first.                                         *)
(***************************************************************************)
LEMMA SumTakeOut ==
    ASSUME NEW tbl, NEW R, Numeric(tbl, R), NEW x \in R
    PROVE  Total(tbl, R) = Plus(tbl[x + 1].v, Total(tbl, R \ {x}))
<1> DEFINE Holds(T) == \A y \in T : Total(tbl, T) = Plus(tbl[y + 1].v, Total(tbl, T \ {y}))
           N == {k \in Nat : \A T \in SUBSET R : Cardinality(T) = k => Holds(T)}
<1>0. IsFiniteSet(R) /\ \A T \in SUBSET R : Numeric(tbl, T) /\ IsFiniteSet(T) /\ Cardinality(T) \in Nat
  BY FS_Subset, FS_CardinalityType DEF Numeric
<1>1. 0 \in N
  <2>1. ASSUME NEW T \in SUBSET R, Cardinality(T) = 0 PROVE T = {}
    BY <2>1, <1>0, FS_EmptySet
  <2>. QED BY <2>1
<1>2. ASSUME NEW k \in Nat, k \in N PROVE k + 1 \in N
  <2>1. SUFFICES ASSUME NEW T \in SUBSET R, Cardinality(T) = k + 1, NEW y \in T
                 PROVE Total(tbl, T) = Plus(tbl[y + 1].v, Total(tbl, T \ {y}))
    OBVIOUS
  <2> DEFINE p == Pick(T)
  <2>2. p \in T /\ Total(tbl, T) = Plus(tbl[p + 1].v, Total(tbl, T \ {p}))
    BY <1>0, SumRec
  <2>3. CASE y = p
    BY <2>2, <2>3
  <2>4. CASE y # p
    <3> DEFINE Rest == (T \ {p}) \ {y}
    <3>1. y \in T \ {p} /\ p \in T \ {y} /\ Rest = (T \ {y}) \ {p}
      BY <2>2, <2>4
    <3>2. Cardinality(T \ {p}) = k /\ Cardinality(T \ {y}) = k
      <4>1. IsFiniteSet(T)
        BY <1>0
      <4>2. Cardinality(T \ {p}) = Cardinality(T) - 1 /\ Cardinality(T \ {y}) = Cardinality(T) - 1
        BY <4>1, <2>2, FS_RemoveElement
      <4>. QED BY <2>1, <4>2
    <3>3. T \ {p} \in SUBSET R /\ T \ {y} \in SUBSET R /\ Rest \in SUBSET R
      OBVIOUS
    <3>4. Total(tbl, T \ {p}) = Plus(tbl[y + 1].v, Total(tbl, Rest))
      <4>1. Holds(T \ {p})
        BY <1>2, <3>2, <3>3
      <4>. QED BY <3>1, <4>1
    <3>5. Total(tbl, T \ {y}) = Plus(tbl[p + 1].v, Total(tbl, Rest))
      <4>1. Holds(T \ {y})
        BY <1>2, <3>2, <3>3
      <4>. QED BY <3>1, <4>1
    <3> DEFINE a == tbl[p + 1].v
               b == tbl[y + 1].v
               c == Total(tbl, Rest)
    <3>6. a \in Num /\ b \in Num /\ c \in Num
      BY <1>0, <2>2, <3>3, SumRec DEF Numeric
    <3>7. Total(tbl, T) = Plus(a, Plus(b, c)) /\ Total(tbl, T \ {y}) = Plus(a, c)
      BY <2>2, <3>4, <3>5
    <3> HIDE DEF a, c, Rest
    <3>8. Plus(a, Plus(b, c)) = Plus(b, Plus(a, c))
      <4> HIDE DEF b
      <4>1. Plus(a, Plus(b, c)) = Plus(Plus(a, b), c) /\ Plus(a, b) = Plus(b, a)
            /\ Plus(b, Plus(a, c)) = Plus(Plus(b, a), c)
        BY <3>6, PlusLaws
      <4>. QED BY <4>1
    <3>. QED BY <3>7, <3>8
  <2>. QED BY <2>3, <2>4
<1> HIDE DEF N
<1>3. \A k \in Nat : k \in N
  BY <1>1, <1>2, SetInduction
<1>4. Cardinality(R) \in N /\ R \in SUBSET R
  BY <1>0, <1>3
<1>5. Holds(R)
  BY <1>4 DEF N
<1>. QED BY <1>5

(***************************************************************************)
(* The sum over two disjoint sets of rows.                                 *)
(***************************************************************************)
LEMMA SumUnion ==
    ASSUME NEW tbl, NEW Q, NEW R, Numeric(tbl, Q), Numeric(tbl, R), Q \intersect R = {}
    PROVE  Total(tbl, Q \union R) = Plus(Total(tbl, Q), Total(tbl, R))
<1> DEFINE Holds(T) == Total(tbl, Q \union T) = Plus(Total(tbl, Q), Total(tbl, T))
           N == {k \in Nat : \A T \in SUBSET R : Cardinality(T) = k => Holds(T)}
<1>0. /\ IsFiniteSet(Q) /\ IsFiniteSet(R)
      /\ \A T \in SUBSET R : Numeric(tbl, T) /\ IsFiniteSet(T) /\ Cardinality(T) \in Nat
  BY FS_Subset, FS_CardinalityType DEF Numeric
<1>a. ASSUME NEW T \in SUBSET R PROVE Numeric(tbl, Q \union T)
  BY <1>0, FS_Union DEF Numeric
<1>b. Total(tbl, Q) \in Num
  BY SumRec
<1>1. 0 \in N
  <2>1. ASSUME NEW T \in SUBSET R, Cardinality(T) = 0 PROVE Holds(T)
    <3>1. T = {} /\ Q \union T = Q
      BY <2>1, <1>0, FS_EmptySet
    <3>2. Total(tbl, T) = 0
      BY <3>1, <1>0, SumRec
    <3>. QED BY <3>1, <3>2, <1>b, PlusLaws
  <2>. QED BY <2>1
<1>2. ASSUME NEW k \in Nat, k \in N PROVE k + 1 \in N
  <2>1. SUFFICES ASSUME NEW T \in SUBSET R, Cardinality(T) = k + 1 PROVE Holds(T)
    OBVIOUS
  <2>2. T # {} /\ IsFiniteSet(T)
    BY <2>1, <1>0, FS_EmptySet
  <2>3. PICK y : y \in T
    BY <2>2
  <2>4. T \ {y} \in SUBSET R /\ Cardinality(T \ {y}) = k
    <3>1. Cardinality(T \ {y}) = Cardinality(T) - 1
      BY <2>2, <2>3, FS_RemoveElement
    <3>. QED BY <2>1, <3>1
  <2>5. Holds(T \ {y})
    BY <1>2, <2>4
  <2>6. (Q \union T) \ {y} = Q \union (T \ {y}) /\ y \in Q \union T
    BY <2>3
  <2> DEFINE a == Total(tbl, Q)
             b == tbl[y + 1].v
             c == Total(tbl, T \ {y})
  <2>7. a \in Num /\ b \in Num /\ c \in Num
    BY <1>0, <1>b, <2>3, <2>4, SumRec DEF Numeric
  <2>8. Total(tbl, Q \union T) = Plus(b, Plus(a, c))
    <3>1. Numeric(tbl, Q \union T)
      BY <1>a
    <3>2. Total(tbl, Q \union T) = Plus(tbl[y + 1].v, Total(tbl, (Q \union T) \ {y}))
      BY <3>1, <2>6, SumTakeOut
    <3>. QED BY <2>5, <2>6, <3>2
  <2>9. Total(tbl, T) = Plus(b, c)
    BY <1>0, <2>3, SumTakeOut
  <2> HIDE DEF a, b, c
  <2>10. Plus(b, Plus(a, c)) = Plus(a, Plus(b, c))
    <3>1. Plus(b, Plus(a, c)) = Plus(Plus(b, a), c) /\ Plus(a, b) = Plus(b, a)
          /\ Plus(a, Plus(b, c)) = Plus(Plus(a, b), c)
      BY <2>7, PlusLaws
    <3>. QED BY <3>1
  <2>. QED BY <2>8, <2>9, <2>10 DEF a
<1> HIDE DEF N
<1>3. \A k \in Nat : k \in N
  BY <1>1, <1>2, SetInduction
<1>4. Cardinality(R) \in N /\ R \in SUBSET R
  BY <1>0, <1>3
<1>5. Holds(R)
  BY <1>4 DEF N
<1>. QED BY <1>5

-----------------------------------------------------------------------------
(***************************************************************************)
(* The least and greatest values of a set of rows in the NaN-greatest order.*)
(***************************************************************************)
ValuesOf(tbl, R) == {tbl[r + 1].v : r \in R}

Lowest(V)   == CHOOSE x \in V : \A y \in V : ~LessTotal(y, x)
Greatest(V) == CHOOSE x \in V : \A y \in V : ~LessTotal(x, y)

\* LessTotal, the order of f64_less_total, is a strict total order.
LEMMA TotalOrder ==
    /\ \A a \in Num : ~LessTotal(a, a)
    /\ \A a, b \in Num : LessTotal(a, b) \/ LessTotal(b, a) \/ a = b
    /\ \A a, b \in Num : ~(LessTotal(a, b) /\ LessTotal(b, a))
    /\ \A a, b, c \in Num : LessTotal(a, b) /\ LessTotal(b, c) => LessTotal(a, c)
BY AggAssumption DEF Num, LessTotal

\* A non-empty set of rows has a least and a greatest value.
LEMMA ExtremesExist ==
    ASSUME NEW tbl, NEW R, Numeric(tbl, R), R # {}
    PROVE  /\ \E x \in ValuesOf(tbl, R) : \A y \in ValuesOf(tbl, R) : ~LessTotal(y, x)
           /\ \E x \in ValuesOf(tbl, R) : \A y \in ValuesOf(tbl, R) : ~LessTotal(x, y)
<1> DEFINE Has(T) == /\ \E x \in ValuesOf(tbl, T) : \A y \in ValuesOf(tbl, T) : ~LessTotal(y, x)
                     /\ \E x \in ValuesOf(tbl, T) : \A y \in ValuesOf(tbl, T) : ~LessTotal(x, y)
           N == {k \in Nat : \A T \in SUBSET R : Cardinality(T) = k /\ T # {} => Has(T)}
<1>0. IsFiniteSet(R) /\ \A T \in SUBSET R : IsFiniteSet(T) /\ Cardinality(T) \in Nat
  BY FS_Subset, FS_CardinalityType DEF Numeric
<1>a. \A T \in SUBSET R : \A x \in ValuesOf(tbl, T) : x \in Num
  BY DEF ValuesOf, Numeric
<1>1. 0 \in N
  <2>1. ASSUME NEW T \in SUBSET R, Cardinality(T) = 0 PROVE T = {}
    BY <2>1, <1>0, FS_EmptySet
  <2>. QED BY <2>1
<1>2. ASSUME NEW k \in Nat, k \in N PROVE k + 1 \in N
  <2>1. SUFFICES ASSUME NEW T \in SUBSET R, Cardinality(T) = k + 1, T # {} PROVE Has(T)
    OBVIOUS
  <2>2. PICK r : r \in T
    BY <2>1
  <2> DEFINE Rest == T \ {r}
             v == tbl[r + 1].v
  <2>3. Cardinality(Rest) = k /\ Rest \in SUBSET R
    <3>1. Cardinality(Rest) = Cardinality(T) - 1
      BY <1>0, <2>2, FS_RemoveElement
    <3>. QED BY <2>1, <3>1
  <2>4. /\ ValuesOf(tbl, T) = ValuesOf(tbl, Rest) \union {v}
        /\ v \in Num /\ \A x \in ValuesOf(tbl, Rest) : x \in Num
    BY <2>2, <2>3, <1>a DEF ValuesOf, Numeric
  <2>5. CASE Rest = {}
    <3>1. ValuesOf(tbl, T) = {v}
      BY <2>4, <2>5 DEF ValuesOf
    <3> HIDE DEF v
    <3>. QED BY <2>4, <3>1, TotalOrder
  <2>6. CASE Rest # {}
    <3>1. Has(Rest)
      BY <1>2, <2>3, <2>6
    <3> HIDE DEF v, Rest
    <3>2. \E x \in ValuesOf(tbl, T) : \A y \in ValuesOf(tbl, T) : ~LessTotal(y, x)
      <4>1. PICK x \in ValuesOf(tbl, Rest) : \A y \in ValuesOf(tbl, Rest) : ~LessTotal(y, x)
        BY <3>1
      <4>2. CASE LessTotal(v, x)
        <5>1. \A y \in ValuesOf(tbl, Rest) : ~LessTotal(y, v)
          BY <2>4, <4>1, <4>2, TotalOrder
        <5>. QED BY <2>4, <5>1, TotalOrder
      <4>3. CASE ~LessTotal(v, x)
        BY <2>4, <4>1, <4>3
      <4>. QED BY <4>2, <4>3
    <3>3. \E x \in ValuesOf(tbl, T) : \A y \in ValuesOf(tbl, T) : ~LessTotal(x, y)
      <4>1. PICK x \in ValuesOf(tbl, Rest) : \A y \in ValuesOf(tbl, Rest) : ~LessTotal(x, y)
        BY <3>1
      <4>2. CASE LessTotal(x, v)
        <5>1. \A y \in ValuesOf(tbl, Rest) : ~LessTotal(v, y)
          BY <2>4, <4>1, <4>2, TotalOrder
        <5>. QED BY <2>4, <5>1, TotalOrder
      <4>3. CASE ~LessTotal(x, v)
        BY <2>4, <4>1, <4>3
      <4>. QED BY <4>2, <4>3
    <3>. QED BY <3>2, <3>3
  <2>. QED BY <2>5, <2>6
<1> HIDE DEF N
<1>3. \A k \in Nat : k \in N
  BY <1>1, <1>2, SetInduction
<1>4. Cardinality(R) \in N /\ R \in SUBSET R
  BY <1>0, <1>3
<1>5. Has(R)
  BY <1>4 DEF N
<1>. QED BY <1>5

\* The cells MIN and MAX choose are those values.
LEMMA Extremes ==
    ASSUME NEW tbl, NEW R, Numeric(tbl, R), R # {}
    PROVE  LET V == ValuesOf(tbl, R)
           IN  /\ V \subseteq Num
               /\ Lowest(V) \in V /\ \A y \in V : ~LessTotal(y, Lowest(V))
               /\ Greatest(V) \in V /\ \A y \in V : ~LessTotal(Greatest(V), y)
<1> DEFINE V == ValuesOf(tbl, R)
<1>1. V \subseteq Num
  BY DEF ValuesOf, Numeric
<1>2. /\ \E x \in V : \A y \in V : ~LessTotal(y, x)
      /\ \E x \in V : \A y \in V : ~LessTotal(x, y)
  BY ExtremesExist
<1> HIDE DEF V
<1>3. /\ Lowest(V) \in V /\ \A y \in V : ~LessTotal(y, Lowest(V))
      /\ Greatest(V) \in V /\ \A y \in V : ~LessTotal(Greatest(V), y)
  BY <1>2 DEF Lowest, Greatest
<1>. QED BY <1>1, <1>3 DEF V

(***************************************************************************)
(* The extremes of two sets of rows are those of their extremes, and where *)
(* no value is NaN std::min and std::max find them too.                    *)
(***************************************************************************)
LEMMA ExtremesUnion ==
    ASSUME NEW tbl, NEW Q, NEW R, Numeric(tbl, Q), Numeric(tbl, R), Q # {}, R # {}
    PROVE  LET V == ValuesOf(tbl, Q)
               W == ValuesOf(tbl, R)
               U == ValuesOf(tbl, Q \union R)
           IN  /\ MinTotal(Lowest(V), Lowest(W)) = Lowest(U)
               /\ MaxTotal(Greatest(V), Greatest(W)) = Greatest(U)
               /\ NaN \notin U => /\ StdMin(Lowest(V), Lowest(W)) = Lowest(U)
                                  /\ StdMax(Greatest(V), Greatest(W)) = Greatest(U)
<1> DEFINE V == ValuesOf(tbl, Q)
           W == ValuesOf(tbl, R)
           U == ValuesOf(tbl, Q \union R)
<1>1. U = V \union W
  BY DEF ValuesOf
<1>2. Numeric(tbl, Q \union R) /\ Q \union R # {}
  BY FS_Union DEF Numeric
<1>3. /\ V \subseteq Num /\ Lowest(V) \in V /\ Greatest(V) \in V
      /\ \A y \in V : ~LessTotal(y, Lowest(V)) /\ ~LessTotal(Greatest(V), y)
  BY Extremes
<1>4. /\ W \subseteq Num /\ Lowest(W) \in W /\ Greatest(W) \in W
      /\ \A y \in W : ~LessTotal(y, Lowest(W)) /\ ~LessTotal(Greatest(W), y)
  BY Extremes
<1>5. /\ U \subseteq Num /\ Lowest(U) \in U /\ Greatest(U) \in U
      /\ \A y \in U : ~LessTotal(y, Lowest(U)) /\ ~LessTotal(Greatest(U), y)
  BY <1>2, Extremes
<1> HIDE DEF V, W, U
<1>6. MinTotal(Lowest(V), Lowest(W)) = Lowest(U)
  BY <1>1, <1>3, <1>4, <1>5, TotalOrder DEF MinTotal
<1>7. MaxTotal(Greatest(V), Greatest(W)) = Greatest(U)
  BY <1>1, <1>3, <1>4, <1>5, TotalOrder DEF MaxTotal
<1>8. ASSUME NaN \notin U
      PROVE  /\ StdMin(Lowest(V), Lowest(W)) = MinTotal(Lowest(V), Lowest(W))
             /\ StdMax(Greatest(V), Greatest(W)) = MaxTotal(Greatest(V), Greatest(W))
  <2>1. Lowest(V) # NaN /\ Lowest(W) # NaN /\ Greatest(V) # NaN /\ Greatest(W) # NaN
    BY <1>1, <1>3, <1>4, <1>8
  <2>. QED BY <2>1 DEF StdMin, StdMax, MinTotal, MaxTotal, Less, LessTotal
<1>. QED BY <1>6, <1>7, <1>8 DEF V, W, U

-----------------------------------------------------------------------------
\* The rows of R with a value, and what the row set of an aggregate needs.
Seen(R) == {r \in R : table[r + 1].v # NULL}
Sound(R) == IsFiniteSet(R) /\ \A r \in R : table[r + 1].v \in Values

\* The cells of a row set by the operators above.
LEMMA CellsAre ==
    ASSUME NEW R
    PROVE  /\ Cells(R).star = Cardinality(R)
           /\ Cells(R).count = Cardinality(Seen(R))
           /\ Cells(R).sum = IF Seen(R) = {} THEN NULL ELSE Total(table, Seen(R))
           /\ Cells(R).min = IF Seen(R) = {} THEN NULL ELSE Lowest(ValuesOf(table, Seen(R)))
           /\ Cells(R).max = IF Seen(R) = {} THEN NULL ELSE Greatest(ValuesOf(table, Seen(R)))
<1>1. Cells(R).star = Cardinality(R)
  BY DEF Cells
<1>2. Cells(R).count = Cardinality(Seen(R))
  BY DEF Cells, Seen
<1>3. Cells(R).sum = IF Seen(R) = {} THEN NULL ELSE Total(table, Seen(R))
  BY DEF Cells, Seen
<1>4. Cells(R).min = IF Seen(R) = {} THEN NULL ELSE Lowest(ValuesOf(table, Seen(R)))
  BY DEF Cells, Seen, Lowest, ValuesOf
<1>5. Cells(R).max = IF Seen(R) = {} THEN NULL ELSE Greatest(ValuesOf(table, Seen(R)))
  BY DEF Cells, Seen, Greatest, ValuesOf
<1>. QED BY <1>1, <1>2, <1>3, <1>4, <1>5

\* The rows with a value hold numbers, and the counts are natural.
LEMMA SeenNumeric ==
    ASSUME NEW S, Sound(S)
    PROVE  /\ Numeric(table, Seen(S))
           /\ Cardinality(S) \in Nat /\ Cardinality(Seen(S)) \in Nat
<1>1. IsFiniteSet(S) /\ IsFiniteSet(Seen(S))
  BY FS_Subset DEF Seen, Sound
<1>2. \A v \in Values : v # NULL => v \in Num
  BY AggAssumption DEF Num
<1>. QED BY <1>1, <1>2, FS_CardinalityType DEF Numeric, Seen, Sound

\* The rows with a value of two disjoint sets, and their counts.
LEMMA SeenUnion ==
    ASSUME NEW S, NEW T, Sound(S), Sound(T), S \intersect T = {}
    PROVE  /\ Seen(S \union T) = Seen(S) \union Seen(T)
           /\ Seen(S) \intersect Seen(T) = {}
           /\ Sound(S \union T)
           /\ Cardinality(S \union T) = Cardinality(S) + Cardinality(T)
           /\ Cardinality(Seen(S \union T)) = Cardinality(Seen(S)) + Cardinality(Seen(T))
<1>1. /\ IsFiniteSet(S) /\ IsFiniteSet(T)
      /\ IsFiniteSet(Seen(S)) /\ IsFiniteSet(Seen(T))
  BY FS_Subset DEF Seen, Sound
<1>2. Seen(S \union T) = Seen(S) \union Seen(T) /\ Seen(S) \intersect Seen(T) = {}
  BY DEF Seen
<1>3. Sound(S \union T)
  BY <1>1, FS_Union DEF Sound
<1>4. \A P, Q : IsFiniteSet(P) /\ IsFiniteSet(Q) /\ P \intersect Q = {}
                  => Cardinality(P \union Q) = Cardinality(P) + Cardinality(Q)
  <2>1. SUFFICES ASSUME NEW P, NEW Q, IsFiniteSet(P), IsFiniteSet(Q), P \intersect Q = {}
                 PROVE  Cardinality(P \union Q) = Cardinality(P) + Cardinality(Q)
    OBVIOUS
  <2>2. /\ Cardinality(P) \in Nat /\ Cardinality(Q) \in Nat
        /\ Cardinality(P \intersect Q) = 0
        /\ Cardinality(P \union Q)
             = Cardinality(P) + Cardinality(Q) - Cardinality(P \intersect Q)
    BY <2>1, FS_Union, FS_EmptySet, FS_CardinalityType
  <2>. QED BY <2>2
<1>. QED BY <1>1, <1>2, <1>3, <1>4

(***************************************************************************)
(* The aggregates whose cells a stage combines exactly over the rows R:    *)
(* all of them in the fold; in the merge not MIN and MAX if a value is NaN.*)
(***************************************************************************)
AdditiveAggs == {"star", "count", "sum"}
NoNaN(R) == \A r \in R : table[r + 1].v # NaN
Combines(stage, j, R) == /\ stage \in {"fold", "merge"} /\ j \in Aggs
                         /\ stage = "fold" \/ j \in AdditiveAggs \/ NoNaN(R)

\* The heart of the fold and the merge: the accumulators of two disjoint row sets
\* combine to the accumulator of their union.
LEMMA CellUnion ==
    ASSUME NEW S, NEW T, Sound(S), Sound(T), S \intersect T = {},
           NEW stage, NEW j, Combines(stage, j, S \union T)
    PROVE  Combine(stage, j, AccOf(Cells(S)[j]), AccOf(Cells(T)[j])) = AccOf(Cells(S \union T)[j])
<1> DEFINE U == S \union T
           a == Cells(S)[j]
           b == Cells(T)[j]
           c == Cells(U)[j]
<1>0. NULL \notin Num
  BY AggAssumption DEF Num
<1>1. Seen(U) = Seen(S) \union Seen(T)
  BY SeenUnion
<1>2. /\ Numeric(table, Seen(S)) /\ Numeric(table, Seen(T)) /\ Numeric(table, Seen(U))
      /\ Seen(S) \intersect Seen(T) = {}
  <2>1. Sound(U) /\ Seen(S) \intersect Seen(T) = {}
    BY SeenUnion
  <2> HIDE DEF U
  <2>. QED BY <2>1, SeenNumeric
<1>3. CASE j = "star"
  <2>1. a \in Nat /\ b \in Nat /\ c = a + b
    <3>1. a = Cardinality(S) /\ b = Cardinality(T) /\ c = Cardinality(U)
      BY <1>3, CellsAre
    <3>2. Cardinality(U) = Cardinality(S) + Cardinality(T)
      BY SeenUnion
    <3>3. Cardinality(S) \in Nat /\ Cardinality(T) \in Nat
      BY SeenNumeric
    <3>. QED BY <3>1, <3>2, <3>3
  <2> HIDE DEF a, b, c
  <2>2. a \in Num /\ b \in Num /\ c \in Num /\ Plus(a, b) = c
    BY <2>1, AggAssumption DEF Plus, Num
  <2>. QED BY <1>0, <1>3, <2>2
           DEF Combine, AccOf, NoAcc, FoldOp, MergeOp, MergeAdd, Combines, a, b, c
<1>4. CASE j = "count"
  <2>1. a \in Nat /\ b \in Nat /\ c = a + b
    <3>1. a = Cardinality(Seen(S)) /\ b = Cardinality(Seen(T)) /\ c = Cardinality(Seen(U))
      BY <1>4, CellsAre
    <3>. QED BY <3>1, SeenNumeric, SeenUnion
  <2> HIDE DEF a, b, c
  <2>2. a \in Num /\ b \in Num /\ c \in Num /\ Plus(a, b) = c
    BY <2>1, AggAssumption DEF Plus, Num
  <2>. QED BY <1>0, <1>4, <2>2
           DEF Combine, AccOf, NoAcc, FoldOp, MergeOp, MergeAdd, Combines, a, b, c
<1>5. CASE Seen(S) = {} /\ j \notin {"star", "count"}
  <2>1. a = NULL /\ b = c
    <3>1. Seen(U) = Seen(T)
      BY <1>1, <1>5
    <3>. QED BY <1>5, <3>1, CellsAre DEF Combines, Aggs
  <2>. QED BY <2>1 DEF Combine, AccOf, NoAcc
<1>6. CASE Seen(T) = {} /\ j \notin {"star", "count"}
  <2>1. b = NULL /\ a = c
    <3>1. Seen(U) = Seen(S)
      BY <1>1, <1>6
    <3>. QED BY <1>6, <3>1, CellsAre DEF Combines, Aggs
  <2>. QED BY <2>1 DEF Combine, AccOf, NoAcc
<1>7. CASE Seen(S) # {} /\ Seen(T) # {} /\ j = "sum"
  <2>1. Seen(U) # {}
    BY <1>1, <1>7
  <2>2. a = Total(table, Seen(S)) /\ b = Total(table, Seen(T)) /\ c = Total(table, Seen(U))
    BY <1>7, <2>1, CellsAre
  <2>3. c = Plus(a, b)
    <3>1. Total(table, Seen(S) \union Seen(T)) = Plus(Total(table, Seen(S)), Total(table, Seen(T)))
      BY <1>2, SumUnion
    <3>. QED BY <1>1, <2>2, <3>1
  <2>4. a \in Num /\ b \in Num
    BY <1>2, <2>2, SumRec
  <2> HIDE DEF a, b, c
  <2>5. c \in Num
    BY <2>3, <2>4, PlusLaws
  <2>. QED BY <1>0, <1>7, <2>3, <2>4, <2>5
           DEF Combine, AccOf, NoAcc, FoldOp, MergeOp, MergeAdd, Combines, a, b, c
<1>8. CASE Seen(S) # {} /\ Seen(T) # {} /\ j \in {"min", "max"}
  <2> DEFINE V == ValuesOf(table, Seen(S))
             W == ValuesOf(table, Seen(T))
             X == ValuesOf(table, Seen(U))
  <2>1. Seen(U) # {}
    BY <1>1, <1>8
  <2>2. /\ j = "min" => a = Lowest(V) /\ b = Lowest(W) /\ c = Lowest(X)
        /\ j = "max" => a = Greatest(V) /\ b = Greatest(W) /\ c = Greatest(X)
    BY <1>8, <2>1, CellsAre
  <2>3. Lowest(V) \in Num /\ Greatest(V) \in Num /\ Lowest(W) \in Num /\ Greatest(W) \in Num
    BY <1>2, <1>8, Extremes
  <2>4. Lowest(X) \in Num /\ Greatest(X) \in Num
    BY <1>2, <2>1, Extremes
  <2>5. /\ MinTotal(Lowest(V), Lowest(W)) = Lowest(X)
        /\ MaxTotal(Greatest(V), Greatest(W)) = Greatest(X)
        /\ NaN \notin X => /\ StdMin(Lowest(V), Lowest(W)) = Lowest(X)
                          /\ StdMax(Greatest(V), Greatest(W)) = Greatest(X)
    <3>1. X = ValuesOf(table, Seen(S) \union Seen(T))
      BY <1>1
    <3> HIDE DEF X
    <3>. QED BY <1>2, <1>8, <3>1, ExtremesUnion
  <2>6. stage = "merge" => NaN \notin X
    BY <1>8 DEF Combines, NoNaN, ValuesOf, Seen, AdditiveAggs
  <2> HIDE DEF a, b, c, V, W, X
  <2>7. a \in Num /\ b \in Num /\ c \in Num
    BY <1>8, <2>2, <2>3, <2>4
  <2>8. stage = "fold" => FoldOp(j, a, b) = c
    BY <1>8, <2>2, <2>5 DEF FoldOp
  <2>9. stage = "merge" => MergeOp(j, a, b) = c
    BY <1>8, <2>2, <2>5, <2>6 DEF MergeOp
  <2>. QED BY <1>0, <2>7, <2>8, <2>9 DEF Combine, AccOf, NoAcc, Combines, a, b, c
<1>. QED BY <1>3, <1>4, <1>5, <1>6, <1>7, <1>8 DEF Combines, Aggs

-----------------------------------------------------------------------------
(***************************************************************************)
(* The table the driver reads, and the rows of one group.                  *)
(***************************************************************************)
AggTableOK == /\ table \in AggTables /\ total = Len(table) /\ total \in Nat
           /\ grouped \in BOOLEAN

Group(R, k) == {r \in Surviving(R) : KeyOf(r) = k}

\* A row the body keeps is a record of the table, and a group of rows is finite.
LEMMA RowTypes ==
    ASSUME AggTableOK, NEW R \in SUBSET (0 .. total - 1)
    PROVE  /\ \A r \in Surviving(R) : table[r + 1].v \in Values /\ table[r + 1].k \in Keys
           /\ IsFiniteSet(R)
           /\ \A k : Sound(Group(R, k))
<1>1. table \in [1 .. total -> [k : Keys, v : Values] \union {Dropped}]
  <2> DEFINE Row == [k : Keys, v : Values] \union {Dropped}
  <2>1. table \in Seq(Row)
    BY AggAssumption DEF AggTableOK
  <2> HIDE DEF Row
  <2>2. table \in [1 .. total -> Row]
    BY <2>1 DEF AggTableOK
  <2>. QED BY <2>2 DEF Row
<1>2. ASSUME NEW r \in Surviving(R) PROVE table[r + 1].v \in Values /\ table[r + 1].k \in Keys
  <2>1. r + 1 \in 1 .. total /\ table[r + 1] # Dropped
    BY DEF Surviving, AggTableOK
  <2>2. table[r + 1] \in [k : Keys, v : Values]
    BY <1>1, <2>1
  <2>. QED BY <2>2
<1>3. IsFiniteSet(0 .. total - 1)
  BY FS_Interval DEF AggTableOK
<1>4. IsFiniteSet(R)
  BY <1>3, FS_Subset
<1>5. ASSUME NEW k PROVE Sound(Group(R, k))
  <2>1. Group(R, k) \subseteq R /\ Group(R, k) \subseteq Surviving(R)
    BY DEF Group, Surviving
  <2>2. IsFiniteSet(Group(R, k))
    BY <1>4, <2>1, FS_Subset
  <2>. QED BY <1>2, <2>1, <2>2 DEF Sound
<1>. QED BY <1>2, <1>4, <1>5

(***************************************************************************)
(* The cells of a row set: numbers, or NULL.                               *)
(***************************************************************************)
LEMMA CellTypes ==
    ASSUME NEW R, Sound(R), NEW j \in Aggs
    PROVE  /\ Cells(R)[j] \in Num \union {NULL}
           /\ AccOf(Cells(R)[j]) \in AccType
           /\ CellOf(AccOf(Cells(R)[j])) = Cells(R)[j]
<1>1. Cells(R)[j] \in Num \union {NULL}
  <2>0. Numeric(table, Seen(R)) /\ Cardinality(R) \in Num /\ Cardinality(Seen(R)) \in Num
    BY SeenNumeric DEF Num
  <2>1. Seen(R) # {} => /\ Total(table, Seen(R)) \in Num
                        /\ Lowest(ValuesOf(table, Seen(R))) \in Num
                        /\ Greatest(ValuesOf(table, Seen(R))) \in Num
    <3>1. Total(table, Seen(R)) \in Num
      BY <2>0, SumRec
    <3>2. Seen(R) # {} => /\ Lowest(ValuesOf(table, Seen(R))) \in Num
                          /\ Greatest(ValuesOf(table, Seen(R))) \in Num
      BY <2>0, Extremes
    <3>. QED BY <3>1, <3>2
  <2>2. /\ Cells(R)["star"] = Cardinality(R)
        /\ Cells(R)["count"] = Cardinality(Seen(R))
        /\ Cells(R)["sum"] = IF Seen(R) = {} THEN NULL ELSE Total(table, Seen(R))
        /\ Cells(R)["min"] = IF Seen(R) = {} THEN NULL ELSE Lowest(ValuesOf(table, Seen(R)))
        /\ Cells(R)["max"] = IF Seen(R) = {} THEN NULL ELSE Greatest(ValuesOf(table, Seen(R)))
    BY CellsAre
  <2>3. j \in {"star", "count", "sum", "min", "max"}
    BY DEF Aggs
  <2>. QED BY <2>0, <2>1, <2>2, <2>3
<1> DEFINE c == Cells(R)[j]
<1> HIDE DEF c
<1>2. c \in Num \union {NULL} => AccOf(c) \in AccType /\ CellOf(AccOf(c)) = c
  BY DEF AccOf, AccType, NoAcc, CellOf, Num
<1>. QED BY <1>1, <1>2 DEF c

(***************************************************************************)
(* A partial result set, group by group.                                   *)
(***************************************************************************)
IsMap(f) == /\ f = [k \in DOMAIN f |-> f[k]]
            /\ DOMAIN f \subseteq Keys \union {AllRows}
            /\ \A k \in DOMAIN f : f[k] \in [Aggs -> AccType]

\* A partial result set is a map of accumulators, one per group that occurs.
LEMMA PartialIs ==
    ASSUME AggTableOK, NEW R \in SUBSET (0 .. total - 1)
    PROVE  /\ IsMap(Partial(R))
           /\ DOMAIN Partial(R) = GroupKeys(Surviving(R))
           /\ \A k \in GroupKeys(Surviving(R)), j \in Aggs :
                Partial(R)[k][j] = AccOf(Cells(Group(R, k))[j])
<1>1. Partial(R) = [k \in GroupKeys(Surviving(R)) |-> [j \in Aggs |-> AccOf(Cells(Group(R, k))[j])]]
  BY DEF Partial, AggregateOf, Group
<1>2. \A k : \A j \in Aggs : AccOf(Cells(Group(R, k))[j]) \in AccType
  BY RowTypes, CellTypes
<1>3. GroupKeys(Surviving(R)) \subseteq Keys \union {AllRows}
  BY RowTypes DEF GroupKeys, KeyOf
<1>. QED BY <1>1, <1>2, <1>3 DEF IsMap

\* The groups of two row sets are those of either.
LEMMA KeysUnion ==
    ASSUME NEW S, NEW T
    PROVE  GroupKeys(Surviving(S \union T)) = GroupKeys(Surviving(S)) \union GroupKeys(Surviving(T))
BY DEF GroupKeys, Surviving

\* A group of a union is the union of the groups; where one side lacks it, it is empty.
LEMMA GroupUnion ==
    ASSUME NEW S, NEW T, S \intersect T = {}, NEW k
    PROVE  /\ Group(S \union T, k) = Group(S, k) \union Group(T, k)
           /\ Group(S, k) \intersect Group(T, k) = {}
           /\ k \in GroupKeys(Surviving(S)) /\ k \notin GroupKeys(Surviving(T)) => Group(T, k) = {}
           /\ k \in GroupKeys(Surviving(T)) /\ k \notin GroupKeys(Surviving(S)) => Group(S, k) = {}
BY DEF GroupKeys, Surviving, Group

(***************************************************************************)
(* Two maps with the same groups and the same accumulators for some of the *)
(* aggregates.                                                             *)
(***************************************************************************)
Agrees(f, g, J) ==
    /\ DOMAIN f = DOMAIN g
    /\ \A k \in DOMAIN g : \A j \in J : f[k][j] = g[k][j]

\* Every aggregate in J combines exactly over the surviving rows of R.
Exactly(stage, J, R) == /\ J \subseteq Aggs
                        /\ \A j \in J : Combines(stage, j, Surviving(R))

(***************************************************************************)
(* Combining the maps of two disjoint row sets gives the map of their      *)
(* union, in the aggregates the stage combines exactly.                    *)
(***************************************************************************)
LEMMA PartialUnion ==
    ASSUME AggTableOK, NEW S \in SUBSET (0 .. total - 1), NEW T \in SUBSET (0 .. total - 1),
           S \intersect T = {}, NEW stage, NEW J, Exactly(stage, J, S \union T),
           NEW f, NEW g, Agrees(f, Partial(S), J), Agrees(g, Partial(T), J)
    PROVE  Agrees(CombineMaps(stage, f, g), Partial(S \union T), J)
<1> DEFINE U == S \union T
           h == CombineMaps(stage, f, g)
<1>1. U \in SUBSET (0 .. total - 1)
  OBVIOUS
<1>2. /\ DOMAIN f = GroupKeys(Surviving(S)) /\ DOMAIN g = GroupKeys(Surviving(T))
      /\ DOMAIN Partial(U) = GroupKeys(Surviving(U))
  BY <1>1, PartialIs DEF Agrees
<1>3. DOMAIN h = DOMAIN f \union DOMAIN g
  BY DEF CombineMaps
<1>4. DOMAIN h = DOMAIN Partial(U)
  <2>1. GroupKeys(Surviving(S \union T)) = GroupKeys(Surviving(S)) \union GroupKeys(Surviving(T))
    BY Zenon, KeysUnion
  <2>. QED BY <1>2, <1>3, <2>1
<1>5. ASSUME NEW k \in DOMAIN Partial(U), NEW j \in J PROVE h[k][j] = Partial(U)[k][j]
  <2>1. j \in Aggs /\ J \subseteq Aggs
    BY DEF Exactly
  <2>2. Partial(U)[k][j] = AccOf(Cells(Group(U, k))[j])
    BY <1>1, <1>2, <2>1, PartialIs
  <2>3. k \in DOMAIN f => f[k][j] = AccOf(Cells(Group(S, k))[j])
    BY <1>2, <2>1, PartialIs DEF Agrees
  <2>4. k \in DOMAIN g => g[k][j] = AccOf(Cells(Group(T, k))[j])
    BY <1>2, <2>1, PartialIs DEF Agrees
  <2>5. Group(U, k) = Group(S, k) \union Group(T, k) /\ Group(S, k) \intersect Group(T, k) = {}
    BY GroupUnion DEF Group, Surviving
  <2>6. CASE k \notin DOMAIN g
    <3>1. Group(T, k) = {} /\ k \in DOMAIN f
      BY <1>2, <1>3, <1>4, <2>6, GroupUnion
    <3>2. h[k] = f[k]
      BY <1>3, <2>6, <3>1 DEF CombineMaps
    <3>3. Group(U, k) = Group(S, k)
      BY <2>5, <3>1
    <3>. QED BY <2>2, <2>3, <3>1, <3>2, <3>3
  <2>7. CASE k \notin DOMAIN f
    <3>1. Group(S, k) = {} /\ k \in DOMAIN g
      BY <1>2, <1>3, <1>4, <2>7, GroupUnion
    <3>2. h[k] = g[k]
      BY <1>3, <2>7, <3>1 DEF CombineMaps
    <3>3. Group(U, k) = Group(T, k)
      BY <2>5, <3>1
    <3>. QED BY <2>2, <2>4, <3>1, <3>2, <3>3
  <2>8. CASE k \in DOMAIN f /\ k \in DOMAIN g
    <3>1. h[k][j] = Combine(stage, j, f[k][j], g[k][j])
      BY <1>3, <2>1, <2>8 DEF CombineMaps
    <3>2. Sound(Group(S, k)) /\ Sound(Group(T, k))
      BY RowTypes
    <3>3. Combines(stage, j, Group(S, k) \union Group(T, k))
      <4>1. Group(U, k) \subseteq Surviving(U)
        BY DEF Group
      <4>2. Combines(stage, j, Surviving(U))
        BY DEF Exactly
      <4> HIDE DEF U
      <4>. QED BY <4>1, <4>2, <2>5 DEF Combines, NoNaN
    <3>4. Combine(stage, j, AccOf(Cells(Group(S, k))[j]), AccOf(Cells(Group(T, k))[j]))
            = AccOf(Cells(Group(S, k) \union Group(T, k))[j])
      BY <2>5, <3>2, <3>3, CellUnion
    <3>. QED BY <2>2, <2>3, <2>4, <2>5, <2>8, <3>1, <3>4
  <2>. QED BY <2>6, <2>7, <2>8
<1>. QED BY <1>4, <1>5 DEF Agrees

(***************************************************************************)
(* A map of accumulators combined with another is one.                     *)
(***************************************************************************)
LEMMA CombineType ==
    ASSUME NEW stage, NEW f, NEW g, IsMap(f), IsMap(g)
    PROVE  IsMap(CombineMaps(stage, f, g))
<1>1. ASSUME NEW j, NEW a \in AccType, NEW b \in AccType
      PROVE  Combine(stage, j, a, b) \in AccType
  <2>1. FoldOp(j, a.val, b.val) \in Num /\ MergeOp(j, a.val, b.val) \in Num
    <3>1. a.val \in Num /\ b.val \in Num
      BY DEF AccType, Num
    <3>2. Plus(a.val, b.val) \in Num
      BY <3>1, PlusLaws
    <3>. QED BY <3>1, <3>2 DEF FoldOp, MergeOp, MergeAdd, MinTotal, MaxTotal, StdMin, StdMax
  <2>. QED BY <2>1 DEF Combine, AccType, Num
<1> DEFINE h == CombineMaps(stage, f, g)
<1>2. h = [k \in DOMAIN h |-> h[k]] /\ DOMAIN h = DOMAIN f \union DOMAIN g
  BY DEF CombineMaps
<1>3. ASSUME NEW k \in DOMAIN h PROVE h[k] \in [Aggs -> AccType]
  <2>1. h[k] = IF k \notin DOMAIN g THEN f[k]
               ELSE IF k \notin DOMAIN f THEN g[k]
               ELSE [j \in Aggs |-> Combine(stage, j, f[k][j], g[k][j])]
    BY <1>2 DEF CombineMaps
  <2> HIDE DEF h
  <2>2. CASE k \in DOMAIN f /\ k \in DOMAIN g
    <3>1. f[k] \in [Aggs -> AccType] /\ g[k] \in [Aggs -> AccType]
      BY <2>2 DEF IsMap
    <3>2. \A j \in Aggs : Combine(stage, j, f[k][j], g[k][j]) \in AccType
      BY <1>1, <3>1
    <3>. QED BY <2>1, <2>2, <3>2
  <2>. QED BY <1>2, <2>1, <2>2 DEF IsMap
<1>. QED BY <1>2, <1>3 DEF IsMap

\* The empty map changes nothing, on either side.
LEMMA CombineEmpty ==
    ASSUME NEW stage, NEW f, f = [k \in DOMAIN f |-> f[k]]
    PROVE  CombineMaps(stage, EmptyMap, f) = f /\ CombineMaps(stage, f, EmptyMap) = f
<1>1. DOMAIN EmptyMap = {}
  BY DEF EmptyMap
<1>2. DOMAIN EmptyMap \union DOMAIN f = DOMAIN f /\ DOMAIN f \union DOMAIN EmptyMap = DOMAIN f
  BY <1>1
<1>3. CombineMaps(stage, EmptyMap, f) = [k \in DOMAIN f |-> f[k]]
  BY <1>1, <1>2 DEF CombineMaps
<1>4. CombineMaps(stage, f, EmptyMap) = [k \in DOMAIN f |-> f[k]]
  BY <1>1, <1>2 DEF CombineMaps
<1>. QED BY <1>3, <1>4

\* Maps that agree on every aggregate are equal.
LEMMA AgreeEqual ==
    ASSUME NEW f, NEW g, IsMap(f), IsMap(g), Agrees(f, g, Aggs)
    PROVE  f = g
<1>1. DOMAIN f = DOMAIN g
  BY DEF Agrees
<1>2. \A k \in DOMAIN f : f[k] \in [Aggs -> AccType] /\ g[k] \in [Aggs -> AccType]
  BY <1>1 DEF IsMap
<1>3. ASSUME NEW k \in DOMAIN f PROVE f[k] = g[k]
  BY <1>1, <1>2 DEF Agrees
<1>. QED BY <1>1, <1>3 DEF IsMap

-----------------------------------------------------------------------------
(***************************************************************************)
(* The rows of the morsels.                                                *)
(***************************************************************************)
LEMMA MorselRowsIn ==
    ASSUME total \in Nat, NEW m \in Nat
    PROVE  MorselRowSet(m) \in SUBSET (0 .. total - 1)
<1>1. m * MorselRows \in Nat
  BY Sizes
<1>. QED BY <1>1, Sizes DEF MorselRowSet, Start, End, Lesser

\* Different morsels have no row in common.
LEMMA MorselsApart ==
    ASSUME total \in Nat, NEW m \in Nat, NEW n \in Nat, m < n
    PROVE  MorselRowSet(m) \intersect MorselRowSet(n) = {}
<1>1. m * MorselRows + MorselRows <= n * MorselRows /\ m * MorselRows \in Nat /\ n * MorselRows \in Nat
  <2>1. PICK d \in Nat : n = m + 1 + d
    <3>1. n - m - 1 \in Nat /\ n = m + 1 + (n - m - 1)
      OBVIOUS
    <3>. QED BY <3>1
  <2>2. d * MorselRows \in Nat /\ m * MorselRows \in Nat
    BY Sizes
  <2>3. (m + 1 + d) * MorselRows = m * MorselRows + MorselRows + d * MorselRows
    BY Sizes
  <2>. QED BY <2>1, <2>2, <2>3, Sizes
<1>. QED BY <1>1, Sizes DEF MorselRowSet, Start, End, Lesser

\* make_morsels leaves no row out: together the morsels are the table.
LEMMA MorselsCover ==
    ASSUME total \in Nat
    PROVE  /\ NumMorsels \in Nat /\ NumMorsels > 0
           /\ RowsOf(0 .. NumMorsels - 1) = 0 .. total - 1
<1> USE Sizes
<1>0. NumMorsels \in Nat
  BY NumMorselsType
<1>1. NumMorsels > 0
  <2>1. CASE total = 0
    BY <2>1 DEF NumMorsels
  <2>2. CASE total # 0
    <3> DEFINE x == total + MorselRows - 1
               q == x \div MorselRows
    <3>1. x \in Nat /\ x >= MorselRows
      BY <2>2
    <3>2. x = MorselRows * q + (x % MorselRows) /\ x % MorselRows \in 0 .. MorselRows - 1 /\ q \in Nat
      BY <3>1, DivMod
    <3> HIDE DEF x, q
    <3>3. q # 0
      BY <3>1, <3>2
    <3>. QED BY <2>2, <3>2, <3>3 DEF NumMorsels, x, q
  <2>. QED BY <2>1, <2>2
<1>2. RowsOf(0 .. NumMorsels - 1) \subseteq 0 .. total - 1
  BY <1>0, MorselRowsIn DEF RowsOf
<1>3. ASSUME NEW r \in 0 .. total - 1 PROVE r \in RowsOf(0 .. NumMorsels - 1)
  <2> DEFINE m == r \div MorselRows
             x == total + MorselRows - 1
             q == x \div MorselRows
  <2>1. r \in Nat /\ x \in Nat
    OBVIOUS
  <2>2. r = MorselRows * m + (r % MorselRows) /\ r % MorselRows \in 0 .. MorselRows - 1 /\ m \in Nat
    BY <2>1, DivMod
  <2>3. x = MorselRows * q + (x % MorselRows) /\ x % MorselRows \in 0 .. MorselRows - 1 /\ q \in Nat
    BY <2>1, DivMod
  <2>4. NumMorsels = q
    BY DEF NumMorsels
  <2>5. x = total + MorselRows - 1
    OBVIOUS
  <2> HIDE DEF m, x, q
  <2>6. MorselRows * m < MorselRows * q
    BY <2>2, <2>3, <2>5
  <2>7. m < q
    <3>1. SUFFICES ASSUME m >= q PROVE FALSE
      BY <2>2, <2>3
    <3>2. m - q \in Nat
      BY <2>2, <2>3, <3>1
    <3>3. MorselRows * (m - q) \in Nat
      BY <3>2
    <3>4. MorselRows * (m - q) = MorselRows * m - MorselRows * q
      BY <2>2, <2>3
    <3>5. MorselRows * m \in Nat /\ MorselRows * q \in Nat
      BY <2>2, <2>3
    <3>. QED BY <2>6, <3>3, <3>4, <3>5
  <2>8. m * MorselRows = MorselRows * m
    BY <2>2
  <2>9. r \in MorselRowSet(m)
    BY <2>2, <2>8 DEF MorselRowSet, Start, End, Lesser
  <2>10. m \in 0 .. NumMorsels - 1
    BY <2>2, <2>4, <2>7, <1>0
  <2>. QED BY <2>9, <2>10 DEF RowsOf
<1>. QED BY <1>0, <1>1, <1>2, <1>3

-----------------------------------------------------------------------------
(***************************************************************************)
(* The inductive invariant.  PartialsExact alone says nothing of the map   *)
(* the calling thread builds: MergedExact says that it is the aggregate of *)
(* the workers merged so far, in the aggregates the merge combines         *)
(* exactly.  Phases ties the merge loop to the pool: no map is taken       *)
(* before the joins, and a result is the finished map.                     *)
(***************************************************************************)
NoNaNTable == \A i \in DOMAIN table : table[i] # Dropped => table[i].v # NaN

\* The aggregates the merge combines exactly on this table.
Mergeable == IF NoNaNTable THEN Aggs ELSE AdditiveAggs

\* The morsels of the workers whose maps have been merged.
MergedMorsels == UNION {Drained(w) : w \in {v \in Workers : v < merging}}

MapsTyped == /\ perWorker = [w \in Workers |-> perWorker[w]]
             /\ \A w \in Workers : IsMap(perWorker[w])
             /\ IsMap(merged)

Phases == /\ merging \in 0 .. Threads
          /\ merging = 0 \/ mainpc \in {"merge", "returned"}
          /\ result # NoResult => /\ mainpc = "returned" /\ merging = Threads
                                  /\ result = Finalize(merged)

MergedExact == IF MergedMorsels = {} THEN merged = EmptyMap
               ELSE Agrees(merged, Partial(RowsOf(MergedMorsels)), Mergeable)

AggInv == PoolInv /\ AggTableOK /\ MapsTyped /\ Phases /\ PartialsExact /\ MergedExact

-----------------------------------------------------------------------------
\* The driver never changes the table or the grouping.
LEMMA CellsStay == ASSUME NEW R, table' = table PROVE Cells(R)' = Cells(R)
<1>1. Cells(R) = [star |-> Cardinality(R), count |-> Cardinality(Seen(R)),
                  sum |-> IF Seen(R) = {} THEN NULL ELSE Total(table, Seen(R)),
                  min |-> IF Seen(R) = {} THEN NULL ELSE Lowest(ValuesOf(table, Seen(R))),
                  max |-> IF Seen(R) = {} THEN NULL ELSE Greatest(ValuesOf(table, Seen(R)))]
  BY Zenon DEF Cells, Seen, Lowest, Greatest, ValuesOf
<1>2. Cells(R)' = [star |-> Cardinality(R), count |-> Cardinality(Seen(R)'),
                  sum |-> IF Seen(R)' = {} THEN NULL ELSE Total(table', Seen(R)'),
                  min |-> IF Seen(R)' = {} THEN NULL ELSE Lowest(ValuesOf(table', Seen(R)')),
                  max |-> IF Seen(R)' = {} THEN NULL ELSE Greatest(ValuesOf(table', Seen(R)'))]
  BY DEF Cells, Seen, Lowest, Greatest, ValuesOf
<1>3. Seen(R)' = Seen(R)
  BY DEF Seen
<1>. QED BY <1>1, <1>2, <1>3

\* Nor, then, does the aggregate of a row set change.
LEMMA PartialStay == ASSUME NEW R, table' = table, grouped' = grouped PROVE Partial(R)' = Partial(R)
<1>1. Surviving(R)' = Surviving(R)
  BY DEF Surviving
<1>2. \A k : Group(R, k)' = Group(R, k)
  BY <1>1 DEF Group, KeyOf
<1>3. GroupKeys(Surviving(R))' = GroupKeys(Surviving(R))
  BY <1>1 DEF GroupKeys, KeyOf
<1>4. \A k : Cells(Group(R, k)') = Cells(Group(R, k))
  BY <1>2, CellsStay
<1>5. Partial(R) = [k \in GroupKeys(Surviving(R)) |-> [j \in Aggs |-> AccOf(Cells(Group(R, k))[j])]]
  BY DEF Partial, AggregateOf, Group
<1>6. Partial(R)' = [k \in GroupKeys(Surviving(R))' |-> [j \in Aggs |-> AccOf(Cells(Group(R, k))'[j])]]
  BY DEF Partial, AggregateOf, Group
<1>7. \A k : Cells(Group(R, k))' = Cells(Group(R, k))
  BY <1>2, CellsStay
<1>. QED BY <1>3, <1>5, <1>6, <1>7

\* Sets of morsels stand for rows of the table.
LEMMA RowsOfIn ==
    ASSUME total \in Nat, NEW M \in SUBSET Nat
    PROVE  RowsOf(M) \in SUBSET (0 .. total - 1)
BY MorselRowsIn DEF RowsOf

\* and different morsels for different rows.
LEMMA RowsOfApart ==
    ASSUME total \in Nat, NEW M \in SUBSET Nat, NEW N \in SUBSET Nat, M \intersect N = {}
    PROVE  /\ RowsOf(M) \intersect RowsOf(N) = {}
           /\ RowsOf(M \union N) = RowsOf(M) \union RowsOf(N)
<1>1. ASSUME NEW m \in M, NEW n \in N PROVE MorselRowSet(m) \intersect MorselRowSet(n) = {}
  <2>1. m \in Nat /\ n \in Nat /\ (m < n \/ n < m)
    OBVIOUS
  <2>2. m < n => MorselRowSet(m) \intersect MorselRowSet(n) = {}
    BY <2>1, MorselsApart
  <2>3. n < m => MorselRowSet(n) \intersect MorselRowSet(m) = {}
    BY <2>1, MorselsApart
  <2>. QED BY <2>1, <2>2, <2>3
<1>. QED BY <1>1 DEF RowsOf

\* Drained lists are lists of morsels.
LEMMA DrainedNat == ASSUME PoolTypeOK, NEW w \in Workers
                    PROVE  Drained(w) \in SUBSET Nat /\ (Drained(w) = {} <=> parts[w] = <<>>)
<1>1. parts[w] \in Seq(Nat)
  BY DEF PoolTypeOK
<1>2. \A s \in Seq(Nat) : (DOMAIN s = {} <=> s = <<>>) /\ \A i \in DOMAIN s : s[i] \in Nat
  <2>1. ASSUME NEW s \in Seq(Nat), DOMAIN s = {} PROVE s = <<>>
    <3>1. DOMAIN s = 1 .. Len(s) /\ Len(s) \in Nat
      OBVIOUS
    <3>2. Len(s) = 0
      BY <2>1, <3>1
    <3>. QED BY <3>2
  <2>. QED BY <2>1
<1>. QED BY <1>1, <1>2 DEF Drained

\* The types of the tables and their sizes.
LEMMA TableFacts == AggTableOK => total \in Nat
BY DEF AggTableOK

\* Every aggregate combines exactly in the fold, the mergeable ones in the merge.
LEMMA ExactFold == ASSUME NEW R PROVE Exactly("fold", Aggs, R)
BY DEF Exactly, Combines

\* The merge is exact in every aggregate or, where a value is NaN, the additive ones.
LEMMA ExactMerge ==
    ASSUME AggTableOK, NEW R \in SUBSET (0 .. total - 1)
    PROVE  Exactly("merge", Mergeable, R)
<1>1. AdditiveAggs \subseteq Aggs
  BY DEF AdditiveAggs, Aggs
<1>2. CASE ~NoNaNTable
  BY <1>1, <1>2 DEF Exactly, Combines, Mergeable
<1>3. CASE NoNaNTable
  <2>1. ASSUME NEW r \in Surviving(R) PROVE table[r + 1].v # NaN
    <3>1. r + 1 \in DOMAIN table /\ table[r + 1] # Dropped
      <4>1. DOMAIN table = 1 .. Len(table)
        BY AggAssumption DEF AggTableOK
      <4>. QED BY <4>1 DEF Surviving, AggTableOK
    <3>. QED BY <1>3, <3>1 DEF NoNaNTable
  <2>. QED BY <1>3, <2>1 DEF Exactly, Combines, Mergeable, NoNaN
<1>. QED BY <1>2, <1>3

\* A map agrees with itself.
LEMMA AgreesSelf == ASSUME NEW f, NEW J PROVE Agrees(f, f, J)
BY DEF Agrees

\* The invariant holds at the start.
LEMMA AggInvInit == AggInit => AggInv
<1> SUFFICES ASSUME AggInit PROVE AggInv
  OBVIOUS
<1>1. PoolInv
  BY AggregateInit
<1>2. AggTableOK
  BY AggAssumption DEF AggInit, AggTableOK
<1>3. IsMap(EmptyMap)
  BY DEF IsMap, EmptyMap
<1>4. MapsTyped
  BY <1>3 DEF MapsTyped, AggInit
<1>5. Phases
  BY Sizes DEF Phases, AggInit
<1>6. PartialsExact
  BY DEF PartialsExact, AggInit, PoolInit
<1>7. MergedExact
  <2>1. {v \in Workers : v < merging} = {}
    BY WorkerFacts DEF AggInit
  <2>2. MergedMorsels = {}
    BY <2>1 DEF MergedMorsels
  <2>. QED BY <2>2 DEF MergedExact, AggInit
<1>. QED BY <1>1, <1>2, <1>4, <1>5, <1>6, <1>7 DEF AggInv

(***************************************************************************)
(* What a step that leaves the maps and the drained lists alone preserves. *)
(***************************************************************************)
LEMMA QuietMaps ==
    ASSUME AggInv, UNCHANGED <<table, grouped, perWorker, merging, merged, total, parts>>
    PROVE  (AggTableOK /\ MapsTyped /\ PartialsExact /\ MergedExact)'
<1>1. AggTableOK' /\ MapsTyped'
  BY DEF AggInv, AggTableOK, MapsTyped, IsMap
<1>2. \A w : Drained(w)' = Drained(w)
  BY DEF Drained
<1>3. \A M : RowsOf(M)' = RowsOf(M)
  BY DEF RowsOf, MorselRowSet, Start, End
<1>4. \A R : Partial(R)' = Partial(R)
  BY PartialStay
<1>5. PartialsExact'
  <2>1. \A w : RowsOf(Drained(w))' = RowsOf(Drained(w))
    BY <1>2 DEF RowsOf, MorselRowSet, Start, End
  <2>2. \A w : Partial(RowsOf(Drained(w)))' = Partial(RowsOf(Drained(w)))
    BY <2>1, <1>4
  <2>. QED BY <2>2 DEF AggInv, PartialsExact
<1>6. MergedExact'
  <2>1. MergedMorsels' = MergedMorsels
    BY <1>2 DEF MergedMorsels
  <2>2. RowsOf(MergedMorsels)' = RowsOf(MergedMorsels)
    BY <2>1 DEF RowsOf, MorselRowSet, Start, End
  <2>3. Partial(RowsOf(MergedMorsels))' = Partial(RowsOf(MergedMorsels))
    BY <2>2, <1>4
  <2>4. Mergeable' = Mergeable
    BY DEF Mergeable, NoNaNTable
  <2>. QED BY <2>1, <2>3, <2>4 DEF AggInv, MergedExact, Agrees
<1>. QED BY <1>1, <1>5, <1>6

\* A step of the pool other than the return never leaves a merge half done.
LEMMA PoolStepPhases ==
    ASSUME AggInv, PoolNext \/ UNCHANGED poolVars, UNCHANGED driverVars, ~Return
    PROVE  Phases'
<1>1. MergeAfterAllDone
  BY PoolInvImplies DEF AggInv
<1>2. CASE mainpc' = mainpc
  BY <1>2 DEF AggInv, Phases, driverVars, Finalize
<1>3. CASE mainpc \notin {"merge", "returned"}
  BY <1>3 DEF AggInv, Phases, driverVars
<1>4. CASE mainpc \in {"merge", "returned"} /\ mainpc' # mainpc
  BY <1>1, <1>4, WorkerFacts
     DEF PoolNext, Spawn, EnterWork, LeaveWork, Join, BeginMerge, Abort, Fetch, Pull, Finish,
     MergeAfterAllDone, poolVars
<1>. QED BY <1>2, <1>3, <1>4

(***************************************************************************)
(* FoldMorsel: the worker's map becomes the aggregate of its old rows and  *)
(* those of the morsel, which are other rows.                              *)
(***************************************************************************)
LEMMA FoldStep ==
    ASSUME AggInv, NEW w \in Workers, FoldMorsel(w)
    PROVE  (AggTableOK /\ MapsTyped /\ Phases /\ PartialsExact /\ MergedExact)'
<1> DEFINE m == claimed[w]
           old == Drained(w)
           P == Partial(MorselRowSet(m))
<1>0. PoolInv /\ AggTableOK /\ MapsTyped /\ Phases /\ PartialsExact /\ MergedExact /\ PoolTypeOK
  BY DEF AggInv, PoolInv
<1>1. /\ pc[w] = "scan" /\ UNCHANGED <<table, grouped, total, merging, merged, result, mainpc>>
      /\ parts' = [parts EXCEPT ![w] = Append(@, m)]
      /\ perWorker' = [perWorker EXCEPT ![w] = CombineMaps("fold", @, P)]
  BY DEF FoldMorsel, Finish
<1>2. mainpc \notin {"merge", "returned"} /\ merging = 0 /\ result = NoResult
  BY <1>0, <1>1, PoolInvImplies DEF MergeAfterAllDone, Phases
<1>3. /\ m \in Nat /\ old \in SUBSET Nat /\ m \notin old
      /\ parts[w] \in Seq(Nat) /\ total \in Nat
  BY <1>0, <1>1, DrainedNat, PoolInvImplies DEF PoolTypeOK, NoMorselTwice, Holding
<1>4. /\ Drained(w)' = old \union {m} /\ parts'[w] # <<>>
      /\ \A v \in Workers : v # w => Drained(v)' = Drained(v) /\ parts'[v] = parts[v]
  <2>1. parts'[w] = Append(parts[w], m) /\ \A v \in Workers : v # w => parts'[v] = parts[v]
    BY <1>0, <1>1 DEF PoolTypeOK
  <2>2. parts'[w] # <<>>
    BY <1>3, <2>1
  <2> HIDE DEF m
  <2>3. {Append(parts[w], m)[i] : i \in DOMAIN Append(parts[w], m)}
          = {parts[w][i] : i \in DOMAIN parts[w]} \union {m}
    BY <1>3, AppendDrained
  <2>4. Drained(w)' = old \union {m}
    BY <2>1, <2>3 DEF Drained
  <2>. QED BY <2>1, <2>2, <2>4 DEF Drained
<1>5. /\ RowsOf(old) \in SUBSET (0 .. total - 1) /\ MorselRowSet(m) \in SUBSET (0 .. total - 1)
      /\ RowsOf(old) \intersect MorselRowSet(m) = {}
      /\ RowsOf(old \union {m}) = RowsOf(old) \union MorselRowSet(m)
  <2> HIDE DEF m, old
  <2>1. RowsOf({m}) = MorselRowSet(m)
    BY DEF RowsOf
  <2>2. {m} \in SUBSET Nat /\ old \intersect {m} = {}
    BY <1>3
  <2>. QED BY <1>3, <2>1, <2>2, RowsOfIn, RowsOfApart, MorselRowsIn
<1>6. IsMap(P) /\ IsMap(perWorker[w]) /\ IsMap(CombineMaps("fold", perWorker[w], P))
  BY <1>0, <1>5, PartialIs, CombineType DEF MapsTyped
<1>7. CombineMaps("fold", perWorker[w], P) = Partial(RowsOf(old \union {m}))
  <2>1. CASE parts[w] = <<>>
    <3>1. perWorker[w] = EmptyMap /\ old = {}
      BY <1>0, <1>2, <2>1, WorkerFacts, DrainedNat DEF PartialsExact
    <3>2. RowsOf(old \union {m}) = MorselRowSet(m)
      BY <3>1 DEF RowsOf
    <3>. QED BY <1>6, <3>1, <3>2, CombineEmpty DEF IsMap
  <2>2. CASE parts[w] # <<>>
    <3>1. perWorker[w] = Partial(RowsOf(old))
      BY <1>0, <1>2, <2>2, WorkerFacts DEF PartialsExact
    <3>2. Exactly("fold", Aggs, RowsOf(old) \union MorselRowSet(m))
      BY ExactFold
    <3>3. Agrees(perWorker[w], Partial(RowsOf(old)), Aggs) /\ Agrees(P, Partial(MorselRowSet(m)), Aggs)
      BY <3>1, AgreesSelf
    <3> HIDE DEF P, m, old
    <3>4. Agrees(CombineMaps("fold", perWorker[w], P),
                 Partial(RowsOf(old) \union MorselRowSet(m)), Aggs)
      BY <1>0, <1>5, <3>2, <3>3, PartialUnion
    <3>5. RowsOf(old) \union MorselRowSet(m) \in SUBSET (0 .. total - 1)
      BY <1>5
    <3>6. IsMap(Partial(RowsOf(old) \union MorselRowSet(m)))
      BY <1>0, <3>5, PartialIs
    <3>. QED BY <1>5, <1>6, <3>4, <3>6, AgreeEqual
  <2>. QED BY <2>1, <2>2
<1> HIDE DEF m, old, P
<1>8. AggTableOK' /\ MapsTyped'
  BY <1>0, <1>1, <1>6 DEF AggTableOK, MapsTyped, IsMap
<1>9. Phases'
  BY <1>0, <1>1, <1>2 DEF Phases
<1>10. \A R : Partial(R)' = Partial(R)
  BY <1>1, PartialStay
<1>11. PartialsExact'
  <2>1. SUFFICES ASSUME NEW v \in Workers
                 PROVE  perWorker'[v] = IF parts'[v] = <<>> THEN EmptyMap
                                        ELSE Partial(RowsOf(Drained(v)))'
    BY DEF PartialsExact, EmptyMap
  <2>2. Partial(RowsOf(Drained(v)))' = Partial(RowsOf(Drained(v)'))
    <3>1. RowsOf(Drained(v))' = RowsOf(Drained(v)')
      BY <1>1 DEF RowsOf, MorselRowSet, Start, End
    <3>. QED BY <1>10, <3>1
  <2>3. CASE v = w
    BY <1>0, <1>1, <1>4, <1>7, <2>2, <2>3 DEF MapsTyped
  <2>4. CASE v # w
    BY <1>0, <1>1, <1>2, <1>4, <2>2, <2>4, WorkerFacts DEF MapsTyped, PartialsExact
  <2>. QED BY <2>3, <2>4
<1>12. MergedExact'
  <2>1. {v \in Workers : v < merging} = {}
    BY <1>2, WorkerFacts
  <2>2. MergedMorsels' = {} /\ MergedMorsels = {}
    BY <1>1, <2>1 DEF MergedMorsels
  <2>. QED BY <1>0, <1>1, <2>2 DEF MergedExact, EmptyMap
<1>. QED BY <1>8, <1>9, <1>11, <1>12

(***************************************************************************)
(* MergeWorker: the merged map takes in one more worker's rows.            *)
(***************************************************************************)
LEMMA MergeStep ==
    ASSUME AggInv, MergeWorker
    PROVE  (AggTableOK /\ MapsTyped /\ Phases /\ PartialsExact /\ MergedExact)'
<1> DEFINE w == merging
           old == MergedMorsels
           new == Drained(w)
           P == perWorker[w]
<1>0. PoolInv /\ AggTableOK /\ MapsTyped /\ Phases /\ PartialsExact /\ MergedExact /\ PoolTypeOK
  BY DEF AggInv, PoolInv
<1>1. /\ UNCHANGED <<table, grouped, total, parts, result, mainpc>>
      /\ mainpc = "merge" /\ merging < Threads /\ merging' = merging + 1
      /\ merged' = CombineMaps("merge", merged, P)
      /\ perWorker' = [perWorker EXCEPT ![w] = EmptyMap]
  BY DEF MergeWorker, poolVars
<1>2. w \in Workers /\ merging \in Nat /\ merging + 1 \in 0 .. Threads
  BY <1>0, <1>1, Sizes DEF Phases, Workers
<1>3. /\ \A v \in Workers : Drained(v) \in SUBSET Nat
      /\ new = {} <=> parts[w] = <<>>
      /\ total \in Nat
  BY <1>0, <1>2, DrainedNat DEF PoolTypeOK
<1>4. \A v : Drained(v)' = Drained(v)
  BY <1>1 DEF Drained
<1>5. MergedMorsels' = old \union new
  <2>1. \A x : x \in MergedMorsels <=> \E v \in Workers : v < merging /\ x \in Drained(v)
    BY DEF MergedMorsels
  <2>2. \A x : x \in MergedMorsels' <=> \E v \in Workers : v < merging + 1 /\ x \in Drained(v)
    BY <1>1, <1>4 DEF MergedMorsels
  <2>3. \A v \in Workers : v < merging + 1 <=> v < merging \/ v = w
    BY <1>2, WorkerFacts
  <2> HIDE DEF w
  <2>. QED BY <1>2, <2>1, <2>2, <2>3
<1>6. old \in SUBSET Nat /\ new \in SUBSET Nat /\ old \intersect new = {}
  <2>1. NoMorselTwice
    BY <1>0, PoolInvImplies
  <2>2. \A v \in Workers : v < merging => Drained(v) \intersect Drained(w) = {}
    BY <1>2, <2>1, WorkerFacts DEF NoMorselTwice, Owned
  <2>. QED BY <1>2, <1>3, <2>2 DEF MergedMorsels
<1>7. /\ RowsOf(old) \in SUBSET (0 .. total - 1) /\ RowsOf(new) \in SUBSET (0 .. total - 1)
      /\ RowsOf(old) \intersect RowsOf(new) = {}
      /\ RowsOf(old \union new) = RowsOf(old) \union RowsOf(new)
  <2> HIDE DEF old, new
  <2>. QED BY <1>3, <1>6, RowsOfIn, RowsOfApart
<1>8. /\ P = IF new = {} THEN EmptyMap ELSE Partial(RowsOf(new))
      /\ merged = [k \in DOMAIN merged |-> merged[k]] /\ P = [k \in DOMAIN P |-> P[k]]
      /\ IsMap(P) /\ IsMap(merged)
  BY <1>0, <1>2, <1>3 DEF PartialsExact, MapsTyped, IsMap
<1>9. IF old \union new = {} THEN merged' = EmptyMap
      ELSE Agrees(merged', Partial(RowsOf(old \union new)), Mergeable)
  <2> HIDE DEF P, old, new, w
  <2>0. IF old = {} THEN merged = EmptyMap
        ELSE Agrees(merged, Partial(RowsOf(old)), Mergeable)
    BY <1>0 DEF MergedExact, old
  <2>1. CASE new = {}
    <3>1. merged' = merged
      BY <1>1, <1>8, <2>1, CombineEmpty
    <3>. QED BY <2>0, <2>1, <3>1
  <2>2. CASE new # {} /\ old = {}
    <3>1. merged' = Partial(RowsOf(new))
      BY <1>1, <1>8, <2>0, <2>2, CombineEmpty
    <3>. QED BY <2>2, <3>1, AgreesSelf
  <2>3. CASE new # {} /\ old # {}
    <3>1. Agrees(merged, Partial(RowsOf(old)), Mergeable) /\ Agrees(P, Partial(RowsOf(new)), Mergeable)
      BY <1>8, <2>0, <2>3, AgreesSelf
    <3>2. RowsOf(old) \union RowsOf(new) \in SUBSET (0 .. total - 1)
      BY <1>7
    <3>3. Exactly("merge", Mergeable, RowsOf(old) \union RowsOf(new))
      BY <1>0, <3>2, ExactMerge
    <3>4. Agrees(CombineMaps("merge", merged, P), Partial(RowsOf(old) \union RowsOf(new)), Mergeable)
      BY <1>0, <1>7, <3>1, <3>3, PartialUnion
    <3>. QED BY <1>1, <1>7, <2>3, <3>4
  <2>. QED BY <2>1, <2>2, <2>3
<1>10. MapsTyped'
  <2>1. IsMap(EmptyMap) /\ IsMap(CombineMaps("merge", merged, P))
    BY <1>8, CombineType DEF IsMap, EmptyMap
  <2>2. \A v \in Workers : IsMap(perWorker'[v])
    BY <1>0, <1>1, <2>1 DEF MapsTyped
  <2>3. perWorker' = [v \in Workers |-> perWorker'[v]]
    BY <1>0, <1>1 DEF MapsTyped
  <2> HIDE DEF P
  <2>. QED BY <1>1, <2>1, <2>2, <2>3 DEF MapsTyped, IsMap
<1> HIDE DEF P, old, new
<1>11. AggTableOK' /\ Phases'
  BY <1>0, <1>1, <1>2 DEF AggTableOK, Phases
<1>12. \A R : Partial(R)' = Partial(R)
  BY <1>1, PartialStay
<1>13. PartialsExact'
  <2>1. SUFFICES ASSUME NEW v \in Workers, v >= merging'
                 PROVE  perWorker'[v] = IF parts'[v] = <<>> THEN EmptyMap
                                        ELSE Partial(RowsOf(Drained(v)))'
    BY DEF PartialsExact, EmptyMap
  <2>2. RowsOf(Drained(v))' = RowsOf(Drained(v))
    BY <1>1, <1>4 DEF RowsOf, MorselRowSet, Start, End
  <2>3. Partial(RowsOf(Drained(v)))' = Partial(RowsOf(Drained(v)))
    BY <1>12, <2>2
  <2>4. v # w /\ v >= merging
    BY <1>1, <1>2, <2>1, WorkerFacts
  <2>. QED BY <1>0, <1>1, <2>3, <2>4 DEF MapsTyped, PartialsExact
<1>14. MergedExact'
  <2>1. RowsOf(MergedMorsels)' = RowsOf(old \union new)
    BY <1>1, <1>5 DEF RowsOf, MorselRowSet, Start, End
  <2>2. Partial(RowsOf(MergedMorsels))' = Partial(RowsOf(old \union new))
    BY <1>12, <2>1
  <2>3. Mergeable' = Mergeable
    BY <1>1 DEF Mergeable, NoNaNTable
  <2>. QED BY <1>5, <1>9, <2>2, <2>3 DEF MergedExact, EmptyMap
<1>. QED BY <1>10, <1>11, <1>13, <1>14

\* Every step of the driver keeps the invariant.
LEMMA AggInvStep == AggInv /\ [AggNext]_aggVars => AggInv'
<1> SUFFICES ASSUME AggInv, [AggNext]_aggVars PROVE AggInv'
  OBVIOUS
<1>1. PoolInv'
  BY AggregateStep, PoolInvStep DEF AggInv
<1>2. ASSUME PoolNext \/ UNCHANGED poolVars, UNCHANGED <<driverVars, total, parts>>, ~Return PROVE AggInv'
  <2>1. (AggTableOK /\ MapsTyped /\ PartialsExact /\ MergedExact)'
    BY <1>2, QuietMaps DEF driverVars
  <2>2. Phases'
    BY <1>2, PoolStepPhases
  <2>. QED BY <1>1, <2>1, <2>2 DEF AggInv
<1>3. CASE AggPoolStep(Spawn \/ EnterWork \/ LeaveWork \/ Join \/ BeginMerge) \/ AggPoolStep(Abort)
  <2>1. UNCHANGED <<total, parts>> /\ ~Return /\ PoolNext /\ UNCHANGED driverVars
    BY <1>3 DEF AggPoolStep, Spawn, EnterWork, LeaveWork, Join, BeginMerge, Abort, Return, PoolNext
  <2>. QED BY <1>2, <2>1
<1>4. ASSUME NEW w \in Workers, AggPoolStep(Fetch(w) \/ Pull(w)) PROVE AggInv'
  <2>1. UNCHANGED <<total, parts>> /\ ~Return /\ PoolNext /\ UNCHANGED driverVars
    BY <1>4 DEF AggPoolStep, Fetch, Pull, Return, PoolNext
  <2>. QED BY <1>2, <2>1
<1>5. ASSUME NEW w \in Workers, FoldMorsel(w) PROVE AggInv'
  BY <1>1, <1>5, FoldStep DEF AggInv
<1>6. CASE MergeWorker
  BY <1>1, <1>6, MergeStep DEF AggInv
<1>7. CASE Deliver
  <2>1. UNCHANGED <<table, grouped, perWorker, merging, merged, total, parts>> /\ mainpc' = "returned"
        /\ merging = Threads /\ result' = Finalize(merged)
    BY <1>7 DEF Deliver, Return
  <2>2. Phases'
    BY <2>1 DEF AggInv, Phases, Finalize
  <2>3. (AggTableOK /\ MapsTyped /\ PartialsExact /\ MergedExact)'
    BY <2>1, QuietMaps
  <2>. QED BY <1>1, <2>2, <2>3 DEF AggInv
<1>8. CASE UNCHANGED aggVars
  <2>1. UNCHANGED <<total, parts>> /\ ~Return /\ UNCHANGED poolVars /\ UNCHANGED driverVars
    BY <1>8 DEF aggVars, poolVars, Return
  <2>. QED BY <1>2, <2>1
<1>. QED BY <1>3, <1>4, <1>5, <1>6, <1>7, <1>8 DEF AggNext, AggMainStep, AggWorkerStep, AggTerminated

(***************************************************************************)
(* When the result is delivered every morsel has been merged.              *)
(***************************************************************************)
LEMMA AllMerged ==
    ASSUME AggInv, result # NoResult
    PROVE  Agrees(merged, Partial(0 .. total - 1), Mergeable)
<1>1. mainpc = "returned" /\ merging = Threads /\ PoolInv /\ PoolTypeOK /\ total \in Nat
  BY DEF AggInv, Phases, PoolInv, AggTableOK
<1>2. {v \in Workers : v < merging} = Workers
  BY <1>1, Sizes DEF Workers
<1>3. \A w \in Workers : Drained(w) \subseteq 0 .. NumMorsels - 1
  BY <1>1, DrainedNat, NumMorselsType DEF PoolInv, Dispensing, Claims, Owned
<1>4. \A m \in 0 .. NumMorsels - 1 : \E w \in Workers : m \in Drained(w)
  BY <1>1, PoolInvImplies DEF NoMorselLost
<1>5. MergedMorsels = 0 .. NumMorsels - 1
  BY <1>2, <1>3, <1>4 DEF MergedMorsels
<1>6. MergedMorsels # {} /\ RowsOf(MergedMorsels) = 0 .. total - 1
  BY <1>1, <1>5, MorselsCover
<1>. QED BY <1>6 DEF AggInv, MergedExact

\* The finished cells of every group, for the aggregates the merge keeps.
LEMMA Finished ==
    ASSUME AggInv, result # NoResult, NEW k \in DOMAIN SingleThreadResult
    PROVE  /\ DOMAIN result = DOMAIN SingleThreadResult
           /\ result[k] = FinalCells([j \in Aggs |-> CellOf(merged[k][j])])
           /\ SingleThreadResult[k] = FinalCells(AggregateOf(0 .. total - 1)[k])
           /\ \A j \in Mergeable : j \in Aggs /\ CellOf(merged[k][j]) = AggregateOf(0 .. total - 1)[k][j]
<1> DEFINE R == 0 .. total - 1
<1>0. AggTableOK /\ total \in Nat /\ R \in SUBSET R
  BY DEF AggInv, AggTableOK
<1>1. result = Finalize(merged) /\ Agrees(merged, Partial(R), Mergeable)
  BY AllMerged DEF AggInv, Phases
<1>2. /\ AggregateOf(R) = [g \in GroupKeys(Surviving(R)) |-> Cells(Group(R, g))]
      /\ DOMAIN SingleThreadResult = GroupKeys(Surviving(R))
      /\ SingleThreadResult[k] = FinalCells(AggregateOf(R)[k])
  BY DEF SingleThreadResult, AggregateOf, Group
<1>3. /\ DOMAIN Partial(R) = GroupKeys(Surviving(R))
      /\ \A g \in GroupKeys(Surviving(R)), j \in Aggs : Partial(R)[g][j] = AccOf(Cells(Group(R, g))[j])
  BY <1>0, PartialIs
<1>4. DOMAIN merged = GroupKeys(Surviving(R))
  BY <1>1, <1>3 DEF Agrees
<1>5. DOMAIN result = GroupKeys(Surviving(R)) /\ result[k] = FinalCells([j \in Aggs |-> CellOf(merged[k][j])])
  BY <1>1, <1>2, <1>4 DEF Finalize
<1>6. ASSUME NEW j \in Mergeable
      PROVE  j \in Aggs /\ CellOf(merged[k][j]) = AggregateOf(R)[k][j]
  <2>1. j \in Aggs
    BY DEF Mergeable, AdditiveAggs, Aggs
  <2>2. merged[k][j] = AccOf(Cells(Group(R, k))[j])
    BY <1>1, <1>2, <1>3, <2>1 DEF Agrees
  <2>3. Sound(Group(R, k))
    BY <1>0, RowTypes
  <2>4. CellOf(AccOf(Cells(Group(R, k))[j])) = Cells(Group(R, k))[j]
    BY <2>1, <2>3, CellTypes
  <2>5. AggregateOf(R)[k] = Cells(Group(R, k))
    BY <1>2
  <2>. QED BY <2>1, <2>2, <2>4, <2>5
<1>. QED BY <1>2, <1>5, <1>6

\* The invariant gives the properties.
LEMMA AggInvImplies ==
    AggInv => AggTypeOK /\ PartialsExact /\ AdditiveExact /\ MatchesUnlessNaN
<1> SUFFICES ASSUME AggInv PROVE AggTypeOK /\ PartialsExact /\ AdditiveExact /\ MatchesUnlessNaN
  OBVIOUS
<1>1. AggTypeOK
  <2>1. Range(perWorker) = {perWorker[w] : w \in Workers}
    BY DEF AggInv, MapsTyped, Range
  <2>. QED BY <2>1 DEF AggInv, AggTypeOK, PoolInv, AggTableOK, Phases, MapsTyped, IsMap
<1>2. ASSUME result # NoResult PROVE DOMAIN result = DOMAIN SingleThreadResult
  <2>1. DOMAIN result = DOMAIN merged
    BY <1>2 DEF AggInv, Phases, Finalize
  <2>2. DOMAIN merged = DOMAIN Partial(0 .. total - 1)
    BY <1>2, AllMerged DEF Agrees
  <2>3. DOMAIN Partial(0 .. total - 1) = DOMAIN SingleThreadResult
    BY DEF Partial, SingleThreadResult
  <2>. QED BY <2>1, <2>2, <2>3
<1>3. AdditiveExact
  <2>1. SUFFICES ASSUME result # NoResult, NEW k \in DOMAIN SingleThreadResult, NEW j \in Additive
                 PROVE  result[k][j] = SingleThreadResult[k][j]
    BY <1>2 DEF AdditiveExact
  <2> DEFINE c == [i \in Aggs |-> CellOf(merged[k][i])]
             d == AggregateOf(0 .. total - 1)[k]
  <2>2. /\ result[k] = FinalCells(c) /\ SingleThreadResult[k] = FinalCells(d)
        /\ \A i \in AdditiveAggs : c[i] = d[i]
    BY <2>1, Finished DEF Mergeable, AdditiveAggs, Aggs
  <2> HIDE DEF c, d
  <2>. QED BY <2>2 DEF FinalCells, Additive, AdditiveAggs, Aggs
<1>4. MatchesUnlessNaN
  <2>1. SUFFICES ASSUME result # NoResult, NoNaNTable PROVE result = SingleThreadResult
    BY DEF MatchesUnlessNaN, MatchesSingleThread, NoNaNTable
  <2>2. ASSUME NEW k \in DOMAIN SingleThreadResult PROVE result[k] = SingleThreadResult[k]
    <3> DEFINE c == [i \in Aggs |-> CellOf(merged[k][i])]
               d == AggregateOf(0 .. total - 1)[k]
    <3>1. /\ result[k] = FinalCells(c) /\ SingleThreadResult[k] = FinalCells(d)
          /\ \A i \in Aggs : c[i] = d[i]
      BY <2>1, Finished DEF Mergeable
    <3> HIDE DEF c, d
    <3>. QED BY <3>1 DEF FinalCells, Aggs
  <2>3. result = [k \in DOMAIN result |-> result[k]]
    BY <2>1 DEF AggInv, Phases, Finalize
  <2>4. SingleThreadResult = [k \in DOMAIN SingleThreadResult |-> SingleThreadResult[k]]
    BY DEF SingleThreadResult
  <2>. QED BY <1>2, <2>1, <2>2, <2>3, <2>4
<1>. QED BY <1>1, <1>3, <1>4 DEF AggInv

(***************************************************************************)
(* In every execution of run_aggregate, for every table, number of workers *)
(* and size of morsel: accumulators are numbers; a worker's map is at      *)
(* every moment the aggregate of exactly the rows it drained; the groups,  *)
(* counts, sums and averages of the result are those of the single-        *)
(* threaded plan; and so is the whole result when no value is NaN.         *)
(***************************************************************************)
THEOREM AggregateExact ==
    AggSpec => [](AggTypeOK /\ PartialsExact /\ AdditiveExact /\ MatchesUnlessNaN)
BY AggInvInit, AggInvStep, AggInvImplies, PTL DEF AggSpec
===============================================================================
