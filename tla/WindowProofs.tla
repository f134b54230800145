------------------------------ MODULE WindowProofs ------------------------------
(***************************************************************************)
(* Window, for every child and every choice of aggregates: what the        *)
(* sliding sweep carries from row to row, and that tumbling and sliding    *)
(* both hand out what the reference computes.                              *)
(*                                                                         *)
(* WindowInv says that the sweep carries the count, sum and deque of the   *)
(* frame alone.  A cell written from them is then the reference's fold     *)
(* over the frame, because the deque's front is the extreme value.  The    *)
(* reference groups rows and sorts each group, the operator sorts by key   *)
(* and time and cuts the partitions out: rows of one key stand together,   *)
(* so the runs of the sorted rows are the reference's groups (RunRows).    *)
(* A tumbling group's cells are the fold over its members in the order of  *)
(* arrival.  AnswerInv joins these to what has been handed out.            *)
(***************************************************************************)
EXTENDS Window, DataProofs

-----------------------------------------------------------------------------
(***************************************************************************)
(* Adding up.                                                              *)
(***************************************************************************)
Number == Int \union {NaN}

\* h[k] is the sum of the first k values.
SumTable(h, values) ==
    /\ h \in [0 .. Len(values) -> Number]
    /\ h[0] = 0
    /\ \A k \in 1 .. Len(values) :
          h[k] = IF values[k] = NULL THEN h[k - 1] ELSE Plus(h[k - 1], values[k])

\* AddUp is the last of the sums of the first values.
LEMMA AddUpTable ==
    ASSUME NEW values \in Seq(Number \union {NULL})
    PROVE  \E h : SumTable(h, values) /\ AddUp(values) = h[Len(values)]
<1> DEFINE n == Len(values)
           Op(v, s) == IF v = NULL THEN s ELSE Plus(s, v)
           step == [k \in 1 .. n |-> [a \in Number |-> Op(values[k], a)]]
           body(f) == [s \in SUBSET DOMAIN values |->
                         IF s = {} THEN 0 ELSE Op(values[Max(s)], f[s \ {Max(s)}])]
           it == CHOOSE f : f = body(f)
<1>1. n \in Nat /\ DOMAIN values = 1 .. n /\ \A k \in 1 .. n : values[k] \in Number \union {NULL}
  OBVIOUS
<1>2. \A k \in 1 .. n, a \in Number : step[k][a] = Op(values[k], a) /\ Op(values[k], a) \in Number
  <2>1. \A v \in Number \union {NULL}, a \in Number : Op(v, a) \in Number
    BY WindowAssumption DEF Number, Plus
  <2>. QED BY <1>1, <2>1
<1>3. Steps(step, n, Number) /\ 0 \in Number
  BY <1>2 DEF Steps, Number
<1> HIDE DEF step
<1>4. PICK g : SetTable(g, n, Number, 0, step)
  <2> HIDE DEF n
  <2>. QED BY <1>1, <1>3, SeqFoldExists
<1>5. AddUp(values) = it[DOMAIN values]
  BY Zenon DEF AddUp, FoldLeft, MapThenFoldSet
<1> HIDE DEF n
<1>6. g = body(g)
  <2>1. ASSUME NEW s \in SUBSET (1 .. n), s # {} PROVE g[s] = Op(values[Max(s)], g[s \ {Max(s)}])
    <3>1. g[s] = step[Max(s)][g[s \ {Max(s)}]] /\ g[s \ {Max(s)}] \in Number
      BY <1>4, <2>1 DEF SetTable
    <3>2. Max(s) \in 1 .. n
      BY <1>1, <2>1, MaxOf
    <3>. QED BY <1>1, <1>2, <3>1, <3>2
  <2> HIDE DEF Op
  <2>. QED BY <1>1, <1>4, <2>1 DEF SetTable
<1>7. it = body(it)
  <2> HIDE DEF body
  <2>. QED BY <1>6
<1> DEFINE h == [k \in 0 .. n |-> it[1 .. k]]
<1> HIDE DEF it
<1>8. h[0] = 0
  BY <1>1, <1>7
<1>9. ASSUME NEW k \in 1 .. n PROVE h[k] = Op(values[k], h[k - 1])
  <2>1. 1 .. k \in SUBSET (1 .. n) /\ 1 .. k # {} /\ Max(1 .. k) = k /\ (1 .. k) \ {k} = 1 .. k - 1
    BY <1>1, Initial
  <2>2. it[1 .. k] = Op(values[k], it[1 .. k - 1])
    <3>1. \A s \in SUBSET (1 .. n) : s # {} => it[s] = Op(values[Max(s)], it[s \ {Max(s)}])
      BY <1>1, <1>7
    <3> HIDE DEF Op, body
    <3>. QED BY <2>1, <3>1
  <2>3. k \in 0 .. n /\ k - 1 \in 0 .. n
    BY <1>1
  <2>. QED BY <2>2, <2>3
<1>10. h[n] = it[DOMAIN values]
  BY <1>1
<1> DEFINE S == {k \in Nat : k <= n => h[k] \in Number}
<1> HIDE DEF h
<1>11. 0 \in S
  BY <1>3, <1>8
<1>12. ASSUME NEW k \in Nat, k \in S PROVE k + 1 \in S
  <2>1. SUFFICES ASSUME k + 1 <= n PROVE h[k + 1] \in Number
    OBVIOUS
  <2>2. k + 1 \in 1 .. n /\ (k + 1) - 1 = k /\ k <= n
    BY <1>1, <2>1
  <2>3. h[k] \in Number /\ h[k + 1] = Op(values[k + 1], h[k])
    BY <1>9, <1>12, <2>2
  <2> HIDE DEF Op
  <2>. QED BY <1>2, <2>2, <2>3
<1> HIDE DEF S
<1>13. \A k \in Nat : k \in S
  BY <1>11, <1>12, SetInduction
<1>14. h \in [0 .. n -> Number]
  <2>1. \A k \in 0 .. n : h[k] \in Number
    BY <1>1, <1>13 DEF S
  <2>. QED BY <2>1 DEF h
<1>15. SumTable(h, values)
  BY <1>8, <1>9, <1>14 DEF SumTable, n
<1>. QED BY <1>5, <1>10, <1>15 DEF n

\* What a value adds to an integer sum.
Amount(v) == IF v = NULL THEN 0 ELSE v

\* h[k] is the integer sum of the first k values.
AmountTable(h, values) ==
    /\ h[0] = 0
    /\ \A k \in 0 .. Len(values) : h[k] \in Int
    /\ \A k \in 1 .. Len(values) : h[k] = h[k - 1] + Amount(values[k])

\* Without NaN a sum is an integer.
LEMMA AddUpAmounts ==
    ASSUME NEW values \in Seq(Int \union {NULL})
    PROVE  \E h : AmountTable(h, values) /\ AddUp(values) = h[Len(values)]
<1> DEFINE n == Len(values)
<1>1. n \in Nat /\ \A k \in 1 .. n : values[k] \in Int \union {NULL}
  OBVIOUS
<1>2. values \in Seq(Number \union {NULL})
  BY DEF Number
<1>3. PICK h : SumTable(h, values) /\ AddUp(values) = h[n]
  BY <1>2, AddUpTable
<1> DEFINE S == {k \in Nat : k <= n => h[k] \in Int}
<1>4. 0 \in S
  BY <1>3 DEF SumTable
<1>5. ASSUME NEW k \in Nat, k \in S, k + 1 <= n
      PROVE  h[k] \in Int /\ h[k + 1] \in Int /\ h[k + 1] = h[k] + Amount(values[k + 1])
  <2>1. k + 1 \in 1 .. n /\ (k + 1) - 1 = k /\ h[k] \in Int
    BY <1>1, <1>5
  <2>2. h[k + 1] = IF values[k + 1] = NULL THEN h[k] ELSE Plus(h[k], values[k + 1])
    BY <1>3, <2>1 DEF SumTable
  <2>3. values[k + 1] \in Int \union {NULL}
    BY <1>1, <2>1
  <2>. QED BY <2>1, <2>2, <2>3, WindowAssumption DEF Plus, Amount
<1>6. \A k \in Nat : k \in S => k + 1 \in S
  BY <1>1, <1>5
<1>7. \A k \in Nat : k \in S
  <2> HIDE DEF S
  <2>. QED BY <1>4, <1>6, SetInduction
<1>8. \A k \in 0 .. n : h[k] \in Int
  BY <1>1, <1>7
<1>9. ASSUME NEW k \in 1 .. n PROVE h[k] = h[k - 1] + Amount(values[k])
  <2>1. k - 1 \in Nat /\ (k - 1) + 1 = k /\ (k - 1) + 1 <= n
    BY <1>1
  <2>2. k - 1 \in S
    BY <1>7, <2>1
  <2> HIDE DEF S, n
  <2>3. h[(k - 1) + 1] = h[k - 1] + Amount(values[(k - 1) + 1])
    BY <1>5, <2>1, <2>2
  <2>. QED BY <2>1, <2>3
<1>10. AmountTable(h, values)
  BY <1>3, <1>8, <1>9 DEF AmountTable, SumTable
<1>. QED BY <1>3, <1>10

\* One more value at the end.
LEMMA AddUpLast ==
    ASSUME NEW v \in Seq(Int \union {NULL}), NEW w \in Seq(Int \union {NULL}),
           Len(w) = Len(v) + 1, \A k \in 1 .. Len(v) : w[k] = v[k]
    PROVE  AddUp(w) = AddUp(v) + Amount(w[Len(w)]) /\ AddUp(v) \in Int
<1> DEFINE n == Len(v)
<1>1. n \in Nat
  OBVIOUS
<1>2. PICK g : AmountTable(g, v) /\ AddUp(v) = g[n]
  BY AddUpAmounts
<1>3. PICK h : AmountTable(h, w) /\ AddUp(w) = h[n + 1]
  BY AddUpAmounts
<1> DEFINE S == {k \in Nat : k <= n => h[k] = g[k]}
<1> HIDE DEF n
<1>4. 0 \in S
  BY <1>2, <1>3 DEF AmountTable
<1>5. ASSUME NEW k \in Nat, k \in S PROVE k + 1 \in S
  <2>1. SUFFICES ASSUME k + 1 <= n PROVE h[k + 1] = g[k + 1]
    OBVIOUS
  <2>2. k + 1 \in 1 .. n /\ k + 1 \in 1 .. n + 1 /\ (k + 1) - 1 = k /\ k <= n
    BY <1>1, <2>1
  <2>3. g[k + 1] = g[k] + Amount(v[k + 1])
    BY <1>2, <2>2 DEF AmountTable, n
  <2>4. h[k + 1] = h[k] + Amount(w[k + 1])
    BY <1>3, <2>2 DEF AmountTable, n
  <2>. QED BY <1>5, <2>2, <2>3, <2>4 DEF n
<1> HIDE DEF S
<1>6. n \in S
  BY <1>1, <1>4, <1>5, SetInduction
<1>7. h[n] = g[n] /\ g[n] \in Int
  <2>1. n \in 0 .. n
    BY <1>1
  <2>. QED BY <1>1, <1>2, <1>6, <2>1 DEF S, AmountTable, n
<1>8. h[n + 1] = h[n] + Amount(w[n + 1])
  <2>1. n + 1 \in 1 .. Len(w) /\ (n + 1) - 1 = n
    BY <1>1 DEF n
  <2>. QED BY <1>3, <2>1 DEF AmountTable
<1>. QED BY <1>2, <1>3, <1>7, <1>8 DEF n

\* One value less at the front.
LEMMA AddUpRest ==
    ASSUME NEW v \in Seq(Int \union {NULL}), NEW w \in Seq(Int \union {NULL}),
           Len(w) = Len(v) + 1, \A k \in 1 .. Len(v) : w[k + 1] = v[k]
    PROVE  AddUp(v) = AddUp(w) - Amount(w[1])
<1> DEFINE n == Len(v)
<1>1. n \in Nat /\ w[1] \in Int \union {NULL}
  <2>1. 1 \in 1 .. Len(w)
    OBVIOUS
  <2>. QED BY <2>1
<1>2. PICK g : AmountTable(g, v) /\ AddUp(v) = g[n]
  BY AddUpAmounts
<1>3. PICK h : AmountTable(h, w) /\ AddUp(w) = h[n + 1]
  BY AddUpAmounts
<1> DEFINE S == {k \in Nat : k <= n => h[k + 1] = g[k] + Amount(w[1])}
<1> HIDE DEF n
<1>a. Amount(w[1]) \in Int
  BY <1>1 DEF Amount
<1>4. 0 \in S
  <2>1. 1 \in 1 .. Len(w) /\ 1 - 1 = 0
    BY <1>1 DEF n
  <2>2. h[1] = h[0] + Amount(w[1])
    BY <1>3, <2>1 DEF AmountTable
  <2>3. h[0] = 0 /\ g[0] = 0
    BY <1>2, <1>3 DEF AmountTable
  <2>. QED BY <2>2, <2>3
<1>5. ASSUME NEW k \in Nat, k \in S PROVE k + 1 \in S
  <2>1. SUFFICES ASSUME k + 1 <= n PROVE h[(k + 1) + 1] = g[k + 1] + Amount(w[1])
    OBVIOUS
  <2> DEFINE m == k + 1
  <2>2. m \in 1 .. n /\ m + 1 \in 1 .. n + 1 /\ m - 1 = k /\ (m + 1) - 1 = m /\ k <= n /\ k \in 0 .. n
    BY <1>1, <2>1
  <2> HIDE DEF m
  <2>3. g[m] = g[k] + Amount(v[m]) /\ g[k] \in Int
    BY <1>2, <2>2 DEF AmountTable, n
  <2>4. h[m + 1] = h[m] + Amount(w[m + 1])
    BY <1>3, <2>2 DEF AmountTable, n
  <2>5. w[m + 1] = v[m] /\ v[m] \in Int \union {NULL}
    BY <2>2 DEF n
  <2>6. h[m] = g[k] + Amount(w[1])
    BY <1>5, <2>2 DEF m
  <2>7. Amount(v[m]) \in Int
    BY <2>5 DEF Amount
  <2>8. h[m + 1] = (g[k] + Amount(w[1])) + Amount(v[m])
    BY <2>4, <2>5, <2>6
  <2>9. h[m + 1] = g[m] + Amount(w[1])
    BY <1>a, <2>3, <2>7, <2>8
  <2>. QED BY <2>9 DEF m
<1> HIDE DEF S
<1>6. n \in S
  BY <1>1, <1>4, <1>5, SetInduction
<1>7. h[n + 1] = g[n] + Amount(w[1]) /\ g[n] \in Int
  <2>1. n \in 0 .. n
    BY <1>1
  <2>. QED BY <1>1, <1>2, <1>6, <2>1 DEF S, AmountTable, n
<1>. QED BY <1>2, <1>3, <1>7, <1>a DEF n

-----------------------------------------------------------------------------
(***************************************************************************)
(* The child's rows and the sorted store.                                  *)
(***************************************************************************)
StoreOK == in \in Inputs /\ store \in Seq(RowSet(in))

\* What the constructor's arguments are.
LEMMA Arguments ==
    ASSUME in \in Inputs
    PROVE  /\ in.mode \in {"Tumbling", "Sliding"} /\ in.isFloat \in BOOLEAN /\ in.param \in Nat
           /\ in.mode = "Tumbling" => in.param > 0
           /\ in.rows \in Seq(RowSet(in))
           /\ \A a \in DOMAIN Aggs : Aggs[a].func \in AggFuncs /\ Aggs[a].col = 3 /\ Col(a) = 3
<1> DEFINE Specs == [func : AggFuncs, col : {3}]
<1>1. Aggs \in Seq(Specs)
  BY WindowAssumption DEF Aggs
<1>2. \A a \in DOMAIN Aggs : Aggs[a] \in Specs
  <2> HIDE DEF Specs
  <2>. QED BY <1>1
<1>. QED BY <1>2, WindowAssumption DEF Col

\* The value of a row of the store.
LEMMA StoreValue ==
    ASSUME StoreOK, NEW a \in DOMAIN Aggs, NEW r \in 1 .. Len(store)
    PROVE  /\ Value(a, store[r]) \in Number \union {NULL}
           /\ ~in.isFloat => Value(a, store[r]) \in Int \union {NULL}
<1>1. store[r] \in RowSet(in)
  BY DEF StoreOK
<1>2. store[r][3] \in Int \union (IF in.isFloat THEN {NULL, NaN} ELSE {NULL})
  BY <1>1 DEF RowSet
<1>3. Value(a, store[r]) = store[r][3]
  BY Arguments DEF Value, StoreOK
<1>. QED BY <1>2, <1>3 DEF Number

\* The sorted store holds the child's rows.
LEMMA StoreRows ==
    ASSUME in \in Inputs
    PROVE  OrderBy(in.rows, SortKeys) \in Seq(RowSet(in))
<1>1. SortKeys \in Seq(KeySpec) /\ DOMAIN SortKeys = 1 .. 2
      /\ SortKeys[1].col = 1 /\ SortKeys[2].col = 2
  <2>1. [col |-> 1, dir |-> "Asc", nulls |-> "Last"] \in KeySpec
        /\ [col |-> 2, dir |-> "Asc", nulls |-> "Last"] \in KeySpec
    BY DEF KeySpec
  <2>. QED BY <2>1 DEF SortKeys
<1>2. \A row \in RowSet(in) : row[1] \in KeyCell /\ row[2] \in KeyCell
  BY DEF RowSet, KeyCell
<1>3. Sortable(RowSet(in), SortKeys)
  BY <1>1, <1>2, WindowAssumption DEF Sortable, Apart
<1>4. in.rows \in Seq(RowSet(in))
  BY Arguments
<1>. QED BY <1>1, <1>3, <1>4, OrderBySorts DEF Ordered

-----------------------------------------------------------------------------
(***************************************************************************)
(* The accumulators.                                                       *)
(***************************************************************************)
SlideAcc == [sum : Int, cnt : Nat, deque : Seq(Nat)]

\* x is the accumulator of aggregate a over the frame from .. to.
AccFor(x, a, from, to) ==
    /\ x \in SlideAcc
    /\ Aggs[a].func = "CountStar" => x.cnt = 0
    /\ Aggs[a].func # "CountStar" =>
         /\ x.cnt = Cardinality(FrameValues(a, from, to))
         /\ ~in.isFloat => x.sum = FrameSum(a, from, to)
         /\ Aggs[a].func \in {"Min", "Max"} =>
              /\ ToSet(x.deque) = Candidates(a, from, to)
              /\ Increasing(x.deque)

\* from .. to are rows of the store, or none.
Frame(from, to) == from \in Nat \ {0} /\ to \in Nat /\ from <= to + 1 /\ to <= Len(store)

\* Beating a later value is a strict order.
LEMMA StaysOrder ==
    ASSUME StoreOK, NEW a \in DOMAIN Aggs,
           NEW r \in 1 .. Len(store), NEW s \in 1 .. Len(store), NEW t \in 1 .. Len(store),
           Value(a, store[r]) # NULL, Value(a, store[s]) # NULL, Value(a, store[t]) # NULL
    PROVE  Stays(a, r, s) /\ Stays(a, s, t) => Stays(a, r, t)
<1> DEFINE x == Value(a, store[r])
           y == Value(a, store[s])
           z == Value(a, store[t])
<1>1. x \in Number /\ y \in Number /\ z \in Number
  BY StoreValue
<1> HIDE DEF x, y, z
<1>2. \A u, v, w \in Number : CellLess(u, v) /\ CellLess(v, w) => CellLess(u, w)
  BY WindowAssumption DEF CellLess, Number
<1>3. CASE Aggs[a].func = "Min"
  <2>1. /\ Stays(a, r, s) <=> CellLess(x, y)
        /\ Stays(a, s, t) <=> CellLess(y, z)
        /\ Stays(a, r, t) <=> CellLess(x, z)
    BY <1>3 DEF Stays, x, y, z
  <2>. QED BY <1>1, <1>2, <2>1
<1>4. CASE Aggs[a].func # "Min"
  <2>1. /\ Stays(a, r, s) <=> CellLess(y, x)
        /\ Stays(a, s, t) <=> CellLess(z, y)
        /\ Stays(a, r, t) <=> CellLess(z, x)
    BY <1>4 DEF Stays, x, y, z
  <2>. QED BY <1>1, <1>2, <2>1
<1>. QED BY <1>3, <1>4

\* The values of a frame.
LEMMA FrameFacts ==
    ASSUME StoreOK, NEW a, NEW from, NEW to, Frame(from, to)
    PROVE  /\ FrameValues(a, from, to) \in SUBSET (1 .. Len(store))
           /\ IsFiniteSet(FrameValues(a, from, to))
           /\ Cardinality(FrameValues(a, from, to)) \in 0 .. Len(store)
<1> DEFINE F == FrameValues(a, from, to)
           n == Len(store)
<1>1. n \in Nat /\ F \in SUBSET (1 .. n)
  BY DEF StoreOK, FrameValues, Frame
<1> HIDE DEF F, n
<1>2. 1 \in Int /\ n \in Int
  BY <1>1
<1>3. IsFiniteSet(1 .. n) /\ Cardinality(1 .. n) = IF 1 > n THEN 0 ELSE n - 1 + 1
  BY <1>2, FS_Interval, Zenon
<1>4. IsFiniteSet(F) /\ Cardinality(F) <= Cardinality(1 .. n) /\ Cardinality(F) \in Nat
  BY <1>1, <1>3, FS_Subset, FS_CardinalityType
<1>5. Cardinality(1 .. n) = n
  BY <1>1, <1>3
<1>. QED BY <1>1, <1>4, <1>5 DEF F, n

\* The values of a frame, in order, whose sum FrameSum is.
ValuesOf(a, from, to) == [k \in 1 .. to - from + 1 |-> Value(a, store[from + k - 1])]

\* They are values of the store.
LEMMA ValuesType ==
    ASSUME StoreOK, NEW a \in DOMAIN Aggs, NEW from, NEW to, Frame(from, to)
    PROVE  /\ ValuesOf(a, from, to) \in Seq(Number \union {NULL})
           /\ ~in.isFloat => ValuesOf(a, from, to) \in Seq(Int \union {NULL})
           /\ Len(ValuesOf(a, from, to)) = to - from + 1
           /\ \A k \in 1 .. to - from + 1 : ValuesOf(a, from, to)[k] = Value(a, store[from + k - 1])
           /\ FrameSum(a, from, to) = AddUp(ValuesOf(a, from, to))
           /\ FrameSum(a, from, to) \in Number
<1> DEFINE n == to - from + 1
           v == ValuesOf(a, from, to)
<1>1. n \in Nat /\ \A k \in 1 .. n : from + k - 1 \in 1 .. Len(store)
  BY DEF Frame, StoreOK
<1>2. \A k \in 1 .. n : Value(a, store[from + k - 1]) \in Number \union {NULL}
  BY <1>1, StoreValue
<1>3. ~in.isFloat => \A k \in 1 .. n : Value(a, store[from + k - 1]) \in Int \union {NULL}
  BY <1>1, StoreValue
<1>4. v = [k \in 1 .. n |-> Value(a, store[from + k - 1])]
  BY DEF ValuesOf
<1>5. FrameSum(a, from, to) = AddUp(v)
  BY Zenon DEF FrameSum, ValuesOf
<1> HIDE DEF n, v
<1>6. v \in Seq(Number \union {NULL}) /\ Len(v) = n
  BY <1>1, <1>2, <1>4
<1>7. ~in.isFloat => v \in Seq(Int \union {NULL})
  BY <1>1, <1>3, <1>4
<1>8. PICK h : SumTable(h, v) /\ AddUp(v) = h[Len(v)]
  BY <1>6, AddUpTable
<1>9. AddUp(v) \in Number
  BY <1>1, <1>6, <1>8 DEF SumTable
<1>. QED BY <1>4, <1>5, <1>6, <1>7, <1>9 DEF n, v

\* A reset accumulator is that of an empty frame.
LEMMA ResetExact ==
    ASSUME StoreOK, NEW a \in DOMAIN Aggs, NEW i \in 1 .. Len(store)
    PROVE  AccFor(NoAcc[a], a, i, i - 1)
<1>1. NoAcc[a] = [sum |-> 0, cnt |-> 0, deque |-> <<>>]
  BY DEF NoAcc
<1>2. FrameValues(a, i, i - 1) = {} /\ Candidates(a, i, i - 1) = {}
  BY DEF FrameValues, Candidates
<1>3. FrameSum(a, i, i - 1) = 0
  <2>1. Frame(i, i - 1)
    BY DEF Frame, StoreOK
  <2>2. /\ ValuesOf(a, i, i - 1) \in Seq(Number \union {NULL})
        /\ Len(ValuesOf(a, i, i - 1)) = (i - 1) - i + 1
        /\ FrameSum(a, i, i - 1) = AddUp(ValuesOf(a, i, i - 1))
    BY <2>1, ValuesType
  <2>3. (i - 1) - i + 1 = 0
    OBVIOUS
  <2>4. PICK h : SumTable(h, ValuesOf(a, i, i - 1))
                 /\ AddUp(ValuesOf(a, i, i - 1)) = h[Len(ValuesOf(a, i, i - 1))]
    BY <2>2, AddUpTable
  <2>. QED BY <2>2, <2>3, <2>4 DEF SumTable
<1>4. NoAcc[a] \in SlideAcc /\ ToSet(NoAcc[a].deque) = {} /\ Increasing(NoAcc[a].deque)
  BY <1>1 DEF SlideAcc, ToSet, Increasing
<1>5. Cardinality(FrameValues(a, i, i - 1)) = 0
  BY <1>2, FS_EmptySet
<1>6. NoAcc[a].cnt = 0 /\ NoAcc[a].sum = 0
  BY <1>1
<1>. QED BY <1>2, <1>3, <1>4, <1>5, <1>6, Zenon DEF AccFor

(***************************************************************************)
(* The deque.                                                              *)
(***************************************************************************)
\* The least position of an increasing deque is its front.
LEMMA DequeFront ==
    ASSUME NEW d \in Seq(Nat), Increasing(d), NEW f \in Nat, \A r \in ToSet(d) : r >= f
    PROVE  f \in ToSet(d) <=> d # <<>> /\ Head(d) = f
<1>1. DOMAIN d = 1 .. Len(d) /\ Len(d) \in Nat /\ \A k \in 1 .. Len(d) : d[k] \in Nat /\ d[k] >= f
  BY DEF ToSet
<1>2. ASSUME f \in ToSet(d) PROVE d # <<>> /\ Head(d) = f
  <2>1. PICK k \in 1 .. Len(d) : d[k] = f
    BY <1>1, <1>2 DEF ToSet
  <2>2. 1 \in 1 .. Len(d) /\ d # <<>>
    BY <1>1, <2>1
  <2>3. 1 < k => d[1] < d[k]
    BY <1>1, <2>1, <2>2 DEF Increasing
  <2>4. d[1] = f
    BY <1>1, <2>1, <2>2, <2>3
  <2>. QED BY <2>2, <2>4
<1>3. ASSUME d # <<>>, Head(d) = f PROVE f \in ToSet(d)
  <2>1. 1 \in DOMAIN d /\ d[1] = f
    BY <1>1, <1>3
  <2>. QED BY <2>1 DEF ToSet
<1>. QED BY <1>2, <1>3

\* pop_front takes the front out.
LEMMA DequePop ==
    ASSUME NEW d \in Seq(Nat), Increasing(d), d # <<>>
    PROVE  /\ Tail(d) \in Seq(Nat) /\ Increasing(Tail(d))
           /\ ToSet(Tail(d)) = ToSet(d) \ {Head(d)}
<1> DEFINE n == Len(d)
           t == Tail(d)
<1>1. /\ n \in Nat /\ n >= 1 /\ DOMAIN d = 1 .. n /\ \A k \in 1 .. n : d[k] \in Nat
      /\ t \in Seq(Nat) /\ Len(t) = n - 1 /\ DOMAIN t = 1 .. n - 1
      /\ \A k \in 1 .. n - 1 : t[k] = d[k + 1]
      /\ Head(d) = d[1]
  OBVIOUS
<1> HIDE DEF n, t
<1>2. Increasing(t)
  <2>1. SUFFICES ASSUME NEW k \in 1 .. n - 1, NEW m \in 1 .. n - 1, k < m PROVE t[k] < t[m]
    BY <1>1 DEF Increasing
  <2>2. k + 1 \in 1 .. n /\ m + 1 \in 1 .. n /\ k + 1 < m + 1
    BY <1>1, <2>1
  <2>. QED BY <1>1, <2>2 DEF Increasing
<1>3. ASSUME NEW r \in ToSet(t) PROVE r \in ToSet(d) /\ r # d[1]
  <2>1. PICK k \in 1 .. n - 1 : t[k] = r
    BY <1>1, <1>3 DEF ToSet
  <2>2. k + 1 \in 1 .. n /\ 1 \in 1 .. n /\ 1 < k + 1 /\ d[k + 1] = r
    BY <1>1, <2>1
  <2>3. d[1] < d[k + 1] /\ d[1] \in Nat
    BY <1>1, <2>2 DEF Increasing
  <2>4. r \in ToSet(d)
    BY <1>1, <2>2 DEF ToSet
  <2>5. r \in Nat /\ r > d[1]
    BY <1>1, <2>2, <2>3
  <2>. QED BY <2>3, <2>4, <2>5
<1>4. ASSUME NEW r \in ToSet(d), r # d[1] PROVE r \in ToSet(t)
  <2>1. PICK k \in 1 .. n : d[k] = r
    BY <1>1 DEF ToSet
  <2>2. k # 1
    BY <1>4, <2>1
  <2>3. k - 1 \in 1 .. n - 1 /\ (k - 1) + 1 = k
    BY <1>1, <2>1, <2>2
  <2>4. t[k - 1] = r
    BY <1>1, <2>1, <2>3
  <2>. QED BY <1>1, <2>3, <2>4 DEF ToSet
<1>5. ToSet(t) = ToSet(d) \ {Head(d)}
  BY <1>1, <1>3, <1>4
<1>. QED BY <1>1, <1>2, <1>5 DEF t

\* push_back after popping the ones that do not stay: those that stay, then i.
LEMMA DequePush ==
    ASSUME NEW a, NEW d \in Seq(Nat), Increasing(d), NEW i \in Nat, \A r \in ToSet(d) : r < i,
           \A r, s \in ToSet(d) : r < s /\ Stays(a, s, i) => Stays(a, r, i)
    PROVE  /\ PushBack(a, d, i) \in Seq(Nat) /\ Increasing(PushBack(a, d, i))
           /\ ToSet(PushBack(a, d, i)) = {r \in ToSet(d) : Stays(a, r, i)} \union {i}
<1> DEFINE n == Len(d)
           Ok(k) == /\ k > 0 => Stays(a, d[k], i)
                    /\ \A m \in k + 1 .. n : ~Stays(a, d[m], i)
           keep == CHOOSE k \in 0 .. n : Ok(k)
           e == PushBack(a, d, i)
<1>1. n \in Nat /\ DOMAIN d = 1 .. n /\ \A k \in 1 .. n : d[k] \in Nat /\ d[k] \in ToSet(d) /\ d[k] < i
  BY DEF ToSet
<1>2. e = Append(SubSeq(d, 1, keep), i)
  BY Zenon DEF PushBack
<1> HIDE DEF n, e
<1>3. \E k \in 0 .. n : Ok(k)
  <2> DEFINE T == {k \in 1 .. n : Stays(a, d[k], i)}
  <2>1. CASE T = {}
    <3>1. Ok(0)
      BY <2>1
    <3>. QED BY <1>1, <3>1
  <2>2. CASE T # {}
    <3>1. T \in SUBSET (1 .. n)
      OBVIOUS
    <3>2. Max(T) \in T /\ \A k \in T : k <= Max(T)
      <4> HIDE DEF T
      <4>. QED BY <1>1, <2>2, <3>1, MaxOf
    <3> DEFINE k == Max(T)
    <3>3. k \in 1 .. n /\ Stays(a, d[k], i) /\ \A m \in T : m <= k
      BY <3>2
    <3> HIDE DEF k
    <3>4. \A m \in k + 1 .. n : m \notin T
      BY <1>1, <3>3
    <3>5. \A m \in k + 1 .. n : m \in 1 .. n
      BY <1>1, <3>3
    <3>6. Ok(k) /\ k \in 0 .. n
      BY <1>1, <3>3, <3>4, <3>5
    <3>. QED BY <3>6
  <2>. QED BY <2>1, <2>2
<1>4. keep \in 0 .. n /\ Ok(keep)
  <2> HIDE DEF Ok
  <2>. QED BY <1>3
<1> HIDE DEF keep
<1>5. \A k \in 1 .. n : Stays(a, d[k], i) <=> k <= keep
  <2>1. ASSUME NEW k \in 1 .. n, k <= keep PROVE Stays(a, d[k], i)
    <3>1. keep \in 1 .. n /\ Stays(a, d[keep], i)
      BY <1>1, <1>4, <2>1
    <3>2. CASE k < keep
      <4>1. d[k] < d[keep]
        BY <1>1, <3>1, <3>2 DEF Increasing
      <4>. QED BY <1>1, <3>1, <4>1
    <3>. QED BY <1>1, <2>1, <3>1, <3>2
  <2>2. ASSUME NEW k \in 1 .. n, ~(k <= keep) PROVE ~Stays(a, d[k], i)
    <3>1. k \in keep + 1 .. n
      BY <1>1, <1>4, <2>2
    <3>. QED BY <1>4, <3>1
  <2>. QED BY <2>1, <2>2
<1> HIDE DEF Ok
<1>6. /\ e \in Seq(Nat) /\ Len(e) = keep + 1 /\ DOMAIN e = 1 .. keep + 1
      /\ e[keep + 1] = i
      /\ \A k \in 1 .. keep : e[k] = d[k]
  BY <1>1, <1>2, <1>4 DEF n
<1>7. Increasing(e)
  <2>1. SUFFICES ASSUME NEW k \in 1 .. keep + 1, NEW m \in 1 .. keep + 1, k < m PROVE e[k] < e[m]
    BY <1>6 DEF Increasing
  <2>2. k \in 1 .. keep /\ k \in 1 .. n /\ e[k] = d[k]
    BY <1>1, <1>4, <1>6, <2>1
  <2>3. CASE m = keep + 1
    BY <1>1, <1>6, <2>2, <2>3
  <2>4. CASE m # keep + 1
    <3>1. m \in 1 .. keep /\ m \in 1 .. n /\ e[m] = d[m]
      BY <1>1, <1>4, <1>6, <2>1, <2>4
    <3>. QED BY <1>1, <2>1, <2>2, <3>1 DEF Increasing
  <2>. QED BY <2>3, <2>4
<1>8. ASSUME NEW r \in ToSet(e) PROVE r = i \/ (r \in ToSet(d) /\ Stays(a, r, i))
  <2>1. PICK k \in 1 .. keep + 1 : e[k] = r
    BY <1>6 DEF ToSet
  <2>2. CASE k # keep + 1
    <3>1. k \in 1 .. keep /\ k \in 1 .. n /\ k <= keep /\ r = d[k]
      BY <1>1, <1>4, <1>6, <2>1, <2>2
    <3>. QED BY <1>1, <1>5, <3>1
  <2>. QED BY <1>6, <2>1, <2>2
<1>9. i \in ToSet(e)
  <2>1. keep + 1 \in DOMAIN e
    BY <1>4, <1>6
  <2>. QED BY <1>6, <2>1 DEF ToSet
<1>10. ASSUME NEW r \in ToSet(d), Stays(a, r, i) PROVE r \in ToSet(e)
  <2>1. PICK k \in 1 .. n : d[k] = r
    BY <1>1 DEF ToSet
  <2>2. k <= keep
    BY <1>5, <1>10, <2>1
  <2>3. k \in 1 .. keep /\ k \in DOMAIN e
    BY <1>4, <1>6, <2>1, <2>2
  <2>. QED BY <1>6, <2>1, <2>3 DEF ToSet
<1>11. ToSet(e) = {r \in ToSet(d) : Stays(a, r, i)} \union {i}
  BY <1>8, <1>9, <1>10
<1>. QED BY <1>6, <1>7, <1>11 DEF e

-----------------------------------------------------------------------------
(***************************************************************************)
(* A row leaves, a row enters.                                             *)
(***************************************************************************)
\* The first row of a frame leaves it.
LEMMA LeaveExact ==
    ASSUME StoreOK, NEW a \in DOMAIN Aggs, NEW from, NEW to, Frame(from, to), from <= to,
           NEW x, AccFor(x, a, from, to)
    PROVE  AccFor(Leave(a, x, from), a, from + 1, to)
<1> DEFINE F == FrameValues(a, from, to)
           G == FrameValues(a, from + 1, to)
           C == Candidates(a, from, to)
           E == Candidates(a, from + 1, to)
           v == Value(a, store[from])
           y == Leave(a, x, from)
           popped == x.deque # <<>> /\ Head(x.deque) = from
<1>1. /\ from \in Nat /\ to \in Nat /\ from \in 1 .. Len(store) /\ Frame(from + 1, to)
      /\ from \in from .. to /\ from + 1 .. to = (from .. to) \ {from}
  BY DEF Frame, StoreOK
<1>2. G = F \ {from} /\ (from \in F <=> v # NULL)
  BY <1>1 DEF FrameValues
<1>3. \A r \in F : r \in Nat /\ r >= from /\ (r # from => r > from)
  BY <1>1 DEF FrameValues
<1>4. E = C \ {from}
  <2>1. \A r \in G : (\A s \in F : s > r => Stays(a, r, s)) <=> (\A s \in G : s > r => Stays(a, r, s))
    BY <1>2, <1>3
  <2> HIDE DEF F, G
  <2>2. C = {r \in F : \A s \in F : s > r => Stays(a, r, s)}
        /\ E = {r \in G : \A s \in G : s > r => Stays(a, r, s)}
    BY DEF Candidates, F, G
  <2>. QED BY <1>2, <2>1, <2>2
<1>5. x \in SlideAcc /\ x.sum \in Int /\ x.cnt \in Nat /\ x.deque \in Seq(Nat)
  BY DEF AccFor, SlideAcc
<1>6. CASE Aggs[a].func = "CountStar"
  <2>1. y = x
    BY <1>6 DEF Leave
  <2>. QED BY <1>5, <1>6, <2>1 DEF AccFor
<1>7. CASE Aggs[a].func # "CountStar"
  <2>1. x.cnt = Cardinality(F)
    BY <1>7 DEF AccFor
  <2>2. IsFiniteSet(F) /\ IsFiniteSet(G) /\ Cardinality(G) \in Nat
    BY <1>1, FrameFacts
  <2>3. Cardinality(G) = IF v = NULL THEN x.cnt ELSE x.cnt - 1
    <3>1. CASE v = NULL
      BY <1>2, <2>1, <3>1
    <3>2. CASE v # NULL
      <4> HIDE DEF F, G, v
      <4>. QED BY <1>2, <2>1, <2>2, <3>2, FS_RemoveElement
    <3>. QED BY <3>1, <3>2
  <2>4. ~in.isFloat => /\ v \in Int \union {NULL}
                       /\ x.sum = FrameSum(a, from, to)
                       /\ FrameSum(a, from + 1, to) = FrameSum(a, from, to) - Amount(v)
    <3>1. SUFFICES ASSUME ~in.isFloat
                   PROVE  /\ v \in Int \union {NULL} /\ x.sum = FrameSum(a, from, to)
                          /\ FrameSum(a, from + 1, to) = FrameSum(a, from, to) - Amount(v)
      OBVIOUS
    <3> DEFINE p == ValuesOf(a, from + 1, to)
               w == ValuesOf(a, from, to)
    <3>2. /\ p \in Seq(Int \union {NULL}) /\ w \in Seq(Int \union {NULL})
          /\ Len(p) = to - (from + 1) + 1 /\ Len(w) = to - from + 1
          /\ \A k \in 1 .. to - (from + 1) + 1 : p[k] = Value(a, store[(from + 1) + k - 1])
          /\ \A k \in 1 .. to - from + 1 : w[k] = Value(a, store[from + k - 1])
          /\ FrameSum(a, from, to) = AddUp(w) /\ FrameSum(a, from + 1, to) = AddUp(p)
      BY <1>1, <3>1, ValuesType
    <3> HIDE DEF p, w
    <3>3. Len(w) = Len(p) + 1
      BY <1>1, <3>2
    <3>4. \A k \in 1 .. Len(p) : w[k + 1] = p[k]
      <4>1. TAKE k \in 1 .. Len(p)
      <4>2. /\ k \in 1 .. to - (from + 1) + 1 /\ k + 1 \in 1 .. to - from + 1
            /\ (from + 1) + k - 1 = from + (k + 1) - 1
        BY <1>1, <3>2
      <4>. QED BY <3>2, <4>2
    <3>5. w[1] = v
      <4>1. 1 \in 1 .. to - from + 1 /\ from + 1 - 1 = from
        BY <1>1
      <4>. QED BY <3>2, <4>1
    <3>6. AddUp(p) = AddUp(w) - Amount(v)
      BY <3>2, <3>3, <3>4, <3>5, AddUpRest
    <3>7. v \in Int \union {NULL}
      BY <1>1, <3>1, StoreValue
    <3>. QED BY <1>7, <3>1, <3>2, <3>6, <3>7 DEF AccFor
  <2>5. /\ y.cnt = IF v = NULL THEN x.cnt ELSE x.cnt - 1
        /\ y.sum = IF v = NULL THEN x.sum ELSE x.sum - Unit(v)
        /\ y.deque = IF popped THEN Tail(x.deque) ELSE x.deque
        /\ y = [sum |-> y.sum, cnt |-> y.cnt, deque |-> y.deque]
    <3> DEFINE z == IF v = NULL THEN x ELSE [x EXCEPT !.sum = @ - Unit(v), !.cnt = @ - 1]
    <3>1. y = IF z.deque # <<>> /\ Head(z.deque) = from THEN [z EXCEPT !.deque = Tail(@)] ELSE z
      BY <1>7, Zenon DEF Leave
    <3> HIDE DEF y, v
    <3>2. /\ z.cnt = IF v = NULL THEN x.cnt ELSE x.cnt - 1
          /\ z.sum = IF v = NULL THEN x.sum ELSE x.sum - Unit(v)
          /\ z.deque = x.deque
          /\ z = [sum |-> z.sum, cnt |-> z.cnt, deque |-> z.deque]
      BY <1>5 DEF SlideAcc
    <3> HIDE DEF z
    <3>. QED BY <3>1, <3>2
  <2> HIDE DEF y, v
  <2>6. y.cnt = Cardinality(G) /\ y.cnt \in Nat
    BY <2>2, <2>3, <2>5
  <2>7. y.sum \in Int /\ (~in.isFloat => y.sum = FrameSum(a, from + 1, to))
    <3>1. CASE in.isFloat
      BY <1>5, <2>5, <3>1 DEF Unit
    <3>2. CASE ~in.isFloat
      BY <1>5, <2>4, <2>5, <3>2 DEF Unit, Amount
    <3>. QED BY <3>1, <3>2
  <2>8. y.deque \in Seq(Nat)
    BY <1>5, <2>5
  <2>9. ASSUME Aggs[a].func \in {"Min", "Max"}
        PROVE  ToSet(y.deque) = E /\ Increasing(y.deque)
    <3>1. ToSet(x.deque) = C /\ Increasing(x.deque)
      BY <1>7, <2>9 DEF AccFor
    <3>2. \A r \in C : r \in F
      BY DEF Candidates
    <3>3. \A r \in ToSet(x.deque) : r >= from
      BY <1>3, <3>1, <3>2
    <3> HIDE DEF C, E, F, G
    <3>4. from \in C <=> popped
      BY <1>1, <1>5, <3>1, <3>3, DequeFront
    <3>5. CASE popped
      <4>1. Increasing(Tail(x.deque)) /\ ToSet(Tail(x.deque)) = C \ {from}
        BY <1>5, <3>1, <3>5, DequePop
      <4>. QED BY <1>4, <2>5, <3>5, <4>1
    <3>6. CASE ~popped
      BY <1>4, <2>5, <3>1, <3>4, <3>6
    <3>. QED BY <3>5, <3>6
  <2>10. y \in SlideAcc
    <3>1. [sum |-> y.sum, cnt |-> y.cnt, deque |-> y.deque] \in SlideAcc
      BY <2>6, <2>7, <2>8 DEF SlideAcc
    <3>. QED BY <2>5, <3>1
  <2>. QED BY <1>7, <2>6, <2>7, <2>9, <2>10, Zenon DEF AccFor, y
<1>. QED BY <1>6, <1>7

\* The row after a frame enters it.
LEMMA EnterExact ==
    ASSUME StoreOK, NEW a \in DOMAIN Aggs, NEW from, NEW i, Frame(from, i), from <= i,
           NEW x, AccFor(x, a, from, i - 1)
    PROVE  AccFor(Enter(a, x, i), a, from, i)
<1> DEFINE F == FrameValues(a, from, i - 1)
           G == FrameValues(a, from, i)
           C == Candidates(a, from, i - 1)
           E == Candidates(a, from, i)
           v == Value(a, store[i])
           y == Enter(a, x, i)
<1>1. /\ from \in Nat /\ i \in Nat /\ i \in 1 .. Len(store) /\ Frame(from, i - 1)
      /\ i \notin from .. i - 1 /\ from .. i = (from .. i - 1) \union {i}
  BY DEF Frame, StoreOK
<1>2. G = (IF v = NULL THEN F ELSE F \union {i}) /\ i \notin F
  BY <1>1 DEF FrameValues
<1>3. \A r \in F : r \in Nat /\ r < i /\ r \in 1 .. Len(store) /\ Value(a, store[r]) # NULL
  BY <1>1 DEF FrameValues, Frame
<1>4. E = IF v = NULL THEN C ELSE {r \in C : Stays(a, r, i)} \union {i}
  <2>1. C = {r \in F : \A s \in F : s > r => Stays(a, r, s)}
        /\ E = {r \in G : \A s \in G : s > r => Stays(a, r, s)}
    BY DEF Candidates
  <2> HIDE DEF F, G, C, E, v
  <2>2. CASE v = NULL
    BY <1>2, <2>1, <2>2
  <2>3. CASE v # NULL
    <3>1. \A r \in F : (\A s \in G : s > r => Stays(a, r, s))
                       <=> (\A s \in F : s > r => Stays(a, r, s)) /\ Stays(a, r, i)
      BY <1>1, <1>2, <1>3, <2>3
    <3>2. \A s \in G : ~(s > i)
      BY <1>1, <1>2, <1>3, <2>3
    <3>. QED BY <1>2, <2>1, <2>3, <3>1, <3>2
  <2>. QED BY <2>2, <2>3
<1>5. x \in SlideAcc /\ x.sum \in Int /\ x.cnt \in Nat /\ x.deque \in Seq(Nat)
  BY DEF AccFor, SlideAcc
<1>6. CASE Aggs[a].func = "CountStar"
  <2>1. y = x
    BY <1>6 DEF Enter
  <2>. QED BY <1>5, <1>6, <2>1 DEF AccFor
<1>7. CASE Aggs[a].func # "CountStar"
  <2>1. x.cnt = Cardinality(F)
    BY <1>7 DEF AccFor
  <2>2. IsFiniteSet(F)
    BY <1>1, FrameFacts
  <2>3. Cardinality(G) = IF v = NULL THEN x.cnt ELSE x.cnt + 1
    <3>1. CASE v = NULL
      BY <1>2, <2>1, <3>1
    <3>2. CASE v # NULL
      <4> HIDE DEF F, G, v
      <4>. QED BY <1>2, <2>1, <2>2, <3>2, FS_AddElement
    <3>. QED BY <3>1, <3>2
  <2>4. ~in.isFloat => /\ v \in Int \union {NULL}
                       /\ x.sum = FrameSum(a, from, i - 1)
                       /\ FrameSum(a, from, i) = FrameSum(a, from, i - 1) + Amount(v)
    <3>1. SUFFICES ASSUME ~in.isFloat
                   PROVE  /\ v \in Int \union {NULL} /\ x.sum = FrameSum(a, from, i - 1)
                          /\ FrameSum(a, from, i) = FrameSum(a, from, i - 1) + Amount(v)
      OBVIOUS
    <3> DEFINE p == ValuesOf(a, from, i - 1)
               w == ValuesOf(a, from, i)
    <3>2. /\ p \in Seq(Int \union {NULL}) /\ w \in Seq(Int \union {NULL})
          /\ Len(p) = (i - 1) - from + 1 /\ Len(w) = i - from + 1
          /\ \A k \in 1 .. (i - 1) - from + 1 : p[k] = Value(a, store[from + k - 1])
          /\ \A k \in 1 .. i - from + 1 : w[k] = Value(a, store[from + k - 1])
          /\ FrameSum(a, from, i) = AddUp(w) /\ FrameSum(a, from, i - 1) = AddUp(p)
      BY <1>1, <3>1, ValuesType
    <3> HIDE DEF p, w
    <3>3. Len(w) = Len(p) + 1
      BY <1>1, <3>2
    <3>4. \A k \in 1 .. Len(p) : w[k] = p[k]
      <4>1. TAKE k \in 1 .. Len(p)
      <4>2. k \in 1 .. (i - 1) - from + 1 /\ k \in 1 .. i - from + 1
        BY <1>1, <3>2
      <4>. QED BY <3>2, <4>2
    <3>5. w[Len(w)] = v
      <4>1. Len(w) \in 1 .. i - from + 1 /\ from + Len(w) - 1 = i
        BY <1>1, <3>2
      <4>. QED BY <3>2, <4>1
    <3>6. AddUp(w) = AddUp(p) + Amount(v)
      BY <3>2, <3>3, <3>4, <3>5, AddUpLast
    <3>7. v \in Int \union {NULL}
      BY <1>1, <3>1, StoreValue
    <3>. QED BY <1>7, <3>1, <3>2, <3>6, <3>7 DEF AccFor
  <2>5. CASE v = NULL
    <3>1. y = x
      BY <2>5 DEF Enter
    <3>2. y.cnt = Cardinality(G)
      BY <2>3, <2>5, <3>1
    <3>3. ~in.isFloat => y.sum = FrameSum(a, from, i)
      BY <1>5, <2>4, <2>5, <3>1 DEF Amount
    <3>4. Aggs[a].func \in {"Min", "Max"} => ToSet(y.deque) = E /\ Increasing(y.deque)
      <4>1. Aggs[a].func \in {"Min", "Max"} => ToSet(x.deque) = C /\ Increasing(x.deque)
        BY <1>7, Zenon DEF AccFor
      <4>. QED BY <1>4, <2>5, <3>1, <4>1
    <3> HIDE DEF y
    <3>. QED BY <1>5, <1>7, <3>1, <3>2, <3>3, <3>4, Zenon DEF AccFor, y
  <2>6. CASE v # NULL
    <3>1. /\ y.cnt = x.cnt + 1
          /\ y.sum = x.sum + Unit(v)
          /\ y.deque = IF Aggs[a].func \in {"Min", "Max"} THEN PushBack(a, x.deque, i) ELSE x.deque
          /\ y = [sum |-> y.sum, cnt |-> y.cnt, deque |-> y.deque]
      BY <1>7, <2>6 DEF Enter
    <3> HIDE DEF y, v
    <3>2. y.cnt = Cardinality(G) /\ y.cnt \in Nat
      BY <1>5, <2>3, <2>6, <3>1
    <3>3. y.sum \in Int /\ (~in.isFloat => y.sum = FrameSum(a, from, i))
      <4>1. CASE in.isFloat
        BY <1>5, <3>1, <4>1 DEF Unit
      <4>2. CASE ~in.isFloat
        BY <1>5, <2>4, <2>6, <3>1, <4>2 DEF Unit, Amount
      <4>. QED BY <4>1, <4>2
    <3>4. ASSUME Aggs[a].func \in {"Min", "Max"}
          PROVE  ToSet(y.deque) = E /\ Increasing(y.deque) /\ y.deque \in Seq(Nat)
      <4>1. ToSet(x.deque) = C /\ Increasing(x.deque)
        BY <1>7, <3>4 DEF AccFor
      <4>2. \A r \in C : r \in F
        BY DEF Candidates
      <4>3. \A r, s \in C : r < s => Stays(a, r, s)
        <5>1. \A r, s \in C : s > r => Stays(a, r, s)
          BY <4>2 DEF Candidates
        <5>2. \A r, s \in C : r < s => s > r
          BY <1>3, <4>2
        <5>. QED BY <5>1, <5>2
      <4>4. ASSUME NEW r \in C, NEW s \in C, r < s, Stays(a, s, i) PROVE Stays(a, r, i)
        <5>1. Stays(a, r, s)
          BY <4>3, <4>4
        <5>2. /\ r \in 1 .. Len(store) /\ s \in 1 .. Len(store)
              /\ Value(a, store[r]) # NULL /\ Value(a, store[s]) # NULL /\ Value(a, store[i]) # NULL
          BY <1>3, <2>6, <4>2 DEF v
        <5>. QED BY <1>1, <4>4, <5>1, <5>2, StaysOrder
      <4>5. \A r \in C : r < i
        BY <1>3, <4>2
      <4> HIDE DEF C, E, F, G
      <4>6. /\ PushBack(a, x.deque, i) \in Seq(Nat) /\ Increasing(PushBack(a, x.deque, i))
            /\ ToSet(PushBack(a, x.deque, i)) = {r \in ToSet(x.deque) : Stays(a, r, i)} \union {i}
        <5>1. \A r, s \in ToSet(x.deque) : r < s /\ Stays(a, s, i) => Stays(a, r, i)
          BY <4>1, <4>4
        <5>2. \A r \in ToSet(x.deque) : r < i
          BY <4>1, <4>5
        <5> DEFINE d == x.deque
        <5>3. d \in Seq(Nat) /\ Increasing(d) /\ i \in Nat
          BY <1>1, <1>5, <4>1
        <5> HIDE DEF d
        <5>4. \A r, s \in ToSet(d) : r < s /\ Stays(a, s, i) => Stays(a, r, i)
          BY <5>1 DEF d
        <5>5. \A r \in ToSet(d) : r < i
          BY <5>2 DEF d
        <5>6. /\ PushBack(a, d, i) \in Seq(Nat) /\ Increasing(PushBack(a, d, i))
              /\ ToSet(PushBack(a, d, i)) = {r \in ToSet(d) : Stays(a, r, i)} \union {i}
          BY <5>3, <5>4, <5>5, DequePush
        <5>. QED BY <5>6 DEF d
      <4>7. ToSet(PushBack(a, x.deque, i)) = E
        BY <1>4, <2>6, <4>1, <4>6
      <4>. QED BY <3>1, <3>4, <4>6, <4>7
    <3>5. y.deque \in Seq(Nat)
      BY <1>5, <3>1, <3>4
    <3>6. y \in SlideAcc
      <4>1. [sum |-> y.sum, cnt |-> y.cnt, deque |-> y.deque] \in SlideAcc
        BY <3>2, <3>3, <3>5 DEF SlideAcc
      <4>. QED BY <3>1, <4>1
    <3>. QED BY <1>7, <3>2, <3>3, <3>4, <3>6, Zenon DEF AccFor, y
  <2>. QED BY <2>5, <2>6
<1>. QED BY <1>6, <1>7

\* No row, or one row, leaves.
LEMMA LeaveFold ==
    ASSUME NEW a, NEW x, NEW gone, NEW n \in 0 .. 1, DOMAIN gone = 1 .. n
    PROVE  LeaveAll(a, x, gone) = IF n = 0 THEN x ELSE Leave(a, x, gone[1])
<1> DEFINE D == DOMAIN gone
           body(f) == [s \in SUBSET D |->
                         IF s = {} THEN x ELSE Leave(a, f[s \ {Max(s)}], gone[Max(s)])]
           it == CHOOSE f : f = body(f)
           g == [s \in SUBSET D |-> IF s = {} THEN x ELSE Leave(a, x, gone[1])]
<1>1. D = 1 .. n
  OBVIOUS
<1>2. LeaveAll(a, x, gone) = it[D]
  BY Zenon DEF LeaveAll, FoldLeft, MapThenFoldSet
<1> HIDE DEF D
<1>4. CASE n = 0
  <2>1. SUBSET D = {{}}
    BY <1>1, <1>4
  <2>2. g = body(g)
    BY <2>1
  <2>3. it = body(it)
    <3> HIDE DEF g, body
    <3>. QED BY <2>2
  <2> HIDE DEF it
  <2>4. it[{}] = x
    BY <2>1, <2>3
  <2>5. D = {}
    BY <1>1, <1>4
  <2>. QED BY <1>2, <1>4, <2>4, <2>5
<1>5. CASE n = 1
  <2>1. D = {1} /\ Max({1}) = 1 /\ {1} \ {1} = {}
    <3>1. 1 .. 1 = {1}
      OBVIOUS
    <3>2. Max(1 .. 1) = 1
      <4>1. 1 \in Nat /\ 1 \in 1 .. 1
        OBVIOUS
      <4>. QED BY <4>1, Initial
    <3>. QED BY <1>1, <1>5, <3>1, <3>2
  <2>2. \A s \in SUBSET D : s = {} \/ s = {1}
    BY <2>1
  <2>3. g = body(g)
    <3>1. \A s \in SUBSET D : s # {} => s = {1} /\ Max(s) = 1 /\ s \ {Max(s)} = {} /\ {} \in SUBSET D
      BY <2>1, <2>2
    <3>2. g[{}] = x
      OBVIOUS
    <3> HIDE DEF D
    <3>. QED BY <3>1, <3>2
  <2>4. it = body(it)
    <3> HIDE DEF g, body
    <3>. QED BY <2>3
  <2> HIDE DEF it
  <2>5. it[{}] = x
    BY <2>4
  <2>6. it[{1}] = Leave(a, it[{}], gone[1])
    <3>1. {1} \in SUBSET D /\ {1} # {}
      BY <2>1
    <3>2. it[{1}] = Leave(a, it[{1} \ {Max({1})}], gone[Max({1})])
      BY <2>4, <3>1
    <3>. QED BY <2>1, <3>2
  <2>. QED BY <1>2, <1>5, <2>1, <2>5, <2>6
<1>. QED BY <1>4, <1>5

-----------------------------------------------------------------------------
(***************************************************************************)
(* Cells.                                                                  *)
(***************************************************************************)
CellSet == [cnt : Nat, val : Number]
CellRow == [DOMAIN Aggs -> CellSet]
TupleSet == (Int \union {NULL, NaN}) \X (Int \union {NULL})

\* A fresh cell is a cell.
LEMMA InitCellType ==
    ASSUME NEW func, NEW isFloat
    PROVE  InitCell(func, isFloat) \in CellSet
<1>1. 0 \in Number /\ NaN \in Number /\ MinInt \in Number /\ MaxInt \in Number
  BY WindowAssumption DEF Number
<1>. QED BY <1>1 DEF InitCell, CellSet

\* A row folded into a cell gives a cell.
LEMMA FoldCellType ==
    ASSUME NEW func \in AggFuncs, NEW cell \in CellSet, NEW v \in Number \union {NULL}
    PROVE  FoldCell(cell, func, v) \in CellSet
<1>1. cell.cnt \in Nat /\ cell.val \in Number /\ cell.cnt + 1 \in Nat
  BY DEF CellSet
<1>2. \A x, y \in Number : Plus(x, y) \in Number /\ MinTotal(x, y) \in Number /\ MaxTotal(x, y) \in Number
  BY WindowAssumption DEF Plus, MinTotal, MaxTotal, Number
<1>3. v # NULL => v \in Number
  OBVIOUS
<1> HIDE DEF Number
<1>4. CASE func \in {"CountStar", "Count"}
  BY <1>1, <1>4 DEF FoldCell, CellSet
<1>5. CASE func \in {"Sum", "Avg"}
  BY <1>1, <1>2, <1>3, <1>5 DEF FoldCell, CellSet
<1>6. CASE func = "Min"
  BY <1>1, <1>2, <1>3, <1>6 DEF FoldCell, CellSet
<1>7. CASE func = "Max"
  BY <1>1, <1>2, <1>3, <1>7 DEF FoldCell, CellSet
<1>. QED BY <1>4, <1>5, <1>6, <1>7 DEF AggFuncs

\* When a frame has a value its deque has a front, and that is one of them.
LEMMA FrontThere ==
    ASSUME StoreOK, NEW a \in DOMAIN Aggs, NEW from, NEW to, Frame(from, to),
           NEW x, AccFor(x, a, from, to), Aggs[a].func \in {"Min", "Max"}, x.cnt > 0
    PROVE  /\ x.deque # <<>>
           /\ Head(x.deque) \in FrameValues(a, from, to)
<1> DEFINE F == FrameValues(a, from, to)
           E == Candidates(a, from, to)
           d == x.deque
<1>1. x.cnt = Cardinality(F) /\ ToSet(d) = E /\ d \in Seq(Nat)
  BY DEF AccFor, SlideAcc
<1>2. F \in SUBSET (1 .. Len(store)) /\ Len(store) \in Nat
  BY FrameFacts DEF StoreOK
<1>3. F # {}
  <2> HIDE DEF F
  <2>1. F = {} => x.cnt = 0
    BY <1>1, FS_EmptySet
  <2>. QED BY <2>1
<1>4. Max(F) \in F /\ \A s \in F : s <= Max(F)
  <2> HIDE DEF F
  <2>. QED BY <1>2, <1>3, MaxOf
<1>5. \A s \in F : ~(s > Max(F))
  BY <1>2, <1>4
<1>6. Max(F) \in E /\ \A r \in E : r \in F
  BY <1>4, <1>5 DEF Candidates
<1> HIDE DEF E, F, d
<1>7. PICK k \in DOMAIN d : d[k] = Max(F)
  BY <1>1, <1>6 DEF ToSet
<1>8. d # <<>> /\ 1 \in DOMAIN d /\ Head(d) = d[1]
  BY <1>1, <1>7
<1>9. Head(d) \in ToSet(d)
  BY <1>8 DEF ToSet
<1>. QED BY <1>1, <1>6, <1>8, <1>9 DEF d, F

\* The finalized cell of a row is a cell.
LEMMA FinalizeType ==
    ASSUME StoreOK, NEW a \in DOMAIN Aggs, NEW from, NEW i, Frame(from, i), from <= i,
           NEW x, AccFor(x, a, from, i)
    PROVE  Finalize(a, x, from, i) \in CellSet
<1> DEFINE func == Aggs[a].func
           cell == InitCell(func, in.isFloat)
<1>1. cell \in CellSet /\ cell.val \in Number /\ i - from + 1 \in Nat
  BY InitCellType DEF CellSet, Frame
<1>2. x.cnt \in Nat /\ x.sum \in Number
  BY DEF AccFor, SlideAcc, Number
<1>3. SumOf(a, x, from, i) \in Number
  BY <1>2, ValuesType DEF SumOf
<1>4. func \in {"Min", "Max"} /\ x.cnt > 0 => Value(a, store[Head(x.deque)]) \in Number
  <2>1. SUFFICES ASSUME func \in {"Min", "Max"}, x.cnt > 0
                 PROVE Value(a, store[Head(x.deque)]) \in Number
    OBVIOUS
  <2>2. Head(x.deque) \in FrameValues(a, from, i)
    BY <2>1, FrontThere
  <2>3. Head(x.deque) \in 1 .. Len(store) /\ Value(a, store[Head(x.deque)]) # NULL
    BY <2>2, FrameFacts DEF FrameValues
  <2>. QED BY <2>3, StoreValue
<1>5. CASE func = "CountStar"
  BY <1>1, <1>5 DEF Finalize, CellSet
<1>6. CASE func # "CountStar"
  <2> DEFINE val == CASE func \in {"Sum", "Avg"} -> SumOf(a, x, from, i)
                      [] func \in {"Min", "Max"} /\ x.cnt > 0 -> Value(a, store[Head(x.deque)])
                      [] OTHER -> cell.val
  <2>1. Finalize(a, x, from, i) = [cnt |-> x.cnt, val |-> val]
    BY <1>6, Zenon DEF Finalize
  <2>2. val \in Number
    <3> HIDE DEF cell, func
    <3>1. CASE func \in {"Sum", "Avg"}
      <4>1. ~(func \in {"Min", "Max"})
        BY <3>1
      <4>. QED BY <1>3, <3>1, <4>1
    <3>2. CASE func \in {"Min", "Max"} /\ x.cnt > 0
      <4>1. ~(func \in {"Sum", "Avg"})
        BY <3>2
      <4>. QED BY <1>4, <3>2, <4>1
    <3>3. CASE ~(func \in {"Sum", "Avg"}) /\ ~(func \in {"Min", "Max"} /\ x.cnt > 0)
      BY <1>1, <3>3
    <3>. QED BY <3>1, <3>2, <3>3
  <2> HIDE DEF val
  <2>. QED BY <1>2, <2>1, <2>2 DEF CellSet
<1>. QED BY <1>5, <1>6

\* As many tuples as rows of cells.
Groups == {b \in [tuples : Seq(TupleSet), cells : Seq(CellRow)] : Len(b.tuples) = Len(b.cells)}

\* One row grouped.
LEMMA GroupRowType ==
    ASSUME in \in Inputs, in.mode = "Tumbling", NEW b \in Groups, NEW row \in RowSet(in)
    PROVE  GroupRow(b, row) \in Groups
<1> DEFINE tuple == <<row[1], Bucket(Time(row))>>
           known == tuple \in ToSet(b.tuples)
           ts    == IF known THEN b.tuples ELSE Append(b.tuples, tuple)
           start == [i \in DOMAIN Aggs |-> InitCell(Aggs[i].func, in.isFloat)]
           old   == IF known THEN b.cells ELSE Append(b.cells, start)
           g     == CHOOSE i \in DOMAIN ts : ts[i] = tuple
           new   == [i \in DOMAIN Aggs |-> FoldCell(old[g][i], Aggs[i].func, Value(i, row))]
           cs    == [old EXCEPT ![g] = new]
<1>1. GroupRow(b, row) = [tuples |-> ts, cells |-> cs]
  BY DEF GroupRow
<1>2. /\ b.tuples \in Seq(TupleSet) /\ b.cells \in Seq(CellRow)
      /\ Len(b.tuples) = Len(b.cells)
  BY DEF Groups
<1>3. /\ row[1] \in Int \union {NULL, NaN} /\ row[2] \in Int \union {NULL}
      /\ row[3] \in Number \union {NULL}
  BY DEF RowSet, Number
<1>4. \A i \in DOMAIN Aggs : Value(i, row) \in Number \union {NULL} /\ Aggs[i].func \in AggFuncs
  BY <1>3, Arguments DEF Value
<1>5. tuple \in TupleSet
  <2>1. in.param \in Nat /\ in.param > 0
    BY Arguments
  <2>2. \A t \in Int : TruncDiv(t, in.param) \in Int
    BY <2>1 DEF TruncDiv
  <2>3. \A t \in Int : TruncDiv(t, in.param) * in.param \in Int
    BY <2>1, <2>2
  <2>4. Bucket(row[2]) \in Int \union {NULL}
    BY <1>3, <2>3 DEF Bucket
  <2>. QED BY <1>3, <2>4 DEF TupleSet, Time
<1> HIDE DEF tuple
<1>6. start \in CellRow
  BY InitCellType DEF CellRow
<1> HIDE DEF start
<1>7. ts \in Seq(TupleSet) /\ old \in Seq(CellRow) /\ Len(ts) = Len(old)
  <2> HIDE DEF known
  <2>1. CASE known
    BY <1>2, <2>1
  <2>2. CASE ~known
    BY <1>2, <1>5, <1>6, <2>2
  <2>. QED BY <2>1, <2>2
<1> HIDE DEF ts, old, g
<1>8. cs \in Seq(CellRow) /\ Len(cs) = Len(old)
  <2>1. CASE g \in DOMAIN old
    <3>1. old[g] \in CellRow
      BY <1>7, <2>1
    <3>2. \A i \in DOMAIN Aggs : old[g][i] \in CellSet
      BY <3>1 DEF CellRow
    <3>3. new \in CellRow
      BY <1>4, <3>2, FoldCellType DEF CellRow
    <3> HIDE DEF new
    <3>4. g \in 1 .. Len(old)
      BY <1>7, <2>1
    <3>. QED BY <1>7, <3>3, <3>4, ExceptSeq
  <2>2. CASE g \notin DOMAIN old
    <3> HIDE DEF new
    <3>1. cs = old
      BY <1>7, <2>2
    <3>. QED BY <1>7, <3>1
  <2>. QED BY <2>1, <2>2
<1> HIDE DEF cs
<1>. QED BY <1>1, <1>7, <1>8 DEF Groups

\* A batch is grouped row after row.
LEMMA GroupBatchChain ==
    ASSUME in \in Inputs, in.mode = "Tumbling", NEW b \in Groups, NEW rows \in Seq(RowSet(in))
    PROVE  \E h : /\ h \in [0 .. Len(rows) -> Groups] /\ h[0] = b
                  /\ \A k \in 1 .. Len(rows) : h[k] = GroupRow(h[k - 1], rows[k])
                  /\ GroupBatch(b, rows) = h[Len(rows)]
<1> DEFINE n == Len(rows)
           step == [k \in 1 .. n |-> [x \in Groups |-> GroupRow(x, rows[k])]]
           body(f) == [s \in SUBSET DOMAIN rows |->
                         IF s = {} THEN b ELSE GroupRow(f[s \ {Max(s)}], rows[Max(s)])]
           it == CHOOSE f : f = body(f)
<1>1. n \in Nat /\ DOMAIN rows = 1 .. n /\ \A k \in 1 .. n : rows[k] \in RowSet(in)
  OBVIOUS
<1>2. \A k \in 1 .. n, x \in Groups : /\ step[k][x] = GroupRow(x, rows[k])
                                      /\ GroupRow(x, rows[k]) \in Groups
  BY <1>1, GroupRowType
<1>3. Steps(step, n, Groups)
  BY <1>2 DEF Steps
<1> HIDE DEF step
<1>4. PICK g : SetTable(g, n, Groups, b, step)
  <2> HIDE DEF n
  <2>. QED BY <1>1, <1>3, SeqFoldExists
<1>5. GroupBatch(b, rows) = it[DOMAIN rows]
  BY Zenon DEF GroupBatch, FoldLeft, MapThenFoldSet
<1> HIDE DEF n
<1>6. g = body(g)
  <2>1. ASSUME NEW s \in SUBSET (1 .. n), s # {}
        PROVE g[s] = GroupRow(g[s \ {Max(s)}], rows[Max(s)])
    <3>1. g[s] = step[Max(s)][g[s \ {Max(s)}]] /\ g[s \ {Max(s)}] \in Groups
      BY <1>4, <2>1 DEF SetTable
    <3>2. Max(s) \in 1 .. n
      BY <1>1, <2>1, MaxOf
    <3>. QED BY <1>1, <1>2, <3>1, <3>2
  <2>. QED BY <1>1, <1>4, <2>1 DEF SetTable
<1>7. it = body(it)
  <2> HIDE DEF body
  <2>. QED BY <1>6
<1> DEFINE h == [k \in 0 .. n |-> it[1 .. k]]
<1> HIDE DEF it
<1>8. h[0] = b
  BY <1>1, <1>7
<1>9. ASSUME NEW k \in 1 .. n PROVE h[k] = GroupRow(h[k - 1], rows[k])
  <2>1. 1 .. k \in SUBSET (1 .. n) /\ 1 .. k # {} /\ Max(1 .. k) = k /\ (1 .. k) \ {k} = 1 .. k - 1
    BY <1>1, Initial
  <2>2. it[1 .. k] = GroupRow(it[1 .. k - 1], rows[k])
    <3>1. \A s \in SUBSET (1 .. n) : s # {} => it[s] = GroupRow(it[s \ {Max(s)}], rows[Max(s)])
      BY <1>1, <1>7
    <3>. QED BY <2>1, <3>1
  <2>3. k \in 0 .. n /\ k - 1 \in 0 .. n
    BY <1>1
  <2>. QED BY <2>2, <2>3
<1>10. h[n] = it[DOMAIN rows]
  BY <1>1
<1> DEFINE S == {k \in Nat : k <= n => h[k] \in Groups}
<1> HIDE DEF h
<1>11. 0 \in S
  BY <1>8
<1>12. ASSUME NEW k \in Nat, k \in S PROVE k + 1 \in S
  <2>1. SUFFICES ASSUME k + 1 <= n PROVE h[k + 1] \in Groups
    OBVIOUS
  <2>2. k + 1 \in 1 .. n /\ (k + 1) - 1 = k /\ k <= n
    BY <1>1, <2>1
  <2>3. h[k] \in Groups /\ h[k + 1] = GroupRow(h[k], rows[k + 1])
    BY <1>9, <1>12, <2>2
  <2>. QED BY <1>2, <2>2, <2>3
<1> HIDE DEF S
<1>13. \A k \in Nat : k \in S
  BY <1>11, <1>12, SetInduction
<1>14. h \in [0 .. n -> Groups]
  <2>1. \A k \in 0 .. n : h[k] \in Groups
    BY <1>1, <1>13 DEF S
  <2>. QED BY <2>1 DEF h
<1>. QED BY <1>5, <1>8, <1>9, <1>10, <1>14 DEF n

\* A batch of rows grouped gives groups.
LEMMA GroupBatchType ==
    ASSUME in \in Inputs, in.mode = "Tumbling", NEW b \in Groups, NEW rows \in Seq(RowSet(in))
    PROVE  GroupBatch(b, rows) \in Groups
<1>1. Len(rows) \in 0 .. Len(rows)
  BY LenProperties
<1>. QED BY <1>1, GroupBatchChain

-----------------------------------------------------------------------------
(***************************************************************************)
(* The inductive invariant.                                                *)
(***************************************************************************)
Control ==
    /\ phase \in {"closed", "building", "sweeping", "ready", "crashed"}
    /\ hasChild \/ in.mode = "Sliding"
    /\ phase = "building" => in.mode = "Tumbling"
    /\ phase = "sweeping" => in.mode = "Sliding"

\* Groups and cells grow together, and so do swept rows and cells; none is
\* handed out while groups are added.
Counts ==
    /\ pos \in Nat /\ cells \in Seq(CellRow) /\ emitted \in 0 .. Len(cells)
    /\ phase = "building" => emitted = 0
    /\ in.mode = "Tumbling" =>
         /\ store = <<>>
         /\ tuples \in Seq(TupleSet) /\ Len(cells) = Len(tuples)
    /\ phase \in {"sweeping", "ready"} /\ in.mode = "Sliding" => Len(cells) = pos

Carried ==
    /\ pstart \in Nat \ {0} /\ lo \in Nat /\ pstart <= lo
    /\ acc \in [DOMAIN Aggs -> SlideAcc]
    /\ \A a \in DOMAIN Aggs : acc[a].cnt <= Len(store)

\* Before the first row nothing has been carried.
BeforeFirst == phase = "sweeping" /\ pos = 0 => pstart = 1 /\ lo = 1 /\ acc = NoAcc

\* The frame of the last row swept.
FrameBounds ==
    /\ pos <= Len(store) /\ pstart <= pos
    /\ lo = FrameStart(pos, pstart)
    /\ \A r \in pstart .. pos : store[r][1] = store[pos][1]
    /\ pstart > 1 => store[pstart - 1][1] # store[pos][1]

AccsExact == \A a \in DOMAIN Aggs : AccFor(acc[a], a, lo, pos)

LastFrame == phase = "sweeping" /\ pos > 0 => FrameBounds /\ AccsExact

WindowInv == StoreOK /\ Control /\ Counts /\ Carried /\ BeforeFirst /\ LastFrame

\* The carried accumulators count at most the rows of the store.
LEMMA WindowInvTypeOK == WindowInv => TypeOK
<1> SUFFICES ASSUME WindowInv PROVE TypeOK
  OBVIOUS
<1>1. \A a \in DOMAIN Aggs : acc[a].cnt \in 0 .. Len(store)
  <2>1. Len(store) \in Nat
    BY DEF WindowInv, StoreOK
  <2>2. \A a \in DOMAIN Aggs : acc[a].cnt \in Nat /\ acc[a].cnt <= Len(store)
    BY DEF WindowInv, Carried, SlideAcc
  <2>. QED BY <2>1, <2>2
<1>2. DOMAIN acc = DOMAIN Aggs
  BY DEF WindowInv, Carried
<1>. QED BY <1>1, <1>2 DEF WindowInv, Control, Counts, Carried, TypeOK

\* FrameExact is what the invariant says of the last frame.
LEMMA WindowInvFrameExact == WindowInv => FrameExact
<1> SUFFICES ASSUME WindowInv, phase = "sweeping", pos > 0 PROVE FrameExact
  BY DEF FrameExact
<1>1. FrameBounds /\ AccsExact
  BY DEF WindowInv, LastFrame
<1>2. lo = pos - (IF in.param < pos - pstart THEN in.param ELSE pos - pstart)
  BY <1>1 DEF FrameBounds, FrameStart
<1>3. ASSUME NEW a \in DOMAIN Aggs, Aggs[a].func # "CountStar"
      PROVE  /\ acc[a].cnt = Cardinality(FrameValues(a, lo, pos))
             /\ ~in.isFloat => acc[a].sum = FrameSum(a, lo, pos)
             /\ Aggs[a].func \in {"Min", "Max"} =>
                  /\ ToSet(acc[a].deque) = Candidates(a, lo, pos)
                  /\ Increasing(acc[a].deque)
  BY <1>1, <1>3, Zenon DEF AccsExact, AccFor
<1>. QED BY <1>1, <1>2, <1>3, Zenon DEF FrameBounds, FrameExact

\* A reset accumulator counts nothing.
LEMMA NoAccType ==
    /\ NoAcc \in [DOMAIN Aggs -> SlideAcc]
    /\ \A a \in DOMAIN Aggs : NoAcc[a].cnt = 0
BY DEF NoAcc, SlideAcc

\* A new window has carried nothing.
LEMMA WindowInit == Init => WindowInv
<1> SUFFICES ASSUME Init PROVE WindowInv
  OBVIOUS
<1>1. StoreOK /\ Control /\ BeforeFirst /\ LastFrame
  BY DEF Init, StoreOK, Control, BeforeFirst, LastFrame
<1>2. Counts
  BY DEF Init, Counts
<1>3. Carried
  BY NoAccType DEF Init, Carried
<1>. QED BY <1>1, <1>2, <1>3 DEF WindowInv

-----------------------------------------------------------------------------
(***************************************************************************)
(* The steps.                                                              *)
(***************************************************************************)
\* The accumulator of a frame depends on the store alone.
LEMMA FramesStay ==
    ASSUME in' = in, store' = store
    PROVE  \A x, a, from, to : AccFor(x, a, from, to)' <=> AccFor(x, a, from, to)
<1>1. \A a, r : Value(a, store[r])' = Value(a, store[r])
  BY DEF Value, Col, Aggs
<1>2. \A a, from, to : FrameValues(a, from, to)' = FrameValues(a, from, to)
  BY <1>1 DEF FrameValues
<1>3. \A a, r, s : Stays(a, r, s)' <=> Stays(a, r, s)
  BY <1>1 DEF Stays, Aggs
<1>4. \A a, from, to : Candidates(a, from, to)' = Candidates(a, from, to)
  BY <1>2, <1>3 DEF Candidates
<1>5. \A a, from, to : FrameSum(a, from, to)' = FrameSum(a, from, to)
  BY <1>1 DEF FrameSum
<1>. QED BY <1>2, <1>4, <1>5 DEF AccFor, Aggs

\* What a step keeps that leaves the sweep's state alone.
LEMMA QuietSweep ==
    ASSUME WindowInv, UNCHANGED <<in, store, pos, pstart, lo, acc>>,
           phase' = phase \/ phase' # "sweeping"
    PROVE  StoreOK' /\ Carried' /\ BeforeFirst' /\ LastFrame'
<1>1. StoreOK'
  BY DEF WindowInv, StoreOK, RowSet
<1>2. Aggs' = Aggs
  BY DEF Aggs
<1>3. Carried'
  BY <1>2 DEF WindowInv, Carried
<1>4. NoAcc' = NoAcc
  BY <1>2 DEF NoAcc
<1>5. BeforeFirst'
  BY <1>4 DEF WindowInv, BeforeFirst
<1>6. FrameBounds => FrameBounds'
  BY DEF FrameBounds, FrameStart
<1>7. \A x, a, from, to : AccFor(x, a, from, to)' <=> AccFor(x, a, from, to)
  BY FramesStay
<1>8. AccsExact => AccsExact'
  BY <1>2, <1>7 DEF AccsExact
<1>9. LastFrame'
  BY <1>6, <1>8 DEF WindowInv, LastFrame
<1>. QED BY <1>1, <1>3, <1>5, <1>9

\* One turn of the sweep.
LEMMA SweepStep == WindowInv /\ Sweep => WindowInv'
<1> SUFFICES ASSUME WindowInv, Sweep PROVE WindowInv'
  OBVIOUS
<1> DEFINE i     == pos + 1
           fresh == i > 1 /\ store[i][1] # store[i - 1][1]
           start == IF fresh THEN i ELSE pstart
           from  == IF fresh THEN i ELSE lo
           to    == FrameStart(i, start)
           gone  == [k \in 1 .. to - from |-> from + k - 1]
           Old(a) == IF fresh THEN NoAcc[a] ELSE acc[a]
           Moved(a) == Enter(a, LeaveAll(a, Old(a), gone), i)
           last  == Len(store)
<1>1. /\ phase = "sweeping" /\ pos < last
      /\ pos' = i /\ pstart' = start /\ lo' = IF to > from THEN to ELSE from
      /\ acc' = [a \in DOMAIN Aggs |-> Moved(a)]
      /\ cells' = Append(cells, [a \in DOMAIN Aggs |-> Finalize(a, Moved(a), to, i)])
      /\ UNCHANGED <<in, hasChild, phase, tuples, store, emitted, done, out, opens>>
  BY Zenon DEF Sweep
<1>2. /\ last \in Nat /\ pos \in Nat /\ i \in 1 .. last /\ i - 1 = pos
      /\ in.param \in Nat /\ in.mode = "Sliding"
      /\ pstart \in Nat \ {0} /\ lo \in Nat /\ pstart <= lo
      /\ StoreOK
  BY <1>1, Arguments DEF WindowInv, StoreOK, Counts, Control, Carried
<1>3. pos > 0 => FrameBounds /\ AccsExact
  BY <1>1 DEF WindowInv, LastFrame
<1>4. pos = 0 => pstart = 1 /\ lo = 1 /\ acc = NoAcc /\ ~fresh
  BY <1>1 DEF WindowInv, BeforeFirst
<1>5. /\ start \in Nat \ {0} /\ start <= i /\ from \in Nat \ {0} /\ from <= i
      /\ to \in Nat /\ to <= i /\ start <= to
      /\ to - from \in 0 .. 1
  <2>1. CASE fresh
    BY <1>2, <2>1 DEF FrameStart
  <2>2. CASE ~fresh /\ pos = 0
    BY <1>2, <1>4, <2>2 DEF FrameStart
  <2>3. CASE ~fresh /\ pos > 0
    <3>1. start = pstart /\ from = lo /\ pstart <= pos /\ lo = FrameStart(pos, pstart)
      BY <1>3, <2>3 DEF FrameBounds
    <3> HIDE DEF start, from, fresh
    <3>. QED BY <1>2, <2>3, <3>1 DEF FrameStart
  <2>. QED BY <1>2, <2>1, <2>2, <2>3
<1>6. ASSUME NEW a \in DOMAIN Aggs PROVE AccFor(Old(a), a, from, pos)
  <2>1. CASE fresh
    <3>1. AccFor(NoAcc[a], a, i, i - 1)
      BY <1>2, ResetExact
    <3>. QED BY <1>2, <2>1, <3>1
  <2>2. CASE ~fresh /\ pos = 0
    <3>1. AccFor(NoAcc[a], a, 1, 1 - 1)
      BY <1>2, <2>2, ResetExact
    <3>. QED BY <1>2, <1>4, <2>2, <3>1
  <2>3. CASE ~fresh /\ pos > 0
    BY <1>3, <2>3 DEF AccsExact
  <2>. QED BY <1>2, <2>1, <2>2, <2>3
<1>7. start > 1 => store[start - 1][1] # store[i][1]
  <2>1. CASE fresh
    BY <2>1
  <2>2. CASE ~fresh /\ pos = 0
    BY <1>4, <2>2
  <2>3. CASE ~fresh /\ pos > 0
    BY <1>2, <1>3, <2>3 DEF FrameBounds
  <2>. QED BY <1>2, <2>1, <2>2, <2>3
<1>8. \A r \in start .. i : store[r][1] = store[i][1]
  <2>1. CASE fresh
    BY <1>2, <2>1
  <2>2. CASE ~fresh /\ pos = 0
    BY <1>2, <1>4, <2>2
  <2>3. CASE ~fresh /\ pos > 0
    <3>1. store[i][1] = store[pos][1] /\ start = pstart
      BY <1>2, <2>3
    <3>2. \A r \in pstart .. pos : store[r][1] = store[pos][1]
      BY <1>3, <2>3 DEF FrameBounds
    <3>. QED BY <1>2, <3>1, <3>2
  <2>. QED BY <1>2, <2>1, <2>2, <2>3
<1>9. /\ pos \in Nat /\ i = pos + 1 /\ lo' = to
      /\ Frame(from, pos) /\ Frame(to, i) /\ Frame(to, pos)
      /\ from + 1 = to => from <= pos
  <2> HIDE DEF start, from, to
  <2>. QED BY <1>1, <1>2, <1>5 DEF Frame
<1> HIDE DEF start, from, to, fresh
<1>10. ASSUME NEW a \in DOMAIN Aggs PROVE AccFor(Moved(a), a, to, i)
  <2> DEFINE x == Old(a)
             y == LeaveAll(a, x, gone)
  <2>1. AccFor(x, a, from, pos)
    BY <1>6
  <2>2. y = IF to - from = 0 THEN x ELSE Leave(a, x, from)
    <3> DEFINE n == to - from
    <3>1. DOMAIN gone = 1 .. n /\ n \in 0 .. 1 /\ (n = 1 => gone[1] = from)
      BY <1>5
    <3> HIDE DEF x, gone, n
    <3>2. LeaveAll(a, x, gone) = IF n = 0 THEN x ELSE Leave(a, x, gone[1])
      BY <3>1, LeaveFold
    <3>. QED BY <3>1, <3>2 DEF n
  <2> HIDE DEF x, i, y
  <2>3. AccFor(y, a, to, pos)
    <3>1. CASE to = from
      <4>1. y = x
        BY <1>5, <2>2, <3>1
      <4>. QED BY <2>1, <3>1, <4>1
    <3>2. CASE to = from + 1
      <4>1. y = Leave(a, x, from)
        BY <1>5, <2>2, <3>2
      <4>2. from <= pos
        BY <1>9, <3>2
      <4>3. AccFor(Leave(a, x, from), a, from + 1, pos)
        BY <1>2, <1>9, <2>1, <4>2, LeaveExact
      <4>. QED BY <3>2, <4>1, <4>3
    <3>3. to = from \/ to = from + 1
      BY <1>5
    <3>. QED BY <3>1, <3>2, <3>3
  <2>4. AccFor(y, a, to, i - 1)
    BY <1>2, <2>3
  <2>5. AccFor(Enter(a, y, i), a, to, i)
    BY <1>2, <1>5, <1>9, <2>4, EnterExact
  <2>. QED BY <2>5 DEF y, x, i
<1> HIDE DEF Moved
<1>11. Aggs' = Aggs
  BY <1>1 DEF Aggs
<1>12. AccsExact'
  <2>1. \A a \in DOMAIN Aggs : AccFor(acc'[a], a, lo', pos')
    BY <1>1, <1>9, <1>10
  <2>2. \A x, a, f, t : AccFor(x, a, f, t)' <=> AccFor(x, a, f, t)
    BY <1>1, FramesStay
  <2>. QED BY <1>11, <2>1, <2>2 DEF AccsExact
<1>13. FrameBounds'
  BY <1>1, <1>2, <1>5, <1>7, <1>8, <1>9 DEF FrameBounds, FrameStart, to
<1>14. ASSUME NEW a \in DOMAIN Aggs
       PROVE  Moved(a) \in SlideAcc /\ Moved(a).cnt <= last
  <2>1. AccFor(Moved(a), a, to, i)
    BY <1>10
  <2>2. Cardinality(FrameValues(a, to, i)) <= last
    BY <1>2, <1>9, FrameFacts
  <2>3. Moved(a).cnt = 0 \/ Moved(a).cnt = Cardinality(FrameValues(a, to, i))
    BY <2>1 DEF AccFor
  <2>. QED BY <1>2, <2>1, <2>2, <2>3 DEF AccFor
<1>15. Carried'
  <2>1. acc' \in [DOMAIN Aggs -> SlideAcc]
    BY <1>1, <1>14
  <2>2. \A a \in DOMAIN Aggs : acc'[a].cnt <= Len(store)
    BY <1>1, <1>14
  <2>. QED BY <1>1, <1>5, <1>9, <1>11, <2>1, <2>2 DEF Carried
<1>16. Counts'
  <2> DEFINE new == [a \in DOMAIN Aggs |-> Finalize(a, Moved(a), to, i)]
  <2>1. \A a \in DOMAIN Aggs : Finalize(a, Moved(a), to, i) \in CellSet
    BY <1>2, <1>5, <1>9, <1>10, FinalizeType
  <2>2. new \in CellRow
    BY <2>1 DEF CellRow
  <2> HIDE DEF new, i
  <2>3. cells' = Append(cells, new)
    BY <1>1 DEF new
  <2>4. cells \in Seq(CellRow) /\ Len(cells) = pos /\ emitted \in 0 .. Len(cells)
    BY <1>1, <1>2 DEF WindowInv, Counts
  <2>5. cells' \in Seq(CellRow) /\ Len(cells') = pos + 1
    BY <2>2, <2>3, <2>4
  <2>6. CellRow' = CellRow
    BY <1>11 DEF CellRow
  <2>. QED BY <1>1, <1>2, <2>4, <2>5, <2>6 DEF Counts, i
<1>17. StoreOK' /\ Control' /\ BeforeFirst' /\ LastFrame'
  <2>1. StoreOK'
    BY <1>1, <1>2 DEF StoreOK, RowSet
  <2>2. Control'
    BY <1>1 DEF WindowInv, Control
  <2>3. BeforeFirst'
    BY <1>1, <1>2 DEF BeforeFirst
  <2>. QED BY <1>12, <1>13, <2>1, <2>2, <2>3 DEF LastFrame
<1>. QED BY <1>15, <1>16, <1>17 DEF WindowInv

\* A batch of a tumbling window.
LEMMA TumbleStep == WindowInv /\ TumbleBatch => WindowInv'
<1> SUFFICES ASSUME WindowInv, TumbleBatch PROVE WindowInv'
  OBVIOUS
<1> DEFINE top  == IF pos + BatchRows < Len(in.rows) THEN pos + BatchRows ELSE Len(in.rows)
           rows == SubSeq(in.rows, pos + 1, top)
           b    == [tuples |-> tuples, cells |-> cells]
           c    == GroupBatch(b, rows)
<1>1. /\ phase = "building" /\ pos < Len(in.rows)
      /\ pos' = top /\ tuples' = c.tuples /\ cells' = c.cells
      /\ UNCHANGED <<in, hasChild, phase, store, pstart, lo, acc, emitted, done, out, opens>>
  BY Zenon DEF TumbleBatch
<1>2. /\ in \in Inputs /\ in.mode = "Tumbling" /\ in.rows \in Seq(RowSet(in)) /\ pos \in Nat
      /\ BatchRows \in Nat \ {0}
  BY <1>1, Arguments, WindowAssumption DEF WindowInv, StoreOK, Control, Counts
<1>3. /\ tuples \in Seq(TupleSet) /\ cells \in Seq(CellRow) /\ Len(cells) = Len(tuples)
      /\ emitted = 0 /\ store = <<>>
  BY <1>1, <1>2 DEF WindowInv, Counts
<1>4. b \in Groups
  BY <1>3 DEF Groups
<1>5. top \in Nat /\ pos + 1 \in 1 .. Len(in.rows) + 1 /\ top <= Len(in.rows)
  BY <1>1, <1>2
<1>6. rows \in Seq(RowSet(in))
  BY <1>2, <1>5
<1> HIDE DEF b, rows, top
<1>7. c \in Groups
  BY <1>2, <1>4, <1>6, GroupBatchType
<1>8. c.tuples \in Seq(TupleSet) /\ c.cells \in Seq(CellRow) /\ Len(c.tuples) = Len(c.cells)
  BY <1>7 DEF Groups
<1> HIDE DEF c
<1>9. Aggs' = Aggs /\ CellRow' = CellRow /\ NoAcc' = NoAcc
  BY <1>1 DEF Aggs, CellRow, NoAcc
<1>10. Counts'
  BY <1>1, <1>2, <1>3, <1>5, <1>8, <1>9 DEF Counts
<1>11. Carried'
  BY <1>1, <1>9 DEF WindowInv, Carried
<1>12. StoreOK' /\ Control' /\ BeforeFirst' /\ LastFrame'
  BY <1>1 DEF WindowInv, StoreOK, RowSet, Control, BeforeFirst, LastFrame
<1>. QED BY <1>10, <1>11, <1>12 DEF WindowInv

\* Opening and closing start from nothing.
LEMMA FreshCarried ==
    ASSUME in' = in, pstart' = 1, lo' = 1, acc' = NoAcc, store' \in Seq(RowSet(in))
    PROVE  Carried'
<1>1. Aggs' = Aggs
  BY DEF Aggs
<1>2. acc' \in [DOMAIN Aggs -> SlideAcc] /\ \A a \in DOMAIN Aggs : acc'[a].cnt = 0
  BY NoAccType
<1>3. Len(store') \in Nat
  BY LenProperties
<1>4. \A a \in DOMAIN Aggs : acc'[a].cnt <= Len(store')
  BY <1>2, <1>3
<1>. QED BY <1>1, <1>2, <1>4 DEF Carried

\* An open() or a close() keeps the invariant: nothing of the last run is left.
LEMMA OpenStep ==
    WindowInv /\ (OpenTumbling \/ OpenSliding \/ Close) => WindowInv'
<1> SUFFICES ASSUME WindowInv, OpenTumbling \/ OpenSliding \/ Close PROVE WindowInv'
  OBVIOUS
<1>1. /\ in' = in /\ pstart' = 1 /\ lo' = 1 /\ acc' = NoAcc
      /\ tuples' = <<>> /\ cells' = <<>> /\ emitted' = 0
  BY DEF OpenTumbling, OpenSliding, Close, Fresh
<1>2. in \in Inputs /\ pos \in Nat
  BY DEF WindowInv, StoreOK, Counts
<1>3. /\ Aggs' = Aggs /\ NoAcc' = NoAcc /\ CellRow' = CellRow
      /\ \A i : RowSet(i)' = RowSet(i)
  BY <1>1 DEF Aggs, NoAcc, CellRow, RowSet
<1>4. store' \in Seq(RowSet(in)) /\ (in.mode = "Tumbling" => store' = <<>>)
  <2>1. CASE OpenSliding
    BY <1>2, <2>1, StoreRows DEF OpenSliding
  <2>2. CASE OpenTumbling \/ Close
    <3>1. store' = <<>>
      BY <2>2 DEF OpenTumbling, Close, Fresh
    <3>. QED BY <3>1
  <2>. QED BY <2>1, <2>2
<1>5. StoreOK'
  BY <1>1, <1>2, <1>3, <1>4 DEF StoreOK
<1>6. Control'
  BY <1>1 DEF WindowInv, Control, OpenTumbling, OpenSliding, Close
<1>7. pos' \in Nat /\ (phase' = "sweeping" => pos' = 0) /\ phase' # "ready"
  BY <1>2 DEF OpenTumbling, OpenSliding, Close
<1>8. Counts'
  <2>1. cells' \in Seq(CellRow) /\ Len(cells') = 0 /\ tuples' \in Seq(TupleSet) /\ Len(tuples') = 0
    BY <1>1
  <2>. QED BY <1>1, <1>3, <1>4, <1>7, <2>1 DEF Counts
<1>9. Carried'
  BY <1>1, <1>4, FreshCarried
<1>10. BeforeFirst'
  BY <1>1, <1>3 DEF BeforeFirst
<1>11. LastFrame'
  BY <1>7 DEF LastFrame
<1>. QED BY <1>5, <1>6, <1>8, <1>9, <1>10, <1>11 DEF WindowInv

\* The ends of the two builds, the refused open and the calls of next() touch
\* neither the store nor what the sweep carries.
LEMMA QuietStep ==
    WindowInv /\ (TumbleDone \/ SweepDone \/ OpenWithoutChild \/ Emit \/ End \/ UNCHANGED vars)
    => WindowInv'
<1> SUFFICES ASSUME WindowInv, TumbleDone \/ SweepDone \/ OpenWithoutChild \/ Emit \/ End \/ UNCHANGED vars
             PROVE  WindowInv'
  OBVIOUS
<1>1. /\ UNCHANGED <<in, hasChild, store, pos, pstart, lo, acc, tuples, cells>>
      /\ phase' = phase \/ (phase' = "ready" /\ phase \in {"building", "sweeping"}) \/ phase' = "crashed"
  BY DEF TumbleDone, SweepDone, OpenWithoutChild, Emit, End, vars
<1>2. StoreOK' /\ Carried' /\ BeforeFirst' /\ LastFrame'
  BY <1>1, QuietSweep
<1>3. Control'
  BY <1>1 DEF WindowInv, Control
<1>4. CellRow' = CellRow
  BY <1>1 DEF CellRow, Aggs
<1>5. emitted' \in 0 .. Len(cells) /\ (phase' = "building" => emitted' = emitted /\ phase = "building")
  <2>1. Len(cells) \in Nat /\ emitted \in 0 .. Len(cells) /\ kOutBatch \in Nat
    BY WindowAssumption, LenProperties DEF WindowInv, Counts
  <2>2. CASE Emit
    <3>1. emitted' = emitted + (IF Len(cells) - emitted < kOutBatch THEN Len(cells) - emitted
                                ELSE kOutBatch) /\ phase' = "ready"
      BY <2>2 DEF Emit
    <3>. QED BY <2>1, <3>1
  <2>3. CASE TumbleDone \/ SweepDone \/ OpenWithoutChild \/ End \/ UNCHANGED vars
    BY <2>1, <2>3 DEF TumbleDone, SweepDone, OpenWithoutChild, End, vars
  <2>. QED BY <2>2, <2>3
<1>6. Counts'
  <2>1. phase' = "ready" /\ in.mode = "Sliding" => phase \in {"sweeping", "ready"}
    BY <1>1 DEF WindowInv, Control
  <2>. QED BY <1>1, <1>4, <1>5, <2>1 DEF WindowInv, Counts
<1>. QED BY <1>2, <1>3, <1>6 DEF WindowInv

\* The invariant is inductive.
LEMMA WindowStep == WindowInv /\ [Next]_vars => WindowInv'
<1> SUFFICES ASSUME WindowInv, [Next]_vars PROVE WindowInv'
  OBVIOUS
<1>1. CASE OpenTumbling \/ OpenSliding \/ Close
  BY <1>1, OpenStep
<1>2. CASE TumbleBatch
  BY <1>2, TumbleStep
<1>3. CASE Sweep
  BY <1>3, SweepStep
<1>4. CASE TumbleDone \/ SweepDone \/ OpenWithoutChild \/ Emit \/ End \/ UNCHANGED vars
  BY <1>4, QuietStep
<1>. QED BY <1>1, <1>2, <1>3, <1>4 DEF Next

-----------------------------------------------------------------------------
\* In every state the counters and the table fit the phase, and what the sweep
\* of build_sliding carries from row to row is that of the current frame: for
\* rows, keys and values of any kind and number, any P, and any number of
\* openings.
THEOREM WindowFrames == Spec => [](TypeOK /\ FrameExact)
<1>1. WindowInv => TypeOK /\ FrameExact
  BY WindowInvTypeOK, WindowInvFrameExact
<1>. QED BY <1>1, WindowInit, WindowStep, PTL DEF Spec
-----------------------------------------------------------------------------
(****************************************************************************)
(* Folds and cells.                                                        *)
(****************************************************************************)
\* h[k] is base and the first k values, accumulated.
StepTable(h, func, base, values) ==
    /\ h \in [0 .. Len(values) -> Number]
    /\ h[0] = base
    /\ \A k \in 1 .. Len(values) : h[k] = RefStep(func, h[k - 1], values[k])

StepFold(func, base, values) == FoldLeft(LAMBDA a, v : RefStep(func, a, v), base, values)

\* The fold of RefTotal goes through such a table.
LEMMA RefStepTable ==
    ASSUME NEW func, NEW base \in Number, NEW values \in Seq(Number)
    PROVE  \E h : StepTable(h, func, base, values) /\ StepFold(func, base, values) = h[Len(values)]
<1> DEFINE n == Len(values)
           Op(v, s) == RefStep(func, s, v)
           step == [k \in 1 .. n |-> [a \in Number |-> Op(values[k], a)]]
           body(f) == [s \in SUBSET DOMAIN values |->
                         IF s = {} THEN base ELSE Op(values[Max(s)], f[s \ {Max(s)}])]
           it == CHOOSE f : f = body(f)
<1>1. n \in Nat /\ DOMAIN values = 1 .. n /\ \A k \in 1 .. n : values[k] \in Number
  OBVIOUS
<1>2. \A k \in 1 .. n, a \in Number : step[k][a] = Op(values[k], a) /\ Op(values[k], a) \in Number
  <2>1. \A v \in Number, a \in Number : Op(v, a) \in Number
    BY WindowAssumption DEF Number, RefStep, RefMin, RefMax, RefAdd
  <2>. QED BY <1>1, <2>1
<1>3. Steps(step, n, Number) /\ base \in Number
  BY <1>2 DEF Steps, Number
<1> HIDE DEF step
<1>4. PICK g : SetTable(g, n, Number, base, step)
  <2> HIDE DEF n
  <2>. QED BY <1>1, <1>3, SeqFoldExists
<1>5. StepFold(func, base, values) = it[DOMAIN values]
  BY Zenon DEF StepFold, FoldLeft, MapThenFoldSet
<1> HIDE DEF n
<1>6. g = body(g)
  <2>1. ASSUME NEW s \in SUBSET (1 .. n), s # {} PROVE g[s] = Op(values[Max(s)], g[s \ {Max(s)}])
    <3>1. g[s] = step[Max(s)][g[s \ {Max(s)}]] /\ g[s \ {Max(s)}] \in Number
      BY <1>4, <2>1 DEF SetTable
    <3>2. Max(s) \in 1 .. n
      BY <1>1, <2>1, MaxOf
    <3>. QED BY <1>1, <1>2, <3>1, <3>2
  <2> HIDE DEF Op
  <2>. QED BY <1>1, <1>4, <2>1 DEF SetTable
<1>7. it = body(it)
  <2> HIDE DEF body
  <2>. QED BY <1>6
<1> DEFINE h == [k \in 0 .. n |-> it[1 .. k]]
<1> HIDE DEF it
<1>8. h[0] = base
  BY <1>1, <1>7
<1>9. ASSUME NEW k \in 1 .. n PROVE h[k] = Op(values[k], h[k - 1])
  <2>1. 1 .. k \in SUBSET (1 .. n) /\ 1 .. k # {} /\ Max(1 .. k) = k /\ (1 .. k) \ {k} = 1 .. k - 1
    BY <1>1, Initial
  <2>2. it[1 .. k] = Op(values[k], it[1 .. k - 1])
    <3>1. \A s \in SUBSET (1 .. n) : s # {} => it[s] = Op(values[Max(s)], it[s \ {Max(s)}])
      BY <1>1, <1>7
    <3> HIDE DEF Op, body
    <3>. QED BY <2>1, <3>1
  <2>3. k \in 0 .. n /\ k - 1 \in 0 .. n
    BY <1>1
  <2>. QED BY <2>2, <2>3
<1>10. h[n] = it[DOMAIN values]
  BY <1>1
<1> DEFINE S == {k \in Nat : k <= n => h[k] \in Number}
<1> HIDE DEF h
<1>11. 0 \in S
  BY <1>3, <1>8
<1>12. ASSUME NEW k \in Nat, k \in S PROVE k + 1 \in S
  <2>1. SUFFICES ASSUME k + 1 <= n PROVE h[k + 1] \in Number
    OBVIOUS
  <2>2. k + 1 \in 1 .. n /\ (k + 1) - 1 = k /\ k <= n
    BY <1>1, <2>1
  <2>3. h[k] \in Number /\ h[k + 1] = Op(values[k + 1], h[k])
    BY <1>9, <1>12, <2>2
  <2> HIDE DEF Op
  <2>. QED BY <1>2, <2>2, <2>3
<1> HIDE DEF S
<1>13. \A k \in Nat : k \in S
  BY <1>11, <1>12, SetInduction
<1>14. h \in [0 .. n -> Number]
  <2>1. \A k \in 0 .. n : h[k] \in Number
    BY <1>1, <1>13 DEF S
  <2>. QED BY <2>1 DEF h
<1>15. StepTable(h, func, base, values)
  BY <1>8, <1>9, <1>14 DEF StepTable, n
<1>. QED BY <1>5, <1>10, <1>15 DEF n

\* What a column of the given kind holds.
ValueSet(isFloat) == (MinInt .. MaxInt) \union (IF isFloat THEN {NULL, NaN} ELSE {NULL})

\* h[k] is the cell that has folded the first k values.
CellTable(h, func, isFloat, values) ==
    /\ h \in [0 .. Len(values) -> CellSet]
    /\ h[0] = InitCell(func, isFloat)
    /\ \A k \in 1 .. Len(values) : h[k] = FoldCell(h[k - 1], func, values[k])

Folded(c, func, isFloat, values) == \E h : CellTable(h, func, isFloat, values) /\ c = h[Len(values)]

\* Values are numbers or NULL.
LEMMA ValuesAre ==
    ASSUME NEW isFloat, NEW v \in ValueSet(isFloat)
    PROVE  /\ v \in Number \union {NULL}
           /\ v # NULL => v \in Number /\ (v = NaN => isFloat) /\ (v # NaN => v \in MinInt .. MaxInt)
BY WindowAssumption DEF ValueSet, Number

\* A cell that has folded nothing.
LEMMA FoldedNone ==
    ASSUME NEW func, NEW isFloat
    PROVE  Folded(InitCell(func, isFloat), func, isFloat, <<>>)
<1> DEFINE h == [k \in 0 .. 0 |-> InitCell(func, isFloat)]
<1>1. Len(<<>>) = 0
  OBVIOUS
<1>2. CellTable(h, func, isFloat, <<>>)
  BY <1>1, InitCellType DEF CellTable
<1>. QED BY <1>1, <1>2 DEF Folded

\* A cell folds one value more.
LEMMA FoldedAppend ==
    ASSUME NEW func \in AggFuncs, NEW isFloat, NEW values \in Seq(ValueSet(isFloat)),
           NEW v \in ValueSet(isFloat), NEW c, Folded(c, func, isFloat, values)
    PROVE  Folded(FoldCell(c, func, v), func, isFloat, Append(values, v))
<1> DEFINE n == Len(values)
           w == Append(values, v)
<1>1. n \in Nat /\ Len(w) = n + 1 /\ w[n + 1] = v /\ \A k \in 1 .. n : w[k] = values[k]
  OBVIOUS
<1>2. PICK h : CellTable(h, func, isFloat, values) /\ c = h[n]
  BY DEF Folded
<1> DEFINE g == [k \in 0 .. n + 1 |-> IF k = n + 1 THEN FoldCell(c, func, v) ELSE h[k]]
<1>3. c \in CellSet /\ \A k \in 0 .. n : h[k] \in CellSet
  BY <1>1, <1>2 DEF CellTable
<1>4. FoldCell(c, func, v) \in CellSet
  BY <1>3, ValuesAre, FoldCellType
<1> HIDE DEF n, w
<1>5. g \in [0 .. n + 1 -> CellSet] /\ g[0] = InitCell(func, isFloat)
  BY <1>1, <1>2, <1>3, <1>4 DEF CellTable
<1>6. ASSUME NEW k \in 1 .. n + 1 PROVE g[k] = FoldCell(g[k - 1], func, w[k])
  <2>1. CASE k = n + 1
    <3>1. k - 1 = n /\ k - 1 \in 0 .. n + 1 /\ k - 1 # n + 1
      BY <1>1, <2>1
    <3>. QED BY <1>1, <1>2, <2>1, <3>1
  <2>2. CASE k # n + 1
    <3>1. k \in 1 .. n /\ k - 1 \in 0 .. n /\ k - 1 # n + 1 /\ k \in 0 .. n + 1 /\ k - 1 \in 0 .. n + 1
      BY <1>1, <2>2
    <3>2. g[k] = h[k] /\ g[k - 1] = h[k - 1] /\ w[k] = values[k]
      BY <1>1, <2>2, <3>1
    <3>3. h[k] = FoldCell(h[k - 1], func, values[k])
      BY <1>2, <3>1 DEF CellTable, n
    <3>. QED BY <3>2, <3>3
  <2>. QED BY <2>1, <2>2
<1>7. g[n + 1] = FoldCell(c, func, v)
  BY <1>1
<1> HIDE DEF g
<1>8. CellTable(g, func, isFloat, w) /\ FoldCell(c, func, v) = g[Len(w)]
  BY <1>1, <1>5, <1>6, <1>7 DEF CellTable
<1>. QED BY <1>8 DEF Folded, w

\* Every sequence of values has its cell.
LEMMA FoldedExists ==
    ASSUME NEW func \in AggFuncs, NEW isFloat, NEW values \in Seq(ValueSet(isFloat))
    PROVE  \E c \in CellSet : Folded(c, func, isFloat, values)
<1> DEFINE n == Len(values)
           step == [k \in 1 .. n |-> [c \in CellSet |-> FoldCell(c, func, values[k])]]
<1>1. n \in Nat /\ \A k \in 1 .. n : values[k] \in Number \union {NULL}
  BY ValuesAre
<1> HIDE DEF n
<1>2. \A k \in 1 .. n, c \in CellSet :
        FoldCell(c, func, values[k]) \in CellSet /\ step[k][c] = FoldCell(c, func, values[k])
  BY <1>1, FoldCellType
<1>3. Steps(step, n, CellSet) /\ InitCell(func, isFloat) \in CellSet
  BY <1>2, InitCellType DEF Steps
<1> HIDE DEF step
<1>4. PICK h : Chain(h, n, CellSet, InitCell(func, isFloat), step)
  BY <1>1, <1>3, ChainExists
<1>5. \A k \in 1 .. n : k - 1 \in 0 .. n
  BY <1>1
<1>6. CellTable(h, func, isFloat, values)
  BY <1>1, <1>2, <1>4, <1>5 DEF Chain, CellTable, n
<1>7. h[n] \in CellSet
  BY <1>1, <1>4 DEF Chain
<1>. QED BY <1>6, <1>7 DEF Folded, n

\* The places of a sequence's values, and those among the first k.
Present(values) == {k \in 1 .. Len(values) : values[k] # NULL}
PresentTo(values, k) == {j \in 1 .. k : values[j] # NULL}

\* The first value changes the identity into itself.
LEMMA IdentityStep ==
    ASSUME NEW func \in {"Sum", "Avg", "Min", "Max"}, NEW isFloat, NEW v \in ValueSet(isFloat), v # NULL,
           NEW cell, cell.val = InitCell(func, isFloat).val
    PROVE  FoldCell(cell, func, v).val = v
<1>1. v \in Number /\ (v = NaN => isFloat) /\ (v # NaN => v \in MinInt .. MaxInt)
  BY ValuesAre
<1>2. MinInt \in Int /\ MaxInt \in Int /\ NaN \notin Int
  BY WindowAssumption
<1>3. CASE func \in {"Sum", "Avg"}
  BY <1>1, <1>2, <1>3 DEF FoldCell, InitCell, Plus, Number
<1>4. CASE func = "Min"
  BY <1>1, <1>2, <1>4 DEF FoldCell, InitCell, MinTotal, CellLess, Number
<1>5. CASE func = "Max"
  BY <1>1, <1>2, <1>5 DEF FoldCell, InitCell, MaxTotal, CellLess, Number
<1>. QED BY <1>3, <1>4, <1>5

\* A later value is accumulated as the reference does.
LEMMA LaterStep ==
    ASSUME NEW func \in {"Sum", "Avg", "Min", "Max"}, NEW v \in Number, NEW cell, cell.val \in Number
    PROVE  FoldCell(cell, func, v).val = RefStep(func, cell.val, v)
<1>1. v # NULL /\ NaN \notin Int
  BY WindowAssumption DEF Number
<1>2. CASE func \in {"Sum", "Avg"}
  BY <1>1, <1>2 DEF FoldCell, Plus, RefStep, RefAdd
<1>3. CASE func = "Min"
  BY <1>1, <1>3 DEF FoldCell, MinTotal, CellLess, RefStep, RefMin, CmpLess
<1>4. CASE func = "Max"
  BY <1>1, <1>4 DEF FoldCell, MaxTotal, CellLess, RefStep, RefMax, CmpLess
<1>. QED BY <1>2, <1>3, <1>4

\* What one more value changes in the set of the values so far.
LEMMA PresentGrows ==
    ASSUME NEW values, NEW k \in Nat
    PROVE  /\ PresentTo(values, 0) = {}
           /\ values[k + 1] = NULL => PresentTo(values, k + 1) = PresentTo(values, k)
           /\ values[k + 1] # NULL => /\ PresentTo(values, k + 1) = PresentTo(values, k) \union {k + 1}
                                      /\ k + 1 \notin PresentTo(values, k)
           /\ IsFiniteSet(PresentTo(values, k)) /\ Cardinality(PresentTo(values, k)) \in Nat
<1>1. 1 .. k + 1 = (1 .. k) \union {k + 1} /\ k + 1 \notin 1 .. k /\ 1 .. 0 = {}
  OBVIOUS
<1>2. PresentTo(values, k) \in SUBSET (1 .. k)
  BY DEF PresentTo
<1>3. IsFiniteSet(PresentTo(values, k)) /\ Cardinality(PresentTo(values, k)) \in 0 .. k
  BY <1>2, PlacesNumber
<1>. QED BY <1>1, <1>3 DEF PresentTo

\* A cell counts the values it has folded, a COUNT(*) the rows.
LEMMA CellCounts ==
    ASSUME NEW func \in AggFuncs, NEW isFloat, NEW values \in Seq(ValueSet(isFloat)),
           NEW h, CellTable(h, func, isFloat, values), NEW k \in 0 .. Len(values)
    PROVE  h[k].cnt = IF func = "CountStar" THEN k ELSE Cardinality(PresentTo(values, k))
<1> DEFINE n == Len(values)
           Count(j) == IF func = "CountStar" THEN j ELSE Cardinality(PresentTo(values, j))
           S == {j \in Nat : j <= n => h[j].cnt = Count(j)}
<1>1. n \in Nat
  OBVIOUS
<1>2. h[0].cnt = Count(0)
  BY PresentGrows, FS_EmptySet DEF CellTable, InitCell
<1>3. ASSUME NEW j \in Nat, j \in S PROVE j + 1 \in S
  <2>1. SUFFICES ASSUME j + 1 <= n PROVE h[j + 1].cnt = Count(j + 1)
    OBVIOUS
  <2>2. j + 1 \in 1 .. n /\ (j + 1) - 1 = j /\ j \in 0 .. n
    BY <1>1, <2>1
  <2>3. h[j + 1] = FoldCell(h[j], func, values[j + 1]) /\ h[j].cnt = Count(j)
    BY <1>3, <2>1, <2>2 DEF CellTable
  <2>4. CASE func = "CountStar"
    BY <2>3, <2>4 DEF FoldCell
  <2>5. CASE func # "CountStar" /\ values[j + 1] = NULL
    BY <2>3, <2>5, PresentGrows DEF FoldCell
  <2>6. CASE func # "CountStar" /\ values[j + 1] # NULL
    <3>1. Cardinality(PresentTo(values, j + 1)) = Cardinality(PresentTo(values, j)) + 1
      <4> DEFINE F == PresentTo(values, j)
      <4>1. /\ IsFiniteSet(F) /\ Cardinality(F) \in Nat /\ j + 1 \notin F
            /\ PresentTo(values, j + 1) = F \union {j + 1}
        BY <2>6, PresentGrows
      <4> HIDE DEF F
      <4>2. Cardinality(F \union {j + 1}) = Cardinality(F) + 1
        BY <4>1, FS_AddElement
      <4>. QED BY <4>1, <4>2 DEF F
    <3>. QED BY <2>3, <2>6, <3>1 DEF FoldCell
  <2>. QED BY <2>4, <2>5, <2>6
<1> HIDE DEF S
<1>4. \A j \in Nat : j \in S
  <2>1. 0 \in S
    BY <1>2 DEF S
  <2>. QED BY <1>3, <2>1, SetInduction
<1>. QED BY <1>1, <1>4 DEF S

\* The values that are not NULL are numbers, and each stands where the count
\* of the values up to it says.
LEMMA PresentPlaced ==
    ASSUME NEW isFloat, NEW values \in Seq(ValueSet(isFloat))
    PROVE  LET V == ElementsAt(values, Present(values))
           IN  /\ V \in Seq(Number)
               /\ Len(V) = Cardinality(PresentTo(values, Len(values)))
               /\ \A k \in 1 .. Len(values) :
                    LET c == Cardinality(PresentTo(values, k))
                    IN  values[k] # NULL => c \in 1 .. Len(V) /\ V[c] = values[k]
<1> DEFINE F == Present(values)
           V == ElementsAt(values, F)
           n == Len(values)
<1>1. n \in Nat /\ F \in SUBSET (1 .. n) /\ F = PresentTo(values, n)
  BY DEF Present, PresentTo
<1>2. V \in Seq(ValueSet(isFloat)) /\ Len(V) = Cardinality(F)
  BY <1>1, ElementsType
<1>3. /\ \A i \in F : V[PlaceIn(F, i)] = values[i]
      /\ \A k \in 1 .. Cardinality(F) : \E i \in F : PlaceIn(F, i) = k /\ V[k] = values[i]
  <2>1. Picks(V, values, F)
    BY <1>1, ElementsPlaced
  <2> HIDE DEF F, V
  <2>. QED BY <2>1 DEF Picks
<1>4. \A i \in F : PlaceIn(F, i) \in 1 .. Cardinality(F)
  BY <1>1, PlacesNumber
<1>5. \A k \in 1 .. n : values[k] # NULL => k \in F /\ {j \in F : j <= k} = PresentTo(values, k)
  BY <1>1 DEF Present, PresentTo
<1>6. \A i \in F : values[i] \in Number
  BY <1>1, ValuesAre DEF Present
<1>7. V \in Seq(Number)
  <2>1. \A k \in 1 .. Len(V) : V[k] \in Number
    BY <1>2, <1>3, <1>6
  <2> HIDE DEF V
  <2>. QED BY <1>2, <2>1
<1>8. ASSUME NEW k \in 1 .. n, values[k] # NULL
      PROVE  Cardinality(PresentTo(values, k)) \in 1 .. Len(V) /\ V[Cardinality(PresentTo(values, k))] = values[k]
  <2>1. k \in F /\ PlaceIn(F, k) = Cardinality(PresentTo(values, k))
    BY <1>5, <1>8 DEF PlaceIn
  <2> HIDE DEF F, V
  <2>. QED BY <1>2, <1>3, <1>4, <2>1
<1>. QED BY <1>1, <1>2, <1>7, <1>8

\* A sum, minimum or maximum of values of which some are not NULL is the
\* reference's total over those.
LEMMA CellTotals ==
    ASSUME NEW func \in {"Sum", "Avg", "Min", "Max"}, NEW isFloat, NEW values \in Seq(ValueSet(isFloat)),
           NEW h, CellTable(h, func, isFloat, values),
           NEW V, V = ElementsAt(values, Present(values)), V # <<>>
    PROVE  h[Len(values)].val = RefTotal(func, V)
<1> DEFINE n == Len(values)
           C(k) == Cardinality(PresentTo(values, k))
<1>1. /\ n \in Nat /\ V \in Seq(Number) /\ Len(V) = C(n) /\ Len(V) \in Nat \ {0}
      /\ \A k \in 1 .. n : values[k] # NULL => C(k) \in 1 .. Len(V) /\ V[C(k)] = values[k]
  BY PresentPlaced
<1> DEFINE T == Tail(V)
<1>2. V[1] \in Number /\ T \in Seq(Number) /\ Len(T) = Len(V) - 1 /\ \A k \in 1 .. Len(T) : T[k] = V[k + 1]
  BY <1>1
<1> HIDE DEF T
<1>3. PICK H : StepTable(H, func, V[1], T) /\ StepFold(func, V[1], T) = H[Len(T)]
  BY <1>2, RefStepTable
<1>4. RefTotal(func, V) = H[Len(V) - 1]
  <2>1. RefTotal(func, V) = StepFold(func, V[1], T)
    BY DEF RefTotal, StepFold, T
  <2>. QED BY <1>2, <1>3, <2>1
<1>5. H[0] = V[1] /\ \A k \in 1 .. Len(V) - 1 : H[k] = RefStep(func, H[k - 1], V[k + 1])
  BY <1>2, <1>3 DEF StepTable
<1> DEFINE Good(k) == h[k].val = IF C(k) = 0 THEN InitCell(func, isFloat).val ELSE H[C(k) - 1]
           S == {k \in Nat : k <= n => Good(k)}
<1>6. C(0) = 0 /\ \A k \in Nat : C(k) \in Nat
  BY PresentGrows, FS_EmptySet
<1>7. \A k \in Nat : values[k + 1] = NULL => C(k + 1) = C(k)
  BY PresentGrows
<1>8. \A k \in Nat : values[k + 1] # NULL => C(k + 1) = C(k) + 1
  BY PresentGrows, FS_AddElement
<1> HIDE DEF C
<1>9. Good(0)
  BY <1>6 DEF CellTable
<1>10. ASSUME NEW k \in Nat, k + 1 <= n, Good(k) PROVE Good(k + 1)
  <2>1. k + 1 \in 1 .. n /\ (k + 1) - 1 = k /\ k \in 0 .. n
    BY <1>1, <1>10
  <2>2. h[k + 1] = FoldCell(h[k], func, values[k + 1]) /\ h[k].val \in Number
    BY <2>1 DEF CellTable, CellSet
  <2>3. CASE values[k + 1] = NULL
    <3>1. h[k + 1] = h[k]
      BY <2>2, <2>3 DEF FoldCell
    <3>. QED BY <1>7, <1>10, <2>3, <3>1
  <2>4. CASE values[k + 1] # NULL
    <3>1. values[k + 1] \in ValueSet(isFloat) /\ values[k + 1] \in Number
      BY <2>1, <2>4, ValuesAre
    <3>2. C(k + 1) = C(k) + 1 /\ V[C(k + 1)] = values[k + 1] /\ C(k + 1) <= Len(V) /\ C(k) \in Nat
      BY <1>1, <1>6, <1>8, <2>1, <2>4
    <3>3. CASE C(k) = 0
      <4>1. h[k].val = InitCell(func, isFloat).val
        BY <1>10, <3>3
      <4>2. h[k + 1].val = values[k + 1]
        BY <2>2, <2>4, <3>1, <4>1, IdentityStep
      <4>. QED BY <1>5, <3>2, <3>3, <4>2
    <3>4. CASE C(k) # 0
      <4>1. h[k].val = H[C(k) - 1]
        BY <1>10, <3>4
      <4>2. h[k + 1].val = RefStep(func, h[k].val, values[k + 1])
        BY <2>2, <3>1, LaterStep
      <4>3. C(k) \in 1 .. Len(V) - 1 /\ C(k + 1) - 1 = C(k)
        BY <1>1, <3>2, <3>4
      <4>4. H[C(k)] = RefStep(func, H[C(k) - 1], V[C(k) + 1])
        BY <1>5, <4>3
      <4>. QED BY <3>2, <4>1, <4>2, <4>3, <4>4
    <3>. QED BY <3>3, <3>4
  <2>. QED BY <2>3, <2>4
<1> HIDE DEF Good
<1>11. \A k \in Nat : k \in S
  <2>1. 0 \in S
    BY <1>9
  <2>2. ASSUME NEW k \in Nat, k \in S PROVE k + 1 \in S
    BY <1>1, <1>10, <2>2
  <2> HIDE DEF S
  <2>. QED BY <2>1, <2>2, SetInduction
<1>. QED BY <1>1, <1>4, <1>11 DEF Good

\* values is the column of the rows that an aggregate reads.
ColumnOf(values, rows, spec, isFloat) ==
    /\ values \in Seq(ValueSet(isFloat))
    /\ Len(rows) = Len(values) /\ DOMAIN rows = 1 .. Len(values)
    /\ \A k \in 1 .. Len(values) : values[k] = rows[k][spec.col]

\* What a cell is written out as is what the reference finds over the rows.
LEMMA CellIsReference ==
    ASSUME NEW spec, spec.func \in AggFuncs, NEW isFloat, NEW rows, NEW values,
           ColumnOf(values, rows, spec, isFloat), NEW c, Folded(c, spec.func, isFloat, values)
    PROVE  WriteCell(c, spec.func) = RefCell(spec, rows)
<1> DEFINE n == Len(values)
<1>0. /\ values \in Seq(ValueSet(isFloat)) /\ n \in Nat /\ Len(rows) = n /\ DOMAIN rows = 1 .. n
      /\ \A k \in 1 .. n : values[k] = rows[k][spec.col]
  BY DEF ColumnOf
<1> DEFINE func == spec.func
           V == ElementsAt(values, Present(values))
<1>1. PICK h : CellTable(h, func, isFloat, values) /\ c = h[n]
  BY DEF Folded
<1>2. n \in 0 .. n
  BY <1>0
<1>3. c.cnt = IF func = "CountStar" THEN n ELSE Cardinality(PresentTo(values, n))
  BY <1>0, <1>1, <1>2, CellCounts
<1>4. CASE func = "CountStar"
  BY <1>0, <1>3, <1>4 DEF WriteCell, RefCell
<1>5. CASE func # "CountStar"
  <2>1. RefCell(spec, rows) = IF func = "Count" THEN Len(V) ELSE IF V = <<>> THEN NULL
                              ELSE IF func = "Avg" THEN <<RefTotal(func, V), Len(V)>> ELSE RefTotal(func, V)
    <3>1. [i \in DOMAIN rows |-> IF func = "CountStar" THEN 0 ELSE rows[i][spec.col]] = values
      <4>1. values = [i \in 1 .. n |-> values[i]]
        BY <1>0
      <4>2. \A i \in 1 .. n : (IF func = "CountStar" THEN 0 ELSE rows[i][spec.col]) = values[i]
        BY <1>0, <1>5
      <4>. QED BY <1>0, <4>1, <4>2
    <3>2. {i \in DOMAIN values : values[i] # NULL} = Present(values)
      BY <1>0 DEF Present
    <3>. QED BY <1>5, <3>1, <3>2, Zenon DEF RefCell, SelectedBy
  <2>2. V \in Seq(Number) /\ Len(V) = c.cnt
    BY <1>0, <1>3, <1>5, PresentPlaced
  <2>3. c.cnt = 0 <=> V = <<>>
    BY <2>2
  <2>4. CASE func = "Count"
    BY <2>1, <2>2, <2>4 DEF WriteCell
  <2>5. CASE func # "Count" /\ V = <<>>
    BY <1>5, <2>1, <2>3, <2>5 DEF WriteCell
  <2>6. CASE func # "Count" /\ V # <<>>
    <3>1. func \in {"Sum", "Avg", "Min", "Max"}
      BY <1>5, <2>6 DEF AggFuncs
    <3>2. c.val = RefTotal(func, V)
      BY <1>0, <1>1, <2>6, <3>1, CellTotals
    <3>. QED BY <1>5, <2>1, <2>2, <2>3, <2>6, <3>2 DEF WriteCell
  <2>. QED BY <2>4, <2>5, <2>6
<1>. QED BY <1>4, <1>5

\* A folded sum is the sum that AddUp finds.
LEMMA CellSums ==
    ASSUME NEW func \in {"Sum", "Avg"}, NEW isFloat, NEW values \in Seq(ValueSet(isFloat)),
           NEW h, CellTable(h, func, isFloat, values)
    PROVE  h[Len(values)].val = AddUp(values)
<1> DEFINE n == Len(values)
<1>1. n \in Nat /\ values \in Seq(Number \union {NULL})
  <2>1. \A v \in ValueSet(isFloat) : v \in Number \union {NULL}
    BY ValuesAre
  <2>2. \A k \in 1 .. n : values[k] \in Number \union {NULL}
    BY <2>1
  <2> DEFINE A == Number \union {NULL}
             B == ValueSet(isFloat)
  <2> HIDE DEF A, B
  <2>3. values \in Seq(A)
    <3>1. values \in Seq(B) /\ \A k \in 1 .. Len(values) : values[k] \in A
      BY <2>2 DEF A, B
    <3>. QED BY <3>1
  <2>. QED BY <2>3 DEF A
<1>2. PICK g : SumTable(g, values) /\ AddUp(values) = g[n]
  BY <1>1, AddUpTable
<1> DEFINE S == {k \in Nat : k <= n => h[k].val = g[k]}
<1>3. 0 \in S
  BY <1>2 DEF SumTable, CellTable, InitCell
<1>4. ASSUME NEW k \in Nat, k \in S PROVE k + 1 \in S
  <2>1. SUFFICES ASSUME k + 1 <= n PROVE h[k + 1].val = g[k + 1]
    OBVIOUS
  <2>2. k + 1 \in 1 .. n /\ (k + 1) - 1 = k /\ k <= n
    BY <1>1, <2>1
  <2>3. h[k].val = g[k]
    BY <1>4, <2>2
  <2>4. h[k + 1] = FoldCell(h[k], func, values[k + 1])
    BY <2>2 DEF CellTable
  <2>5. g[k + 1] = IF values[k + 1] = NULL THEN g[k] ELSE Plus(g[k], values[k + 1])
    BY <1>2, <2>2 DEF SumTable
  <2>. QED BY <2>3, <2>4, <2>5 DEF FoldCell
<1> HIDE DEF S
<1>5. n \in S
  BY <1>1, <1>3, <1>4, SetInduction
<1>. QED BY <1>1, <1>2, <1>5 DEF S

\* v is nearer the extreme than w.
Beats(func, v, w) == IF func = "Min" THEN CellLess(v, w) ELSE CellLess(w, v)

\* Nearness is a strict total order of the numbers.
LEMMA BeatsOrder ==
    ASSUME NEW func, NEW u \in Number, NEW v \in Number, NEW w \in Number
    PROVE  /\ ~Beats(func, v, v)
           /\ v # w => Beats(func, v, w) \/ Beats(func, w, v)
           /\ Beats(func, u, v) /\ Beats(func, v, w) => Beats(func, u, w)
BY WindowAssumption DEF Beats, CellLess, Number

\* A folded extreme is a value that no other beats.
IsExtreme(func, values, k, x) ==
    /\ x \in Number
    /\ \E j \in 1 .. k : values[j] # NULL /\ values[j] = x
    /\ \A j \in 1 .. k : values[j] # NULL => ~Beats(func, values[j], x)

\* The cell of a minimum or maximum holds the extreme of its values.
LEMMA CellExtreme ==
    ASSUME NEW func \in {"Min", "Max"}, NEW isFloat, NEW values \in Seq(ValueSet(isFloat)),
           NEW h, CellTable(h, func, isFloat, values)
    PROVE  (\E j \in 1 .. Len(values) : values[j] # NULL)
           => IsExtreme(func, values, Len(values), h[Len(values)].val)
<1> DEFINE n == Len(values)
           Some(k) == \E j \in 1 .. k : values[j] # NULL
           Good(k) == IF Some(k) THEN IsExtreme(func, values, k, h[k].val)
                      ELSE h[k].val = InitCell(func, isFloat).val
           S == {k \in Nat : k <= n => Good(k)}
<1>1. n \in Nat /\ \A k \in 1 .. n : values[k] \in ValueSet(isFloat)
  OBVIOUS
<1>2. Good(0)
  BY DEF CellTable
<1>3. ASSUME NEW k \in Nat, k + 1 <= n, Good(k) PROVE Good(k + 1)
  <2> DEFINE v == values[k + 1]
             x == h[k].val
  <2>1. k + 1 \in 1 .. n /\ (k + 1) - 1 = k /\ k \in 0 .. n
        /\ 1 .. k + 1 = (1 .. k) \union {k + 1}
    BY <1>1, <1>3
  <2>2. h[k + 1] = FoldCell(h[k], func, v)
    BY <2>1 DEF CellTable
  <2>3. CASE v = NULL
    <3>1. h[k + 1] = h[k] /\ (Some(k + 1) <=> Some(k))
      BY <2>1, <2>2, <2>3 DEF FoldCell
    <3>2. IsExtreme(func, values, k, x) => IsExtreme(func, values, k + 1, x)
      BY <2>1, <2>3 DEF IsExtreme
    <3>. QED BY <1>3, <3>1, <3>2
  <2>4. CASE v # NULL
    <3>1. v \in ValueSet(isFloat) /\ v \in Number
      BY <1>1, <2>1, <2>4, ValuesAre
    <3>2. Some(k + 1)
      BY <2>1, <2>4
    <3>3. CASE ~Some(k)
      <4>1. h[k + 1].val = v
        BY <1>3, <2>2, <2>4, <3>1, <3>3, IdentityStep
      <4>2. \A j \in 1 .. k + 1 : values[j] # NULL => values[j] = v
        BY <2>1, <3>3
      <4>3. IsExtreme(func, values, k + 1, v)
        BY <2>1, <2>4, <3>1, <4>2, BeatsOrder DEF IsExtreme
      <4>. QED BY <3>2, <4>1, <4>3
    <3>4. CASE Some(k)
      <4>1. IsExtreme(func, values, k, x)
        BY <1>3, <3>4
      <4>2. h[k + 1].val = IF Beats(func, v, x) THEN v ELSE x
        BY <2>2, <2>4 DEF FoldCell, Beats, MinTotal, MaxTotal
      <4>3. CASE Beats(func, v, x)
        <5>1. ASSUME NEW j \in 1 .. k, values[j] # NULL PROVE ~Beats(func, values[j], v)
          <6>1. values[j] \in Number /\ x \in Number /\ ~Beats(func, values[j], x)
            <7>1. values[j] \in ValueSet(isFloat)
              BY <1>1, <2>1, <5>1
            <7>. QED BY <4>1, <5>1, <7>1, ValuesAre DEF IsExtreme
          <6>. QED BY <3>1, <4>3, <6>1, BeatsOrder
        <5>2. ~Beats(func, v, v)
          BY <3>1, BeatsOrder
        <5>3. IsExtreme(func, values, k + 1, v)
          BY <2>1, <2>4, <3>1, <5>1, <5>2 DEF IsExtreme
        <5>. QED BY <3>2, <4>2, <4>3, <5>3
      <4>4. CASE ~Beats(func, v, x)
        <5>1. IsExtreme(func, values, k + 1, x)
          BY <2>1, <4>1, <4>4 DEF IsExtreme
        <5>. QED BY <3>2, <4>2, <4>4, <5>1
      <4>. QED BY <4>3, <4>4
    <3>. QED BY <3>3, <3>4
  <2>. QED BY <2>3, <2>4
<1> HIDE DEF Good
<1>4. \A k \in Nat : k \in S
  <2>1. 0 \in S
    BY <1>2
  <2>2. ASSUME NEW k \in Nat, k \in S PROVE k + 1 \in S
    BY <1>1, <1>3, <2>2
  <2> HIDE DEF S
  <2>. QED BY <2>1, <2>2, SetInduction
<1>. QED BY <1>1, <1>4 DEF Good

\* The values of a frame are as many as the places that are not NULL.
LEMMA FrameCount ==
    ASSUME StoreOK, NEW a \in DOMAIN Aggs, NEW from, NEW i, Frame(from, i)
    PROVE  Cardinality(PresentTo(ValuesOf(a, from, i), i - from + 1)) = Cardinality(FrameValues(a, from, i))
<1> DEFINE n == i - from + 1
           v == ValuesOf(a, from, i)
           S == PresentTo(v, n)
           T == FrameValues(a, from, i)
           f == [k \in S |-> from + k - 1]
<1>1. n \in Nat /\ from \in Nat \ {0} /\ i \in Nat
  BY DEF Frame
<1>2. \A k \in 1 .. n : v[k] = Value(a, store[from + k - 1])
  BY ValuesType
<1>3. S \in SUBSET (1 .. n) /\ \A k \in 1 .. n : k \in S <=> Value(a, store[from + k - 1]) # NULL
  BY <1>2 DEF PresentTo
<1>4. T \in SUBSET (from .. i) /\ \A r \in from .. i : r \in T <=> Value(a, store[r]) # NULL
  BY DEF FrameValues
<1> HIDE DEF S, T, v
<1>5. \A k \in S : from + k - 1 \in T /\ k \in Int
  BY <1>1, <1>3, <1>4
<1>6. f \in [S -> T]
  BY <1>5
<1>7. \A j, k \in S : f[j] = f[k] => j = k
  BY <1>1, <1>5
<1>8. ASSUME NEW r \in T PROVE \E k \in S : f[k] = r
  <2>1. r \in from .. i /\ Value(a, store[r]) # NULL
    BY <1>4
  <2>2. r - from + 1 \in 1 .. n /\ from + (r - from + 1) - 1 = r
    BY <1>1, <2>1
  <2>3. r - from + 1 \in S
    BY <1>3, <2>1, <2>2
  <2>. QED BY <2>2, <2>3
<1>9. OneToOne(f, S, T)
  <2> HIDE DEF f
  <2>. QED BY <1>6, <1>7, <1>8 DEF OneToOne
<1>10. IsFiniteSet(T) /\ IsFiniteSet(S)
  <2>1. IsFiniteSet(S)
    BY <1>1, PresentGrows DEF S
  <2>. QED BY <2>1, FrameFacts DEF T
<1>. QED BY <1>9, <1>10, EqualSizes DEF S, T, v

\* The front of the deque is a value of the frame that no other beats.
LEMMA FrontExtreme ==
    ASSUME StoreOK, NEW a \in DOMAIN Aggs, NEW from, NEW i, Frame(from, i),
           NEW x, AccFor(x, a, from, i), Aggs[a].func \in {"Min", "Max"}, x.cnt > 0
    PROVE  \A r \in FrameValues(a, from, i) :
              ~Beats(Aggs[a].func, Value(a, store[r]), Value(a, store[Head(x.deque)]))
<1> DEFINE F == FrameValues(a, from, i)
           E == Candidates(a, from, i)
           d == x.deque
           h == Head(d)
           V(r) == Value(a, store[r])
           func == Aggs[a].func
           B(r, s) == Beats(func, V(r), V(s))
<1>1. d # <<>> /\ h \in F /\ d \in Seq(Nat) /\ ToSet(d) = E /\ Increasing(d)
  BY FrontThere DEF AccFor, SlideAcc
<1>2. F \in SUBSET (1 .. Len(store)) /\ Len(store) \in Nat
  BY FrameFacts DEF StoreOK
<1>3. \A r \in F : V(r) \in Number
  BY <1>2, StoreValue DEF FrameValues
<1>4. \A r, s : Stays(a, r, s) <=> B(r, s)
  BY DEF Stays, Beats
<1>5. \A r \in E : r \in F /\ h <= r /\ \A s \in F : s > r => B(r, s)
  <2>1. \A r \in E : r \in F /\ \A s \in F : s > r => Stays(a, r, s)
    BY DEF Candidates
  <2>2. ASSUME NEW r \in E PROVE h <= r
    <3>1. PICK k \in 1 .. Len(d) : d[k] = r
      BY <1>1 DEF ToSet
    <3>2. Len(d) \in Nat /\ 1 \in 1 .. Len(d) /\ h = d[1] /\ \A m \in 1 .. Len(d) : d[m] \in Nat
      BY <1>1, <3>1
    <3>3. 1 < k => d[1] < d[k]
      BY <1>1, <3>1, <3>2 DEF Increasing
    <3> HIDE DEF d, h, E
    <3>. QED BY <3>1, <3>2, <3>3
  <2> HIDE DEF E, F, B, h
  <2>. QED BY <1>4, <2>1, <2>2
<1>6. SUFFICES ASSUME NEW r \in F, B(r, h) PROVE FALSE
  OBVIOUS
<1>7. \A u, v, w \in F : /\ ~B(u, u) /\ (V(u) # V(v) => B(u, v) \/ B(v, u))
                         /\ (B(u, v) /\ B(v, w) => B(u, w))
  BY <1>3, BeatsOrder
<1> HIDE DEF F, E, B, V, h, d
<1>8. \E t \in F : B(t, h) /\ \A s \in F : s > t => B(t, s)
  <2> DEFINE D(t) == \A s \in F : s > t => B(t, s)
             S == {m \in Nat : \A t \in F : t > Len(store) - m /\ B(t, h) => \E u \in F : B(u, h) /\ D(u)}
  <2>1. 0 \in S
    BY <1>2
  <2>2. ASSUME NEW m \in Nat, m \in S PROVE m + 1 \in S
    <3>1. SUFFICES ASSUME NEW t \in F, t > Len(store) - (m + 1), B(t, h)
                   PROVE \E u \in F : B(u, h) /\ D(u)
      OBVIOUS
    <3>2. CASE D(t)
      BY <3>1, <3>2
    <3>3. CASE ~D(t)
      <4>1. PICK s \in F : s > t /\ ~B(t, s)
        BY <3>3
      <4>2. B(s, h)
        <5>1. CASE V(s) = V(t)
          BY <3>1, <5>1 DEF B
        <5>2. CASE V(s) # V(t)
          BY <1>1, <1>7, <3>1, <4>1, <5>2
        <5>. QED BY <5>1, <5>2
      <4>3. s > Len(store) - m
        BY <1>2, <3>1, <4>1
      <4>. QED BY <2>2, <4>2, <4>3
    <3>. QED BY <3>2, <3>3
  <2> HIDE DEF D
  <2>3. \A m \in Nat : m \in S
    <3> HIDE DEF S
    <3>. QED BY <2>1, <2>2, SetInduction
  <2>4. r > Len(store) - Len(store)
    BY <1>2
  <2>5. \E u \in F : B(u, h) /\ D(u)
    BY <1>2, <1>6, <2>3, <2>4
  <2>. QED BY <2>5 DEF D
<1>9. PICK t \in F : B(t, h) /\ \A s \in F : s > t => B(t, s)
  BY <1>8
<1>10. t \in E
  BY <1>4, <1>9 DEF E, Candidates, F
<1>11. h \in E
  <2>1. h \in ToSet(d)
    <3>1. 1 \in DOMAIN d /\ Head(d) = d[1]
      BY <1>1
    <3>. QED BY <3>1 DEF ToSet, h
  <2>. QED BY <1>1, <2>1
<1>12. h < t \/ h = t
  BY <1>1, <1>2, <1>5, <1>9, <1>10
<1>. QED BY <1>1, <1>5, <1>7, <1>9, <1>11, <1>12

\* The finalized cell of a row is written out as what the reference finds over
\* the rows of its frame.
LEMMA FinalizeExact ==
    ASSUME StoreOK, NEW a \in DOMAIN Aggs, NEW from, NEW i, Frame(from, i), from <= i,
           NEW x, AccFor(x, a, from, i)
    PROVE  WriteCell(Finalize(a, x, from, i), Aggs[a].func) = RefCell(Aggs[a], SubSeq(store, from, i))
<1> DEFINE func == Aggs[a].func
           n == i - from + 1
           v == ValuesOf(a, from, i)
           rows == SubSeq(store, from, i)
           y == Finalize(a, x, from, i)
           c(h) == h[n]
<1>1. /\ n \in Nat \ {0} /\ func \in AggFuncs /\ Aggs[a].col = 3 /\ Col(a) = 3 /\ in \in Inputs
      /\ store \in Seq(RowSet(in)) /\ from \in Nat \ {0} /\ i \in Nat /\ i <= Len(store)
  BY Arguments DEF Frame, StoreOK
<1>2. /\ Len(v) = n /\ v \in Seq(Number \union {NULL})
      /\ \A k \in 1 .. n : v[k] = Value(a, store[from + k - 1])
      /\ FrameSum(a, from, i) = AddUp(v)
  BY ValuesType
<1>3. \A k \in 1 .. n : v[k] = rows[k][3] /\ v[k] \in ValueSet(in.isFloat)
  <2> SUFFICES ASSUME NEW k \in 1 .. n PROVE v[k] = rows[k][3] /\ v[k] \in ValueSet(in.isFloat)
    OBVIOUS
  <2>1. from + k - 1 \in 1 .. Len(store)
    BY <1>1
  <2>2. store[from + k - 1] \in RowSet(in)
    BY <1>1, <2>1
  <2>3. rows[k] = store[from + k - 1]
    BY <1>1
  <2>4. v[k] = store[from + k - 1][3]
    BY <1>1, <1>2 DEF Value
  <2>5. store[from + k - 1][3] \in ValueSet(in.isFloat)
    BY <2>2 DEF RowSet, ValueSet
  <2>. QED BY <2>3, <2>4, <2>5
<1>4. Len(rows) = n /\ DOMAIN rows = 1 .. n
  BY <1>1
<1> HIDE DEF rows
<1>5. v \in Seq(ValueSet(in.isFloat))
  <2> DEFINE A == ValueSet(in.isFloat)
             B == Number \union {NULL}
  <2>1. v \in Seq(B) /\ \A k \in 1 .. Len(v) : v[k] \in A
    BY <1>2, <1>3
  <2> HIDE DEF A, B, v
  <2>2. v \in Seq(A)
    BY <2>1
  <2>. QED BY <2>2 DEF A
<1> HIDE DEF v, n, func, y
<1>6. ColumnOf(v, rows, Aggs[a], in.isFloat)
  BY <1>1, <1>2, <1>3, <1>4, <1>5 DEF ColumnOf
<1>7. PICK e \in CellSet : Folded(e, func, in.isFloat, v)
  BY <1>1, <1>5, FoldedExists
<1>8. WriteCell(e, func) = RefCell(Aggs[a], rows)
  BY <1>1, <1>6, <1>7, CellIsReference DEF func
<1>9. PICK h : CellTable(h, func, in.isFloat, v) /\ e = h[n]
  BY <1>2, <1>7 DEF Folded
<1>10. y.cnt = e.cnt
  <2>1. e.cnt = IF func = "CountStar" THEN n ELSE Cardinality(PresentTo(v, n))
    <3>1. n \in 0 .. Len(v)
      BY <1>1, <1>2
    <3>. QED BY <1>1, <1>2, <1>5, <1>9, <3>1, CellCounts
  <2>2. Cardinality(PresentTo(v, n)) = Cardinality(FrameValues(a, from, i))
    BY FrameCount DEF v, n
  <2>3. CASE func = "CountStar"
    <3>1. y = [InitCell(func, in.isFloat) EXCEPT !.cnt = n]
      BY <2>3, Zenon DEF y, Finalize, func, n
    <3>. QED BY <2>1, <2>3, <3>1 DEF InitCell
  <2>4. CASE func # "CountStar"
    <3>1. y.cnt = x.cnt
      BY <2>4 DEF y, Finalize, func
    <3>2. x.cnt = Cardinality(FrameValues(a, from, i))
      BY <2>4 DEF AccFor, func
    <3>. QED BY <2>1, <2>2, <2>4, <3>1, <3>2
  <2>. QED BY <2>3, <2>4
<1>11. e.cnt \in Nat
  BY <1>7 DEF CellSet
<1>12. ASSUME func \in {"Sum", "Avg"} PROVE y.val = e.val
  <2>1. y.val = SumOf(a, x, from, i)
    <3>1. func # "CountStar" /\ ~(func \in {"Min", "Max"})
      BY <1>12
    <3>. QED BY <1>12, <3>1 DEF y, Finalize, func
  <2>2. SumOf(a, x, from, i) = FrameSum(a, from, i)
    <3>1. ~in.isFloat => x.sum = FrameSum(a, from, i)
      BY <1>12 DEF AccFor, func
    <3>. QED BY <3>1 DEF SumOf
  <2>3. e.val = AddUp(v)
    BY <1>2, <1>5, <1>9, <1>12, CellSums
  <2>. QED BY <1>2, <2>1, <2>2, <2>3
<1>13. ASSUME func \in {"Min", "Max"}, e.cnt > 0 PROVE y.val = e.val
  <2> DEFINE r == Head(x.deque)
             j == r - from + 1
  <2>1. func # "CountStar" /\ ~(func \in {"Sum", "Avg"})
    BY <1>13
  <2>2. y.cnt = x.cnt /\ x.cnt > 0
    BY <1>10, <1>13, <2>1 DEF y, Finalize, func
  <2>3. y.val = Value(a, store[r])
    BY <1>13, <2>1, <2>2 DEF y, Finalize, func
  <2>4. r \in FrameValues(a, from, i)
    BY <1>13, <2>2, FrontThere DEF func
  <2>5. r \in from .. i /\ Value(a, store[r]) # NULL
    BY <2>4 DEF FrameValues
  <2>6. \A s \in FrameValues(a, from, i) : ~Beats(func, Value(a, store[s]), Value(a, store[r]))
    BY <1>13, <2>2, FrontExtreme DEF func
  <2> HIDE DEF r
  <2>7. j \in 1 .. n /\ from + j - 1 = r
    BY <1>1, <2>5 DEF n
  <2>8. v[j] = Value(a, store[r]) /\ v[j] # NULL
    BY <1>2, <2>5, <2>7
  <2>9. IsExtreme(func, v, n, e.val)
    BY <1>2, <1>5, <1>9, <1>13, <2>7, <2>8, CellExtreme
  <2>10. PICK k \in 1 .. n : v[k] # NULL /\ v[k] = e.val
    BY <2>9 DEF IsExtreme
  <2>11. from + k - 1 \in from .. i /\ v[k] = Value(a, store[from + k - 1])
    BY <1>1, <1>2 DEF n
  <2>12. from + k - 1 \in FrameValues(a, from, i)
    BY <2>10, <2>11 DEF FrameValues
  <2>13. ~Beats(func, e.val, y.val) /\ ~Beats(func, y.val, e.val)
    <3>1. ~Beats(func, Value(a, store[from + k - 1]), Value(a, store[r]))
      BY <2>6, <2>12
    <3>2. ~Beats(func, v[j], e.val)
      BY <2>7, <2>8, <2>9 DEF IsExtreme
    <3>. QED BY <2>3, <2>8, <2>10, <2>11, <3>1, <3>2
  <2>14. e.val \in Number /\ y.val \in Number
    <3>1. v[j] \in Number
      BY <1>3, <2>7, <2>8, ValuesAre
    <3>. QED BY <2>3, <2>8, <2>9, <3>1 DEF IsExtreme
  <2>. QED BY <2>13, <2>14, BeatsOrder
<1>14. WriteCell(y, func) = WriteCell(e, func)
  <2>1. CASE func \in {"CountStar", "Count"}
    BY <1>10, <2>1 DEF WriteCell
  <2>2. CASE func \notin {"CountStar", "Count"} /\ e.cnt = 0
    BY <1>10, <2>2 DEF WriteCell
  <2>3. CASE func \notin {"CountStar", "Count"} /\ e.cnt # 0
    <3>1. y.val = e.val
      BY <1>1, <1>11, <1>12, <1>13, <2>3 DEF AggFuncs
    <3>. QED BY <1>10, <2>3, <3>1 DEF WriteCell
  <2>. QED BY <2>1, <2>2, <2>3
<1>. QED BY <1>8, <1>14 DEF y, func, rows

-----------------------------------------------------------------------------
(***************************************************************************)
(* The groups of the rows seen so far.                                     *)
(***************************************************************************)
KeySeq == [i \in 1 .. Len(in.rows) |-> <<in.rows[i][1], Bucket(Time(in.rows[i]))>>]
ValueSeq(a) == [i \in 1 .. Len(in.rows) |-> Value(a, in.rows[i])]

\* Of the first p rows: those with a key not seen before, and those of a key.
Firsts(p) == {i \in 1 .. p : \A j \in 1 .. i - 1 : KeySeq[j] # KeySeq[i]}
Members(t, p) == {i \in 1 .. p : KeySeq[i] = t}

\* b holds the groups of the first p rows, in first-seen order, and each
\* group's cells have folded the values of its rows.
GroupedTo(b, p) ==
    /\ b.tuples = ElementsAt(KeySeq, Firsts(p))
    /\ \A g \in 1 .. Len(b.tuples), a \in DOMAIN Aggs :
          Folded(b.cells[g][a], Aggs[a].func, in.isFloat,
                 ElementsAt(ValueSeq(a), Members(b.tuples[g], p)))

\* The keys and values of the rows.
LEMMA SeqTypes ==
    ASSUME in \in Inputs
    PROVE  /\ Len(in.rows) \in Nat
           /\ KeySeq \in Seq(UNION {{KeySeq[i]} : i \in 1 .. Len(in.rows)})
           /\ Len(KeySeq) = Len(in.rows)
           /\ \A a \in DOMAIN Aggs : ValueSeq(a) \in Seq(ValueSet(in.isFloat)) /\ Len(ValueSeq(a)) = Len(in.rows)
<1> DEFINE n == Len(in.rows)
           K == UNION {{KeySeq[i]} : i \in 1 .. n}
<1>1. n \in Nat /\ \A i \in 1 .. n : in.rows[i] \in RowSet(in)
  BY Arguments
<1>2. KeySeq = [i \in 1 .. n |-> KeySeq[i]] /\ \A i \in 1 .. n : KeySeq[i] \in K
  BY DEF KeySeq
<1>3. KeySeq \in Seq(K) /\ Len(KeySeq) = n
  <2> HIDE DEF K, n
  <2>. QED BY <1>1, <1>2
<1>4. ASSUME NEW a \in DOMAIN Aggs PROVE ValueSeq(a) \in Seq(ValueSet(in.isFloat)) /\ Len(ValueSeq(a)) = n
  <2>1. \A i \in 1 .. n : Value(a, in.rows[i]) \in ValueSet(in.isFloat)
    BY <1>1, Arguments DEF Value, RowSet, ValueSet
  <2> HIDE DEF n
  <2>. QED BY <1>1, <2>1 DEF ValueSeq, n
<1>. QED BY <1>1, <1>3, <1>4

\* Every key has a first row, and the groups' keys differ.
LEMMA FirstsCover ==
    ASSUME in \in Inputs, NEW p \in 0 .. Len(in.rows)
    PROVE  /\ Firsts(p) \in SUBSET (1 .. Len(in.rows))
           /\ \A i \in 1 .. p : \E j \in Firsts(p) : KeySeq[j] = KeySeq[i]
           /\ \A i, j \in Firsts(p) : KeySeq[i] = KeySeq[j] => i = j
<1>1. Firsts(p) \in SUBSET (1 .. p) /\ p \in Nat /\ Len(in.rows) \in Nat
  BY SeqTypes DEF Firsts
<1>2. ASSUME NEW i \in 1 .. p PROVE \E j \in Firsts(p) : KeySeq[j] = KeySeq[i]
  <2> DEFINE s == {j \in 1 .. p : KeySeq[j] = KeySeq[i]}
  <2>1. s \in SUBSET (1 .. p) /\ s # {}
    OBVIOUS
  <2>2. PICK x \in s : \A y \in s : x <= y
    <3> HIDE DEF s
    <3>. QED BY <1>1, <2>1, LeastOf
  <2>3. \A j \in 1 .. x - 1 : KeySeq[j] # KeySeq[x]
    <3>1. SUFFICES ASSUME NEW j \in 1 .. x - 1, KeySeq[j] = KeySeq[x] PROVE FALSE
      OBVIOUS
    <3>2. j \in s /\ j < x /\ x \in Int /\ j \in Int
      BY <2>2, <3>1
    <3>. QED BY <2>2, <3>2
  <2>. QED BY <2>2, <2>3 DEF Firsts
<1>3. ASSUME NEW i \in Firsts(p), NEW j \in Firsts(p), KeySeq[i] = KeySeq[j] PROVE i = j
  <2>1. i \in 1 .. p /\ j \in 1 .. p
    BY <1>1
  <2>2. i < j => i \in 1 .. j - 1
    BY <2>1
  <2>3. j < i => j \in 1 .. i - 1
    BY <2>1
  <2>. QED BY <1>3, <2>1, <2>2, <2>3 DEF Firsts
<1>. QED BY <1>1, <1>2, <1>3

\* Each group has a key of its own, and every key of the first p rows is some
\* group's.
KeysApart(ts, p) ==
    /\ Len(ts) \in Nat /\ DOMAIN ts = 1 .. Len(ts)
    /\ \A g, k \in 1 .. Len(ts) : ts[g] = ts[k] => g = k
    /\ \A t : (\E g \in 1 .. Len(ts) : ts[g] = t) <=> (\E i \in 1 .. p : KeySeq[i] = t)

\* So are the keys in first-seen order.
LEMMA GroupKeys ==
    ASSUME in \in Inputs, NEW p \in 0 .. Len(in.rows), NEW ts, ts = ElementsAt(KeySeq, Firsts(p))
    PROVE  KeysApart(ts, p)
<1> DEFINE F == Firsts(p)
           n == Len(in.rows)
<1>1. n \in Nat /\ F \in SUBSET (1 .. n) /\ F \in SUBSET (1 .. p)
  BY SeqTypes, FirstsCover DEF Firsts
<1>2. PICK K : KeySeq \in Seq(K) /\ Len(KeySeq) = n
  BY SeqTypes
<1> HIDE DEF F, n
<1>3. ts \in Seq(K) /\ Len(ts) = Cardinality(F)
  BY <1>1, <1>2, ElementsType DEF F
<1>4. Picks(ts, KeySeq, F)
  BY <1>1, ElementsPlaced DEF F
<1>5. \A i \in F : PlaceIn(F, i) \in 1 .. Cardinality(F)
  BY <1>1, PlacesNumber
<1>6. ASSUME NEW g \in 1 .. Len(ts), NEW k \in 1 .. Len(ts), ts[g] = ts[k] PROVE g = k
  <2>1. PICK i \in F : PlaceIn(F, i) = g /\ ts[g] = KeySeq[i]
    BY <1>3, <1>4 DEF Picks
  <2>2. PICK j \in F : PlaceIn(F, j) = k /\ ts[k] = KeySeq[j]
    BY <1>3, <1>4 DEF Picks
  <2>3. i = j
    BY <1>6, <2>1, <2>2, FirstsCover DEF F
  <2>. QED BY <2>1, <2>2, <2>3
<1>7. ASSUME NEW t, NEW g \in 1 .. Len(ts), ts[g] = t PROVE \E i \in 1 .. p : KeySeq[i] = t
  <2>1. PICK i \in F : ts[g] = KeySeq[i]
    BY <1>3, <1>4 DEF Picks
  <2>. QED BY <1>1, <1>7, <2>1
<1>8. ASSUME NEW t, NEW i \in 1 .. p, KeySeq[i] = t PROVE \E g \in 1 .. Len(ts) : ts[g] = t
  <2>1. PICK j \in F : KeySeq[j] = KeySeq[i]
    BY FirstsCover DEF F
  <2>2. ts[PlaceIn(F, j)] = KeySeq[j] /\ PlaceIn(F, j) \in 1 .. Len(ts)
    BY <1>3, <1>4, <1>5 DEF Picks
  <2>. QED BY <1>8, <2>1, <2>2
<1>. QED BY <1>3, <1>6, <1>7, <1>8 DEF KeysApart

\* What one more row changes in the rows of a key.
LEMMA MembersGrow ==
    ASSUME in \in Inputs, NEW p \in Nat, p + 1 <= Len(in.rows), NEW t
    PROVE  /\ Members(t, p) \in SUBSET (1 .. Len(in.rows))
           /\ \A a \in DOMAIN Aggs :
                ElementsAt(ValueSeq(a), Members(t, p)) \in Seq(ValueSet(in.isFloat))
           /\ KeySeq[p + 1] # t => Members(t, p + 1) = Members(t, p)
           /\ KeySeq[p + 1] = t =>
                \A a \in DOMAIN Aggs :
                   ElementsAt(ValueSeq(a), Members(t, p + 1))
                     = Append(ElementsAt(ValueSeq(a), Members(t, p)), Value(a, in.rows[p + 1]))
<1> DEFINE n == Len(in.rows)
<1>1. n \in Nat /\ \A a \in DOMAIN Aggs : ValueSeq(a) \in Seq(ValueSet(in.isFloat)) /\ Len(ValueSeq(a)) = n
  BY SeqTypes
<1>2. Members(t, p) \in SUBSET (1 .. n) /\ \A j \in Members(t, p) : j < p + 1
  BY <1>1 DEF Members
<1>3. 1 .. p + 1 = (1 .. p) \union {p + 1} /\ p + 1 \in 1 .. n
  BY <1>1
<1>4. KeySeq[p + 1] # t => Members(t, p + 1) = Members(t, p)
  BY <1>3 DEF Members
<1>5. KeySeq[p + 1] = t => Members(t, p + 1) = Members(t, p) \union {p + 1}
  BY <1>3 DEF Members
<1>6. \A a \in DOMAIN Aggs : ValueSeq(a)[p + 1] = Value(a, in.rows[p + 1])
  BY <1>3 DEF ValueSeq
<1> HIDE DEF n
<1>7. \A a \in DOMAIN Aggs : ElementsAt(ValueSeq(a), Members(t, p)) \in Seq(ValueSet(in.isFloat))
  BY <1>1, <1>2, ElementsType
<1>8. \A a \in DOMAIN Aggs : ElementsAt(ValueSeq(a), Members(t, p) \union {p + 1})
                               = Append(ElementsAt(ValueSeq(a), Members(t, p)), ValueSeq(a)[p + 1])
  BY <1>1, <1>2, <1>3, ElementsGrow
<1>. QED BY <1>2, <1>4, <1>5, <1>6, <1>7, <1>8 DEF n

\* One row more is grouped.
LEMMA GroupRowExact ==
    ASSUME in \in Inputs, in.mode = "Tumbling", NEW b \in Groups, NEW p \in Nat, p + 1 <= Len(in.rows),
           GroupedTo(b, p)
    PROVE  GroupedTo(GroupRow(b, in.rows[p + 1]), p + 1)
<1> DEFINE row   == in.rows[p + 1]
           tuple == KeySeq[p + 1]
           known == tuple \in ToSet(b.tuples)
           ts    == IF known THEN b.tuples ELSE Append(b.tuples, tuple)
           start == [i \in DOMAIN Aggs |-> InitCell(Aggs[i].func, in.isFloat)]
           old   == IF known THEN b.cells ELSE Append(b.cells, start)
           g     == CHOOSE i \in DOMAIN ts : ts[i] = tuple
           new   == [i \in DOMAIN Aggs |-> FoldCell(old[g][i], Aggs[i].func, Value(i, row))]
           cs    == [old EXCEPT ![g] = new]
           n     == Len(in.rows)
           Vals(a, t, q) == ElementsAt(ValueSeq(a), Members(t, q))
<1>1. n \in Nat /\ p + 1 \in 1 .. n /\ p \in 0 .. n /\ p + 1 \in 0 .. n
  BY SeqTypes
<1>2. tuple = <<row[1], Bucket(Time(row))>>
  BY <1>1 DEF KeySeq
<1>3. GroupRow(b, row) = [tuples |-> ts, cells |-> cs]
  <2>1. GroupRow(b, row) = [tuples |-> ts, cells |-> cs]
    BY <1>2 DEF GroupRow
  <2>. QED BY <2>1
<1>4. /\ b.tuples \in Seq(TupleSet) /\ b.cells \in Seq(CellRow) /\ Len(b.tuples) = Len(b.cells)
      /\ b.tuples = ElementsAt(KeySeq, Firsts(p))
  BY DEF Groups, GroupedTo
<1>5. known <=> \E i \in 1 .. p : KeySeq[i] = tuple
  <2>1. known <=> \E i \in 1 .. Len(b.tuples) : b.tuples[i] = tuple
    BY <1>4 DEF ToSet
  <2>2. KeysApart(b.tuples, p)
    BY <1>1, <1>4, GroupKeys
  <2>. QED BY <2>1, <2>2 DEF KeysApart
<1>6. known => Firsts(p + 1) = Firsts(p)
  BY <1>1, <1>5 DEF Firsts
<1>7. ~known => Firsts(p + 1) = Firsts(p) \union {p + 1}
  BY <1>1, <1>5 DEF Firsts
<1>8. ts = ElementsAt(KeySeq, Firsts(p + 1))
  <2>1. CASE known
    BY <1>4, <1>6, <2>1
  <2>2. CASE ~known
    <3>1. PICK K : KeySeq \in Seq(K) /\ Len(KeySeq) = n
      BY SeqTypes
    <3>2. Firsts(p) \in SUBSET (1 .. n) /\ \A j \in Firsts(p) : j < p + 1
      BY <1>1 DEF Firsts
    <3> HIDE DEF known, n
    <3>3. ElementsAt(KeySeq, Firsts(p) \union {p + 1}) = Append(ElementsAt(KeySeq, Firsts(p)), KeySeq[p + 1])
      BY <1>1, <3>1, <3>2, ElementsGrow
    <3>. QED BY <1>4, <1>7, <2>2, <3>3
  <2>. QED BY <2>1, <2>2
<1>9. /\ Len(ts) = IF known THEN Len(b.tuples) ELSE Len(b.tuples) + 1
      /\ Len(old) = Len(ts) /\ DOMAIN ts = 1 .. Len(ts) /\ DOMAIN old = 1 .. Len(ts)
      /\ \A i \in 1 .. Len(b.tuples) : i \in 1 .. Len(ts) /\ ts[i] = b.tuples[i] /\ old[i] = b.cells[i]
      /\ ~known => ts[Len(ts)] = tuple /\ old[Len(ts)] = start
  <2> HIDE DEF known, start, tuple
  <2>1. CASE known
    BY <1>4, <2>1
  <2>2. CASE ~known
    <3>1. Len(b.tuples) \in Nat
      BY <1>4
    <3>. QED BY <1>4, <2>2, <3>1
  <2>. QED BY <2>1, <2>2
<1>10. KeysApart(ts, p + 1) /\ \E i \in 1 .. p + 1 : KeySeq[i] = tuple
  <2>1. \E i \in 1 .. p + 1 : KeySeq[i] = tuple
    BY <1>1
  <2> HIDE DEF ts, tuple
  <2>2. KeysApart(ts, p + 1)
    BY <1>1, <1>8, GroupKeys
  <2>. QED BY <2>1, <2>2
<1> HIDE DEF tuple, ts, old, known
<1>11. g \in 1 .. Len(ts) /\ ts[g] = tuple
  BY <1>9, <1>10 DEF KeysApart
<1>12. \A i \in 1 .. Len(ts) : i # g => ts[i] # tuple
  BY <1>10, <1>11 DEF KeysApart
<1> HIDE DEF g
<1>13. cs[g] = new /\ \A i \in 1 .. Len(ts) : i # g => cs[i] = old[i]
  <2> HIDE DEF new
  <2>. QED BY <1>9, <1>11
<1>14. \A a \in DOMAIN Aggs : Aggs[a].func \in AggFuncs
  BY Arguments
<1>15. \A a \in DOMAIN Aggs : Value(a, row) \in ValueSet(in.isFloat)
  <2>1. row \in RowSet(in)
    BY <1>1, Arguments
  <2>. QED BY <2>1, Arguments DEF Value, RowSet, ValueSet
<1>16. ASSUME NEW i \in 1 .. Len(ts), NEW a \in DOMAIN Aggs, i # g
       PROVE  Folded(cs[i][a], Aggs[a].func, in.isFloat, Vals(a, ts[i], p + 1))
  <2>1. i \in 1 .. Len(b.tuples)
    <3>1. ~known => i # Len(ts)
      BY <1>9, <1>11, <1>12, <1>16
    <3>. QED BY <1>4, <1>9, <3>1
  <2>2. cs[i] = b.cells[i] /\ ts[i] = b.tuples[i] /\ ts[i] # tuple
    BY <1>9, <1>12, <1>13, <1>16, <2>1
  <2>3. Members(ts[i], p + 1) = Members(ts[i], p)
    BY <2>2, MembersGrow DEF tuple
  <2>4. Folded(b.cells[i][a], Aggs[a].func, in.isFloat, Vals(a, b.tuples[i], p))
    BY <2>1 DEF GroupedTo
  <2>. QED BY <2>2, <2>3, <2>4
<1>17. ASSUME NEW a \in DOMAIN Aggs
       PROVE  Folded(cs[g][a], Aggs[a].func, in.isFloat, Vals(a, ts[g], p + 1))
  <2>1. cs[g][a] = FoldCell(old[g][a], Aggs[a].func, Value(a, row))
    BY <1>13
  <2>2. /\ Vals(a, tuple, p + 1) = Append(Vals(a, tuple, p), Value(a, row))
        /\ Vals(a, tuple, p) \in Seq(ValueSet(in.isFloat))
    BY MembersGrow DEF tuple
  <2>3. Folded(old[g][a], Aggs[a].func, in.isFloat, Vals(a, tuple, p))
    <3>1. CASE known
      <4>1. g \in 1 .. Len(b.tuples) /\ old[g] = b.cells[g] /\ ts[g] = b.tuples[g]
        BY <1>9, <1>11, <3>1
      <4>2. Folded(b.cells[g][a], Aggs[a].func, in.isFloat, Vals(a, b.tuples[g], p))
        BY <4>1 DEF GroupedTo
      <4>. QED BY <1>11, <4>1, <4>2
    <3>2. CASE ~known
      <4>1. g = Len(ts)
        <5>1. Len(ts) \in 1 .. Len(ts)
          BY <1>4, <1>9, <3>2
        <5>. QED BY <1>9, <1>12, <3>2, <5>1
      <4>2. Members(tuple, p) = {}
        BY <1>5, <3>2 DEF Members
      <4>3. Vals(a, tuple, p) = <<>>
        BY <4>2, ElementsNone
      <4>4. old[g][a] = InitCell(Aggs[a].func, in.isFloat)
        BY <1>9, <3>2, <4>1
      <4>. QED BY <4>3, <4>4, FoldedNone
    <3>. QED BY <3>1, <3>2
  <2>4. Folded(FoldCell(old[g][a], Aggs[a].func, Value(a, row)), Aggs[a].func, in.isFloat,
               Append(Vals(a, tuple, p), Value(a, row)))
    <3> HIDE DEF Vals, row
    <3>. QED BY <1>14, <1>15, <2>2, <2>3, FoldedAppend
  <2>. QED BY <1>11, <2>1, <2>2, <2>4
<1>18. \A i \in 1 .. Len(ts), a \in DOMAIN Aggs :
          Folded(cs[i][a], Aggs[a].func, in.isFloat, Vals(a, ts[i], p + 1))
  BY <1>16, <1>17
<1> HIDE DEF cs
<1>. QED BY <1>3, <1>8, <1>18 DEF GroupedTo

\* A batch of rows is grouped.
LEMMA GroupBatchExact ==
    ASSUME in \in Inputs, in.mode = "Tumbling", NEW b \in Groups, NEW p \in Nat, NEW last \in Nat,
           p <= last, last <= Len(in.rows), GroupedTo(b, p)
    PROVE  GroupedTo(GroupBatch(b, SubSeq(in.rows, p + 1, last)), last)
<1> DEFINE rows == SubSeq(in.rows, p + 1, last)
           n    == last - p
<1>1. Len(in.rows) \in Nat /\ in.rows \in Seq(RowSet(in))
  BY Arguments
<1>2. rows \in Seq(RowSet(in)) /\ Len(rows) = n /\ n \in Nat
      /\ \A k \in 1 .. n : rows[k] = in.rows[p + k]
  <2> HIDE DEF rows
  <2>1. n \in Nat /\ \A k \in 1 .. n : p + k \in 1 .. Len(in.rows)
    BY <1>1
  <2>2. rows = [k \in 1 .. n |-> in.rows[p + k]]
    BY <1>1, <2>1 DEF rows
  <2>3. \A k \in 1 .. n : in.rows[p + k] \in RowSet(in)
    BY <1>1, <2>1
  <2> HIDE DEF n
  <2>4. rows \in [1 .. n -> RowSet(in)]
    BY <2>2, <2>3
  <2>5. rows \in Seq(RowSet(in)) /\ Len(rows) = n
    BY <2>1, <2>4
  <2>. QED BY <2>1, <2>2, <2>5
<1> HIDE DEF rows
<1>3. PICK h : /\ h \in [0 .. n -> Groups] /\ h[0] = b
               /\ \A k \in 1 .. n : h[k] = GroupRow(h[k - 1], rows[k])
               /\ GroupBatch(b, rows) = h[n]
  BY <1>2, GroupBatchChain
<1> DEFINE S == {k \in Nat : k <= n => GroupedTo(h[k], p + k)}
<1>4. 0 \in S
  BY <1>3
<1>5. ASSUME NEW k \in Nat, k \in S PROVE k + 1 \in S
  <2>1. SUFFICES ASSUME k + 1 <= n PROVE GroupedTo(h[k + 1], p + (k + 1))
    OBVIOUS
  <2>2. k + 1 \in 1 .. n /\ (k + 1) - 1 = k /\ k \in 0 .. n /\ p + k \in Nat
        /\ (p + k) + 1 <= Len(in.rows) /\ (p + k) + 1 = p + (k + 1) /\ k <= n
    BY <1>1, <2>1
  <2>3. h[k + 1] = GroupRow(h[k], in.rows[(p + k) + 1]) /\ h[k] \in Groups
    BY <1>2, <1>3, <2>2
  <2>4. GroupedTo(h[k], p + k)
    BY <1>5, <2>2
  <2> HIDE DEF n
  <2>5. GroupedTo(GroupRow(h[k], in.rows[(p + k) + 1]), (p + k) + 1)
    BY <2>2, <2>3, <2>4, GroupRowExact
  <2>. QED BY <2>2, <2>3, <2>5
<1> HIDE DEF S
<1>6. n \in S
  BY <1>2, <1>4, <1>5, SetInduction
<1>. QED BY <1>2, <1>3, <1>6 DEF S, rows

\* No rows, no groups.
LEMMA NoGroups == ASSUME in \in Inputs PROVE GroupedTo([tuples |-> <<>>, cells |-> <<>>], 0)
<1>1. Firsts(0) = {}
  BY DEF Firsts
<1>2. <<>> = ElementsAt(KeySeq, Firsts(0))
  BY <1>1, ElementsNone
<1>. QED BY <1>2 DEF GroupedTo

\* The groups of all the rows are written out as the reference's rows.
LEMMA GroupsAnswer ==
    ASSUME in \in Inputs, in.mode = "Tumbling", NEW b \in Groups, GroupedTo(b, Len(in.rows))
    PROVE  TumblingReference(in.rows, <<1>>, 2, in.param, Aggs)
             = [g \in 1 .. Len(b.tuples) |->
                  b.tuples[g] \o [a \in DOMAIN Aggs |-> WriteCell(b.cells[g][a], Aggs[a].func)]]
<1> DEFINE n == Len(in.rows)
           Key(row) == Append(KeyTuple(row, <<1>>), BucketOf(row[2], in.param))
           M(g) == {i \in 1 .. n : KeySeq[i] = b.tuples[g]}
<1>1. in.rows \in Seq(RowSet(in)) /\ n \in Nat /\ DOMAIN in.rows = 1 .. n
  BY Arguments
<1>2. \A i \in 1 .. n : Key(in.rows[i]) = KeySeq[i]
  <2>1. ASSUME NEW i \in 1 .. n PROVE Key(in.rows[i]) = KeySeq[i]
    <3> DEFINE row == in.rows[i]
    <3>1. KeyTuple(row, <<1>>) = <<row[1]>>
      BY DEF KeyTuple
    <3>2. BucketOf(row[2], in.param) = Bucket(Time(row))
      BY DEF BucketOf, Bucket, Time
    <3> HIDE DEF row
    <3>3. ASSUME NEW x, NEW y PROVE Append(<<x>>, y) = <<x, y>>
      <4>1. <<x>> \in Seq({x, y}) /\ Len(<<x>>) = 1 /\ <<x>>[1] = x
        OBVIOUS
      <4>2. <<x, y>> \in Seq({x, y}) /\ Len(<<x, y>>) = 2 /\ <<x, y>>[1] = x /\ <<x, y>>[2] = y
        OBVIOUS
      <4>3. Append(<<x>>, y) \in Seq({x, y}) /\ Len(Append(<<x>>, y)) = 2
            /\ Append(<<x>>, y)[1] = x /\ Append(<<x>>, y)[2] = y
        <5> DEFINE s == <<x>>
        <5> HIDE DEF s
        <5>1. Append(s, y) \in Seq({x, y}) /\ Len(Append(s, y)) = 2 /\ Append(s, y)[1] = s[1] /\ Append(s, y)[2] = y
          BY <4>1 DEF s
        <5>. QED BY <4>1, <5>1 DEF s
      <4> DEFINE s == Append(<<x>>, y)
                 t == <<x, y>>
      <4> HIDE DEF s, t
      <4>4. s \in Seq({x, y}) /\ t \in Seq({x, y}) /\ Len(s) = 2 /\ Len(t) = 2 /\ s[1] = t[1] /\ s[2] = t[2]
        BY <4>2, <4>3 DEF s, t
      <4>5. s = t
        BY <4>4
      <4>. QED BY <4>5 DEF s, t
    <3>. QED BY <3>1, <3>2, <3>3 DEF KeySeq, row
  <2>. QED BY <2>1
<1>3. [i \in DOMAIN in.rows |-> Key(in.rows[i])] = KeySeq
  BY <1>1, <1>2 DEF KeySeq
<1>4. {i \in DOMAIN KeySeq : \A j \in 1 .. i - 1 : KeySeq[j] # KeySeq[i]} = Firsts(n)
  BY <1>1 DEF Firsts, KeySeq
<1> DEFINE T == GroupTuples(in.rows, Key)
<1>5. T = b.tuples
  <2>1. GroupTuples(in.rows, Key) = ElementsAt(KeySeq, Firsts(n))
    <3> HIDE DEF Key
    <3>. QED BY <1>3, <1>4, Zenon DEF GroupTuples
  <2>. QED BY <2>1 DEF GroupedTo
<1>6. DOMAIN b.tuples = 1 .. Len(b.tuples) /\ Len(b.tuples) = Len(b.cells)
  BY DEF Groups
<1>7. ASSUME NEW g \in 1 .. Len(b.tuples)
      PROVE  SelectedBy(in.rows, LAMBDA row : Key(row) = T[g]) = ElementsAt(in.rows, M(g))
  <2>1. {i \in DOMAIN in.rows : Key(in.rows[i]) = T[g]} = M(g)
    <3> HIDE DEF Key, T
    <3>. QED BY <1>1, <1>2, <1>5
  <2>. QED BY <2>1, Zenon DEF SelectedBy
<1>8. ASSUME NEW g \in 1 .. Len(b.tuples), NEW a \in DOMAIN Aggs
      PROVE  RefCell(Aggs[a], ElementsAt(in.rows, M(g))) = WriteCell(b.cells[g][a], Aggs[a].func)
  <2> DEFINE F == M(g)
             rows == ElementsAt(in.rows, F)
             values == ElementsAt(ValueSeq(a), F)
  <2>1. F \in SUBSET (1 .. n) /\ F = Members(b.tuples[g], n)
    BY DEF Members
  <2>2. rows \in Seq(RowSet(in)) /\ Len(rows) = Cardinality(F)
    BY <1>1, <2>1, ElementsType
  <2>3. values \in Seq(ValueSet(in.isFloat)) /\ Len(values) = Cardinality(F)
    BY <1>1, <2>1, SeqTypes, ElementsType
  <2>4. Cardinality(F) \in Nat
    BY <1>1, <2>1, PlacesNumber
  <2>5. Picks(rows, in.rows, F) /\ Picks(values, ValueSeq(a), F)
    BY <1>1, <2>1, ElementsPlaced
  <2>6. Folded(b.cells[g][a], Aggs[a].func, in.isFloat, values)
    BY <2>1 DEF GroupedTo
  <2>7. Aggs[a].func \in AggFuncs /\ Col(a) = 3 /\ Aggs[a].col = 3
    BY Arguments
  <2>8. \A i \in F : ValueSeq(a)[i] = in.rows[i][Aggs[a].col]
    BY <2>1, <2>7 DEF ValueSeq, Value
  <2> HIDE DEF F, rows, values
  <2>9. \A k \in 1 .. Cardinality(F) : values[k] = rows[k][Aggs[a].col]
    <3>1. ASSUME NEW k \in 1 .. Cardinality(F) PROVE values[k] = rows[k][Aggs[a].col]
      <4>1. PICK i \in F : PlaceIn(F, i) = k /\ rows[k] = in.rows[i]
        BY <2>5 DEF Picks
      <4>2. values[k] = ValueSeq(a)[i]
        BY <2>5, <4>1 DEF Picks
      <4>. QED BY <2>8, <4>1, <4>2
    <3>. QED BY <3>1
  <2>10. DOMAIN rows = 1 .. Cardinality(F)
    BY <2>2, <2>4
  <2>11. WriteCell(b.cells[g][a], Aggs[a].func) = RefCell(Aggs[a], rows)
    <3>1. ColumnOf(values, rows, Aggs[a], in.isFloat)
      BY <2>2, <2>3, <2>9, <2>10 DEF ColumnOf
    <3>2. ASSUME NEW spec, spec = Aggs[a] PROVE WriteCell(b.cells[g][a], spec.func) = RefCell(spec, rows)
      <4>1. spec.func \in AggFuncs /\ ColumnOf(values, rows, spec, in.isFloat)
            /\ Folded(b.cells[g][a], spec.func, in.isFloat, values)
        BY <2>6, <2>7, <3>1, <3>2
      <4>. QED BY ONLY <4>1, CellIsReference
    <3>. QED BY <3>2
  <2>. QED BY <2>11 DEF F, rows
<1>9. TumblingReference(in.rows, <<1>>, 2, in.param, Aggs)
        = [g \in DOMAIN T |->
             T[g] \o [a \in DOMAIN Aggs |-> RefCell(Aggs[a], SelectedBy(in.rows, LAMBDA row : Key(row) = T[g]))]]
  <2>1. TumblingReference(in.rows, <<1>>, 2, in.param, Aggs) = GroupRows(in.rows, Key, Aggs)
    BY Zenon DEF TumblingReference
  <2> HIDE DEF Key
  <2>. QED BY <2>1, Zenon DEF GroupRows
<1> DEFINE Sel(g) == SelectedBy(in.rows, LAMBDA row : Key(row) = T[g])
<1>10. TumblingReference(in.rows, <<1>>, 2, in.param, Aggs)
         = [g \in DOMAIN T |-> T[g] \o [a \in DOMAIN Aggs |-> RefCell(Aggs[a], Sel(g))]]
  BY <1>9, Zenon
<1>11. \A g \in 1 .. Len(b.tuples) : Sel(g) = ElementsAt(in.rows, M(g))
  BY <1>7, Zenon
<1> HIDE DEF Key, M, T, Sel
<1>12. \A g \in 1 .. Len(b.tuples) :
         [a \in DOMAIN Aggs |-> RefCell(Aggs[a], Sel(g))]
           = [a \in DOMAIN Aggs |-> WriteCell(b.cells[g][a], Aggs[a].func)]
  BY <1>8, <1>11
<1>. QED BY <1>5, <1>6, <1>10, <1>12

-----------------------------------------------------------------------------
(****************************************************************************)
(* The frames of the sorted store.                                         *)
(****************************************************************************)
\* e is what s holds from one place to another.
IsCut(e, s, from, to, A) ==
    /\ e \in Seq(A) /\ Len(e) = to - from + 1
    /\ e = [k \in 1 .. to - from + 1 |-> s[from + k - 1]]

\* The elements at an interval of places are a subsequence.
LEMMA ElementsRange ==
    ASSUME NEW A, NEW s \in Seq(A), NEW from \in Nat \ {0}, NEW to \in Nat, from <= to + 1, to <= Len(s)
    PROVE  IsCut(ElementsAt(s, from .. to), s, from, to, A)
<1> DEFINE F == from .. to
           m == to - from + 1
           e == ElementsAt(s, F)
<1>1. Len(s) \in Nat /\ F \in SUBSET (1 .. Len(s)) /\ m \in Nat
  OBVIOUS
<1>2. Cardinality(F) = m
  <2>1. from \in Int /\ to \in Int
    OBVIOUS
  <2>2. Cardinality(from .. to) = IF from > to THEN 0 ELSE to - from + 1
    BY ONLY <2>1, FS_Interval
  <2>. QED BY <2>2
<1>3. ASSUME NEW i \in F PROVE PlaceIn(F, i) = i - from + 1
  <2>1. {j \in F : j <= i} = from .. i /\ i \in Int /\ from \in Int /\ from <= i
    OBVIOUS
  <2>2. Cardinality(from .. i) = i - from + 1
    BY <2>1, FS_Interval
  <2>. QED BY <2>1, <2>2 DEF PlaceIn
<1>4. Picks(e, s, F)
  BY <1>1, ElementsPlaced
<1>5. e \in Seq(A) /\ Len(e) = m
  BY <1>1, <1>2, ElementsType
<1>6. \A k \in 1 .. m : from + k - 1 \in F /\ (from + k - 1) - from + 1 = k
  BY <1>1
<1> HIDE DEF e, F, m
<1>7. \A k \in 1 .. m : e[k] = s[from + k - 1]
  <2>1. ASSUME NEW k \in 1 .. m PROVE e[k] = s[from + k - 1]
    <3>1. from + k - 1 \in F /\ PlaceIn(F, from + k - 1) = k
      BY <1>3, <1>6
    <3>2. \A i \in F : e[PlaceIn(F, i)] = s[i]
      BY <1>4 DEF Picks
    <3>. QED BY <3>1, <3>2
  <2>. QED BY <2>1
<1>8. e = [k \in 1 .. m |-> s[from + k - 1]]
  BY <1>1, <1>5, <1>7
<1>. QED BY <1>5, <1>8 DEF IsCut, e, F, m

\* Rows that are in order already stay where they are.
LEMMA OrderBySorted ==
    ASSUME NEW keys \in Seq(KeySpec), NEW R, Sortable(R, keys), NEW rows \in Seq(R),
           \A i, j \in 1 .. Len(rows) : i < j => ~RowBefore(rows[j], rows[i], keys)
    PROVE  OrderBy(rows, keys) = rows
<1> DEFINE n == Len(rows)
           D == 1 .. n
           E(i, j) == Ahead(rows, keys, i, j)
           before(i) == {j \in DOMAIN rows : E(j, i)}
           places == {<<i, Cardinality(before(i)) + 1>> : i \in DOMAIN rows}
<1>1. n \in Nat /\ DOMAIN rows = D /\ \A i \in D : rows[i] \in R
  OBVIOUS
<1>2. OrderBy(rows, keys) = [k \in DOMAIN rows |-> rows[(CHOOSE p \in places : p[2] = k)[1]]]
  BY Zenon DEF OrderBy, Ahead
<1>3. ASSUME NEW i \in D, NEW j \in D PROVE E(j, i) <=> j < i
  <2>1. j < i => ~RowBefore(rows[i], rows[j], keys)
    OBVIOUS
  <2>2. i < j => ~RowBefore(rows[j], rows[i], keys)
    OBVIOUS
  <2>3. ~RowBefore(rows[i], rows[i], keys)
    BY <1>1, RowOrder
  <2>. QED BY <1>1, <2>1, <2>2, <2>3 DEF Ahead
<1>4. ASSUME NEW i \in D PROVE Cardinality(before(i)) + 1 = i
  <2>1. before(i) = {j \in D : j < i}
    <3> HIDE DEF E, D
    <3>. QED BY <1>1, <1>3
  <2>2. {j \in D : j < i} = 1 .. i - 1 /\ i - 1 \in Int /\ 1 \in Int /\ i \in Int
    BY <1>1
  <2>3. Cardinality(1 .. i - 1) = IF 1 > i - 1 THEN 0 ELSE (i - 1) - 1 + 1
    BY <2>2, FS_Interval
  <2>4. Cardinality(before(i)) = IF 1 > i - 1 THEN 0 ELSE (i - 1) - 1 + 1
    BY <2>1, <2>2, <2>3
  <2> HIDE DEF before
  <2>. QED BY <1>1, <2>4
<1>5. places = {<<i, i>> : i \in D}
  <2> HIDE DEF before, D
  <2>. QED BY <1>1, <1>4
<1> HIDE DEF places
<1>6. ASSUME NEW k \in D PROVE (CHOOSE p \in places : p[2] = k)[1] = k
  <2>1. <<k, k>> \in places /\ <<k, k>>[2] = k
    BY <1>5
  <2> DEFINE p == CHOOSE p \in places : p[2] = k
  <2>2. p \in places /\ p[2] = k
    BY <2>1
  <2> HIDE DEF p
  <2>3. p[1] = k
    BY <1>5, <2>2
  <2>. QED BY <2>3 DEF p
<1>7. OrderBy(rows, keys) = [k \in D |-> rows[k]]
  BY <1>1, <1>2, <1>6
<1>. QED BY <1>1, <1>7

\* The rows of the store are in the order of their keys, then times.
Sorted == in \in Inputs /\ in.mode = "Sliding" /\ store = OrderBy(in.rows, SortKeys)

ByTime == << [col |-> 2, dir |-> "Asc", nulls |-> "Last"] >>

\* What Sort has made of the child's rows.
LEMMA StoreSorted ==
    ASSUME Sorted
    PROVE  /\ store \in Seq(RowSet(in)) /\ Len(store) = Len(in.rows) /\ Len(store) \in Nat
           /\ \A i, j \in 1 .. Len(store) : i < j => ~RowBefore(store[j], store[i], SortKeys)
           /\ SortKeys \in Seq(KeySpec) /\ ByTime \in Seq(KeySpec)
           /\ Sortable(RowSet(in), SortKeys) /\ Sortable(RowSet(in), ByTime)
<1>1. /\ SortKeys \in Seq(KeySpec) /\ DOMAIN SortKeys = 1 .. 2
      /\ SortKeys[1].col = 1 /\ SortKeys[2].col = 2
      /\ ByTime \in Seq(KeySpec) /\ DOMAIN ByTime = 1 .. 1 /\ ByTime[1].col = 2
  <2>1. [col |-> 1, dir |-> "Asc", nulls |-> "Last"] \in KeySpec
        /\ [col |-> 2, dir |-> "Asc", nulls |-> "Last"] \in KeySpec
    BY DEF KeySpec
  <2>. QED BY <2>1 DEF SortKeys, ByTime
<1>2. \A row \in RowSet(in) : row[1] \in KeyCell /\ row[2] \in KeyCell
  BY DEF RowSet, KeyCell
<1>3. Sortable(RowSet(in), SortKeys) /\ Sortable(RowSet(in), ByTime)
  BY <1>1, <1>2, WindowAssumption DEF Sortable, Apart
<1>4. in.rows \in Seq(RowSet(in))
  BY Arguments DEF Sorted
<1>5. Ordered(store, in.rows, SortKeys, RowSet(in))
  BY <1>1, <1>3, <1>4, OrderBySorts DEF Sorted
<1>6. store \in Seq(RowSet(in)) /\ Len(store) = Len(in.rows)
      /\ \A i, j \in DOMAIN store : i < j => ~RowBefore(store[j], store[i], SortKeys)
  BY <1>5 DEF Ordered
<1>. QED BY <1>1, <1>3, <1>6

KeyOf(i) == store[i][1]

\* A key's rows are next to each other.
LEMMA KeysTogether ==
    ASSUME Sorted, NEW i \in 1 .. Len(store), NEW j \in 1 .. Len(store), NEW k \in 1 .. Len(store),
           i <= j, j <= k, KeyOf(i) = KeyOf(k)
    PROVE  KeyOf(j) = KeyOf(i)
<1>1. /\ store \in Seq(RowSet(in)) /\ Len(store) \in Nat
      /\ \A x, y \in 1 .. Len(store) : x < y => ~RowBefore(store[y], store[x], SortKeys)
      /\ SortKeys \in Seq(KeySpec)
  BY StoreSorted
<1> DEFINE key == SortKeys[1]
<1>2. 1 \in DOMAIN SortKeys /\ key.col = 1 /\ key \in KeySpec
  <2>1. 1 \in DOMAIN SortKeys /\ key.col = 1
    BY DEF SortKeys
  <2> HIDE DEF key
  <2>2. SortKeys[1] \in KeySpec
    BY <1>1, <2>1
  <2>. QED BY <2>1, <2>2 DEF key
<1> HIDE DEF key
<1>3. \A x \in 1 .. Len(store) : KeyOf(x) \in KeyCell
  <2>1. \A x \in 1 .. Len(store) : store[x] \in RowSet(in)
    BY <1>1
  <2>. QED BY <2>1 DEF KeyOf, RowSet, KeyCell
<1>4. ASSUME NEW x \in 1 .. Len(store), NEW y \in 1 .. Len(store), x < y
      PROVE  ~CellBefore(KeyOf(y), KeyOf(x), key)
  <2>1. SUFFICES ASSUME CellBefore(KeyOf(y), KeyOf(x), key) PROVE RowBefore(store[y], store[x], SortKeys)
    BY <1>1, <1>4
  <2>2. CellBefore(store[y][SortKeys[1].col], store[x][SortKeys[1].col], SortKeys[1])
    BY <1>2, <2>1 DEF KeyOf, key
  <2>3. 1 .. 1 - 1 = {}
    OBVIOUS
  <2>. QED BY <1>2, <2>2, <2>3 DEF RowBefore
<1>5. Apart
  BY WindowAssumption DEF Apart
<1>6. CASE i < j /\ j < k
  <2>1. ~CellBefore(KeyOf(j), KeyOf(i), key) /\ ~CellBefore(KeyOf(k), KeyOf(j), key)
    BY <1>4, <1>6
  <2>2. KeyOf(j) # KeyOf(i) => CellBefore(KeyOf(i), KeyOf(j), key) \/ CellBefore(KeyOf(j), KeyOf(i), key)
    BY <1>2, <1>3, <1>5, CellOrder
  <2>. QED BY <2>1, <2>2
<1>. QED BY <1>6

\* The run of row i begins at s: the rows with its key up to it.
RunStart(i, s) ==
    /\ s \in 1 .. i
    /\ \A r \in s .. i : KeyOf(r) = KeyOf(i)
    /\ s > 1 => KeyOf(s - 1) # KeyOf(i)

RunOf(i) == CHOOSE s : RunStart(i, s)

\* A run has one beginning.
LEMMA RunUnique ==
    ASSUME NEW i \in Nat, NEW s, RunStart(i, s)
    PROVE  RunOf(i) = s
<1>1. \A t, u : RunStart(i, t) /\ RunStart(i, u) => ~(t < u)
  <2>1. SUFFICES ASSUME NEW t, NEW u, RunStart(i, t), RunStart(i, u), t < u PROVE FALSE
    OBVIOUS
  <2>2. t \in Int /\ u \in Int /\ u - 1 \in t .. i /\ u > 1
    BY <2>1 DEF RunStart
  <2>. QED BY <2>1, <2>2 DEF RunStart
<1>2. RunStart(i, RunOf(i))
  BY DEF RunOf
<1>3. s \in Int /\ RunOf(i) \in Int
  BY <1>2 DEF RunStart
<1>. QED BY <1>1, <1>2, <1>3

\* The rows with a key not seen before, and their places, with the end.
NewKeys == {i \in 1 .. Len(store) : \A j \in 1 .. i - 1 : KeyOf(j) # KeyOf(i)}
Edges == [g \in 1 .. Cardinality(NewKeys) + 1 |->
            IF g > Cardinality(NewKeys) THEN Len(store) + 1
            ELSE CHOOSE i \in NewKeys : PlaceIn(NewKeys, i) = g]

\* The g-th run goes from one edge to the next.
IsRun(g) ==
    /\ Edges[g] \in NewKeys /\ PlaceIn(NewKeys, Edges[g]) = g
    /\ Edges[g] \in 1 .. Len(store) /\ Edges[g + 1] \in 1 .. Len(store) + 1 /\ Edges[g] < Edges[g + 1]
    /\ \A i \in 1 .. Len(store) : KeyOf(i) = KeyOf(Edges[g]) <=> i \in Edges[g] .. Edges[g + 1] - 1
    /\ \A i \in Edges[g] .. Edges[g + 1] - 1 : RunOf(i) = Edges[g]

\* The runs, one for each key in first-seen order, divide the store.
LEMMA RunsDivide ==
    ASSUME Sorted
    PROVE  /\ Cardinality(NewKeys) \in Nat /\ NewKeys \in SUBSET (1 .. Len(store))
           /\ Edges[1] = 1 /\ Edges[Cardinality(NewKeys) + 1] = Len(store) + 1
           /\ \A g \in 1 .. Cardinality(NewKeys) : IsRun(g)
<1> DEFINE n == Len(store)
           F == NewKeys
           c == Cardinality(F)
           e(g) == Edges[g]
<1>1. n \in Nat
  BY StoreSorted
<1>2. F \in SUBSET (1 .. n)
  BY DEF NewKeys
<1>3. /\ c \in Nat
      /\ \A i \in F : PlaceIn(F, i) \in 1 .. c
      /\ \A i, j \in F : i < j => PlaceIn(F, i) < PlaceIn(F, j)
      /\ \A k \in 1 .. c : \E i \in F : PlaceIn(F, i) = k
  BY <1>1, <1>2, PlacesNumber
<1>4. \A g \in 1 .. c : e(g) \in F /\ PlaceIn(F, e(g)) = g
  <2>1. \A g \in 1 .. c : e(g) = CHOOSE i \in F : PlaceIn(F, i) = g
    BY <1>3 DEF Edges
  <2> HIDE DEF F, c, e
  <2>. QED BY <1>3, <2>1
<1>5. e(c + 1) = n + 1
  BY <1>3 DEF Edges
<1> HIDE DEF F, c, e, n
<1>6. \A i, j \in F : PlaceIn(F, i) < PlaceIn(F, j) => i < j
  <2>1. SUFFICES ASSUME NEW i \in F, NEW j \in F, PlaceIn(F, i) < PlaceIn(F, j), ~(i < j) PROVE FALSE
    OBVIOUS
  <2>2. i \in Int /\ j \in Int /\ PlaceIn(F, i) \in Int /\ PlaceIn(F, j) \in Int
    BY <1>2, <1>3
  <2>3. j < i \/ i = j
    BY <2>1, <2>2
  <2>. QED BY <1>3, <2>1, <2>2, <2>3
<1>7. \A i \in 1 .. n : \E j \in F : j <= i /\ KeyOf(j) = KeyOf(i)
  <2>1. SUFFICES ASSUME NEW i \in 1 .. n PROVE \E j \in F : j <= i /\ KeyOf(j) = KeyOf(i)
    OBVIOUS
  <2> DEFINE s == {j \in 1 .. n : KeyOf(j) = KeyOf(i)}
  <2>2. s \in SUBSET (1 .. n) /\ s # {} /\ i \in s
    OBVIOUS
  <2>3. PICK x \in s : \A y \in s : x <= y
    <3> HIDE DEF s
    <3>. QED BY <1>1, <2>2, LeastOf
  <2>4. \A j \in 1 .. x - 1 : KeyOf(j) # KeyOf(x)
    <3>1. SUFFICES ASSUME NEW j \in 1 .. x - 1, KeyOf(j) = KeyOf(x) PROVE FALSE
      OBVIOUS
    <3>2. j \in s /\ j < x /\ x \in Int /\ j \in Int
      BY <1>1, <2>3, <3>1
    <3>. QED BY <2>3, <3>2
  <2>5. x \in F
    BY <2>3, <2>4 DEF F, NewKeys, n
  <2>. QED BY <2>2, <2>3, <2>5
<1>8. \A i, j \in 1 .. n : j \in F /\ i < j => KeyOf(i) # KeyOf(j)
  BY <1>1 DEF F, NewKeys
<1>9. e(1) = 1
  <2>1. CASE c = 0
    <3>1. F = {}
      BY <1>3, <2>1
    <3>2. n = 0
      BY <1>1, <1>7, <3>1
    <3>. QED BY <1>5, <2>1, <3>2
  <2>2. CASE c # 0
    <3>1. 1 \in 1 .. c
      BY <1>3, <2>2
    <3>2. e(1) \in F /\ PlaceIn(F, e(1)) = 1 /\ e(1) \in 1 .. n
      BY <1>2, <1>4, <3>1
    <3>3. 1 \in 1 .. n
      BY <1>1, <3>2
    <3>4. PICK j \in F : j <= 1
      BY <1>7, <3>3
    <3>5. j = 1
      BY <1>2, <3>4
    <3>6. ~(1 < e(1))
      <4>1. SUFFICES ASSUME 1 < e(1) PROVE FALSE
        OBVIOUS
      <4>2. PlaceIn(F, 1) < 1 /\ PlaceIn(F, 1) \in 1 .. c
        BY <1>3, <3>2, <3>4, <3>5, <4>1
      <4>. QED BY <4>2
    <3>. QED BY <1>1, <3>2, <3>6
  <2>. QED BY <2>1, <2>2
<1>10. ASSUME NEW g \in 1 .. c PROVE IsRun(g)
  <2>1. e(g) \in F /\ PlaceIn(F, e(g)) = g /\ e(g) \in 1 .. n
    BY <1>2, <1>4
  <2>2. /\ e(g + 1) \in 1 .. n + 1 /\ e(g) < e(g + 1)
        /\ \A j \in F : j < e(g + 1) => j <= e(g)
        /\ e(g + 1) <= n => e(g + 1) \in F
    <3>1. CASE g = c
      <4>1. e(g + 1) = n + 1
        BY <1>5, <3>1
      <4>2. \A j \in F : j <= e(g)
        <5>1. SUFFICES ASSUME NEW j \in F, ~(j <= e(g)) PROVE FALSE
          OBVIOUS
        <5>2. e(g) < j
          BY <1>2, <2>1, <5>1
        <5>3. g < PlaceIn(F, j) /\ PlaceIn(F, j) \in 1 .. c
          BY <1>3, <2>1, <5>2
        <5>. QED BY <1>3, <3>1, <5>3
      <4>. QED BY <1>1, <2>1, <4>1, <4>2
    <3>2. CASE g # c
      <4>1. g + 1 \in 1 .. c
        BY <1>3, <3>2
      <4>2. e(g + 1) \in F /\ PlaceIn(F, e(g + 1)) = g + 1 /\ e(g + 1) \in 1 .. n
        BY <1>2, <1>4, <4>1
      <4>3. e(g) < e(g + 1)
        <5>1. g < g + 1
          OBVIOUS
        <5>. QED BY <1>6, <2>1, <4>2, <5>1
      <4>4. \A j \in F : j < e(g + 1) => j <= e(g)
        <5>1. SUFFICES ASSUME NEW j \in F, j < e(g + 1), ~(j <= e(g)) PROVE FALSE
          OBVIOUS
        <5>2. e(g) < j
          BY <1>2, <2>1, <5>1
        <5>3. g < PlaceIn(F, j) /\ PlaceIn(F, j) < g + 1 /\ PlaceIn(F, j) \in 1 .. c
          BY <1>3, <2>1, <4>2, <5>1, <5>2
        <5>. QED BY <5>3
      <4>. QED BY <1>1, <4>2, <4>3, <4>4
    <3>. QED BY <3>1, <3>2
  <2>3. ASSUME NEW i \in 1 .. n, KeyOf(i) = KeyOf(e(g)) PROVE i \in e(g) .. e(g + 1) - 1
    <3>1. ~(i < e(g))
      BY <1>8, <2>1, <2>3
    <3>2. ~(e(g + 1) <= i)
      <4>1. SUFFICES ASSUME e(g + 1) <= i PROVE FALSE
        OBVIOUS
      <4>2. e(g + 1) \in 1 .. n /\ e(g + 1) \in F
        BY <1>1, <2>2, <4>1
      <4>3. KeyOf(e(g + 1)) = KeyOf(e(g))
        <5>1. e(g) <= e(g + 1)
          BY <2>1, <2>2
        <5>. QED BY <2>1, <2>3, <4>1, <4>2, <5>1, KeysTogether DEF n
      <4>. QED BY <1>8, <2>1, <2>2, <4>2, <4>3
    <3>. QED BY <1>1, <2>1, <2>2, <3>1, <3>2
  <2>4. ASSUME NEW i \in e(g) .. e(g + 1) - 1 PROVE i \in 1 .. n /\ KeyOf(i) = KeyOf(e(g))
    <3>1. i \in 1 .. n /\ e(g) <= i /\ i < e(g + 1)
      BY <1>1, <2>1, <2>2, <2>4
    <3>2. PICK j \in F : j <= i /\ KeyOf(j) = KeyOf(i)
      BY <1>7, <3>1
    <3>3. j <= e(g) /\ j \in 1 .. n
      BY <1>2, <2>2, <3>1, <3>2
    <3>4. KeyOf(e(g)) = KeyOf(j)
      BY <2>1, <3>1, <3>2, <3>3, KeysTogether DEF n
    <3>. QED BY <3>1, <3>2, <3>4
  <2>5. ASSUME NEW i \in e(g) .. e(g + 1) - 1 PROVE RunOf(i) = e(g)
    <3>1. i \in Nat /\ e(g) \in 1 .. i
      BY <1>1, <2>1, <2>2, <2>5
    <3>2. \A r \in e(g) .. i : KeyOf(r) = KeyOf(i)
      <4>1. \A r \in e(g) .. i : r \in e(g) .. e(g + 1) - 1
        BY <1>1, <2>1, <2>2, <2>5
      <4>. QED BY <2>4, <2>5, <4>1
    <3>3. e(g) > 1 => KeyOf(e(g) - 1) # KeyOf(i)
      <4>1. SUFFICES ASSUME e(g) > 1 PROVE KeyOf(e(g) - 1) # KeyOf(i)
        OBVIOUS
      <4>2. e(g) - 1 \in 1 .. n /\ e(g) - 1 < e(g)
        BY <1>1, <2>1, <4>1
      <4>. QED BY <1>8, <2>1, <2>4, <2>5, <4>2
    <3>4. RunStart(i, e(g))
      BY <3>1, <3>2, <3>3 DEF RunStart
    <3>. QED BY <3>1, <3>4, RunUnique
  <2>. QED BY <2>1, <2>2, <2>3, <2>4, <2>5 DEF IsRun, e, F, n
<1>. QED BY <1>2, <1>3, <1>5, <1>9, <1>10 DEF F, c, e, n

\* The rows of the frame of row i, and the row with its aggregates over them.
FrameRows(i) == SubSeq(store, FrameStart(i, RunOf(i)), i)
FrameRow(i) == store[i] \o [a \in DOMAIN Aggs |-> RefCell(Aggs[a], FrameRows(i))]

\* The rows of a run, by themselves, are in order.
LEMMA RunInOrder ==
    ASSUME Sorted, NEW from \in 1 .. Len(store), NEW to \in 1 .. Len(store), from <= to,
           \A i \in from .. to : KeyOf(i) = KeyOf(from)
    PROVE  LET part == ElementsAt(store, from .. to)
           IN  OrderBy(part, ByTime) = part
<1> DEFINE part == ElementsAt(store, from .. to)
           m == to - from + 1
<1>1. /\ store \in Seq(RowSet(in)) /\ Len(store) \in Nat
      /\ \A i, j \in 1 .. Len(store) : i < j => ~RowBefore(store[j], store[i], SortKeys)
      /\ ByTime \in Seq(KeySpec) /\ SortKeys \in Seq(KeySpec) /\ Sortable(RowSet(in), ByTime)
      /\ Sortable(RowSet(in), SortKeys)
  BY StoreSorted
<1>2. part = [k \in 1 .. m |-> store[from + k - 1]] /\ part \in Seq(RowSet(in)) /\ Len(part) = m
  <2>1. from \in Nat \ {0} /\ to \in Nat /\ from <= to + 1 /\ to <= Len(store)
    BY <1>1
  <2>2. IsCut(part, store, from, to, RowSet(in))
    BY <1>1, <2>1, ElementsRange
  <2>. QED BY <2>2 DEF IsCut
<1>3. m \in Nat /\ \A k \in 1 .. m : from + k - 1 \in from .. to /\ from + k - 1 \in 1 .. Len(store)
  BY <1>1
<1> HIDE DEF part, m
<1>4. ASSUME NEW x \in 1 .. Len(store), NEW y \in 1 .. Len(store), x < y, KeyOf(x) = KeyOf(y),
             RowBefore(store[y], store[x], ByTime)
      PROVE  RowBefore(store[y], store[x], SortKeys)
  <2> DEFINE a == store[y]
             b == store[x]
  <2>1. a[1] = b[1]
    BY <1>4 DEF KeyOf
  <2>2. a \in RowSet(in) /\ b \in RowSet(in)
    BY <1>1
  <2>3. /\ DOMAIN ByTime = {1} /\ DOMAIN SortKeys = {1, 2} /\ ByTime[1] = SortKeys[2]
        /\ ByTime[1].col = 2 /\ SortKeys[1].col = 1 /\ SortKeys[2].col = 2
    BY DEF ByTime, SortKeys
  <2> HIDE DEF a, b
  <2>4. FirstDiffers(a, b, ByTime, 1)
    <3>1. PICK i \in DOMAIN ByTime : FirstDiffers(a, b, ByTime, i)
      BY <1>1, <1>4, <2>2, RowBeforeIs DEF a, b
    <3>2. i = 1
      BY <2>3
    <3>. QED BY <3>1, <3>2
  <2>5. FirstDiffers(a, b, SortKeys, 2)
    <3>1. CellBefore(a[SortKeys[2].col], b[SortKeys[2].col], SortKeys[2])
      BY <2>3, <2>4 DEF FirstDiffers
    <3>2. \A j \in 1 .. 2 - 1 : j = 1
      OBVIOUS
    <3>3. \A j \in 1 .. 2 - 1 : a[SortKeys[j].col] = b[SortKeys[j].col]
      BY <2>1, <2>3, <3>2
    <3>. QED BY <3>1, <3>3 DEF FirstDiffers
  <2>6. RowBefore(a, b, SortKeys)
    BY <1>1, <2>2, <2>3, <2>5, RowBeforeIs
  <2>. QED BY <2>6 DEF a, b
<1>5. ASSUME NEW i \in 1 .. Len(part), NEW j \in 1 .. Len(part), i < j
      PROVE  ~RowBefore(part[j], part[i], ByTime)
  <2> DEFINE x == from + i - 1
             y == from + j - 1
  <2>1. x \in from .. to /\ x \in 1 .. Len(store) /\ y \in from .. to /\ y \in 1 .. Len(store) /\ x < y
    <3>1. i \in 1 .. m /\ j \in 1 .. m /\ i \in Int /\ j \in Int /\ from \in Int
      BY <1>2, <1>3, <1>5
    <3>2. x \in from .. to /\ x \in 1 .. Len(store) /\ y \in from .. to /\ y \in 1 .. Len(store)
      BY <1>3, <3>1
    <3>. QED BY <1>5, <3>1, <3>2
  <2>2. part[i] = store[x] /\ part[j] = store[y]
    BY <1>2, <1>5
  <2>3. KeyOf(x) = KeyOf(y)
    BY <2>1
  <2> HIDE DEF x, y
  <2>. QED BY <1>1, <1>4, <2>1, <2>2, <2>3
<1>6. OrderBy(part, ByTime) = part
  BY <1>1, <1>2, <1>5, OrderBySorted
<1>. QED BY <1>6 DEF part

\* The reference's rows of a run are those of the store's frames.
LEMMA RunRows ==
    ASSUME Sorted, NEW from \in 1 .. Len(store), NEW to \in 1 .. Len(store), from <= to,
           \A i \in from .. to : RunOf(i) = from
    PROVE  SlidingRows(ElementsAt(store, from .. to), in.param, Aggs)
             = [k \in 1 .. to - from + 1 |-> FrameRow(from + k - 1)]
<1> DEFINE part == ElementsAt(store, from .. to)
           m == to - from + 1
           P == in.param
           start(p) == IF p - 1 > P THEN p - P ELSE 1
<1>1. store \in Seq(RowSet(in)) /\ Len(store) \in Nat /\ P \in Nat
  BY StoreSorted, Arguments DEF Sorted
<1>2. part = [k \in 1 .. m |-> store[from + k - 1]] /\ part \in Seq(RowSet(in)) /\ Len(part) = m
  <2>1. from \in Nat \ {0} /\ to \in Nat /\ from <= to + 1 /\ to <= Len(store)
    BY <1>1
  <2>2. IsCut(part, store, from, to, RowSet(in))
    BY <1>1, <2>1, ElementsRange
  <2>. QED BY <2>2 DEF IsCut
<1> HIDE DEF part
<1>3. ASSUME NEW p \in 1 .. m PROVE SubSeq(part, start(p), p) = FrameRows(from + p - 1)
  <2> DEFINE i == from + p - 1
             s == FrameStart(i, from)
  <2>1. i \in from .. to /\ i \in 1 .. Len(store) /\ s \in from .. i /\ start(p) \in 1 .. p
        /\ s = from + start(p) - 1
    <3>1. i \in Int /\ from \in Int /\ to \in Int /\ p \in Int /\ P \in Nat /\ p >= 1 /\ from >= 1
          /\ i - from = p - 1 /\ i <= to /\ from <= i /\ to <= Len(store)
      BY <1>1
    <3>2. s = i - (IF P < i - from THEN P ELSE i - from)
      BY DEF FrameStart
    <3>3. CASE p - 1 > P
      BY <1>1, <3>1, <3>2, <3>3
    <3>4. CASE ~(p - 1 > P)
      BY <1>1, <3>1, <3>2, <3>4
    <3>. QED BY <3>1, <3>3, <3>4
  <2>2. FrameRows(i) = SubSeq(store, s, i)
    BY <2>1 DEF FrameRows
  <2>3. SubSeq(store, s, i) = [k \in 1 .. i - s + 1 |-> store[s + k - 1]]
    <3>1. s \in 1 .. Len(store) /\ i \in 1 .. Len(store)
      BY <1>1, <2>1
    <3> HIDE DEF s, i
    <3>. QED BY <1>1, <3>1
  <2>4. SubSeq(part, start(p), p) = [k \in 1 .. p - start(p) + 1 |-> part[start(p) + k - 1]]
    <3> DEFINE b == start(p)
    <3> HIDE DEF start, b
    <3>1. b \in 1 .. Len(part) /\ p \in 1 .. Len(part) /\ b <= p
      BY <1>1, <1>2, <2>1 DEF b
    <3>2. SubSeq(part, b, p) = [k \in 1 .. p - b + 1 |-> part[b + k - 1]]
      BY <1>2, <3>1
    <3>. QED BY <3>2 DEF b
  <2>5. i - s = p - start(p)
    <3>1. i \in Int /\ from \in Int /\ p \in Int /\ i = from + p - 1
      OBVIOUS
    <3> HIDE DEF start, s, i
    <3>. QED BY <2>1, <3>1
  <2>6. ASSUME NEW k \in 1 .. p - start(p) + 1 PROVE part[start(p) + k - 1] = store[s + k - 1]
    <3>1. start(p) + k - 1 \in 1 .. m /\ from + (start(p) + k - 1) - 1 = s + k - 1
      <4>1. p \in Int /\ from \in Int /\ p <= m /\ m \in Int
        OBVIOUS
      <4> HIDE DEF start, s, i, m
      <4>2. start(p) \in Int /\ start(p) >= 1 /\ k \in Int /\ k >= 1 /\ k <= p - start(p) + 1
        BY <2>1, <2>6, <4>1
      <4>3. s = from + start(p) - 1
        BY <2>1
      <4>. QED BY <4>1, <4>2, <4>3
    <3>. QED BY <1>2, <3>1
  <2> HIDE DEF start, s
  <2>. QED BY <2>2, <2>3, <2>4, <2>5, <2>6
<1>4. ASSUME NEW p \in 1 .. m PROVE part[p] = store[from + p - 1]
  BY <1>2
<1>5. DOMAIN part = 1 .. m
  BY <1>2
<1>6. SlidingRows(part, P, Aggs)
        = [p \in DOMAIN part |->
             part[p] \o [a \in DOMAIN Aggs |-> RefCell(Aggs[a], SubSeq(part, start(p), p))]]
  BY Zenon DEF SlidingRows
<1> HIDE DEF start, m
<1>. QED BY <1>3, <1>4, <1>5, <1>6 DEF FrameRow, part, m

\* A sequence is the one followed by the other when it has the elements of both.
LEMMA JoinIs ==
    ASSUME NEW A, NEW s \in Seq(A), NEW t \in Seq(A), NEW u \in Seq(A), Len(u) = Len(s) + Len(t),
           \A i \in 1 .. Len(s) : u[i] = s[i], \A i \in 1 .. Len(t) : u[Len(s) + i] = t[i]
    PROVE  u = s \o t
<1>1. Len(s) \in Nat /\ Len(t) \in Nat /\ s \o t \in Seq(A) /\ Len(s \o t) = Len(s) + Len(t)
  OBVIOUS
<1>2. ASSUME NEW i \in 1 .. Len(u) PROVE u[i] = (s \o t)[i]
  <2>1. CASE i <= Len(s)
    BY <1>1, <2>1
  <2>2. CASE ~(i <= Len(s))
    <3>1. i - Len(s) \in 1 .. Len(t) /\ Len(s) + (i - Len(s)) = i
      BY <1>1, <2>2
    <3>2. (s \o t)[i] = t[i - Len(s)]
      BY <1>1, <2>2, <3>1
    <3>. QED BY <3>1, <3>2
  <2>. QED BY <2>1, <2>2
<1> DEFINE z == s \o t
<1> HIDE DEF z
<1>3. z \in Seq(A) /\ Len(z) = Len(u) /\ \A i \in 1 .. Len(u) : u[i] = z[i]
  BY <1>1, <1>2 DEF z
<1>4. u = z
  BY <1>3
<1>. QED BY <1>4 DEF z

\* The reference over the sorted rows gives each row with the aggregates over
\* its frame, in the order of the store.
LEMMA FramesAnswer ==
    ASSUME Sorted
    PROVE  SlidingReference(store, <<1>>, 2, in.param, Aggs) = [i \in 1 .. Len(store) |-> FrameRow(i)]
<1> DEFINE n == Len(store)
           Key(row) == KeyTuple(row, <<1>>)
           T == GroupTuples(store, Key)
           keys == [i \in DOMAIN store |-> Key(store[i])]
           F == NewKeys
           c == Cardinality(F)
           e(g) == Edges[g]
           Sel(g) == SelectedBy(store, LAMBDA row : KeyTuple(row, <<1>>) = T[g])
           Part(g) == ElementsAt(store, e(g) .. e(g + 1) - 1)
           ans == [i \in 1 .. n |-> FrameRow(i)]
           Rows(g) == [k \in 1 .. e(g + 1) - e(g) |-> FrameRow(e(g) + k - 1)]
<1>1. store \in Seq(RowSet(in)) /\ n \in Nat /\ DOMAIN store = 1 .. n
  BY StoreSorted
<1>2. /\ c \in Nat /\ F \in SUBSET (1 .. n) /\ e(1) = 1 /\ e(c + 1) = n + 1
      /\ \A g \in 1 .. c : IsRun(g)
  BY RunsDivide
<1>3. /\ \A i \in 1 .. n : keys[i] = <<KeyOf(i)>>
      /\ DOMAIN keys = 1 .. n
  BY <1>1 DEF KeyTuple, KeyOf
<1>4. {i \in DOMAIN keys : \A j \in 1 .. i - 1 : keys[j] # keys[i]} = F
  <2>1. \A i \in 1 .. n : \A j \in 1 .. i - 1 : j \in 1 .. n
    BY <1>1
  <2>2. \A i, j \in 1 .. n : keys[j] # keys[i] <=> KeyOf(j) # KeyOf(i)
    <3> HIDE DEF keys
    <3>1. \A x, y : <<x>> = <<y>> <=> x = y
      OBVIOUS
    <3>. QED BY <1>3, <3>1
  <2> HIDE DEF keys
  <2>. QED BY <1>3, <2>1, <2>2 DEF NewKeys
<1>5. T = ElementsAt(keys, F)
  <2>1. T = ElementsAt(keys, {i \in DOMAIN keys : \A j \in 1 .. i - 1 : keys[j] # keys[i]})
    BY Zenon DEF GroupTuples
  <2> HIDE DEF keys, T, F
  <2>. QED BY <1>4, <2>1
<1>6. DOMAIN T = 1 .. c /\ \A g \in 1 .. c : T[g] = <<KeyOf(e(g))>>
  <2> HIDE DEF T, keys
  <2>1. Picks(T, keys, F)
    BY <1>1, <1>2, <1>5, ElementsPlaced
  <2>2. ASSUME NEW g \in 1 .. c PROVE T[g] = <<KeyOf(e(g))>>
    <3>1. e(g) \in F /\ PlaceIn(F, e(g)) = g /\ e(g) \in 1 .. n
      BY <1>2 DEF IsRun
    <3>2. T[g] = keys[e(g)]
      BY <2>1, <3>1 DEF Picks
    <3>. QED BY <1>3, <3>1, <3>2
  <2>3. DOMAIN T = 1 .. c
    BY <2>1 DEF Picks
  <2>. QED BY <2>2, <2>3
<1>7. ASSUME NEW g \in 1 .. c PROVE Sel(g) = Part(g)
  <2>1. Sel(g) = ElementsAt(store, {i \in DOMAIN store : KeyTuple(store[i], <<1>>) = T[g]})
    BY Zenon DEF SelectedBy
  <2>2. \A i \in 1 .. n : KeyTuple(store[i], <<1>>) = <<KeyOf(i)>>
    BY <1>1, <1>3
  <2>3. \A x, y : <<x>> = <<y>> <=> x = y
    OBVIOUS
  <2> HIDE DEF T, Sel
  <2>4. \A i \in 1 .. n : KeyTuple(store[i], <<1>>) = T[g] <=> KeyOf(i) = KeyOf(e(g))
    BY <1>6, <2>2, <2>3
  <2>5. /\ \A i \in 1 .. n : KeyOf(i) = KeyOf(e(g)) <=> i \in e(g) .. e(g + 1) - 1
        /\ \A i \in e(g) .. e(g + 1) - 1 : i \in 1 .. n
    BY <1>1, <1>2 DEF IsRun
  <2>6. {i \in DOMAIN store : KeyTuple(store[i], <<1>>) = T[g]} = e(g) .. e(g + 1) - 1
    BY <1>1, <2>4, <2>5
  <2>. QED BY <2>1, <2>6
<1>8. SlidingReference(store, <<1>>, 2, in.param, Aggs)
        = FlattenSeq([g \in DOMAIN T |-> SlidingRows(OrderBy(Sel(g), ByTime), in.param, Aggs)])
  BY Zenon DEF SlidingReference, ByTime
<1> HIDE DEF T, Sel, keys
<1>9. ASSUME NEW g \in 1 .. c PROVE SlidingRows(OrderBy(Sel(g), ByTime), in.param, Aggs) = Rows(g)
  <2> DEFINE from == e(g)
             to == e(g + 1) - 1
  <2>1. /\ from \in 1 .. n /\ to \in 1 .. n /\ from <= to /\ e(g + 1) \in Int
        /\ \A i \in from .. to : RunOf(i) = from
        /\ \A i \in from .. to : KeyOf(i) = KeyOf(from)
    <3>1. IsRun(g)
      BY <1>2
    <3>2. e(g) \in 1 .. n /\ e(g + 1) \in 1 .. n + 1 /\ e(g) < e(g + 1)
      BY <3>1 DEF IsRun
    <3>3. from \in 1 .. n /\ to \in 1 .. n /\ from <= to /\ \A i \in from .. to : i \in 1 .. n
      BY <1>1, <3>2
    <3>. QED BY <3>1, <3>2, <3>3 DEF IsRun
  <2> HIDE DEF from, to
  <2>2. OrderBy(ElementsAt(store, from .. to), ByTime) = ElementsAt(store, from .. to)
    BY <2>1, RunInOrder
  <2>3. SlidingRows(ElementsAt(store, from .. to), in.param, Aggs)
          = [k \in 1 .. to - from + 1 |-> FrameRow(from + k - 1)]
    BY <2>1, RunRows
  <2>4. to - from + 1 = e(g + 1) - e(g)
    BY <2>1 DEF from, to
  <2>. QED BY <1>7, <2>2, <2>3, <2>4 DEF from, to
<1> DEFINE ss == [g \in 1 .. c |-> Rows(g)]
<1>10. SlidingReference(store, <<1>>, 2, in.param, Aggs) = FlattenSeq(ss)
  <2>1. [g \in DOMAIN T |-> SlidingRows(OrderBy(Sel(g), ByTime), in.param, Aggs)] = ss
    <3> HIDE DEF Rows
    <3>. QED BY <1>6, <1>9
  <2> HIDE DEF ss
  <2>. QED BY <1>8, <2>1
<1> DEFINE A == {FrameRow(i) : i \in 1 .. n}
           G == [k \in 0 .. c |-> [i \in 1 .. e(k + 1) - 1 |-> FrameRow(i)]]
<1> HIDE DEF Part
<1>a. \A g \in 1 .. c : e(g) \in 1 .. n /\ e(g + 1) \in 1 .. n + 1 /\ e(g) < e(g + 1)
  BY <1>2 DEF IsRun
<1>b. \A g \in 1 .. c + 1 : e(g) \in 1 .. n + 1
  BY <1>1, <1>2, <1>a
<1> HIDE DEF e, c, F
<1>11. ASSUME NEW g \in 1 .. c PROVE Rows(g) \in Seq(A) /\ Len(Rows(g)) = e(g + 1) - e(g)
  <2>1. e(g + 1) - e(g) \in Nat /\ \A k \in 1 .. e(g + 1) - e(g) : e(g) + k - 1 \in 1 .. n
    BY <1>1, <1>a
  <2>2. \A k \in 1 .. e(g + 1) - e(g) : FrameRow(e(g) + k - 1) \in A
    BY <2>1
  <2> DEFINE m == e(g + 1) - e(g)
  <2> HIDE DEF A, m
  <2>3. [k \in 1 .. m |-> FrameRow(e(g) + k - 1)] \in [1 .. m -> A]
    BY <2>2 DEF m
  <2>4. \A f \in [1 .. m -> A] : f \in Seq(A) /\ Len(f) = m
    BY <2>1 DEF m
  <2>. QED BY <2>3, <2>4 DEF m
<1> HIDE DEF A
<1>12. ss \in Seq(Seq(A)) /\ Len(ss) = c
  <2> HIDE DEF Rows
  <2>1. ss \in [1 .. c -> Seq(A)]
    BY <1>11
  <2>. QED BY <1>2, <2>1
<1>13. G[0] = <<>>
  <2>1. 1 .. e(0 + 1) - 1 = {} /\ 0 \in 0 .. c
    BY <1>2
  <2>2. G[0] = [i \in {} |-> FrameRow(i)]
    BY <2>1
  <2>. QED BY <2>2
<1>14. ASSUME NEW k \in 1 .. c PROVE G[k] = G[k - 1] \o ss[k]
  <2> DEFINE x == e(k) - 1
             y == e(k + 1) - 1
  <2>1. x \in Nat /\ y \in Nat /\ x < y /\ y <= n /\ k \in 0 .. c /\ k - 1 \in 0 .. c /\ (k - 1) + 1 = k
        /\ e(k + 1) - e(k) = y - x
    <3>1. e(k) \in 1 .. n /\ e(k + 1) \in 1 .. n + 1 /\ e(k) < e(k + 1)
      BY <1>a
    <3>2. e(k) \in Int /\ e(k + 1) \in Int /\ e(k) >= 1 /\ e(k + 1) <= n + 1 /\ n \in Int
      BY <1>1, <3>1
    <3>3. k \in 0 .. c /\ k - 1 \in 0 .. c /\ (k - 1) + 1 = k
      BY <1>2
    <3>. QED BY <3>1, <3>2, <3>3
  <2>2. G[k] = [i \in 1 .. y |-> FrameRow(i)] /\ G[k - 1] = [i \in 1 .. x |-> FrameRow(i)]
    BY <2>1
  <2>3. ss[k] = [i \in 1 .. y - x |-> FrameRow(x + i)]
    <3>1. e(k) \in Int /\ \A i \in 1 .. y - x : i \in Int
      <4>1. e(k) \in 1 .. n
        BY <1>a
      <4>. QED BY <4>1
    <3>2. \A i \in 1 .. y - x : e(k) + i - 1 = x + i
      <4> DEFINE w == y - x
      <4> HIDE DEF w
      <4>. QED BY <3>1
    <3>. QED BY <2>1, <3>2
  <2> HIDE DEF G, ss, x, y
  <2>4. G[k] \in Seq(A) /\ G[k - 1] \in Seq(A) /\ ss[k] \in Seq(A)
        /\ Len(G[k]) = y /\ Len(G[k - 1]) = x /\ Len(ss[k]) = y - x
    <3>1. \A i \in 1 .. n : FrameRow(i) \in A
      BY DEF A
    <3>2. G[k] \in [1 .. y -> A] /\ G[k - 1] \in [1 .. x -> A] /\ ss[k] \in [1 .. y - x -> A]
      <4>1. \A i \in 1 .. y : i \in 1 .. n
        BY <1>1, <2>1
      <4>2. \A i \in 1 .. x : i \in 1 .. n
        BY <1>1, <2>1
      <4>3. \A i \in 1 .. y - x : x + i \in 1 .. n
        BY <1>1, <2>1
      <4>. QED BY <2>2, <2>3, <3>1, <4>1, <4>2, <4>3
    <3>3. y - x \in Nat
      BY <2>1
    <3>4. \A m \in Nat : \A s : s \in [1 .. m -> A] => s \in Seq(A) /\ Len(s) = m
      <4> HIDE DEF A
      <4>. QED OBVIOUS
    <3>5. x \in Nat /\ y \in Nat
      BY <2>1
    <3> HIDE DEF A
    <3>6. G[k] \in Seq(A) /\ Len(G[k]) = y
      BY ONLY <3>2, <3>4, <3>5, Zenon
    <3>7. G[k - 1] \in Seq(A) /\ Len(G[k - 1]) = x
      BY ONLY <3>2, <3>4, <3>5, Zenon
    <3>8. ss[k] \in Seq(A) /\ Len(ss[k]) = y - x
      BY ONLY <3>2, <3>3, <3>4, Zenon
    <3>. QED BY <3>6, <3>7, <3>8
  <2>5. \A i \in 1 .. x : G[k][i] = G[k - 1][i]
    BY <2>1, <2>2
  <2>6. \A i \in 1 .. y - x : G[k][x + i] = ss[k][i]
    <3>1. \A i \in 1 .. y - x : x + i \in 1 .. y
      BY <2>1
    <3>. QED BY <2>2, <2>3, <3>1
  <2>7. y = x + (y - x)
    BY <2>1
  <2> DEFINE u == G[k]
             v == G[k - 1]
             w == ss[k]
  <2> HIDE DEF u, v, w
  <2>8. /\ v \in Seq(A) /\ w \in Seq(A) /\ u \in Seq(A) /\ Len(u) = Len(v) + Len(w)
        /\ \A i \in 1 .. Len(v) : u[i] = v[i]
        /\ \A i \in 1 .. Len(w) : u[Len(v) + i] = w[i]
    BY <2>4, <2>5, <2>6, <2>7 DEF u, v, w
  <2>9. u = v \o w
    BY ONLY <2>8, JoinIs
  <2>. QED BY <2>9 DEF u, v, w
<1>15. G[c] = ans
  <2>1. c \in 0 .. c /\ e(c + 1) - 1 = n
    BY <1>1, <1>2 DEF c, e
  <2>. QED BY <2>1
<1> HIDE DEF G, ss, ans
<1>16. JoinTable(G, ss)
  BY <1>12, <1>13, <1>14 DEF JoinTable
<1>17. FlattenSeq(ss) = G[c]
  BY <1>12, <1>16, FlattenIs
<1>. QED BY <1>10, <1>15, <1>17 DEF ans

-----------------------------------------------------------------------------
(***************************************************************************)
(* What next() hands out.                                                  *)
(***************************************************************************)
Built == [tuples |-> tuples, cells |-> cells]

\* The table holds the groups of the rows pulled so far.
Grouping ==
    in.mode = "Tumbling" /\ phase \in {"building", "ready"} =>
        /\ pos <= Len(in.rows) /\ (phase = "ready" => pos = Len(in.rows))
        /\ GroupedTo(Built, pos)

RowExact(i) == \A a \in DOMAIN Aggs : WriteCell(cells[i][a], Aggs[a].func) = RefCell(Aggs[a], FrameRows(i))

\* Every row swept so far has the aggregates over its frame.
Swept ==
    in.mode = "Sliding" /\ phase \in {"sweeping", "ready"} =>
        /\ Sorted
        /\ pos <= Len(store) /\ (phase = "ready" => pos = Len(store))
        /\ \A i \in 1 .. pos : RowExact(i)

\* Nothing is handed out before the rows are all there, and then one after
\* another.
Handed ==
    /\ phase # "ready" => out = <<>> /\ emitted = 0 /\ ~done
    /\ phase = "ready" => out = [k \in 1 .. emitted |-> OutRow(k)]
    /\ done => emitted = Len(cells)

AnswerInv == WindowInv /\ Grouping /\ Swept /\ Handed

\* The groups of rows depend on the input alone.
LEMMA GroupsStay ==
    ASSUME in' = in
    PROVE  \A b, p : GroupedTo(b, p)' <=> GroupedTo(b, p)
<1>1. Aggs' = Aggs
  BY DEF Aggs
<1>2. KeySeq' = KeySeq
  <2>1. \A t : Bucket(t)' = Bucket(t)
    BY DEF Bucket
  <2>. QED BY <2>1 DEF KeySeq, Time
<1>3. \A a : ValueSeq(a)' = ValueSeq(a)
  <2>1. \A a, row : Value(a, row)' = Value(a, row)
    BY <1>1 DEF Value, Col
  <2>. QED BY <2>1 DEF ValueSeq
<1>4. \A p : Firsts(p)' = Firsts(p)
  BY <1>2 DEF Firsts
<1>5. \A t, p : Members(t, p)' = Members(t, p)
  BY <1>2 DEF Members
<1>. QED BY <1>1, <1>2, <1>3, <1>4, <1>5 DEF GroupedTo

\* The frames of rows depend on the input and the store alone.
LEMMA RowsStay ==
    ASSUME in' = in, store' = store
    PROVE  Aggs' = Aggs /\ (Sorted' <=> Sorted) /\ \A i : FrameRows(i)' = FrameRows(i)
<1>1. \A i : RunOf(i)' = RunOf(i)
  BY DEF RunOf, RunStart, KeyOf
<1>2. \A i, s : FrameStart(i, s)' = FrameStart(i, s)
  BY DEF FrameStart
<1>. QED BY <1>1, <1>2 DEF FrameRows, Sorted, Aggs

\* What is handed out does not change while table, store and cells do not.
LEMMA OutStays ==
    ASSUME UNCHANGED <<in, tuples, store, cells>>
    PROVE  \A k : OutRow(k)' = OutRow(k)
BY DEF OutRow, Aggs

\* A new window has handed out nothing.
LEMMA AnswerInit == Init => AnswerInv
<1> SUFFICES ASSUME Init PROVE AnswerInv
  OBVIOUS
<1>1. WindowInv
  BY WindowInit
<1>2. Grouping /\ Swept /\ Handed
  BY DEF Init, Grouping, Swept, Handed
<1>. QED BY <1>1, <1>2 DEF AnswerInv

\* One turn of the sweep adds the aggregates of one row.
LEMMA AnswerSweep == AnswerInv /\ Sweep => Grouping' /\ Swept' /\ Handed'
<1> SUFFICES ASSUME AnswerInv, Sweep PROVE Grouping' /\ Swept' /\ Handed'
  OBVIOUS
<1> DEFINE i == pos + 1
<1>1. WindowInv /\ WindowInv' /\ Swept /\ Handed
  BY SweepStep DEF AnswerInv
<1>2. /\ phase = "sweeping" /\ pos < Len(store) /\ pos' = i
      /\ UNCHANGED <<in, hasChild, phase, tuples, store, emitted, done, out, opens>>
  BY DEF Sweep
<1>3. in.mode = "Sliding" /\ Sorted /\ \A j \in 1 .. pos : RowExact(j)
  BY <1>1, <1>2 DEF WindowInv, Control, Swept
<1>4. /\ pos \in Nat /\ cells \in Seq(CellRow) /\ Len(cells) = pos /\ Len(store) \in Nat
      /\ StoreOK /\ store \in Seq(RowSet(in))
  BY <1>1, <1>2, <1>3 DEF WindowInv, Counts, StoreOK
<1>5. /\ i <= Len(store) /\ pstart' <= i /\ lo' = FrameStart(i, pstart')
      /\ RunStart(i, pstart')
      /\ \A a \in DOMAIN Aggs : AccFor(acc'[a], a, lo', i)
  <2>1. FrameBounds' /\ AccsExact'
    BY <1>1, <1>2, <1>4 DEF WindowInv, LastFrame
  <2>2. \A x, a, f, t : AccFor(x, a, f, t)' <=> AccFor(x, a, f, t)
    BY <1>2, FramesStay
  <2>3. pstart' \in Nat \ {0}
    BY <1>1 DEF WindowInv, Carried
  <2>4. /\ i <= Len(store) /\ pstart' <= i /\ lo' = FrameStart(i, pstart')
        /\ \A r \in pstart' .. i : store[r][1] = store[i][1]
        /\ pstart' > 1 => store[pstart' - 1][1] # store[i][1]
    BY <1>2, <2>1 DEF FrameBounds, FrameStart
  <2>5. RunStart(i, pstart')
    BY <1>4, <2>3, <2>4 DEF RunStart, KeyOf
  <2>6. Aggs' = Aggs
    BY <1>2 DEF Aggs
  <2>. QED BY <1>2, <2>1, <2>2, <2>4, <2>5, <2>6 DEF AccsExact
<1>6. RunOf(i) = pstart' /\ FrameRows(i) = SubSeq(store, lo', i)
  <2>1. i \in Nat /\ RunStart(i, pstart')
    BY <1>4, <1>5
  <2> HIDE DEF i
  <2>2. RunOf(i) = pstart'
    BY <2>1, RunUnique
  <2>. QED BY <1>5, <2>2 DEF FrameRows
<1>7. cells' = Append(cells, [a \in DOMAIN Aggs |-> Finalize(a, acc'[a], lo', i)])
  <2> DEFINE fresh == i > 1 /\ store[i][1] # store[i - 1][1]
             start == IF fresh THEN i ELSE pstart
             from  == IF fresh THEN i ELSE lo
             to    == FrameStart(i, start)
             gone  == [k \in 1 .. to - from |-> from + k - 1]
             Moved(a) == Enter(a, LeaveAll(a, IF fresh THEN NoAcc[a] ELSE acc[a], gone), i)
  <2>1. /\ pstart' = start /\ acc' = [a \in DOMAIN Aggs |-> Moved(a)]
        /\ cells' = Append(cells, [a \in DOMAIN Aggs |-> Finalize(a, Moved(a), to, i)])
    BY Zenon DEF Sweep
  <2>2. lo' = to
    BY <1>5, <2>1
  <2> HIDE DEF Moved, to
  <2>. QED BY <2>1, <2>2
<1>8. lo' \in Nat \ {0} /\ lo' <= i /\ Frame(lo', i)
  <2>1. in.param \in Nat
    BY <1>4, Arguments DEF StoreOK
  <2>2. pstart' \in 1 .. i
    BY <1>5 DEF RunStart
  <2>. QED BY <1>4, <1>5, <2>1, <2>2 DEF FrameStart, Frame
<1>9. Aggs' = Aggs /\ Sorted' /\ \A j : FrameRows(j)' = FrameRows(j)
  BY <1>2, <1>3, RowsStay
<1>10. ASSUME NEW j \in 1 .. i PROVE RowExact(j)'
  <2>1. CASE j = i
    <3>1. \A a \in DOMAIN Aggs : cells'[i][a] = Finalize(a, acc'[a], lo', i)
      <4> DEFINE new == [a \in DOMAIN Aggs |-> Finalize(a, acc'[a], lo', i)]
      <4>1. \A a \in DOMAIN Aggs : new[a] = Finalize(a, acc'[a], lo', i)
        OBVIOUS
      <4> HIDE DEF new
      <4>2. cells'[i] = new
        BY <1>4, <1>7 DEF new
      <4>. QED BY <4>1, <4>2
    <3> HIDE DEF i
    <3>2. \A a \in DOMAIN Aggs : WriteCell(cells'[i][a], Aggs[a].func) = RefCell(Aggs[a], FrameRows(i))
      BY <1>4, <1>5, <1>6, <1>8, <3>1, FinalizeExact
    <3>. QED BY <1>9, <2>1, <3>2 DEF RowExact
  <2>2. CASE j # i
    <3>1. j \in 1 .. pos /\ cells'[j] = cells[j]
      <4> DEFINE new == [a \in DOMAIN Aggs |-> Finalize(a, acc'[a], lo', i)]
      <4> HIDE DEF new
      <4>1. cells' = Append(cells, new)
        BY <1>7 DEF new
      <4>. QED BY <1>4, <2>2, <4>1
    <3>2. RowExact(j)
      BY <1>3, <3>1
    <3>. QED BY <1>9, <3>1, <3>2 DEF RowExact
  <2>. QED BY <2>1, <2>2
<1>11. Swept'
  BY <1>2, <1>5, <1>9, <1>10 DEF Swept
<1>12. Grouping' /\ Handed'
  <2>1. phase' = "sweeping"
    BY <1>2
  <2>. QED BY <1>1, <1>2, <2>1 DEF Grouping, Handed
<1>. QED BY <1>11, <1>12

\* A batch of a tumbling window is added to its groups.
LEMMA AnswerTumble == AnswerInv /\ TumbleBatch => Grouping' /\ Swept' /\ Handed'
<1> SUFFICES ASSUME AnswerInv, TumbleBatch PROVE Grouping' /\ Swept' /\ Handed'
  OBVIOUS
<1> DEFINE top == IF pos + BatchRows < Len(in.rows) THEN pos + BatchRows ELSE Len(in.rows)
           c   == GroupBatch(Built, SubSeq(in.rows, pos + 1, top))
<1>1. /\ phase = "building" /\ pos < Len(in.rows)
      /\ pos' = top /\ tuples' = c.tuples /\ cells' = c.cells
      /\ UNCHANGED <<in, hasChild, phase, store, pstart, lo, acc, emitted, done, out, opens>>
  BY Zenon DEF TumbleBatch, Built
<1>2. WindowInv /\ Grouping /\ Handed
  BY DEF AnswerInv
<1>3. /\ in \in Inputs /\ in.mode = "Tumbling" /\ in.rows \in Seq(RowSet(in)) /\ pos \in Nat
      /\ BatchRows \in Nat \ {0} /\ GroupedTo(Built, pos)
  BY <1>1, <1>2, Arguments, WindowAssumption DEF WindowInv, StoreOK, Control, Counts, Grouping
<1>4. Built \in Groups
  BY <1>1, <1>2, <1>3 DEF WindowInv, Counts, Groups, Built
<1>5. top \in Nat /\ pos <= top /\ top <= Len(in.rows) /\ Len(in.rows) \in Nat
  BY <1>1, <1>3
<1>6. SubSeq(in.rows, pos + 1, top) \in Seq(RowSet(in))
  BY <1>3, <1>5
<1> HIDE DEF top
<1>7. c \in Groups /\ GroupedTo(c, top)
  BY <1>3, <1>4, <1>5, <1>6, GroupBatchType, GroupBatchExact
<1> HIDE DEF c
<1>8. Built' = c
  BY <1>1, <1>7 DEF Built, Groups
<1>9. Grouping'
  <2>1. Grouping' <=> (in'.mode = "Tumbling" /\ phase' \in {"building", "ready"} =>
                         /\ pos' <= Len(in'.rows) /\ (phase' = "ready" => pos' = Len(in'.rows))
                         /\ GroupedTo(Built, pos)')
    BY DEF Grouping
  <2>2. GroupedTo(Built, pos)'
    BY <1>1, <1>7, <1>8, GroupsStay
  <2>. QED BY <1>1, <1>5, <2>1, <2>2
<1>10. Swept' /\ Handed'
  BY <1>1, <1>2, <1>3 DEF Swept, Handed
<1>. QED BY <1>9, <1>10

\* Opening and closing drop what was handed out.
LEMMA AnswerOpen ==
    AnswerInv /\ (OpenTumbling \/ OpenSliding \/ OpenWithoutChild \/ Close)
    => Grouping' /\ Swept' /\ Handed'
<1> SUFFICES ASSUME AnswerInv, OpenTumbling \/ OpenSliding \/ OpenWithoutChild \/ Close
             PROVE  Grouping' /\ Swept' /\ Handed'
  OBVIOUS
<1>1. in \in Inputs /\ in' = in /\ Handed
  BY DEF AnswerInv, WindowInv, StoreOK, OpenTumbling, OpenSliding, OpenWithoutChild, Close
<1>2. CASE OpenTumbling
  <2>1. /\ in.mode = "Tumbling" /\ phase' = "building" /\ pos' = 0 /\ tuples' = <<>> /\ cells' = <<>>
        /\ out' = <<>> /\ emitted' = 0 /\ done' = FALSE
    BY <1>2 DEF OpenTumbling, Fresh
  <2>2. GroupedTo([tuples |-> <<>>, cells |-> <<>>], 0) /\ Len(in.rows) \in Nat
    BY <1>1, NoGroups, SeqTypes
  <2>3. GroupedTo(Built, pos)'
    <3>1. Built' = [tuples |-> <<>>, cells |-> <<>>]
      BY <2>1 DEF Built
    <3>. QED BY <1>1, <2>1, <2>2, <3>1, GroupsStay
  <2>. QED BY <1>1, <2>1, <2>2, <2>3 DEF Grouping, Swept, Handed
<1>3. CASE OpenSliding
  <2>1. /\ in.mode = "Sliding" /\ phase' = "sweeping" /\ pos' = 0 /\ store' = OrderBy(in.rows, SortKeys)
        /\ out' = <<>> /\ emitted' = 0 /\ done' = FALSE
    BY <1>3 DEF OpenSliding
  <2>2. Sorted' /\ Len(store') \in Nat
    <3>1. store' \in Seq(RowSet(in))
      BY <1>1, <2>1, StoreRows
    <3>. QED BY <1>1, <2>1, <3>1 DEF Sorted
  <2>. QED BY <1>1, <2>1, <2>2 DEF Grouping, Swept, Handed
<1>4. CASE OpenWithoutChild
  BY <1>1, <1>4 DEF OpenWithoutChild, Grouping, Swept, Handed
<1>5. CASE Close
  BY <1>5 DEF Close, Fresh, Grouping, Swept, Handed
<1>. QED BY <1>2, <1>3, <1>4, <1>5

\* A call of next() hands out the following rows, and ends when there are none.
LEMMA AnswerQuiet ==
    AnswerInv /\ (TumbleDone \/ SweepDone \/ Emit \/ End \/ UNCHANGED vars)
    => Grouping' /\ Swept' /\ Handed'
<1> SUFFICES ASSUME AnswerInv, TumbleDone \/ SweepDone \/ Emit \/ End \/ UNCHANGED vars
             PROVE  Grouping' /\ Swept' /\ Handed'
  OBVIOUS
<1>1. UNCHANGED <<in, hasChild, pos, tuples, cells, store, opens>>
  BY DEF TumbleDone, SweepDone, Emit, End, vars
<1>2. WindowInv /\ Grouping /\ Swept /\ Handed
  BY DEF AnswerInv
<1>3. /\ phase' = phase \/ (phase \in {"building", "sweeping"} /\ phase' = "ready")
      /\ phase = "building" => in.mode = "Tumbling"
      /\ phase = "sweeping" => in.mode = "Sliding"
  BY <1>2 DEF WindowInv, Control, TumbleDone, SweepDone, Emit, End, vars
<1>4. /\ phase # "ready" /\ phase' = "ready" =>
            IF in.mode = "Tumbling" THEN pos = Len(in.rows) ELSE pos = Len(store)
      /\ phase # "ready" => out' = out /\ emitted' = emitted /\ done' = done
  BY <1>2, <1>3 DEF TumbleDone, SweepDone, Emit, End, vars
<1>5. Grouping'
  <2>1. GroupedTo(Built, pos)' <=> GroupedTo(Built, pos)
    <3>1. Built' = Built
      BY <1>1 DEF Built
    <3>. QED BY <1>1, <3>1, GroupsStay
  <2>. QED BY <1>1, <1>2, <1>3, <1>4, <2>1 DEF Grouping
<1>6. Swept'
  <2>1. /\ Aggs' = Aggs /\ (Sorted' <=> Sorted) /\ \A i : FrameRows(i)' = FrameRows(i)
    BY <1>1, RowsStay
  <2>2. \A i : RowExact(i)' <=> RowExact(i)
    BY <1>1, <2>1 DEF RowExact
  <2>3. in.mode = "Sliding" => in.mode # "Tumbling"
    OBVIOUS
  <2>. QED BY <1>1, <1>2, <1>3, <1>4, <2>1, <2>2, <2>3 DEF Swept
<1>7. \A k : OutRow(k)' = OutRow(k)
  BY <1>1, OutStays
<1>8. emitted \in 0 .. Len(cells) /\ Len(cells) \in Nat /\ kOutBatch \in Nat \ {0}
  BY <1>2, WindowAssumption, LenProperties DEF WindowInv, Counts
<1>9. Handed'
  <2>1. CASE Emit
    <3> DEFINE m == IF Len(cells) - emitted < kOutBatch THEN Len(cells) - emitted ELSE kOutBatch
               A == {OutRow(k) : k \in 1 .. Len(cells)}
               s == [k \in 1 .. emitted |-> OutRow(k)]
               t == [k \in 1 .. m |-> OutRow(emitted + k)]
               u == [k \in 1 .. emitted + m |-> OutRow(k)]
               n == Len(cells)
    <3>1. /\ phase = "ready" /\ emitted < n /\ emitted' = emitted + m /\ out' = out \o t
          /\ phase' = "ready" /\ done' = done
      BY <2>1, Zenon DEF Emit
    <3>2. n \in Nat /\ emitted \in Nat /\ m \in Nat /\ emitted + m <= n /\ emitted < n
      BY <1>8, <3>1
    <3>3. out = s /\ (done => emitted = n)
      BY <1>2, <3>1 DEF Handed
    <3> HIDE DEF m, n
    <3>4. \A k \in 1 .. n : OutRow(k) \in A
      BY DEF n
    <3> HIDE DEF A
    <3>5. s \in Seq(A) /\ Len(s) = emitted /\ \A k \in 1 .. emitted : s[k] = OutRow(k)
      BY <3>2, <3>4
    <3>6. t \in Seq(A) /\ Len(t) = m /\ \A k \in 1 .. m : t[k] = OutRow(emitted + k)
      <4>1. \A k \in 1 .. m : OutRow(emitted + k) \in A
        BY <3>2, <3>4
      <4>. QED BY <3>2, <4>1
    <3>7. u \in Seq(A) /\ Len(u) = emitted + m /\ \A k \in 1 .. emitted + m : u[k] = OutRow(k)
      BY <3>2, <3>4
    <3>8. (\A k \in 1 .. emitted : u[k] = s[k]) /\ (\A k \in 1 .. m : u[emitted + k] = t[k])
      BY <3>2, <3>5, <3>6, <3>7
    <3> HIDE DEF s, t, u
    <3>9. u = s \o t
      BY <3>5, <3>6, <3>7, <3>8, JoinIs
    <3>10. out' = [k \in 1 .. emitted' |-> OutRow(k)']
      BY <1>7, <3>1, <3>3, <3>9 DEF u
    <3>11. ~done
      BY <3>2, <3>3
    <3>. QED BY <3>1, <3>10, <3>11 DEF Handed
  <2>2. CASE End
    <3>1. /\ phase = "ready" /\ emitted >= Len(cells) /\ phase' = phase /\ out' = out
          /\ emitted' = emitted
      BY <2>2 DEF End
    <3>2. emitted = Len(cells)
      BY <1>8, <3>1
    <3>. QED BY <1>1, <1>2, <1>7, <3>1, <3>2 DEF Handed
  <2>3. CASE TumbleDone \/ SweepDone \/ UNCHANGED vars
    <3>1. out' = out /\ emitted' = emitted /\ done' = done
      BY <2>3 DEF TumbleDone, SweepDone, vars
    <3>2. CASE phase' = phase
      BY <1>1, <1>2, <1>7, <3>1, <3>2 DEF Handed
    <3>3. CASE phase # "ready" /\ phase' = "ready"
      <4>1. out' = <<>> /\ emitted' = 0 /\ ~done'
        BY <1>2, <3>1, <3>3 DEF Handed
      <4>. QED BY <3>3, <4>1 DEF Handed
    <3>. QED BY <1>3, <3>2, <3>3
  <2>. QED BY <2>1, <2>2, <2>3
<1>. QED BY <1>5, <1>6, <1>9

\* The invariant is inductive.
LEMMA AnswerStep == AnswerInv /\ [Next]_vars => AnswerInv'
<1> SUFFICES ASSUME AnswerInv, [Next]_vars PROVE AnswerInv'
  OBVIOUS
<1>1. WindowInv'
  BY WindowStep DEF AnswerInv
<1>2. Grouping' /\ Swept' /\ Handed'
  <2>1. CASE OpenTumbling \/ OpenSliding \/ OpenWithoutChild \/ Close
    BY <2>1, AnswerOpen
  <2>2. CASE TumbleBatch
    BY <2>2, AnswerTumble
  <2>3. CASE Sweep
    BY <2>3, AnswerSweep
  <2>4. CASE TumbleDone \/ SweepDone \/ Emit \/ End \/ UNCHANGED vars
    BY <2>4, AnswerQuiet
  <2>. QED BY <2>1, <2>2, <2>3, <2>4 DEF Next
<1>. QED BY <1>1, <1>2 DEF AnswerInv

\* Once the rows are all there they are, one by one, the reference's.
LEMMA RowsAnswer ==
    ASSUME AnswerInv, phase = "ready"
    PROVE  Answer = [k \in 1 .. Len(cells) |-> OutRow(k)]
<1>1. WindowInv /\ Grouping /\ Swept /\ in \in Inputs
  BY DEF AnswerInv, WindowInv, StoreOK
<1>2. CASE in.mode = "Tumbling"
  <2>1. Built \in Groups /\ GroupedTo(Built, Len(in.rows))
    BY <1>1, <1>2 DEF WindowInv, Counts, Groups, Built, Grouping
  <2>2. Answer = [g \in 1 .. Len(Built.tuples) |->
                   Built.tuples[g] \o [a \in DOMAIN Aggs |-> WriteCell(Built.cells[g][a], Aggs[a].func)]]
    BY <1>1, <1>2, <2>1, GroupsAnswer DEF Answer
  <2>3. Len(tuples) = Len(cells)
    BY <1>1, <1>2 DEF WindowInv, Counts
  <2>4. Built.tuples = tuples /\ Built.cells = cells
    BY DEF Built
  <2>5. \A g : OutRow(g) = tuples[g] \o [a \in DOMAIN Aggs |-> WriteCell(cells[g][a], Aggs[a].func)]
    BY <1>2, Zenon DEF OutRow
  <2>. QED BY <2>2, <2>3, <2>4, <2>5, Zenon
<1>3. CASE in.mode # "Tumbling"
  <2>1. in.mode = "Sliding"
    BY <1>1, <1>3, Arguments
  <2>2. Sorted /\ Len(cells) = Len(store) /\ \A i \in 1 .. Len(store) : RowExact(i)
    BY <1>1, <2>1 DEF WindowInv, Counts, Swept
  <2>3. Answer = [i \in 1 .. Len(store) |-> FrameRow(i)]
    <3>1. Answer = SlidingReference(OrderBy(in.rows, SortKeys), <<1>>, 2, in.param, Aggs)
      BY <1>3, Zenon DEF Answer
    <3>. QED BY <2>2, <3>1, FramesAnswer DEF Sorted
  <2>4. ASSUME NEW i \in 1 .. Len(store) PROVE FrameRow(i) = OutRow(i)
    <3>1. OutRow(i) = store[i] \o [a \in DOMAIN Aggs |-> WriteCell(cells[i][a], Aggs[a].func)]
      BY <1>3, Zenon DEF OutRow
    <3>2. \A a \in DOMAIN Aggs : WriteCell(cells[i][a], Aggs[a].func) = RefCell(Aggs[a], FrameRows(i))
      BY <2>2, <2>4 DEF RowExact
    <3>3. [a \in DOMAIN Aggs |-> WriteCell(cells[i][a], Aggs[a].func)]
            = [a \in DOMAIN Aggs |-> RefCell(Aggs[a], FrameRows(i))]
      BY <3>2, Zenon
    <3>. QED BY <3>1, <3>3 DEF FrameRow
  <2>. QED BY <2>2, <2>3, <2>4, Zenon
<1>. QED BY <1>2, <1>3

\* The invariant implies the property.
LEMMA AnswerLike == AnswerInv => WindowLikeReference
<1> SUFFICES ASSUME AnswerInv PROVE WindowLikeReference
  OBVIOUS
<1>1. Handed /\ emitted \in 0 .. Len(cells) /\ Len(cells) \in Nat
  BY LenProperties DEF AnswerInv, WindowInv, Counts
<1>2. CASE phase # "ready"
  <2>1. out = <<>> /\ ~done
    BY <1>1, <1>2 DEF Handed
  <2>. QED BY <2>1 DEF WindowLikeReference
<1>3. CASE phase = "ready"
  <2> DEFINE n == Len(cells)
             A == {OutRow(k) : k \in 1 .. n}
             s == [k \in 1 .. emitted |-> OutRow(k)]
             t == [k \in 1 .. n |-> OutRow(k)]
  <2>1. Answer = t /\ out = s /\ (done => emitted = n)
    BY <1>1, <1>3, RowsAnswer DEF Handed
  <2>2. \A k \in 1 .. n : OutRow(k) \in A
    OBVIOUS
  <2>3. emitted \in Nat /\ n \in Nat /\ emitted <= n
    BY <1>1
  <2> HIDE DEF n, A
  <2>4. s \in Seq(A) /\ t \in Seq(A) /\ Len(s) = emitted /\ Len(t) = n
    BY <2>2, <2>3
  <2>5. \A k \in 1 .. Len(s) : s[k] = t[k]
    BY <2>3, <2>4
  <2>6. IsPrefix(s, t)
    <3>1. SubSeq(t, 1, emitted) = s
      <4> DEFINE w == SubSeq(t, 1, emitted)
      <4>1. w \in Seq(A) /\ Len(w) = emitted /\ \A k \in 1 .. emitted : w[k] = t[k]
        <5> HIDE DEF t
        <5>. QED BY <2>3, <2>4
      <4> HIDE DEF w, s, t
      <4>. QED BY <2>4, <2>5, <4>1 DEF w
    <3> HIDE DEF s, t
    <3>. QED BY <2>3, <2>4, <3>1 DEF IsPrefix
  <2>7. emitted = n => s = t
    OBVIOUS
  <2> HIDE DEF s, t
  <2>. QED BY <2>1, <2>6, <2>7 DEF WindowLikeReference
<1>. QED BY <1>2, <1>3

-----------------------------------------------------------------------------
\* What a caller has got from next() since open() is the beginning of what the
\* reference computes from the child's rows, and all of it once next() has
\* answered nullopt: tumbling and sliding, for any rows, aggregates, width or
\* number of preceding rows, batch sizes, and number of openings.
THEOREM WindowExact == Spec => []WindowLikeReference
<1>. QED BY AnswerInit, AnswerStep, AnswerLike, PTL DEF Spec
================================================================================
