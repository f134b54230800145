--------------------------- MODULE ReferenceOracle ---------------------------
(***************************************************************************)
(* The independent interpreter (oracle/reference_oracle.cpp): what each    *)
(* plan node computes over whole tables, with no batches, dictionaries,    *)
(* hash tables or cursors.  A table is a sequence of rows, a row a         *)
(* sequence of cells; strings are numbers in the order of their bytes, the *)
(* F64 numbers a model needs are integers and NaN, and an average is the   *)
(* pair of its sum and its count.                                          *)
(***************************************************************************)
EXTENDS Integers, Sequences, SequencesExt, Selections, Values

KeyTuple(row, cols) == [j \in DOMAIN cols |-> row[cols[j]]]

NullKey(tuple) == \E j \in DOMAIN tuple : tuple[j] = NULL

Nulls(n) == [i \in 1 .. n |-> NULL]
-----------------------------------------------------------------------------
(* Joins.  `width` is the number of build columns.                         *)

\* index[key] of a key without NULL: its build rows, in row order.
MatchingRows(build, bk, key) ==
    FoldLeft(LAMBDA rows, r : IF KeyTuple(build[r], bk) = key THEN Append(rows, r) ELSE rows,
             <<>>, [r \in DOMAIN build |-> r])

JoinRow(p, build, pk, bk, type, width) ==
    LET key     == KeyTuple(p, pk)
        matches == MatchingRows(build, bk, key)
    IN  IF ~NullKey(key) /\ matches # <<>>
          THEN [i \in DOMAIN matches |-> p \o build[matches[i]]]
          ELSE IF type = "Left" THEN <<p \o Nulls(width)>> ELSE <<>>

JoinReference(probe, build, pk, bk, type, width) ==
    FlattenSeq([r \in DOMAIN probe |-> JoinRow(probe[r], build, pk, bk, type, width)])

\* The nearest preceding build rows of one probe row: the greatest time not
\* after its own among the rows with its key, and within the tolerance.
Preceding(p, build, pk, bk, pt, bt) ==
    LET key == KeyTuple(p, pk)
        cand == {s \in DOMAIN build :
                   /\ ~NullKey(key) /\ p[pt] # NULL
                   /\ KeyTuple(build[s], bk) = key
                   /\ build[s][bt] # NULL /\ build[s][bt] <= p[pt]}
    IN  {s \in cand : \A r \in cand : build[r][bt] <= build[s][bt]}

AsofRow(p, build, pk, bk, pt, bt, type, tolerance, width) ==
    LET best == {s \in Preceding(p, build, pk, bk, pt, bt) :
                   tolerance # NULL => p[pt] - build[s][bt] <= tolerance}
    IN  IF best # {} THEN <<p \o build[CHOOSE s \in best : TRUE]>>
        ELSE IF type = "Left" THEN <<p \o Nulls(width)>> ELSE <<>>

AsofReference(probe, build, pk, bk, pt, bt, type, tolerance, width) ==
    FlattenSeq([r \in DOMAIN probe |->
        AsofRow(probe[r], build, pk, bk, pt, bt, type, tolerance, width)])
-----------------------------------------------------------------------------
(* ORDER BY: a key is its column, direction and NULL placement.            *)

\* NaN is greater than every number and equal to itself.
CmpLess(a, b) == a # NaN /\ (b = NaN \/ a < b)

\* NULL placement does not depend on the direction.
CellBefore(a, b, key) ==
    IF a = NULL \/ b = NULL
      THEN a # b /\ (key.nulls = "First") = (a = NULL)
      ELSE IF key.dir = "Asc" THEN CmpLess(a, b) ELSE CmpLess(b, a)

RowBefore(a, b, keys) ==
    \E i \in DOMAIN keys :
        /\ CellBefore(a[keys[i].col], b[keys[i].col], keys[i])
        /\ \A j \in 1 .. i - 1 : ~CellBefore(b[keys[j].col], a[keys[j].col], keys[j])
                                 /\ ~CellBefore(a[keys[j].col], b[keys[j].col], keys[j])

\* std::stable_sort on row numbers: place k gets the row that k - 1 others
\* come before, a row before the later ones it ties with.
OrderBy(rows, keys) ==
    LET Earlier(i, j) == \/ RowBefore(rows[i], rows[j], keys)
                         \/ i < j /\ ~RowBefore(rows[j], rows[i], keys)
        places == {<<i, Cardinality({j \in DOMAIN rows : Earlier(j, i)}) + 1>> : i \in DOMAIN rows}
    IN  [k \in DOMAIN rows |-> rows[(CHOOSE p \in places : p[2] = k)[1]]]
-----------------------------------------------------------------------------
(* Aggregates: a specification is a function and its input column.         *)

RefMin(a, b) == IF CmpLess(b, a) THEN b ELSE a
RefMax(a, b) == IF CmpLess(a, b) THEN b ELSE a
RefAdd(a, b) == IF a = NaN \/ b = NaN THEN NaN ELSE a + b

\* One more value in an accumulator.
RefStep(func, a, v) ==
    IF func = "Min" THEN RefMin(a, v) ELSE IF func = "Max" THEN RefMax(a, v) ELSE RefAdd(a, v)

RefTotal(func, vals) == FoldLeft(LAMBDA a, v : RefStep(func, a, v), vals[1], Tail(vals))

\* One aggregate over rows in order: init_acc, the fold, the final cell.
RefCell(spec, rows) ==
    LET cells == [i \in DOMAIN rows |-> IF spec.func = "CountStar" THEN 0 ELSE rows[i][spec.col]]
        vals  == SelectedBy(cells, LAMBDA v : v # NULL)
    IN  IF spec.func = "CountStar"  THEN Len(rows)
        ELSE IF spec.func = "Count" THEN Len(vals)
        ELSE IF vals = <<>>         THEN NULL
        ELSE IF spec.func = "Avg"   THEN <<RefTotal(spec.func, vals), Len(vals)>>
        ELSE RefTotal(spec.func, vals)

\* The key tuples of a table in first-seen order.
GroupTuples(rows, KeyOf(_)) ==
    LET keys == [i \in DOMAIN rows |-> KeyOf(rows[i])]
    IN  ElementsAt(keys, {i \in DOMAIN keys : \A j \in 1 .. i - 1 : keys[j] # keys[i]})

GroupRows(rows, KeyOf(_), aggs) ==
    LET tuples == GroupTuples(rows, KeyOf)
    IN  [g \in DOMAIN tuples |->
            LET members == SelectedBy(rows, LAMBDA row : KeyOf(row) = tuples[g])
            IN  tuples[g] \o [a \in DOMAIN aggs |-> RefCell(aggs[a], members)]]

\* Without keys there is one row, even over no rows.
GroupByReference(rows, keys, aggs) ==
    IF keys = <<>> THEN << [a \in DOMAIN aggs |-> RefCell(aggs[a], rows)] >>
    ELSE GroupRows(rows, LAMBDA row : KeyTuple(row, keys), aggs)
-----------------------------------------------------------------------------
(* Windows.                                                                *)

\* C++ division truncates towards zero.
TruncDiv(t, w) == IF t >= 0 THEN t \div w ELSE -((-t) \div w)

BucketOf(t, w) == IF t = NULL THEN NULL ELSE TruncDiv(t, w) * w

TumblingReference(rows, keys, time, w, aggs) ==
    GroupRows(rows, LAMBDA row : Append(KeyTuple(row, keys), BucketOf(row[time], w)), aggs)

\* The frame of a row: itself and at most P rows before it in its partition.
SlidingRows(part, P, aggs) ==
    [p \in DOMAIN part |->
        LET frame == SubSeq(part, IF p - 1 > P THEN p - P ELSE 1, p)
        IN  part[p] \o [a \in DOMAIN aggs |-> RefCell(aggs[a], frame)]]

SlidingReference(rows, keys, time, P, aggs) ==
    LET tuples  == GroupTuples(rows, LAMBDA row : KeyTuple(row, keys))
        Part(g) == SelectedBy(rows, LAMBDA row : KeyTuple(row, keys) = tuples[g])
        byTime  == <<[col |-> time, dir |-> "Asc", nulls |-> "Last"]>>
    IN  FlattenSeq([g \in DOMAIN tuples |-> SlidingRows(OrderBy(Part(g), byTime), P, aggs)])
===============================================================================
