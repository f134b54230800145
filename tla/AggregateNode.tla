---------------------------- MODULE AggregateNode ----------------------------
(***************************************************************************)
(* Aggregate (ops/aggregate.cpp) as a node of the operator tree: open()    *)
(* drains the child into cells, one row of them without group keys and one *)
(* per group with them, and next() writes the cells as columns.  Strings,  *)
(* as keys and under MIN and MAX, live as codes of the operator's own      *)
(* dictionary.  The group ids are those KeyIndex promises: first-seen.     *)
(***************************************************************************)
EXTENDS Operators

\* A spec is [func, col, name].  SUM and AVG of strings are type errors.
AggResultType(func, in) ==
    CASE func \in {"CountStar", "Count"}          -> "I64"
      [] func \in {"Sum", "Avg"} /\ in = "STR"    -> "Invalid"
      [] func = "Sum" /\ in # "STR"               -> IF in = "F64" THEN "F64" ELSE "I64"
      [] func = "Avg" /\ in # "STR"               -> "F64"
      [] func \in {"Min", "Max"}                  -> in

AggInput(spec, schema) == IF spec.func = "CountStar" THEN "I64" ELSE schema[spec.col].type

AggSchema(schema, keys, aggs) ==
    [j \in DOMAIN keys |-> schema[keys[j]]] \o
    [a \in DOMAIN aggs |->
        [name |-> aggs[a].name, type |-> AggResultType(aggs[a].func, AggInput(aggs[a], schema))]]

\* The lane of an input row, NULL if it is not valid; 0 for COUNT(*).
ReadCol(spec, b, k) ==
    IF spec.func = "CountStar" THEN 0
    ELSE IF Valid(b.cols[spec.col], k) THEN b.cols[spec.col].data[k] ELSE NULL

TakesString(func, s, cur, dict) == IF func = "Min" THEN s < cur ELSE s > cur

\* scatter_str_minmax: the extremum is a code of the owned dictionary.
ScatterStr(acc, func, s) ==
    LET take == acc.cell.cnt = 0 \/ TakesString(func, s, At(acc.dict, acc.cell.val), acc.dict)
        dict == IF take THEN Intern(acc.dict, s) ELSE acc.dict
    IN  [dict |-> dict,
         cell |-> [cnt |-> acc.cell.cnt + 1,
                   val |-> IF take THEN CodeOf(dict, s) ELSE acc.cell.val]]

StrMinMax(spec, b) == spec.func \in {"Min", "Max"} /\ b.cols[spec.col].type = "STR"

\* All rows `ks` of a batch folded into one cell; the dictionary may grow.
ScatterRows(acc, spec, b, ks) ==
    FoldLeft(LAMBDA st, k :
                 IF StrMinMax(spec, b)
                   THEN IF Valid(b.cols[spec.col], k)
                          THEN ScatterStr(st, spec.func, CellAt(b.cols[spec.col], k)) ELSE st
                   ELSE [st EXCEPT !.cell = FoldCell(st.cell, spec.func, ReadCol(spec, b, k))],
             acc, ks)

-----------------------------------------------------------------------------
(* The reductions of the keyless path (ops/agg_kernels.cpp): full          *)
(* registers lane by lane, then the scalar tail.                           *)

InRegisters(v) == (Len(v) \div Lanes) * Lanes

\* The order of the additions does not matter for exact numbers.
SumImpl(v) == FoldLeft(Plus, 0, v)

\* Without a full register, or else seeded by the first one.
MinImpl(v) == CHOOSE m \in ToSet(v) : \A x \in ToSet(v) : m <= x

MaxImpl(v) == CHOOSE m \in ToSet(v) : \A x \in ToSet(v) : m >= x

\* NaN lanes are masked to plus infinity, NaN elements of the tail skipped:
\* the minimum is NaN only if no real number was seen.
MinF64Impl(v) ==
    LET full   == SubSeq(v, 1, InRegisters(v))
        masked == {MaxInt} \cup (ToSet(full) \ {NaN})
        begin  == [m |-> Min(masked), seen |-> \E i \in DOMAIN full : full[i] # NaN]
        end    == FoldLeft(LAMBDA s, x : IF x = NaN THEN s
                                         ELSE [m |-> IF ~s.seen \/ x < s.m THEN x ELSE s.m, seen |-> TRUE],
                           begin, SubSeq(v, InRegisters(v) + 1, Len(v)))
    IN  IF end.seen THEN end.m ELSE NaN

\* Masked to minus infinity; one NaN anywhere makes the maximum NaN.
MaxF64Impl(v) ==
    IF NaN \in ToSet(v) THEN NaN ELSE Max({MinInt} \cup ToSet(v))

\* What NULL lanes are folded as, and the kernel for the rest.
Identity(func, isFloat) == InitCell(func, isFloat).val

Kernel(func, isFloat, v) ==
    IF func = "Min" THEN IF isFloat THEN MinF64Impl(v) ELSE MinImpl(v)
    ELSE IF func = "Max" THEN IF isFloat THEN MaxF64Impl(v) ELSE MaxImpl(v)
    ELSE SumImpl(v)

\* The scalar twins (ops/agg_scalar.cpp): one loop each.
SumScalar(v) == FoldLeft(Plus, 0, v)

MinScalar(v) == FoldLeft(LAMBDA m, x : IF x < m THEN x ELSE m, v[1], v)

MaxScalar(v) == FoldLeft(LAMBDA m, x : IF x > m THEN x ELSE m, v[1], v)

\* NaN as long as no real number has been seen.
MinF64Scalar(v) ==
    FoldLeft(LAMBDA m, x : IF x = NaN THEN m ELSE IF m = NaN THEN x ELSE IF x < m THEN x ELSE m, NaN, v)

\* The first NaN ends it.
MaxF64Scalar(v) ==
    FoldLeft(LAMBDA m, x : IF NaN \in {m, x} THEN NaN ELSE IF x > m THEN x ELSE m, MinInt, v)

ScalarKernel(func, isFloat, v) ==
    IF func = "Min" THEN IF isFloat THEN MinF64Scalar(v) ELSE MinScalar(v)
    ELSE IF func = "Max" THEN IF isFloat THEN MaxF64Scalar(v) ELSE MaxScalar(v)
    ELSE SumScalar(v)

\* The lanes with the NULL ones folded as the identity.
Folded(lanes, func, isFloat) ==
    [k \in DOMAIN lanes |-> IF lanes[k] = NULL THEN Identity(func, isFloat) ELSE lanes[k]]

\* One batch reduced into the cell, across batches by the total order.
Reduce(cell, spec, isFloat, b) ==
    LET lanes == [k \in 1 .. b.rows |-> ReadCol(spec, b, k)]
        total == Kernel(spec.func, isFloat, Folded(lanes, spec.func, isFloat))
    IN  [cnt |-> cell.cnt + Len(SelectSeq(lanes, LAMBDA v : v # NULL)),
         val |-> CASE spec.func \in {"Count", "CountStar"} -> cell.val
                   [] spec.func \in {"Sum", "Avg"} -> Plus(cell.val, total)
                   [] spec.func = "Min" -> MinTotal(cell.val, total)
                   [] spec.func = "Max" -> MaxTotal(cell.val, total)]

GlobalBatch(st, b, aggs, floats) ==
    FoldLeft(LAMBDA s, a :
                 IF StrMinMax(aggs[a], b)
                   THEN LET r == ScatterRows([cell |-> s.cells[1][a], dict |-> s.dict], aggs[a], b,
                                             [k \in 1 .. b.rows |-> k])
                        IN  [s EXCEPT !.cells[1][a] = r.cell, !.dict = r.dict]
                   ELSE [s EXCEPT !.cells[1][a] = Reduce(@, aggs[a], floats[a], b)],
             st, [a \in DOMAIN aggs |-> a])

\* canonicalize_str_key for each STR key column; other keys pass through.
CanonKeys(st, b, keys) ==
    FoldLeft(LAMBDA s, j :
        LET c == b.cols[keys[j]]
            d == IF c.type # "STR" THEN s.dict
                 ELSE FoldLeft(LAMBDA dict, k : IF Valid(c, k) THEN Intern(dict, CellAt(c, k)) ELSE dict,
                               s.dict, [k \in 1 .. b.rows |-> k])
            word(k) == IF ~Valid(c, k) THEN NULL
                       ELSE IF c.type = "STR" THEN CodeOf(d, CellAt(c, k)) ELSE c.data[k]
        IN  [dict |-> d, words |-> Append(s.words, [k \in 1 .. b.rows |-> word(k)])],
        [dict |-> st.dict, words |-> <<>>], [j \in DOMAIN keys |-> j])

GroupedBatch(st, b, keys, aggs, floats) ==
    LET canon    == CanonKeys(st, b, keys)
        tuple(k) == [j \in DOMAIN keys |-> canon.words[j][k]]
        tuples   == FoldLeft(LAMBDA ts, k : IF tuple(k) \in ToSet(ts) THEN ts ELSE Append(ts, tuple(k)),
                             st.tuples, [k \in 1 .. b.rows |-> k])
        rowsOf   == [g \in DOMAIN tuples |->
                        SelectSeq([k \in 1 .. b.rows |-> k], LAMBDA k : tuple(k) = tuples[g])]
        cells    == [g \in DOMAIN tuples |-> IF g <= Len(st.tuples) THEN st.cells[g]
                        ELSE [a \in DOMAIN aggs |-> InitCell(aggs[a].func, floats[a])]]
        Scatter(s, a) ==
            FoldLeft(LAMBDA x, g :
                         LET r == ScatterRows([cell |-> x.cells[g][a], dict |-> x.dict],
                                              aggs[a], b, rowsOf[g])
                         IN  [x EXCEPT !.cells[g][a] = r.cell, !.dict = r.dict],
                     s, [g \in DOMAIN tuples |-> g])
    IN  FoldLeft(Scatter, [tuples |-> tuples, cells |-> cells, dict |-> canon.dict],
                 [a \in DOMAIN aggs |-> a])

\* The state before any group.
NoGroups == [tuples |-> <<>>, cells |-> <<>>, dict |-> <<>>]

\* open() and drain_and_build over the batches of the child.
AggregateBuild(t, batches) ==
    LET floats == [a \in DOMAIN t.aggs |-> AggInput(t.aggs[a], t.schema) = "F64"]
        global == [NoGroups EXCEPT !.cells = <<[a \in DOMAIN t.aggs |-> InitCell(t.aggs[a].func, floats[a])]>>]
    IN  [t EXCEPT !.opened = TRUE, !.emit = 0,
            !.st = IF t.keys = <<>>
                     THEN FoldLeft(LAMBDA s, b : GlobalBatch(s, b, t.aggs, floats), global, batches)
                     ELSE FoldLeft(LAMBDA s, b : GroupedBatch(s, b, t.keys, t.aggs, floats), NoGroups, batches)]

\* The quotient of AVG, in halves.
Average(pair, isFloat) ==
    IF pair[1] = NaN THEN NaN ELSE TruncDiv(IF isFloat THEN pair[1] ELSE 2 * pair[1], pair[2])

AggLane(cell, func, isFloat) ==
    LET v == WriteCell(cell, func)
    IN  IF func = "Avg" /\ v # NULL THEN Average(v, isFloat) ELSE v

\* The key cells of groups emit + 1 .. emit + m, then their aggregate cells;
\* without keys the one row there is, also over no input.
AggregateBatch(t, emit, m) ==
    LET keyCol(j) == Fill(t.schema[t.keys[j]].type,
                          [r \in 1 .. m |-> t.st.tuples[emit + r][j]], t.st.dict)
        in(a)     == AggInput(t.aggs[a], t.schema)
        aggCol(a) == Fill(AggResultType(t.aggs[a].func, in(a)),
                          [r \in 1 .. m |-> AggLane(t.st.cells[emit + r][a], t.aggs[a].func,
                                                    in(a) = "F64")], t.st.dict)
    IN  [rows |-> m,
         cols |-> [j \in DOMAIN t.keys |-> keyCol(j)] \o [a \in DOMAIN t.aggs |-> aggCol(a)]]

AggregateNext(t) ==
    LET G == Len(t.st.cells)
        m == IF G - t.emit < kOutBatch THEN G - t.emit ELSE kOutBatch
    IN  IF t.emit >= G THEN Done(t)
        ELSE Give([t EXCEPT !.emit = @ + m], AggregateBatch(t, t.emit, m))

AggregateClose(t) == [t EXCEPT !.opened = FALSE, !.st = NoGroups]
===============================================================================
