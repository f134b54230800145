----------------------------- MODULE OperatorTree -----------------------------
(***************************************************************************)
(* The operator contract over a whole tree (ops/operator.h): open, then    *)
(* next until nullopt, then close, each call passing down to the children. *)
(* HashJoin, AsofJoin and Window are one node, "Materialized": it drains   *)
(* its children and returns what `Answer` says, which is what their own    *)
(* modules show of them.  (The joins drain only their build side at open   *)
(* and their probe side as they go; the children cannot tell the           *)
(* difference.)  The children of AsofJoin are Sorts that it makes itself.  *)
(***************************************************************************)
EXTENDS AggregateNode, SqlExpr

FilterNode(kid, pred)    == [op |-> "Filter", kid |-> kid, pred |-> pred]
ProjectNode(kid, schema, exprs) ==
    [op |-> "Project", kid |-> kid, schema |-> schema, exprs |-> exprs]
SortNode(kid, schema, keys) ==
    [op |-> "Sort", kid |-> kid, schema |-> schema, keys |-> keys,
     opened |-> FALSE, mat |-> <<>>, perm |-> <<>>, emit |-> 0]
AggregateOp(kid, schema, keys, aggs) ==
    [op |-> "Aggregate", kid |-> kid, schema |-> schema, keys |-> keys, aggs |-> aggs,
     opened |-> FALSE, st |-> NoGroups, emit |-> 0]
MaterializedNode(kids, schema, spec) ==
    [op |-> "Materialized", kids |-> kids, schema |-> schema, spec |-> spec,
     opened |-> FALSE, rows |-> <<>>, emit |-> 0]

RECURSIVE SchemaOf(_)
SchemaOf(t) ==
    CASE t.op = "Filter"    -> SchemaOf(t.kid)
      [] t.op = "Aggregate" -> AggSchema(t.schema, t.keys, t.aggs)
      [] t.op \in {"Scan", "Project", "Sort", "Materialized"} -> t.schema

\* An average leaves the aggregate as the quotient of its sum and its count.
FinishAverages(row, aggs, first, schema) ==
    [j \in DOMAIN row |->
        IF j < first \/ row[j] = NULL \/ aggs[j - first + 1].func # "Avg" THEN row[j]
        ELSE Average(row[j], schema[aggs[j - first + 1].col].type = "F64")]

FinishRows(rows, aggs, first, schema) ==
    [i \in DOMAIN rows |-> FinishAverages(rows[i], aggs, first, schema)]

\* The answers of the reference for the nodes with modules of their own.
Answer(spec, in, schemas) ==
    CASE spec.kind = "Join" ->
           JoinReference(in[1], in[2], spec.left, spec.right, spec.type, Len(schemas[2]))
      [] spec.kind = "AsofJoin" ->
           AsofReference(in[1], in[2], spec.left, spec.right, spec.leftTime, spec.rightTime,
                         spec.type, spec.tolerance, Len(schemas[2]))
      [] spec.kind = "Tumbling" ->
           FinishRows(TumblingReference(in[1], spec.keys, spec.time, spec.param, spec.aggs),
                      spec.aggs, Len(spec.keys) + 2, schemas[1])
      [] spec.kind = "Sliding" ->
           FinishRows(SlidingReference(in[1], spec.keys, spec.time, spec.param, spec.aggs),
                      spec.aggs, Len(schemas[1]) + 1, schemas[1])

\* sort_keys: AsofJoin and the sliding Window sort by keys and time first.
KeysAndTime(keys, time) ==
    [j \in 1 .. Len(keys) + 1 |->
        [col |-> IF j <= Len(keys) THEN keys[j] ELSE time, dir |-> "Asc", nulls |-> "Last"]]

\* AsofJoin keeps its Sorts, one over each input, as long as it lives.
SortedInput(kid, keys, time) == SortNode(kid, SchemaOf(kid), KeysAndTime(keys, time))

\* The sliding Window's Sort is part of the state that close() destroys.
SortedIn(spec, in) ==
    IF spec.kind = "Sliding" THEN << OrderBy(in[1], KeysAndTime(spec.keys, spec.time)) >> ELSE in
-----------------------------------------------------------------------------
RECURSIVE Open(_), Next(_), Close(_), Drain(_)

RowsOf(batches) == FlattenSeq([i \in DOMAIN batches |-> ToRows(batches[i])])

\* Calls next until nullopt.
Prepend(b, rest) == [rest EXCEPT !.batches = <<b>> \o @]

DrainFrom(r) ==
    IF r.some THEN Prepend(r.batch, Drain(r.tree)) ELSE [tree |-> r.tree, batches |-> <<>>]

Drain(t) == DrainFrom(Next(t))

\* A breaker has drained its children: it closes them and builds its state.
BuildMaterialized(t, drained) ==
    LET in == [i \in DOMAIN t.kids |-> RowsOf(drained[i].batches)]
    IN  [t EXCEPT !.opened = TRUE, !.emit = 0,
                  !.kids = [i \in DOMAIN t.kids |-> Close(drained[i].tree)],
                  !.rows = Answer(t.spec, SortedIn(t.spec, in),
                                  [i \in DOMAIN t.kids |-> SchemaOf(t.kids[i])])]

BuildUnary(t, drained) ==
    LET closed == [t EXCEPT !.kid = Close(drained.tree)]
    IN  IF t.op = "Sort" THEN SortBuild(closed, drained.batches)
        ELSE AggregateBuild(closed, drained.batches)

Open(t) ==
    CASE t.op = "Scan" -> [t EXCEPT !.cursor = t.start]
      [] t.op \in {"Filter", "Project"} -> [t EXCEPT !.kid = Open(@)]
      [] t.op \in {"Sort", "Aggregate", "Materialized"} /\ t.opened -> t
      [] t.op = "Materialized" /\ ~t.opened ->
           BuildMaterialized(t, [i \in DOMAIN t.kids |-> Drain(Open(t.kids[i]))])
      [] t.op \in {"Sort", "Aggregate"} /\ ~t.opened -> BuildUnary(t, Drain(Open(t.kid)))

\* Filter pulls until some row passes: it never returns an empty batch.
FilterPass(t, b, pass) == IF pass = <<>> THEN Next(t) ELSE Give(t, FilterBatch(b, pass))

FilterNext(t, r) ==
    IF r.some THEN FilterPass([t EXCEPT !.kid = r.tree], r.batch, Passing(Eval(t.pred, r.batch, "Vector")))
    ELSE Done([t EXCEPT !.kid = r.tree])

ProjectNext(t, r) ==
    IF r.some THEN Give([t EXCEPT !.kid = r.tree], ProjectBatch(r.batch, t.exprs))
    ELSE Done([t EXCEPT !.kid = r.tree])

MaterializedNext(t) ==
    LET m == IF Len(t.rows) - t.emit < kOutBatch THEN Len(t.rows) - t.emit ELSE kOutBatch
    IN  IF t.emit >= Len(t.rows) THEN Done(t)
        ELSE Give([t EXCEPT !.emit = @ + m],
                  [rows |-> m,
                   cols |-> FromRows(t.schema, SubSeq(t.rows, t.emit + 1, t.emit + m))])

Next(t) ==
    CASE t.op = "Scan"         -> ScanNext(t)
      [] t.op = "Filter"       -> FilterNext(t, Next(t.kid))
      [] t.op = "Project"      -> ProjectNext(t, Next(t.kid))
      [] t.op = "Sort"         -> SortNext(t)
      [] t.op = "Aggregate"    -> AggregateNext(t)
      [] t.op = "Materialized" -> MaterializedNext(t)

\* Mutant of ClosesProbe: the probe child is taken to be closed already.
ClosesProbeNever(t) == FALSE

\* The probe child of a join may still be open.
ClosesProbe(t) == t.opened /\ t.spec.kind \in {"Join", "AsofJoin"}

\* A breaker takes its other children to be closed and drops what it has built;
\* so does AsofJoin with the Sort of its build side.
Close(t) ==
    CASE t.op = "Scan" -> [t EXCEPT !.cursor = t.end]
      [] t.op \in {"Filter", "Project"} -> [t EXCEPT !.kid = Close(@)]
      [] t.op = "Sort" -> SortClose(t)
      [] t.op = "Aggregate" -> AggregateClose(t)
      [] t.op = "Materialized" ->
           [t EXCEPT !.opened = FALSE, !.rows = <<>>,
                     !.kids = IF ClosesProbe(t) THEN [@ EXCEPT ![1] = Close(@)] ELSE @]

-----------------------------------------------------------------------------
(* An exception out of open(): no operator catches it.                     *)

\* The tree after open() and up to k calls of next(), and their batches.
RECURSIVE Pulled(_, _)
Pulled(t, k) ==
    IF k = 0 THEN [tree |-> t, batches |-> <<>>]
    ELSE LET r == Next(t)
         IN  IF r.some THEN Prepend(r.batch, Pulled(r.tree, k - 1))
             ELSE [tree |-> r.tree, batches |-> <<>>]

Taken(t) == {Pulled(Open(t), k) : k \in 0 .. 1}

\* The child drained and closed.
Finished(t) == LET Closed(r) == [r EXCEPT !.tree = Close(@)] IN Closed(Drain(Open(t)))

\* opened_ is set before the child is drained: the breaker stays open over
\* what it has built so far.  (A Sort that throws while it orders its rows has
\* the rows and no permutation; what next() would read of it is not defined.)
HalfBuilt(t, taken) ==
    IF t.op = "Sort" THEN [t EXCEPT !.kid = taken.tree, !.opened = TRUE]
    ELSE AggregateBuild([t EXCEPT !.kid = taken.tree], taken.batches)

\* The trees an exception can leave.  A breaker throws while it drains or after
\* it, or its child throws when it is opened; Filter and Project only pass it on.
\* The joins drain the build side first, then open() only opens the other.
RECURSIVE Interrupted(_), Stopped(_)

\* How far a drain has come: the child's open(), some batches, or the end.
Stopped(t) == {[tree |-> x, batches |-> <<>>] : x \in Interrupted(t)}
              \union Taken(t) \union {Finished(t)}

Interrupted(t) ==
    CASE t.op = "Scan" -> {}
      [] t.op \in {"Filter", "Project"} -> {[t EXCEPT !.kid = x] : x \in Interrupted(t.kid)}
      [] t.op \in {"Sort", "Aggregate"} ->
           {HalfBuilt(t, x) : x \in Stopped(t.kid)}
      [] t.op = "Materialized" ->
           LET build  == Len(t.kids)
               opened == [t EXCEPT !.opened = TRUE]
               built  == [opened EXCEPT !.kids[build] = Finished(@).tree]
           IN  {[opened EXCEPT !.kids[build] = x.tree] : x \in Stopped(t.kids[build])}
               \union {[built EXCEPT !.kids[1] = x] :
                         x \in IF build = 1 THEN {} ELSE Interrupted(t.kids[1])}

\* drain_operator.
DrainOperator(t) == RowsOf(Drain(Open(t)).batches)
===============================================================================
