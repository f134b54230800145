--------------------------------- MODULE Plan ---------------------------------
(***************************************************************************)
(* Query plans (plan/plan.cpp): nodes that know their output schema, the   *)
(* builder's checks, the lowering to an operator tree, and which plans the *)
(* parallel engine runs by morsels (exec/parallel.cpp).  A builder call    *)
(* that fails throws and leaves the builder it was made on unchanged.      *)
(***************************************************************************)
EXTENDS OperatorTree

CONSTANT Tables   \* name -> [schema, cols]

NumRows(n) == IF Tables[n].cols = <<>> THEN 0 ELSE Len(Tables[n].cols[1].data)
-----------------------------------------------------------------------------
(* Validation.                                                             *)

RECURSIVE ValidExpr(_, _)
ValidExpr(e, schema) ==
    CASE e.kind = "Invalid" -> FALSE
      [] e.kind = "Literal" -> TRUE
      [] e.kind = "Column"  -> e.col \in DOMAIN schema /\ schema[e.col].type = e.type
      [] e.kind \in {"Arith", "Cmp", "Logic", "Cast"} ->
           \A i \in DOMAIN e.kids : ValidExpr(e.kids[i], schema)

\* A ColRef is an index or a name; resolve gives the first column so called,
\* or 0 where the code throws.
Resolve(ref, schema) ==
    LET named == {i \in DOMAIN schema : schema[i].name = ref.name}
    IN  IF ~ref.byName THEN (IF ref.index \in DOMAIN schema THEN ref.index ELSE 0)
        ELSE IF named = {} THEN 0 ELSE Min(named)

ResolveAll(refs, schema) == [i \in DOMAIN refs |-> Resolve(refs[i], schema)]

Resolved(cols) == \A i \in DOMAIN cols : cols[i] # 0

IsTimeType(t) == t \in {"TS", "I32", "I64"}

ValidAggs(aggs, schema) ==
    /\ aggs # <<>>
    /\ \A a \in DOMAIN aggs :
         aggs[a].func # "CountStar" =>
             /\ aggs[a].col \in DOMAIN schema
             /\ AggResultType(aggs[a].func, schema[aggs[a].col].type) # "Invalid"

\* Mutant of ValidKeyPairs: the types are not compared.
ValidKeyPairsAnyType(ls, rs, left, right) ==
    Len(left) = Len(right) /\ Resolved(left) /\ Resolved(right)

ValidKeyPairs(ls, rs, left, right) ==
    /\ Len(left) = Len(right) /\ Resolved(left) /\ Resolved(right)
    /\ \A i \in DOMAIN left : ls[left[i]].type = rs[right[i]].type

ValidFilter(p, pred) == pred.type = "BOOL" /\ ValidExpr(pred, p.schema)

ValidProject(p, projections) ==
    projections # <<>> /\ \A i \in DOMAIN projections : ValidExpr(projections[i].expr, p.schema)

ValidAggregate(p, keys, aggs) == Resolved(ResolveAll(keys, p.schema)) /\ ValidAggs(aggs, p.schema)

ValidJoin(p, build, left, right) ==
    left # <<>> /\ ValidKeyPairs(p.schema, build.schema, ResolveAll(left, p.schema),
                                 ResolveAll(right, build.schema))

ValidAsofJoin(p, build, left, right, lt, rt) ==
    LET l == Resolve(lt, p.schema)
        r == Resolve(rt, build.schema)
    IN  /\ ValidKeyPairs(p.schema, build.schema, ResolveAll(left, p.schema),
                         ResolveAll(right, build.schema))
        /\ l # 0 /\ r # 0
        /\ IsTimeType(p.schema[l].type) /\ IsTimeType(build.schema[r].type)

\* A tumbling window has a width > 0, a sliding one a number of rows >= 0.
ValidWindow(p, keys, time, aggs) ==
    LET t == Resolve(time, p.schema)
    IN  /\ Resolved(ResolveAll(keys, p.schema))
        /\ t # 0 /\ IsTimeType(p.schema[t].type)
        /\ ValidAggs(aggs, p.schema)

ValidSort(p, keys) ==
    keys # <<>> /\ \A i \in DOMAIN keys : Resolve(keys[i].col, p.schema) # 0
-----------------------------------------------------------------------------
(* Nodes.                                                                  *)

ScanPlan(n) == [kind |-> "Scan", table |-> n, schema |-> Tables[n].schema, kids |-> <<>>]

CompressedScanPlan(n) ==
    [kind |-> "CompressedScan", table |-> n, schema |-> Tables[n].schema, kids |-> <<>>]

FilterPlan(p, pred) == [kind |-> "Filter", pred |-> pred, schema |-> p.schema, kids |-> <<p>>]

ProjectPlan(p, projections) ==
    [kind |-> "Project", kids |-> <<p>>, exprs |-> [i \in DOMAIN projections |-> projections[i].expr],
     schema |-> [i \in DOMAIN projections |->
                   [name |-> projections[i].name, type |-> projections[i].expr.type]]]

AggregatePlan(p, keys, aggs) ==
    LET idx == ResolveAll(keys, p.schema)
    IN  [kind |-> "Aggregate", keys |-> idx, aggs |-> aggs, kids |-> <<p>>,
         schema |-> AggSchema(p.schema, idx, aggs)]

JoinPlan(p, build, left, right, type) ==
    [kind |-> "Join", left |-> ResolveAll(left, p.schema), right |-> ResolveAll(right, build.schema),
     type |-> type, kids |-> <<p, build>>, schema |-> p.schema \o build.schema]

AsofJoinPlan(p, build, left, right, lt, rt, type, tolerance) ==
    [kind |-> "AsofJoin", left |-> ResolveAll(left, p.schema), right |-> ResolveAll(right, build.schema),
     leftTime |-> Resolve(lt, p.schema), rightTime |-> Resolve(rt, build.schema), type |-> type,
     tolerance |-> tolerance, kids |-> <<p, build>>, schema |-> p.schema \o build.schema]

\* The bucket column has the time column's name and type.
TumblingPlan(p, keys, time, width, aggs) ==
    LET idx == ResolveAll(keys, p.schema)
        t   == Resolve(time, p.schema)
    IN  [kind |-> "Tumbling", keys |-> idx, time |-> t, param |-> width, aggs |-> aggs, kids |-> <<p>>,
         schema |-> AggSchema(p.schema, Append(idx, t), aggs)]

SlidingPlan(p, keys, time, preceding, aggs) ==
    [kind |-> "Sliding", keys |-> ResolveAll(keys, p.schema), time |-> Resolve(time, p.schema),
     param |-> preceding, aggs |-> aggs, kids |-> <<p>>,
     schema |-> p.schema \o AggSchema(p.schema, <<>>, aggs)]

SortPlan(p, keys) ==
    [kind |-> "Sort", kids |-> <<p>>, schema |-> p.schema,
     keys |-> [i \in DOMAIN keys |-> [keys[i] EXCEPT !.col = Resolve(@, p.schema)]]]
-----------------------------------------------------------------------------
(* Lowering.                                                               *)

\* What the constructors of the operators still refuse: HashJoin and AsofJoin
\* nothing that the builder has let through, Window strings.
KeyTypesDiffer(p) ==
    \E i \in DOMAIN p.left : p.kids[1].schema[p.left[i]].type # p.kids[2].schema[p.right[i]].type

JoinThrows(p) == KeyTypesDiffer(p)

AsofThrows(p) ==
    \/ ~IsTimeType(p.kids[1].schema[p.leftTime].type)
    \/ ~IsTimeType(p.kids[2].schema[p.rightTime].type)
    \/ KeyTypesDiffer(p)

WindowThrows(p) ==
    LET in == p.kids[1].schema
    IN  \/ \E i \in DOMAIN p.keys : in[p.keys[i]].type = "STR"
        \/ \E a \in DOMAIN p.aggs : p.aggs[a].func # "CountStar" /\ in[p.aggs[a].col].type = "STR"
        \/ in[p.time].type \in {"F64", "BOOL", "STR"}

ConstructorThrows(p) ==
    CASE p.kind = "Join"     -> JoinThrows(p)
      [] p.kind = "AsofJoin" -> AsofThrows(p)
      [] p.kind \in {"Tumbling", "Sliding"} -> WindowThrows(p)
      [] p.kind \in {"Scan", "CompressedScan", "Filter", "Project", "Aggregate", "Sort"} -> FALSE

RECURSIVE LowerThrows(_)
LowerThrows(p) == ConstructorThrows(p) \/ \E i \in DOMAIN p.kids : LowerThrows(p.kids[i])

\* The operators' own output schemas.
JoinSchema(probe, build) == probe \o build

AsofSchema(probe, build) == probe \o build

WindowSchema(p, in) ==
    IF p.kind = "Sliding" THEN in \o AggSchema(in, <<>>, p.aggs)
    ELSE AggSchema(in, Append(p.keys, p.time), p.aggs)

\* The operator over its lowered children.
Node(p, kids, batch) ==
    CASE p.kind = "Scan" ->
           ScanNode(Tables[p.table].cols, p.schema, 0, NumRows(p.table), batch)
      [] p.kind = "CompressedScan" ->   \* the decoded table: see CompressedScan
           LET rows == ToRows([cols |-> Tables[p.table].cols, rows |-> NumRows(p.table)])
           IN  ScanNode(FromRows(p.schema, rows), p.schema, 0, NumRows(p.table), batch)
      [] p.kind = "Filter"    -> FilterNode(kids[1], p.pred)
      [] p.kind = "Project"   -> ProjectNode(kids[1], p.schema, p.exprs)
      [] p.kind = "Sort"      -> SortNode(kids[1], SchemaOf(kids[1]), p.keys)
      [] p.kind = "Aggregate" -> AggregateOp(kids[1], SchemaOf(kids[1]), p.keys, p.aggs)
      [] p.kind \in {"Join", "AsofJoin", "Tumbling", "Sliding"} ->
           LET in(i) == SchemaOf(kids[i])
               schema == CASE p.kind = "Join"     -> JoinSchema(in(1), in(2))
                           [] p.kind = "AsofJoin" -> AsofSchema(in(1), in(2))
                           [] p.kind \in {"Tumbling", "Sliding"} -> WindowSchema(p, in(1))
               inputs == IF p.kind # "AsofJoin" THEN kids
                         ELSE <<SortedInput(kids[1], p.left, p.leftTime),
                                SortedInput(kids[2], p.right, p.rightTime)>>
           IN  MaterializedNode(inputs, schema, p)

RECURSIVE Lower(_, _)
Lower(p, batch) == Node(p, [i \in DOMAIN p.kids |-> Lower(p.kids[i], batch)], batch)
-----------------------------------------------------------------------------
(* Which plans run by morsels, and how.                                    *)

\* The driving path is Scan, Filter, Project and the probe sides of joins.
RECURSIVE StreamingMorselizable(_)
StreamingMorselizable(p) ==
    \/ p.kind = "Scan"
    \/ p.kind \in {"Filter", "Project", "Join"} /\ StreamingMorselizable(p.kids[1])

\* Mutant of AggregateExchangeSpeaks: strings are let through.
SpeaksAll(p) == TRUE

AggregateExchangeSpeaks(p) ==
    LET in == p.kids[1].schema
    IN  /\ \A i \in DOMAIN p.keys : in[p.keys[i]].type # "STR"
        /\ \A a \in DOMAIN p.aggs :
             p.aggs[a].func \in {"Min", "Max"} => in[p.aggs[a].col].type # "STR"

RECURSIVE Supported(_)
Supported(p) ==
    CASE p.kind = "Sort"      -> Supported(p.kids[1])
      [] p.kind = "Aggregate" -> AggregateExchangeSpeaks(p) /\ StreamingMorselizable(p.kids[1])
      [] p.kind \in {"Scan", "Filter", "Project", "Join"} -> StreamingMorselizable(p)
      [] p.kind \in {"CompressedScan", "AsofJoin", "Tumbling", "Sliding"} -> FALSE

RECURSIVE LeftmostScanTable(_)
LeftmostScanTable(p) == IF p.kids = <<>> THEN p.table ELSE LeftmostScanTable(p.kids[1])

\* The last morsel is cut to the table; an empty table has one empty morsel.
Morsels(total, rows) ==
    IF total = 0 THEN << [start |-> 0, end |-> 0] >>
    ELSE [m \in 1 .. (total + rows - 1) \div rows |->
            [start |-> (m - 1) * rows, end |-> IF m * rows < total THEN m * rows ELSE total]]

\* Only the driving scan is cut; a build side is whole, and each morsel's own.
RECURSIVE LowerMorsel(_, _, _)
LowerMorsel(p, m, batch) ==
    IF p.kind = "Scan"
      THEN ScanNode(Tables[p.table].cols, p.schema, m.start, m.end, batch)
      ELSE Node(p, [i \in DOMAIN p.kids |-> IF i = 1 THEN LowerMorsel(p.kids[1], m, batch)
                                            ELSE Lower(p.kids[i], batch)], batch)
===============================================================================
