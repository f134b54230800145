---------------------------- MODULE PlanReference ----------------------------
(***************************************************************************)
(* What a plan means (oracle/reference_oracle.cpp, eval_rs): its node's    *)
(* reference over the tables its children mean.  Expressions have their    *)
(* meaning on rows here; the code's reference calls the engine's evaluator *)
(* on whole tables and leaves the meaning to DuckDB.                       *)
(***************************************************************************)
EXTENDS Plan

RowSatisfies(pred, row) == Sql(pred, row) = 1

\* run_reference without groups: the rows that pass, projected, in order.  A
\* step a query does not have is given as what leaves the rows alone.
RunReference(rows, pred, exprs, keys) ==
    LET kept == SelectSeq(rows, LAMBDA row : RowSatisfies(pred, row))
    IN  OrderBy([r \in DOMAIN kept |-> [j \in DOMAIN exprs |-> Sql(exprs[j], kept[r])]], keys)

AllRows == Literal("BOOL", 1)

IdentityProjections(schema) == [i \in DOMAIN schema |-> Column(schema[i].type, i)]

RECURSIVE EvalRs(_)
EvalRs(p) ==
    LET in(i)   == EvalRs(p.kids[i])
        schema  == p.kids[1].schema
        Avgs(rows, first) == FinishRows(rows, p.aggs, first, schema)
        same == IdentityProjections(p.schema)
    IN  CASE p.kind \in {"Scan", "CompressedScan"} ->
               RunReference(ToRows([cols |-> Tables[p.table].cols, rows |-> NumRows(p.table)]),
                            AllRows, same, <<>>)
          [] p.kind = "Filter"  -> RunReference(in(1), p.pred, same, <<>>)
          [] p.kind = "Project" -> RunReference(in(1), AllRows, p.exprs, <<>>)
          [] p.kind = "Sort"    -> RunReference(in(1), AllRows, same, p.keys)
          [] p.kind = "Aggregate" ->
               Avgs(GroupByReference(in(1), p.keys, p.aggs), Len(p.keys) + 1)
          [] p.kind = "Join" ->
               JoinReference(in(1), in(2), p.left, p.right, p.type, Len(p.kids[2].schema))
          [] p.kind = "AsofJoin" ->
               AsofReference(in(1), in(2), p.left, p.right, p.leftTime, p.rightTime,
                             p.type, p.tolerance, Len(p.kids[2].schema))
          [] p.kind = "Tumbling" ->
               Avgs(TumblingReference(in(1), p.keys, p.time, p.param, p.aggs), Len(p.keys) + 2)
          [] p.kind = "Sliding" ->
               Avgs(SlidingReference(in(1), p.keys, p.time, p.param, p.aggs), Len(schema) + 1)
-----------------------------------------------------------------------------
(* compare_result_sets: row by row in order, or as bags.                   *)

CountOf(rows, row) == Len(SelectSeq(rows, LAMBDA x : x = row))

SameBag(a, b) ==
    Len(a) = Len(b) /\ \A i \in DOMAIN a : CountOf(a, a[i]) = CountOf(b, a[i])

Ordered(rows, keys) ==
    \A i \in 1 .. Len(rows) - 1 : ~RowBefore(rows[i + 1], rows[i], keys)

\* AsofJoin and the sliding Window emit in the order they sort their input by.
RECURSIVE KeepsOrder(_)
KeepsOrder(p) ==
    p.kind \notin {"AsofJoin", "Sliding"} /\ \A i \in DOMAIN p.kids : KeepsOrder(p.kids[i])

\* Unordered plans are compared as bags; under a Sort the rows are in order,
\* and equal rows stay in the order they came in.
SameAnswer(p, engine, reference, stable) ==
    IF stable /\ KeepsOrder(p) THEN engine = reference
    ELSE /\ SameBag(engine, reference)
         /\ p.kind = "Sort" => Ordered(engine, p.keys)
===============================================================================
