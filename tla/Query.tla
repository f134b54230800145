--------------------------------- MODULE Query ---------------------------------
(***************************************************************************)
(* A query from the builder to its result: a plan is built call by call,   *)
(* lowered and drained by one thread, or split into morsels by the         *)
(* parallel engine (exec/parallel.cpp, run_node), whose morsels end in any *)
(* order.  The threads, the cursor and the merge of partial aggregates are *)
(* ParallelStreaming and ParallelAggregate; here a morsel is one step and  *)
(* an aggregate is what its merged partials add up to.                     *)
(***************************************************************************)
EXTENDS PlanReference

CONSTANTS MaxNodes,      \* bound: nodes on the driving path of a plan
          ScanBatch,     \* rows per batch of a scan
          MorselRows,    \* rows per morsel
          Calls          \* the arguments of the builder calls, by method

ASSUME QueryAssumption ==
    /\ {MaxNodes, ScanBatch, MorselRows, kOutBatch, Lanes, ByteBits, WordBits} \subseteq Nat \ {0}
    /\ ScanBatch % WordBits = 0 /\ MorselRows % WordBits = 0
    /\ Bits32 % ByteBits = 0 /\ Bits64 % ByteBits = 0 /\ Bits32 < Bits64

VARIABLES
    plan,     \* the plan built so far
    phase,    \* where the query is
    tree,     \* the lowered operators
    batch,    \* the batch the last next() returned
    out,      \* the rows of the result
    todo,     \* morsels not run yet
    opens,    \* times the tree has been opened
    threw     \* whether open() has thrown, and then what close() could do

vars == <<plan, phase, tree, batch, out, todo, opens, threw>>

NoTree == [op |-> "None"]

Leaves == {ScanPlan(n) : n \in DOMAIN Tables} \union
          {CompressedScanPlan(n) : n \in {x \in DOMAIN Tables :
                \A j \in DOMAIN Tables[x].schema : Tables[x].schema[j].type # "STR"}}

Init ==
    /\ plan \in Leaves
    /\ phase = "build" /\ tree = NoTree /\ batch = None /\ out = <<>> /\ todo = {} /\ opens = 0
    /\ threw = "Never"
-----------------------------------------------------------------------------
(* The builder.                                                            *)

RECURSIVE Depth(_)
Depth(p) == IF p.kids = <<>> THEN 1 ELSE 1 + Depth(p.kids[1])

Extend(p) ==
    /\ phase = "build" /\ Depth(plan) < MaxNodes
    /\ plan' = p
    /\ UNCHANGED <<phase, tree, batch, out, todo, opens, threw>>

Filter == \E pred \in Calls.filter : ValidFilter(plan, pred) /\ Extend(FilterPlan(plan, pred))

Project == \E ps \in Calls.project : ValidProject(plan, ps) /\ Extend(ProjectPlan(plan, ps))

AggregateCall ==
    \E c \in Calls.aggregate :
        ValidAggregate(plan, c.keys, c.aggs) /\ Extend(AggregatePlan(plan, c.keys, c.aggs))

Join ==
    \E c \in Calls.join :
        LET build == ScanPlan(c.build)
        IN  ValidJoin(plan, build, c.left, c.right) /\ Extend(JoinPlan(plan, build, c.left, c.right, c.type))

AsofJoin ==
    \E c \in Calls.asof :
        LET build == ScanPlan(c.build)
        IN  /\ ValidAsofJoin(plan, build, c.left, c.right, c.leftTime, c.rightTime)
            /\ Extend(AsofJoinPlan(plan, build, c.left, c.right, c.leftTime, c.rightTime, c.type, c.tolerance))

WindowTumbling ==
    \E c \in Calls.tumbling :
        c.param > 0 /\ ValidWindow(plan, c.keys, c.time, c.aggs) /\ Extend(TumblingPlan(plan, c.keys, c.time, c.param, c.aggs))

WindowSliding ==
    \E c \in Calls.sliding :
        c.param >= 0 /\ ValidWindow(plan, c.keys, c.time, c.aggs) /\ Extend(SlidingPlan(plan, c.keys, c.time, c.param, c.aggs))

Sort == \E keys \in Calls.sort : ValidSort(plan, keys) /\ Extend(SortPlan(plan, keys))
-----------------------------------------------------------------------------
(* One thread: lower, open, next until nullopt, close.                     *)

LowerPlan ==
    /\ phase = "build"
    /\ IF LowerThrows(plan) THEN phase' = "threw" /\ tree' = NoTree
       ELSE phase' = "lowered" /\ tree' = Lower(plan, ScanBatch)
    /\ UNCHANGED <<plan, batch, out, todo, opens, threw>>

\* A closed tree may be opened again; Window's sliding mode cannot (see Window).
RECURSIVE Reopens(_)
Reopens(p) == p.kind # "Sliding" /\ \A i \in DOMAIN p.kids : Reopens(p.kids[i])

OpenTree ==
    /\ \/ phase = "lowered"
       \/ phase = "closed" /\ opens = 1 /\ Reopens(plan)
    /\ phase' = "open" /\ tree' = Open(tree) /\ out' = <<>> /\ batch' = None /\ opens' = opens + 1
    /\ UNCHANGED <<plan, todo, threw>>

\* Some operator of the tree is open that the root's close() does not get to:
\* it passes Filter and Project, goes from a join to its probe child, and ends
\* at the other breakers, which close nothing below them.
RECURSIVE HoldsOpen(_), LeftOpen(_)
HoldsOpen(t) ==
    CASE t.op = "Scan" -> FALSE
      [] t.op \in {"Filter", "Project"} -> HoldsOpen(t.kid)
      [] t.op \in {"Sort", "Aggregate"} -> t.opened \/ HoldsOpen(t.kid)
      [] t.op = "Materialized" -> t.opened \/ \E i \in DOMAIN t.kids : HoldsOpen(t.kids[i])

LeftOpen(t) ==
    CASE t.op = "Scan" -> FALSE
      [] t.op \in {"Filter", "Project"} -> LeftOpen(t.kid)
      [] t.op \in {"Sort", "Aggregate"} -> HoldsOpen(t.kid)
      [] t.op = "Materialized" /\ Len(t.kids) = 1 -> HoldsOpen(t.kids[1])
      [] t.op = "Materialized" /\ Len(t.kids) = 2 -> LeftOpen(t.kids[1]) \/ HoldsOpen(t.kids[2])

\* An allocation fails while a breaker builds its state (bound: one exception).
OpenThrows ==
    /\ phase = "lowered"
    /\ \E x \in Interrupted(tree) :
         tree' = x /\ threw' = IF LeftOpen(x) THEN "OutOfReach" ELSE "InReach"
    /\ phase' = "failed" /\ opens' = opens + 1
    /\ UNCHANGED <<plan, batch, out, todo>>

Pull ==
    /\ phase \in {"open", "exhausted"}
    /\ \E r \in {Next(tree)} :
         /\ tree' = r.tree /\ batch' = r.batch /\ out' = out \o ToRows(r.batch)
         /\ phase' = IF r.some THEN phase ELSE IF phase = "open" THEN "exhausted" ELSE "drained"
    /\ UNCHANGED <<plan, todo, opens, threw>>

CloseTree ==
    /\ phase \in {"drained", "failed"}
    /\ phase' = "closed" /\ tree' = Close(tree) /\ batch' = None
    /\ UNCHANGED <<plan, out, todo, opens, threw>>
-----------------------------------------------------------------------------
(* The parallel engine.                                                    *)

\* run_node takes the sorts off the top and sorts the merged rows instead.
RECURSIVE Body(_)
Body(p) == IF p.kind = "Sort" THEN Body(p.kids[1]) ELSE p

\* What the morsels run: an aggregate folds its child's rows.
Driven(p) == IF Body(p).kind = "Aggregate" THEN Body(p).kids[1] ELSE Body(p)

MorselsOf(p) == Morsels(NumRows(LeftmostScanTable(p)), MorselRows)

\* A plan the morsels cannot run takes the way of one thread: LowerPlan.
Submit ==
    /\ phase = "build" /\ Supported(plan)
    /\ IF LowerThrows(plan) \/ ~StreamingMorselizable(Driven(plan))
         THEN phase' = "threw" /\ todo' = {}
         ELSE phase' = "parallel" /\ todo' = DOMAIN MorselsOf(plan)
    /\ UNCHANGED <<plan, tree, batch, out, opens, threw>>

RunMorsel ==
    /\ phase = "parallel"
    /\ \E i \in todo :
         /\ out' = out \o DrainOperator(LowerMorsel(Driven(plan), MorselsOf(plan)[i], ScanBatch))
         /\ todo' = todo \ {i}
    /\ UNCHANGED <<plan, phase, tree, batch, opens, threw>>

\* The aggregate exchange carries the integer or the double of a cell: of a
\* string it carries nothing, and the empty string comes out.
EmptyString == 0

ExchangeRow(row, schema) ==
    [j \in DOMAIN row |-> IF schema[j].type = "STR" /\ row[j] # NULL THEN EmptyString ELSE row[j]]

Merged(p, rows) ==
    IF p.kind # "Aggregate" THEN rows
    ELSE LET in == [r \in DOMAIN rows |-> ExchangeRow(rows[r], p.kids[1].schema)]
         IN  FinishRows(GroupByReference(in, p.keys, p.aggs), p.aggs, Len(p.keys) + 1, p.kids[1].schema)

\* result_set_to_table and one thread's Sort, for each sort on top.
RECURSIVE RunNode(_, _)
RunNode(p, rows) ==
    IF p.kind # "Sort" THEN Merged(p, rows)
    ELSE LET child == RunNode(p.kids[1], rows)
             scan  == ScanNode(FromRows(p.schema, child), p.schema, 0, Len(child), ScanBatch)
         IN  DrainOperator(SortNode(scan, p.schema, p.keys))

Exchange ==
    /\ phase = "parallel" /\ todo = {}
    /\ phase' = "merged" /\ out' = RunNode(plan, out)
    /\ UNCHANGED <<plan, tree, batch, todo, opens, threw>>
-----------------------------------------------------------------------------
QueryNext ==
    \/ Filter \/ Project \/ AggregateCall \/ Join \/ AsofJoin \/ WindowTumbling \/ WindowSliding \/ Sort
    \/ LowerPlan \/ OpenTree \/ OpenThrows \/ Pull \/ CloseTree
    \/ Submit \/ RunMorsel \/ Exchange

Spec == Init /\ [][QueryNext]_vars
-----------------------------------------------------------------------------
(* What next() promises its caller (ops/operator.h): a batch is not empty  *)
(* and not larger than an operator's output, its columns have the types of *)
(* the plan's schema, and each column is consistent: lanes, bitmap and     *)
(* all_valid agree and codes are in their dictionary.                      *)
TypeOK ==
    /\ phase \in {"build", "lowered", "open", "exhausted", "drained", "closed", "failed", "threw", "parallel", "merged"}
    /\ threw \in {"Never", "InReach", "OutOfReach"}
    /\ batch # None =>
         /\ batch.rows \in 1 .. (IF ScanBatch > kOutBatch THEN ScanBatch ELSE kOutBatch)
         /\ [j \in DOMAIN batch.cols |-> batch.cols[j].type] =
            [j \in DOMAIN plan.schema |-> plan.schema[j].type]
         /\ BatchOk(batch)

(* The tree returns what the plan means, also when it is opened again, and *)
(* in the same order unless an AsofJoin or a sliding Window reorders.      *)
EngineLikeReference ==
    phase = "drained" /\ threw = "Never" => SameAnswer(plan, out, EvalRs(plan), TRUE)

(* After an exception out of open() the caller closes the tree and may open  *)
(* it again (ops/operator.h:22-23): the answer is the same, whatever had     *)
(* been built or pulled by then, if close() reaches every operator that was  *)
(* open.  Where it does not (a breaker that was draining another breaker, or *)
(* an AsofJoin that was draining the Sort of its build side) the code reads  *)
(* the old state as if it were new, and the promise is broken.               *)
RetryLikeReference ==
    phase = "drained" /\ threw = "InReach" => SameAnswer(plan, out, EvalRs(plan), TRUE)

(* The parallel engine returns the same rows in whatever order the morsels *)
(* end, and sorted if the plan ends in a Sort.                             *)
ParallelLikeReference ==
    phase = "merged" => SameAnswer(plan, out, EvalRs(plan), FALSE)

(* A plan the builder accepts lowers without an exception, whole and by    *)
(* morsels, except that Window refuses strings that the builder lets pass. *)
RECURSIVE StringWindow(_)
StringWindow(p) ==
    \/ /\ p.kind \in {"Tumbling", "Sliding"}
       /\ \/ \E i \in DOMAIN p.keys : p.kids[1].schema[p.keys[i]].type = "STR"
          \/ \E a \in DOMAIN p.aggs : p.aggs[a].func # "CountStar"
                                      /\ p.kids[1].schema[p.aggs[a].col].type = "STR"
    \/ \E i \in DOMAIN p.kids : StringWindow(p.kids[i])

LowersUnlessStringWindow == phase = "threw" => StringWindow(plan)

(* The vector kernels and their scalar twins give a filter, a projection   *)
(* and the reductions of an aggregate without keys the same values, in     *)
(* full registers and in the tail.                                         *)
WholeTable(n) == [cols |-> Tables[n].cols, rows |-> NumRows(n)]

ExprTwins(e, whole) ==
    \E vec \in {Eval(e, whole, "Vector")}, ref \in {Eval(e, whole, "Scalar")} :
        \A r \in 1 .. whole.rows : CellAt(vec, r) = CellAt(ref, r)

ReductionTwins(spec, schema, whole) ==
    spec.func \in {"Count", "CountStar"} \/ StrMinMax(spec, whole) \/
    LET isFloat == AggInput(spec, schema) = "F64"
        v == Folded([k \in 1 .. whole.rows |-> ReadCol(spec, whole, k)], spec.func, isFloat)
    IN  Kernel(spec.func, isFloat, v) = ScalarKernel(spec.func, isFloat, v)

TwinsAgree ==
    phase = "build" /\ plan.kids # <<>> /\ plan.kids[1].kind = "Scan" =>
        LET child == plan.kids[1]
            whole == WholeTable(child.table)
        IN  whole.rows > 0 =>
              /\ plan.kind = "Filter"  => ExprTwins(plan.pred, whole)
              /\ plan.kind = "Project" => \A i \in DOMAIN plan.exprs : ExprTwins(plan.exprs[i], whole)
              /\ plan.kind = "Aggregate" /\ plan.keys = <<>> =>
                   \A a \in DOMAIN plan.aggs : ReductionTwins(plan.aggs[a], child.schema, whole)

(* After nullopt, next() returns nullopt: nothing is added to the result.  *)
StaysExhausted == [][phase = "exhausted" => phase' # phase /\ out' = out]_vars
===============================================================================
