-------------------------- MODULE ParallelAggregate --------------------------
(***************************************************************************)
(* run_aggregate (exec/parallel.cpp): each worker folds the partial        *)
(* aggregates of the morsels it drains into a private map; after the joins *)
(* the calling thread merges the workers' maps and finalizes.              *)
(*                                                                         *)
(* The query is SELECT key, COUNT( * ), COUNT(v), SUM(v), MIN(v), MAX(v),  *)
(* AVG(v), with or without GROUP BY key.  AVG has no accumulator of its    *)
(* own: it is decomposed into a SUM and a COUNT partial, equal to the two  *)
(* that are there.  A value is an integer, NULL or NaN; the kinds SumI,    *)
(* MinI and MaxI are SumF, MinF and MaxF on columns without NaN (the       *)
(* operators below are integer min, max and + there).  Sums are exact and  *)
(* an average is kept as the pair <<sum, count>>: rounding is abstracted.  *)
(***************************************************************************)
EXTENDS ParallelRun, FiniteSetsExt, Functions, Values

CONSTANTS Keys,      \* GROUP BY key values, NULL among them if wanted
          Values,    \* values of v: integers, NULL, NaN
          AggTables, \* driving tables considered: sequences of [k, v] rows,
          Dropped,   \* or Dropped for a row the body filters out
          AllRows    \* the key of the only group of a global aggregate

ASSUME AggAssumption ==
    /\ NULL # NaN
    /\ Values \ {NULL, NaN} \subseteq Int
    /\ NULL \notin Int /\ NaN \notin Int
    /\ AggTables \subseteq Seq([k : Keys, v : Values] \union {Dropped})

VARIABLES grouped,   \* GROUP BY key, or a global aggregate
          perWorker, \* per_worker[w]: group key -> accumulators
          merging,   \* workers whose map has been merged
          merged     \* the calling thread's merged map

driverVars == <<table, grouped, perWorker, merging, merged, result>>
aggVars == <<poolVars, driverVars>>

-----------------------------------------------------------------------------
\* Arithmetic on column values other than NULL.

\* IEEE a < b, false when either is NaN.
Less(a, b) == a # NaN /\ b # NaN /\ a < b

\* f64_less_total: NaN is greater than every number.
LessTotal(a, b) == IF NaN \in {a, b} THEN a # NaN ELSE a < b

Plus(a, b) == IF NaN \in {a, b} THEN NaN ELSE a + b

MinTotal(a, b) == IF LessTotal(b, a) THEN b ELSE a   \* f64_min_total
MaxTotal(a, b) == IF LessTotal(a, b) THEN b ELSE a   \* f64_max_total
StdMin(a, b)   == IF Less(b, a) THEN b ELSE a        \* std::min
StdMax(a, b)   == IF Less(a, b) THEN b ELSE a        \* std::max

-----------------------------------------------------------------------------
(***************************************************************************)
(* The frozen Aggregate over a set of row indices: one cell per aggregate, *)
(* NULL when no non-NULL value was seen (counts are never NULL).  A global *)
(* aggregate has its one row even over no rows at all.                     *)
(***************************************************************************)
Aggs == {"star", "count", "sum", "min", "max"}

Surviving(S) == {r \in S : table[r + 1] # Dropped}

KeyOf(r) == IF grouped THEN table[r + 1].k ELSE AllRows

GroupKeys(S) == IF grouped THEN {KeyOf(r) : r \in S} ELSE {AllRows}

\* SUM over the rows R of a table, all with a value.
Total(tbl, R) == MapThenFoldSet(Plus, 0, LAMBDA r : tbl[r + 1].v,
                                LAMBDA T : CHOOSE r \in T : TRUE, R)

Cells(S) ==
    LET seen == {r \in S : table[r + 1].v # NULL}
        vals == {table[r + 1].v : r \in seen}
    IN  [star  |-> Cardinality(S),
         count |-> Cardinality(seen),
         sum   |-> IF seen = {} THEN NULL ELSE Total(table, seen),
         min   |-> IF seen = {} THEN NULL
                   ELSE CHOOSE x \in vals : \A y \in vals : ~LessTotal(y, x),
         max   |-> IF seen = {} THEN NULL
                   ELSE CHOOSE x \in vals : \A y \in vals : ~LessTotal(x, y)]

\* The result set of the body's Aggregate over rows S, group key -> cells.
AggregateOf(S) == LET in == Surviving(S)
                  IN  [k \in GroupKeys(in) |-> Cells({r \in in : KeyOf(r) = k})]

-----------------------------------------------------------------------------
(***************************************************************************)
(* Accumulators: Acc{seen, value}, one per aggregate and group.            *)
(***************************************************************************)
NoAcc    == [seen |-> FALSE, val |-> 0]
\* Mutant of AccOf: a NULL partial cell is folded as a value.
AccOfNull(c) == [seen |-> TRUE, val |-> c]

AccOf(c) == IF c = NULL THEN NoAcc ELSE [seen |-> TRUE, val |-> c]

\* Mutant of FoldOp: raw std::min and std::max in the fold.
FoldOpRaw(j, x, y) == CASE j = "min" -> StdMin(x, y)
                         [] j = "max" -> StdMax(x, y)
                         [] OTHER     -> Plus(x, y)

\* fold_plain: a partial cell into a worker's accumulator.
FoldOp(j, x, y) == CASE j = "min" -> MinTotal(x, y)
                     [] j = "max" -> MaxTotal(x, y)
                     [] OTHER     -> Plus(x, y)

\* Mutant of MergeAdd: DropPartial of exec/parallel_mutants.cpp.
DropPartial(acc, add) == add

\* merge_count, merge_sum_i and merge_sum_f.
MergeAdd(acc, add) == Plus(acc, add)

\* The cross-worker switch: raw std::min and std::max.
MergeOp(j, x, y) == CASE j = "min" -> StdMin(x, y)
                      [] j = "max" -> StdMax(x, y)
                      [] OTHER     -> MergeAdd(x, y)

\* Accumulator b into accumulator a, by the rules of the fold or the merge;
\* an accumulator that has seen nothing changes nothing.
Combine(stage, j, a, b) ==
    IF ~b.seen THEN a
    ELSE IF ~a.seen THEN b
    ELSE [seen |-> TRUE,
          val  |-> IF stage = "fold" THEN FoldOp(j, a.val, b.val)
                                     ELSE MergeOp(j, a.val, b.val)]

\* Two maps group by group; a group in only one of them is taken as it is.
CombineMaps(stage, f, g) ==
    [k \in DOMAIN f \union DOMAIN g |->
       IF k \notin DOMAIN g THEN f[k]
       ELSE IF k \notin DOMAIN f THEN g[k]
       ELSE [j \in Aggs |-> Combine(stage, j, f[k][j], g[k][j])]]

\* A morsel's partial result set as accumulators, group by group.
Partial(S) ==
    LET prs == AggregateOf(S)
    IN  [k \in DOMAIN prs |-> [j \in Aggs |-> AccOf(prs[k][j])]]

EmptyMap == [k \in {} |-> NoAcc]

\* Mutant of CellOf: the aggregate of no values is 0, not NULL.
CellOfUnseen(a) == a.val

\* The finalize loop, for one group.
CellOf(a) == IF a.seen THEN a.val ELSE NULL
FinalCells(c) == [j \in Aggs \union {"avg"} |->
                    IF j # "avg" THEN c[j]
                    ELSE IF c["count"] > 0 THEN <<c["sum"], c["count"]>> ELSE NULL]
Finalize(f) == [k \in DOMAIN f |-> FinalCells([j \in Aggs |-> CellOf(f[k][j])])]

-----------------------------------------------------------------------------
AggInit ==
    /\ table \in AggTables
    /\ grouped \in BOOLEAN
    /\ total = Len(table)
    /\ PoolInit
    /\ perWorker = [w \in Workers |-> EmptyMap]
    /\ merging = 0
    /\ merged = EmptyMap
    /\ result = NoResult

AggPoolStep(A) == A /\ UNCHANGED driverVars

\* The morsel's private Aggregate is drained: fold its rows into the map.
FoldMorsel(w) ==
    /\ Finish(w)
    /\ perWorker' = [perWorker EXCEPT ![w] =
                       CombineMaps("fold", @, Partial(MorselRowSet(claimed[w])))]
    /\ UNCHANGED <<table, grouped, merging, merged, result>>

\* One turn of the loop over per_worker: the map is merged and moved from.
MergeWorker ==
    /\ mainpc = "merge"
    /\ merging < Threads
    /\ merged' = CombineMaps("merge", merged, perWorker[merging])
    /\ perWorker' = [perWorker EXCEPT ![merging] = EmptyMap]
    /\ merging' = merging + 1
    /\ UNCHANGED <<poolVars, table, grouped, result>>

Deliver ==
    /\ merging = Threads
    /\ Return
    /\ result' = Finalize(merged)
    /\ UNCHANGED <<table, grouped, perWorker, merging, merged>>

AggTerminated == mainpc \in {"returned", "aborted"} /\ UNCHANGED aggVars

AggMainStep == \/ AggPoolStep(Spawn \/ EnterWork \/ LeaveWork \/ Join \/ BeginMerge)
               \/ MergeWorker
               \/ Deliver

AggWorkerStep(w) == AggPoolStep(Fetch(w) \/ Pull(w)) \/ FoldMorsel(w)

AggNext == \/ AggMainStep
           \/ \E w \in Workers : AggWorkerStep(w)
           \/ AggPoolStep(Abort)
           \/ AggTerminated

AggSpec == AggInit /\ [][AggNext]_aggVars

-----------------------------------------------------------------------------
RowsOf(ms) == UNION {MorselRowSet(m) : m \in ms}

AccType == [seen : BOOLEAN, val : Int \union {NaN}]

(***************************************************************************)
(* Type invariant of the aggregate driver.                                 *)
(***************************************************************************)
AggTypeOK ==
    /\ PoolTypeOK
    /\ grouped \in BOOLEAN
    /\ merging \in 0 .. Threads
    /\ \A f \in Range(perWorker) \union {merged} :
         /\ DOMAIN f \subseteq Keys \union {AllRows}
         /\ \A k \in DOMAIN f : f[k] \in [Aggs -> AccType]

(***************************************************************************)
(* A worker's map is at every moment the aggregate of exactly the rows of  *)
(* the morsels it has drained: folding partial cells (unseen cells of a    *)
(* global aggregate over filtered morsels included) loses and repeats      *)
(* nothing, NaN included, in whatever order the morsels came.              *)
(***************************************************************************)
PartialsExact ==
    \A w \in Workers : w >= merging =>
        perWorker[w] = IF parts[w] = <<>> THEN EmptyMap
                       ELSE Partial(RowsOf(Drained(w)))

(***************************************************************************)
(* Whatever the distribution of morsels over workers, the counts, sums and *)
(* averages of the result are those of the single-threaded plan, and so is *)
(* the set of groups: none missing, none twice, one for a global aggregate *)
(* even over an empty table.                                               *)
(***************************************************************************)
SingleThreadResult ==
    LET all == AggregateOf(0 .. total - 1)
    IN  [k \in DOMAIN all |-> FinalCells(all[k])]

Additive == {"star", "count", "sum", "avg"}

AdditiveExact ==
    result # NoResult =>
      LET ref == SingleThreadResult
      IN  /\ DOMAIN result = DOMAIN ref
          /\ \A k \in DOMAIN ref : \A j \in Additive : result[k][j] = ref[k][j]

(***************************************************************************)
(* parallel.h: run() returns the same logical result as plan.lower()       *)
(* drained single-threaded.                                                *)
(***************************************************************************)
MatchesSingleThread == result # NoResult => result = SingleThreadResult

(***************************************************************************)
(* It does when no value is NaN, MIN and MAX included, for every schedule. *)
(***************************************************************************)
MatchesUnlessNaN ==
    (\A i \in DOMAIN table : table[i] # Dropped => table[i].v # NaN) => MatchesSingleThread
===============================================================================
