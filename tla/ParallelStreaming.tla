-------------------------- MODULE ParallelStreaming --------------------------
(***************************************************************************)
(* run_streaming (exec/parallel.cpp): every morsel of the driving table    *)
(* goes through its own Scan/Filter/Project/Join tree, and the exchange    *)
(* concatenates the drained results worker by worker.  run_node may put a  *)
(* single-threaded stable Sort on top of the concatenation.                *)
(*                                                                         *)
(* A streaming tree maps each driving row to a sequence of output rows     *)
(* (none when filtered out, several for a join) and keeps their order; the *)
(* sequence is the constant operator Emit.  What the operators compute is  *)
(* the subject of their own modules; the build side of a join is private   *)
(* to the morsel's tree and the same for every morsel.                     *)
(***************************************************************************)
EXTENDS ParallelRun, SequencesExt, TLC

CONSTANTS Rows,       \* the values a driving row takes
          Emit(_),    \* the output rows of one driving row, in order
          SortKey(_), \* the ORDER BY key of an output row (an integer)
          Tables      \* the driving tables considered

\* The rows a tree puts out.
OutRows == UNION {ToSet(Emit(r)) : r \in Rows}

ASSUME StreamingAssumption ==
    /\ \A tbl \in Tables : tbl \in Seq(Rows)
    /\ \A r \in Rows : Emit(r) \in Seq(OutRows)
    /\ \A o \in OutRows : SortKey(o) \in Int
    /\ NoResult \notin Seq(OutRows)

VARIABLE sorted       \* the plan has a top-level Sort

vars == <<poolVars, table, sorted, result>>

-----------------------------------------------------------------------------
\* Draining a tree over the rows of `tbl` whose 0-based indices are a .. b-1.
DrainRange(tbl, a, b) ==
    FlattenSeq([i \in 1 .. b - a |-> Emit(tbl[a + i])])

\* ops/sort.cpp: less_row, and a sort stable on the child's row order.  Place k gets
\* the row that k - 1 others come before.
Before(s, i, j) == \/ SortKey(s[i]) < SortKey(s[j])
                   \/ SortKey(s[i]) = SortKey(s[j]) /\ i < j

StableSort(s) ==
    LET places == {<<i, Cardinality({j \in DOMAIN s : Before(s, j, i)}) + 1>> : i \in DOMAIN s}
    IN  [k \in DOMAIN s |-> s[(CHOOSE p \in places : p[2] = k)[1]]]

\* The single-threaded plan: the whole table through one tree.
SingleThreadRows(tbl) ==
    LET rows == DrainRange(tbl, 0, Len(tbl))
    IN  IF sorted THEN StableSort(rows) ELSE rows

-----------------------------------------------------------------------------
Init ==
    /\ table \in Tables
    /\ sorted \in BOOLEAN
    /\ total = Len(table)
    /\ PoolInit
    /\ result = NoResult

\* A step of the pool that leaves the plan's own state alone.
PoolStep(A) == A /\ UNCHANGED <<table, sorted, result>>

\* The concatenation of parts[0], parts[1], ... : each worker's drained
\* results in the order it drained them.
Concatenation ==
    LET drained == FlattenSeq([w \in 1 .. Threads |-> parts[w - 1]])
    IN  FlattenSeq([i \in DOMAIN drained |->
                      DrainRange(table, Start(drained[i]), End(drained[i]))])

\* Mutant of Exchange: the Sort runs below the exchange, once per worker.
SortBelowExchange ==
    LET RowsOf(w) == FlattenSeq([i \in DOMAIN parts[w] |->
                       DrainRange(table, Start(parts[w][i]), End(parts[w][i]))])
    IN  /\ Return
        /\ result' = FlattenSeq([w \in 1 .. Threads |->
                       IF sorted THEN StableSort(RowsOf(w - 1)) ELSE RowsOf(w - 1)])
        /\ UNCHANGED <<table, sorted>>

Exchange ==
    /\ Return
    /\ \E rows \in {Concatenation} :
         result' = IF sorted THEN StableSort(rows) ELSE rows
    /\ UNCHANGED <<table, sorted>>

Terminated == mainpc \in {"returned", "aborted"} /\ UNCHANGED vars

MainStep == \/ PoolStep(Spawn \/ EnterWork \/ LeaveWork \/ Join \/ BeginMerge)
            \/ Exchange

WorkerStep(w) == PoolStep(Fetch(w) \/ Pull(w) \/ Finish(w))

Next == \/ MainStep
        \/ \E w \in Workers : WorkerStep(w)
        \/ PoolStep(Abort)
        \/ Terminated

Spec == Init /\ [][Next]_vars

\* The operating system runs every runnable thread; nothing makes it throw.
FairSpec == Spec /\ WF_vars(MainStep) /\ \A w \in Workers : WF_vars(WorkerStep(w))

-----------------------------------------------------------------------------
(***************************************************************************)
(* Type invariant of the streaming driver.                                 *)
(***************************************************************************)
TypeOK ==
    /\ PoolTypeOK
    /\ table \in Seq(Rows)
    /\ total = Len(table)
    /\ sorted \in BOOLEAN
    /\ result = NoResult \/ result \in Seq(OutRows)

(***************************************************************************)
(* The result is the single-threaded one up to the order of rows: a row    *)
(* that came out k times single-threaded comes out k times here (the       *)
(* differential tests compare unordered plans after canonicalizing).       *)
(***************************************************************************)
Bag(r) == IF r = NoResult THEN NoResult ELSE ToBag(r)

Reference == INSTANCE SingleThread
    WITH Drain <- LAMBDA tbl : ToBag(DrainRange(tbl, 0, Len(tbl))),
         NoAnswer <- NoResult, answer <- Bag(result)

SameRows == Reference!Spec

(***************************************************************************)
(* Under a top-level Sort the result is in key order and agrees with the   *)
(* single-threaded one position by position on the sort keys, although the *)
(* sort's input order depends on which worker drained which morsel.        *)
(***************************************************************************)
SortedByKey ==
    (sorted /\ result # NoResult) =>
      LET ref == SingleThreadRows(table)
      IN  /\ Len(result) = Len(ref)
          /\ \A i \in DOMAIN ref : SortKey(result[i]) = SortKey(ref[i])

(***************************************************************************)
(* What parallel.h says of a top-level Sort: the same result as            *)
(* single-threaded, compared positionally.                                 *)
(***************************************************************************)
SamePositions ==
    (sorted /\ result # NoResult) => result = SingleThreadRows(table)

(***************************************************************************)
(* run() comes back or the process is terminated: no interleaving leaves   *)
(* the calling thread waiting in a join.                                   *)
(***************************************************************************)
Terminates == <>(mainpc \in {"returned", "aborted"})
===============================================================================
