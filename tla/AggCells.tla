------------------------------- MODULE AggCells -------------------------------
(***************************************************************************)
(* The accumulators that Aggregate and Window share (ops/agg_internal.h).  *)
(* A cell counts the values it has seen and holds their sum, minimum or    *)
(* maximum; it starts at the identity of its function, so that the fold    *)
(* needs no first case, and is NULL on output when it has seen nothing.    *)
(***************************************************************************)
EXTENDS Integers, Values

CONSTANTS MinInt, MaxInt   \* the extremes of int64, below and above every input

\* f64_less_total, which is < on integers.
CellLess(a, b) == IF b = NaN THEN a # NaN ELSE a # NaN /\ a < b

MinTotal(a, b) == IF CellLess(b, a) THEN b ELSE a
MaxTotal(a, b) == IF CellLess(a, b) THEN b ELSE a

\* Adding to a NaN, or a NaN, gives NaN.
Plus(a, b) == IF NaN \in {a, b} THEN NaN ELSE a + b

\* init_agg_cell: the F64 identities are NaN and minus infinity.
InitCell(func, isFloat) ==
    [cnt |-> 0,
     val |-> IF func = "Min" THEN (IF isFloat THEN NaN ELSE MaxInt)
             ELSE IF func = "Max" THEN MinInt ELSE 0]

\* fold / scatter_row: one value of one row, NULL if its validity bit is clear.
FoldCell(cell, func, v) ==
    IF v = NULL /\ func # "CountStar" THEN cell
    ELSE [cnt |-> cell.cnt + 1,
          val |-> CASE func \in {"CountStar", "Count"} -> cell.val
                    [] func \in {"Sum", "Avg"}         -> Plus(cell.val, v)
                    [] func = "Min"                    -> MinTotal(cell.val, v)
                    [] func = "Max"                    -> MaxTotal(cell.val, v)]

\* write_agg_cell.
WriteCell(cell, func) ==
    IF func \in {"CountStar", "Count"} THEN cell.cnt
    ELSE IF cell.cnt = 0 THEN NULL
    ELSE IF func = "Avg" THEN <<cell.val, cell.cnt>> ELSE cell.val
===============================================================================
