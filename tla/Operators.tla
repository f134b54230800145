------------------------------ MODULE Operators ------------------------------
(***************************************************************************)
(* The pull operators as nodes of a tree (ops/operator.h).  A node is a    *)
(* record with its fields and its children; a call gives the tree after    *)
(* it, and next() also the batch returned, `some` being FALSE for nullopt. *)
(* Here is what Scan, Filter, Project and Sort do themselves; Aggregate is *)
(* in AggregateNode, the calls down the tree are in OperatorTree.          *)
(***************************************************************************)
EXTENDS Expr, AggCells, FiniteSetsExt

CONSTANTS kOutBatch,  \* rows per output batch of a pipeline breaker
          ByteBits    \* bits of a radix digit

None == [rows |-> 0, cols |-> <<>>]
Done(t)    == [tree |-> t, some |-> FALSE, batch |-> None]

\* OwnedBatch::view: a bitmap is shown only when there are NULLs.
BatchView(b) == [b EXCEPT !.cols = [j \in DOMAIN @ |-> View(@[j])]]

Give(t, b) == [tree |-> t, some |-> TRUE, batch |-> BatchView(b)]
-----------------------------------------------------------------------------
(* Leaves and streaming operators.                                         *)

\* Scan and MorselScan: a half-open range of the table's rows, in batches.
ScanNode(cols, schema, start, end, batch) ==
    [op |-> "Scan", cols |-> cols, schema |-> schema, start |-> start, end |-> end,
     batch |-> batch, cursor |-> start]

ScanNext(t) ==
    LET n == IF t.end - t.cursor < t.batch THEN t.end - t.cursor ELSE t.batch
    IN  IF t.cursor >= t.end THEN Done(t)
        ELSE Give([t EXCEPT !.cursor = @ + n], Slice(t.cols, t.cursor, n))

\* The rows of a batch on which the predicate is TRUE, not FALSE and not NULL.
Passing(pred) ==
    SelectSeq([k \in DOMAIN pred.data |-> k], LAMBDA k : Valid(pred, k) /\ pred.data[k] # 0)

FilterBatch(b, pass) ==
    [rows |-> Len(pass), cols |-> [j \in DOMAIN b.cols |-> Compact(b.cols[j], pass)]]

ProjectBatch(b, exprs) ==
    [rows |-> b.rows, cols |-> [j \in DOMAIN exprs |-> Eval(exprs[j], b, "Vector")]]
-----------------------------------------------------------------------------
(* Sort.                                                                   *)

\* materialize: the lanes of all batches, garbage under NULL included; strings
\* are interned again, because the child's dictionaries die with it.
MaterializeColumn(t, cols) ==
    LET cells == FlattenSeq([i \in DOMAIN cols |->
                     [k \in DOMAIN cols[i].data |-> CellAt(cols[i], k)]])
        dict  == InternAll(<<>>, cells)
        lanes == FlattenSeq([i \in DOMAIN cols |-> cols[i].data])
        codes == [k \in DOMAIN cells |-> IF cells[k] = NULL THEN 0 ELSE CodeOf(dict, cells[k])]
        str   == t = "STR"
    IN  [type |-> t, data |-> IF str THEN codes ELSE lanes, av |-> FALSE,
         bits |-> [k \in DOMAIN cells |-> cells[k] # NULL], dict |-> IF str THEN dict ELSE <<>>]

Materialize(schema, batches) ==
    [j \in DOMAIN schema |-> MaterializeColumn(schema[j].type,
                                 [i \in DOMAIN batches |-> batches[i].cols[j]])]

\* less_row: the first key that tells the rows apart decides.
LessRow(mat, keys, a, b) ==
    LET OneNull(k) == Valid(mat[k.col], a) # Valid(mat[k.col], b)
        Less(k, x, y) == CellLess(CellAt(mat[k.col], x), CellAt(mat[k.col], y))
        Apart(k) == \/ OneNull(k)
                    \/ Valid(mat[k.col], a) /\ Valid(mat[k.col], b)
                       /\ (Less(k, a, b) \/ Less(k, b, a))
        apart == {j \in DOMAIN keys : Apart(keys[j])}
    IN  apart # {} /\
        LET k == keys[Min(apart)]
        IN  IF OneNull(k) THEN (k.nulls = "First") = ~Valid(mat[k.col], a)
            ELSE IF k.dir = "Asc" THEN Less(k, a, b) ELSE Less(k, b, a)

\* std::stable_sort over the row numbers.
PermComparison(mat, keys, n) ==
    FoldLeft(LAMBDA perm, r :
                 LET at == Len(SelectSeq(perm, LAMBDA x : ~LessRow(mat, keys, r, x)))
                 IN  SubSeq(perm, 1, at) \o <<r>> \o SubSeq(perm, at + 1, Len(perm)),
             <<>>, [r \in 1 .. n |-> r])

RadixEligible(keys, schema) ==
    \A i \in DOMAIN keys : schema[keys[i].col].type \in {"I32", "I64", "TS"}

\* encode_value: the sign bit flipped, so that unsigned order is signed order.
EncodeValue(v, w) == v + 2 ^ (w - 1)

\* Mutant of KeyBytes: DESC complements the null indicator too.
KeyBytesDescNulls(col, key, r) ==
    LET w     == Width(col.type)
        vb    == w \div ByteBits
        u     == IF Valid(col, r) THEN EncodeValue(col.data[r], w) ELSE 0
        Digit(b) == (u \div 2 ^ (ByteBits * (vb - b))) % 2 ^ ByteBits
        first == IF key.dir = "Desc" THEN key.nulls # "First" ELSE key.nulls = "First"
    IN  <<IF first = Valid(col, r) THEN 1 ELSE 0>> \o
        [b \in 1 .. vb |-> IF key.dir = "Desc" THEN 2 ^ ByteBits - 1 - Digit(b) ELSE Digit(b)]

\* One key of one row: the null indicator, then the value's digits, the most
\* significant first and complemented for DESC.
KeyBytes(col, key, r) ==
    LET w  == Width(col.type)
        vb == w \div ByteBits
        u  == IF Valid(col, r) THEN EncodeValue(col.data[r], w) ELSE 0
        Digit(b) == (u \div 2 ^ (ByteBits * (vb - b))) % 2 ^ ByteBits
    IN  <<IF (key.nulls = "First") = Valid(col, r) THEN 1 ELSE 0>> \o
        [b \in 1 .. vb |-> IF key.dir = "Desc" THEN 2 ^ ByteBits - 1 - Digit(b) ELSE Digit(b)]

\* One counting pass: stable by the digit at `pos`.
RadixPass(perm, bytes, pos) ==
    FlattenSeq([d \in 1 .. 2 ^ ByteBits |->
                   SelectSeq(perm, LAMBDA r : bytes[r][pos] = d - 1)])

\* Least significant digit first.
PermRadix(mat, keys, n) ==
    LET bytes == [r \in 1 .. n |-> FlattenSeq([j \in DOMAIN keys |->
                                       KeyBytes(mat[keys[j].col], keys[j], r)])]
    IN  IF n = 0 THEN <<>>
        ELSE FoldRight(LAMBDA pos, perm : RadixPass(perm, bytes, pos),
                       [p \in 1 .. Len(bytes[1]) |-> p], [r \in 1 .. n |-> r])

\* gather_rows: lanes by index, a bitmap only if a NULL lands in the batch.
GatherRows(mat, idx) ==
    [rows |-> Len(idx),
     cols |-> [j \in DOMAIN mat |->
        LET c     == mat[j]
            out   == Make(c.type, Gather(c.data, idx), c.dict)
            nulls == {r \in DOMAIN idx : ~Valid(c, idx[r])}
        IN  IF nulls = {} THEN out ELSE NullWhere(out, nulls)]]

SortBuild(t, batches) ==
    LET mat == Materialize(t.schema, batches)
        n   == IF mat = <<>> THEN 0 ELSE Len(mat[1].data)
    IN  [t EXCEPT !.opened = TRUE, !.mat = mat, !.emit = 0,
                  !.perm = IF RadixEligible(t.keys, t.schema) THEN PermRadix(mat, t.keys, n)
                           ELSE PermComparison(mat, t.keys, n)]

\* Mutant of SortNext: nullopt rewinds the cursor.
SortNextRewinds(t) ==
    LET m == IF Len(t.perm) - t.emit < kOutBatch THEN Len(t.perm) - t.emit ELSE kOutBatch
    IN  IF t.emit >= Len(t.perm) THEN Done([t EXCEPT !.emit = 0])
        ELSE Give([t EXCEPT !.emit = @ + m],
                  GatherRows(t.mat, SubSeq(t.perm, t.emit + 1, t.emit + m)))

SortNext(t) ==
    LET m == IF Len(t.perm) - t.emit < kOutBatch THEN Len(t.perm) - t.emit ELSE kOutBatch
    IN  IF t.emit >= Len(t.perm) THEN Done(t)
        ELSE Give([t EXCEPT !.emit = @ + m],
                  GatherRows(t.mat, SubSeq(t.perm, t.emit + 1, t.emit + m)))

SortClose(t) == [t EXCEPT !.opened = FALSE, !.mat = <<>>, !.perm = <<>>]
===============================================================================
