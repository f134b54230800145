------------------------------- MODULE Columns -------------------------------
(***************************************************************************)
(* Columns (core/column.h, core/owned_batch.cpp).  A column is its lanes,  *)
(* a validity bitmap that may be absent (<<>>) and the flag all_valid,     *)
(* which overrides the bitmap; an STR column has a dictionary and its      *)
(* lanes are codes.  A NULL lane holds whatever was there before.  A batch *)
(* is its columns and its row count: every batch the operators make is     *)
(* dense, so there is no selection vector here (HashJoin models one).      *)
(***************************************************************************)
EXTENDS Integers, Sequences, SequencesExt, StringDict, Values

CONSTANTS Bits32, Bits64, \* widths of I32 and of I64 and TS
          WordBits,       \* validity bits per word: 64
          Junk            \* what an uninitialized lane happens to hold

Types == {"I32", "I64", "F64", "BOOL", "TS", "STR"}

Width(t) == IF t = "I32" THEN Bits32 ELSE Bits64

InRange(v, w) == -(2 ^ (w - 1)) <= v /\ v < 2 ^ (w - 1)

\* OwnedColumn::make and make_str, then a loop that fills the lanes.
Make(t, lanes, dict) ==
    [type |-> t, data |-> lanes, bits |-> <<>>, av |-> TRUE, dict |-> dict]

\* all_valid is asked first, the bitmap only without it.
Valid(c, i) == c.av \/ c.bits[i]

Words(n) == (n + WordBits - 1) \div WordBits

\* Padding bits of the last word are set too.
FillAllValid(n) == [i \in 1 .. Words(n) * WordBits |-> TRUE]

EnsureValidity(c) == IF c.bits # <<>> THEN c ELSE [c EXCEPT !.bits = FillAllValid(Len(c.data))]

\* Whole words first, then the last word under the mask of its n % WordBits bits.
AllValidImpl(bits, n) ==
    LET full == n \div WordBits
    IN  /\ \A w \in 0 .. full - 1 : \A k \in 1 .. WordBits : bits[w * WordBits + k]
        /\ \A k \in 1 .. n % WordBits : bits[full * WordBits + k]

\* Every word of both, padding included.
BitAndImpl(a, b, n) == [i \in 1 .. Words(n) * WordBits |-> a[i] /\ b[i]]

\* Without a bitmap there is no NULL.
RefreshAllValid(c) == [c EXCEPT !.av = c.bits = <<>> \/ AllValidImpl(c.bits, Len(c.data))]

SetNull(c, i) == [EnsureValidity(c) EXCEPT !.bits[i] = FALSE, !.av = FALSE]

\* A loop of set_bit(false) over lanes, and the flag recomputed after it.
NullWhere(c, lanes) ==
    LET o == EnsureValidity(c)
    IN  RefreshAllValid([o EXCEPT !.bits = [i \in DOMAIN o.bits |-> o.bits[i] /\ i \notin lanes]])

\* A column built row by row: a NULL lane is skipped by the writer and marked.
Fill(t, lanes, dict) ==
    LET out   == Make(t, [i \in DOMAIN lanes |-> IF lanes[i] = NULL THEN Junk ELSE lanes[i]], dict)
        nulls == {i \in DOMAIN lanes : lanes[i] = NULL}
    IN  IF nulls = {} THEN out ELSE NullWhere(out, nulls)

View(c) == IF c.av THEN [c EXCEPT !.bits = <<>>] ELSE c

\* Gather32Impl and Gather64Impl.
Gather(src, idx) == [k \in DOMAIN idx |-> src[idx[k]]]

\* compact_column: lanes and bits gathered into a fresh column, same dictionary.
Compact(c, idx) ==
    LET out == Make(c.type, Gather(c.data, idx), c.dict)
    IN  IF c.av \/ idx = <<>> THEN out ELSE NullWhere(out, {k \in DOMAIN idx : ~c.bits[idx[k]]})

\* The logical value of a lane; an STR lane is resolved in its own dictionary.
CellAt(c, i) ==
    IF ~Valid(c, i) THEN NULL
    ELSE IF c.type = "STR" THEN At(c.dict, c.data[i]) ELSE c.data[i]

ToRows(b) == [r \in 1 .. b.rows |-> [j \in DOMAIN b.cols |-> CellAt(b.cols[j], r)]]

\* Rows of cells stored as columns again (result_set_to_table, rs_to_table):
\* strings are interned into a fresh dictionary of each column.
FromCells(t, cells) ==
    LET dict == IF t # "STR" THEN <<>>
                ELSE InternAll(<<>>, cells)
    IN  Fill(t, [i \in DOMAIN cells |-> IF t = "STR" /\ cells[i] # NULL
                                        THEN CodeOf(dict, cells[i]) ELSE cells[i]], dict)

FromRows(schema, rows) ==
    [j \in DOMAIN schema |-> FromCells(schema[j].type, [i \in DOMAIN rows |-> rows[i][j]])]

\* The rows a scan hands out as views into the table's columns: the bitmap is
\* offset by whole words, the flag is the whole column's.
Slice(cols, start, n) ==
    [rows |-> n,
     cols |-> [j \in DOMAIN cols |->
        [View(cols[j]) EXCEPT !.data = SubSeq(cols[j].data, start + 1, start + n),
                        !.bits = IF cols[j].av THEN <<>>
                                 ELSE LET base == (start \div WordBits) * WordBits
                                      IN  SubSeq(cols[j].bits, base + 1, base + Words(n) * WordBits)]]]

\* What every consumer relies on: equal lengths, a bitmap of whole words, with
\* valid padding, whenever the flag does not rule NULLs out, and codes that
\* exist in their dictionary.
BatchOk(b) ==
    \A j \in DOMAIN b.cols :
        LET c == b.cols[j]
        IN  /\ Len(c.data) = b.rows
            /\ c.bits # <<>> \/ ~c.av => Len(c.bits) = Words(b.rows) * WordBits
            /\ \A i \in DOMAIN c.bits : c.av \/ i > b.rows => c.bits[i]
            /\ \A i \in 1 .. b.rows : Valid(c, i) =>
                 CASE c.type = "STR"  -> c.data[i] \in 0 .. Len(c.dict) - 1
                   [] c.type = "BOOL" -> c.data[i] \in {0, 1}
                   [] c.type = "F64"  -> c.data[i] = NaN \/ c.data[i] \in Int
                   [] c.type \in {"I32", "I64", "TS"} -> InRange(c.data[i], Width(c.type))
===============================================================================
