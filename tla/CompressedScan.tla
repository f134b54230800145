---------------------------- MODULE CompressedScan ----------------------------
(***************************************************************************)
(* CompressedTable and CompressedScan (tsx/compress.cpp): a column is      *)
(* encoded once, as its validity bits and the stream of its non-NULL       *)
(* values, and decoded batch by batch by a scan whose decoder state lives  *)
(* from one next() to the next.  One column stands for the table: columns  *)
(* have streams and cursors of their own and share only the row cursor.    *)
(***************************************************************************)
EXTENDS Codecs, Selections, Values

CONSTANTS Columns,    \* records: type and vals, a sequence of words and NULL
          BatchSizes,
          DefaultBatchSize,
          MaxOpens    \* bound: how often the scan is opened

ColumnTypes == {"I64", "TS", "I32", "F64", "BOOL"}

\* The stored words of a type: 64 bits, the 32 of an I32, the bit of a BOOL.
WordsOf(type) == CASE type \in {"I64", "TS", "F64"} -> 0 .. Word - 1
                   [] type = "I32"                  -> 0 .. Half - 1
                   [] type = "BOOL"                 -> {0, 1}

ASSUME ScanAssumption ==
    /\ BatchSizes \subseteq Nat /\ DefaultBatchSize \in Nat \ {0} /\ MaxOpens \in Nat
    /\ NULL \notin Nat
    /\ \A c \in Columns : c.type \in ColumnTypes /\ c.vals \in Seq(WordsOf(c.type) \union {NULL})

VARIABLES column, batchSize, \* the source table, batch_size_
          encoded,  \* EncodedColumn: validity, stream; NULL before encode()
          opened,   \* opened_
          cursor,   \* cursor_: rows handed out
          cc,       \* the column's ColCursor
          out,      \* cells the caller has got since open()
          opens

vars == <<column, batchSize, encoded, opened, cursor, cc, out, opens>>

Rows == Len(column.vals)

NonNull(vals) == SelectedBy(vals, LAMBDA v : v # NULL)

Init == /\ column \in Columns
        /\ batchSize \in {IF b = 0 THEN DefaultBatchSize ELSE b : b \in BatchSizes}
        /\ encoded = NULL
        /\ opened = FALSE /\ cursor = 0 /\ cc = NewCursor /\ out = <<>> /\ opens = 0

\* CompressedTable::encode.
EncodeTable ==
    /\ encoded = NULL
    /\ encoded' = [valid  |-> [r \in 1 .. Rows |-> column.vals[r] # NULL],
                   stream |-> Encode(column.type, NonNull(column.vals))]
    /\ UNCHANGED <<column, batchSize, opened, cursor, cc, out, opens>>

\* open() starts over, whatever the scan had reached.
Open ==
    /\ encoded # NULL /\ opens < MaxOpens
    /\ opens' = opens + 1
    /\ opened' = TRUE /\ cursor' = 0 /\ cc' = NewCursor /\ out' = <<>>
    /\ UNCHANGED <<column, batchSize, encoded>>

ValidBit(r) == encoded.valid[r]

\* Mutant of WindowStart: the running state is taken for the batch's own.
WindowStartFresh(c) == [NewCursor EXCEPT !.pos = c.pos, !.started = c.started, !.prev = c.prev]

WindowStart(c) == c

\* One row: a NULL takes nothing from the stream.
DecodeRow(a, r) ==
    IF ~ValidBit(r) THEN [a EXCEPT !.cells = Append(@, NULL)]
    ELSE LET c == Decode(column.type, encoded.stream, a.cc)
         IN  [cc |-> c, cells |-> Append(a.cells, c.val)]

\* One batch.
DecodeBatch ==
    /\ opened /\ cursor < Rows
    /\ LET n    == IF batchSize < Rows - cursor THEN batchSize ELSE Rows - cursor
           last == FoldLeft(DecodeRow, [cc |-> WindowStart(cc), cells |-> <<>>], [k \in 1 .. n |-> cursor + k])
       IN  /\ cursor' = cursor + n
           /\ cc' = last.cc
           /\ out' = out \o last.cells
    /\ UNCHANGED <<column, batchSize, encoded, opened, opens>>

\* Mutant of CloseCursor: close() leaves the row cursor where it was.
CloseCursorKept == cursor

CloseCursor == Rows

Close ==
    /\ opened
    /\ opened' = FALSE /\ cursor' = CloseCursor /\ cc' = NewCursor /\ out' = <<>>
    /\ UNCHANGED <<column, batchSize, encoded, opens>>

Next == EncodeTable \/ Open \/ DecodeBatch \/ Close

Spec == Init /\ [][Next]_vars
-----------------------------------------------------------------------------
\* A scan that is not open has nothing more to give and carries no state of
\* the decoder; an open one has handed out the rows before its cursor.
TypeOK ==
    /\ batchSize > 0
    /\ encoded # NULL => Len(encoded.valid) = Rows
    /\ cursor \in 0 .. Rows
    /\ opened => encoded # NULL /\ Len(out) = cursor
    /\ ~opened => cc = NewCursor /\ (opens > 0 => cursor = Rows)

\* compress.h: the validity is preserved exactly and every non-NULL value
\* bit by bit, however the rows are cut into batches.
Lossless == opened => out = SubSeq(column.vals, 1, cursor)

\* Between batches the decoder stands where the encoder stood after the same
\* values: same position in the stream, same carried state.
DecoderInStep ==
    opened =>
        LET vals == NonNull(SubSeq(column.vals, 1, cursor))
            g    == EncodeGorilla(vals)
            d    == EncodeDod(vals)
        IN  CASE column.type \in {"I64", "TS"} ->
                   cc.pos = Len(d.out) /\ cc.prev = d.prev /\ cc.delta = d.delta
              [] column.type = "F64" ->
                   cc.pos = Len(g.out) /\ cc.prev = g.prev
                   /\ cc.mean = g.mean /\ cc.trail = g.trail /\ cc.started = (vals # <<>>)
              [] column.type = "I32" -> cc.pos = Len(EncodeZigZag(vals))
              [] column.type = "BOOL" -> cc.pos = Len(vals)
===============================================================================
