------------------------------- MODULE HashJoin -------------------------------
(***************************************************************************)
(* HashJoin (ops/join.cpp): open() drains the build child into a hash      *)
(* table, a row store and the lists of store rows per group; next() pulls  *)
(* probe batches, pairs their rows with store rows and hands out at most   *)
(* kOutBatch pairs per call, reading the probe columns through the view    *)
(* the probe child last returned; close() and a fresh open() start again.  *)
(* The key is one STR column, the hard case: its codes belong to the       *)
(* dictionary of each batch.  An action is one call, or one turn of the    *)
(* loop that drains the build child.  The table is the index it promises   *)
(* to be (KeyIndex, which HashTable implements).                           *)
(***************************************************************************)
EXTENDS Integers, Sequences, SequencesExt, StringDict, ReferenceOracle

CONSTANTS BuildInputs, ProbeInputs, \* sequences of batches the children return
          JoinTypes,  \* a subset of {"Inner", "Left"}
          kOutBatch,
          MaxOpens,   \* bound: how often the caller opens the join
          MaxThrows   \* bound: exceptions of the build child

\* A batch: its column's dictionary, its physical rows (a code, its validity
\* bit and the row's other column) and the physical positions selected.
kNoGroup      == -1
kNullBuildRow == 0     \* store rows are 1, 2, ...

\* What a child returns: its dictionary holds strings, its selection names
\* physical rows, and a valid selected row holds a code of the dictionary.
WellFormed(b) ==
    /\ b.dict \in Seq(Strings(b.dict)) /\ NULL \notin Strings(b.dict)
    /\ b.sel \in Seq(DOMAIN b.rows)
    /\ \A p \in DOMAIN b.rows : b.rows[p].valid \in BOOLEAN
    /\ \A p \in ToSet(b.sel) :
          b.rows[p].valid => b.rows[p].code \in 0 .. Len(b.dict) - 1

ASSUME JoinAssumption ==
    /\ kOutBatch \in Nat \ {0}
    /\ JoinTypes \subseteq {"Inner", "Left"}
    /\ NULL \notin Int
    /\ \A bs \in BuildInputs \union ProbeInputs :
          bs \in Seq(ToSet(bs)) /\ \A i \in DOMAIN bs : WellFormed(bs[i])

VARIABLES buildIn, probeIn, type,   \* the children's batches, type_
          buildPos, probePos,       \* the children's cursors
          opened, phase,            \* opened_; the caller's view of the join
          idmap,                    \* key_id_maps: string -> shared I32 id
          ht,                       \* the table: id -> group, groups in use
          groupRows,                \* group_rows
          store,                    \* BuildStore: its owned dictionary and rows
          pairs, cursor,            \* pair_probe / pair_build, pair_cursor_
          probeDone,                \* probe_done_
          out,                      \* rows the caller got since open()
          opens, throws

children == <<buildIn, probeIn, type>>
vars == <<buildIn, probeIn, type, buildPos, probePos, opened, phase, idmap, ht,
          groupRows, store, pairs, cursor, probeDone, out, opens, throws>>
-----------------------------------------------------------------------------
\* The strings of a batch's live rows, NULL for a cleared validity bit.
KeyOf(b, p) == IF b.rows[p].valid THEN At(b.dict, b.rows[p].code) ELSE NULL

Cells(b, p) == <<KeyOf(b, p), b.rows[p].id>>

LiveRows(bs) == FlattenSeq([i \in DOMAIN bs |->
                    [k \in DOMAIN bs[i].sel |-> Cells(bs[i], bs[i].sel[k])]])

\* Mutant of CanonMap: the source's codes are used as they are.
RawCodes(b, map) == b.dict

\* canonicalize_str_key_to_i32: the live, valid keys are interned in row
\* order; other slots may hold any code and are not looked at.
CanonMap(b, map) ==
    InternAll(map, [k \in DOMAIN b.sel |-> KeyOf(b, b.sel[k])])

Canon(b, p, map) == IF b.rows[p].valid THEN CodeOf(map, KeyOf(b, p)) ELSE NULL

\* The table under NullPolicy::kNeverMatch.
NewTable == [index |-> [k \in {} |-> 0], used |-> 0]

Find(t, key) == IF key \in DOMAIN t.index THEN t.index[key] ELSE kNoGroup

Insert(t, key) ==
    IF key # NULL /\ key \in DOMAIN t.index THEN t
    ELSE [index |-> IF key = NULL THEN t.index
                    ELSE [k \in DOMAIN t.index \union {key} |->
                            IF k = key THEN t.used ELSE t.index[k]],
          used  |-> t.used + 1]

InsertGroup(t, key) == IF Find(t, key) = kNoGroup THEN t.used ELSE t.index[key]

\* Mutant of AppendRow: the code of the batch's own dictionary is stored.
AppendCode(s, b, p) ==
    [dict |-> s.dict,
     rows |-> Append(s.rows, [valid |-> b.rows[p].valid, id |-> b.rows[p].id,
                              code |-> b.rows[p].code])]

\* BuildStore::append_row: a valid string is interned again in the store's
\* dictionary, because the batch's dictionary does not outlive the batch.
AppendRow(s, b, p) ==
    LET valid == b.rows[p].valid
        dict  == IF valid THEN Intern(s.dict, KeyOf(b, p)) ELSE s.dict
    IN  [dict |-> dict,
         rows |-> Append(s.rows, [valid |-> valid, id |-> b.rows[p].id,
                                  code |-> IF valid THEN CodeOf(dict, KeyOf(b, p)) ELSE 0])]

\* One live row of a build batch, given the batch's id map.
AddRow(acc, b, p, map) ==
    LET g == InsertGroup(acc.ht, Canon(b, p, map))
        s == AppendRow(acc.store, b, p)
        t == Insert(acc.ht, Canon(b, p, map))
    IN  [ht |-> t, store |-> s,
         groupRows |-> [h \in 0 .. t.used - 1 |->
             (IF h \in DOMAIN acc.groupRows THEN acc.groupRows[h] ELSE <<>>)
             \o (IF h = g THEN <<Len(s.rows)>> ELSE <<>>)]]

\* The live rows of a build batch, in order: after[k] is what the first k make.
AddRows(acc, b, map) ==
    LET after[k \in 0 .. Len(b.sel)] ==
            IF k = 0 THEN acc ELSE AddRow(after[k - 1], b, b.sel[k], map)
    IN  after[Len(b.sel)]

\* The pairs of one probe row.
PairsOf(b, p, map) ==
    LET g == Find(ht, Canon(b, p, map))
    IN  IF g # kNoGroup THEN [i \in DOMAIN groupRows[g] |-> <<p, groupRows[g][i]>>]
        ELSE IF type = "Left" THEN <<<<p, kNullBuildRow>>>> ELSE <<>>

\* emit_probe_column: read through cur_probe_, the buffer of the batch that the
\* probe child returned last, with that batch's dictionary.
ProbeCells(p) == Cells(probeIn[probePos], p)

\* emit_build_column, with the store's dictionary.
BuildCells(r) ==
    IF r = kNullBuildRow THEN <<NULL, NULL>>
    ELSE <<IF store.rows[r].valid THEN At(store.dict, store.rows[r].code) ELSE NULL,
           store.rows[r].id>>
-----------------------------------------------------------------------------
FreshState ==
    /\ idmap' = <<>> /\ ht' = NewTable /\ groupRows' = [g \in {} |-> <<>>]
    /\ store' = [dict |-> <<>>, rows |-> <<>>]
    /\ pairs' = <<>> /\ cursor' = 0 /\ probeDone' = FALSE

Init ==
    /\ buildIn \in BuildInputs /\ probeIn \in ProbeInputs /\ type \in JoinTypes
    /\ buildPos = 0 /\ probePos = 0
    /\ opened = FALSE /\ phase = "closed"
    /\ idmap = <<>> /\ ht = NewTable /\ groupRows = [g \in {} |-> <<>>]
    /\ store = [dict |-> <<>>, rows |-> <<>>]
    /\ pairs = <<>> /\ cursor = 0 /\ probeDone = FALSE
    /\ out = <<>> /\ opens = 0 /\ throws = 0

\* open() up to the drain.  The build child restarts from its first batch,
\* as Scan::open does even after an exception.
Open ==
    /\ phase = "closed" /\ opens < MaxOpens
    /\ opens' = opens + 1
    /\ opened' = TRUE /\ phase' = "building"
    /\ FreshState
    /\ buildPos' = 0
    /\ out' = <<>>
    /\ UNCHANGED <<children, probePos, throws>>

BuildBatch ==
    /\ phase = "building" /\ buildPos < Len(buildIn)
    /\ buildPos' = buildPos + 1
    /\ LET b   == buildIn[buildPos + 1]
           map == CanonMap(b, idmap)
           acc == AddRows([ht |-> ht, store |-> store, groupRows |-> groupRows], b, map)
       IN  /\ idmap' = map
           /\ ht' = acc.ht /\ store' = acc.store /\ groupRows' = acc.groupRows
    /\ UNCHANGED <<children, probePos, opened, phase, pairs, cursor, probeDone,
                   out, opens, throws>>

\* The build child throws out of open(): opened_ stays set.
BuildThrows ==
    /\ phase = "building" /\ throws < MaxThrows
    /\ throws' = throws + 1
    /\ phase' = "failed"
    /\ UNCHANGED <<children, buildPos, probePos, opened, idmap, ht, groupRows,
                   store, pairs, cursor, probeDone, out, opens>>

\* The drain ends: the build child is closed, the probe child opened.
BuildDone ==
    /\ phase = "building" /\ buildPos = Len(buildIn)
    /\ phase' = "ready"
    /\ probePos' = 0
    /\ UNCHANGED <<children, buildPos, opened, idmap, ht, groupRows, store, pairs,
                   cursor, probeDone, out, opens, throws>>

\* Mutant of Drained: the next probe batch is pulled after one chunk of pairs.
DrainedOneChunk == cursor >= kOutBatch \/ cursor >= Len(pairs)

Drained == cursor >= Len(pairs)

\* build_pairs_for_probe, one turn of the loop in next(): a batch may have
\* no pair at all.
ProbeBatch ==
    /\ phase = "ready" /\ Drained /\ ~probeDone /\ probePos < Len(probeIn)
    /\ probePos' = probePos + 1
    /\ LET b   == probeIn[probePos + 1]
           map == CanonMap(b, idmap)
       IN  /\ idmap' = map
           /\ pairs' = FlattenSeq([k \in DOMAIN b.sel |-> PairsOf(b, b.sel[k], map)])
    /\ cursor' = 0
    /\ UNCHANGED <<children, buildPos, opened, phase, ht, groupRows, store, probeDone,
                   out, opens, throws>>

\* The probe child has no batch left; later calls answer at once.
ProbeEnds ==
    /\ phase = "ready" /\ Drained
    /\ ~probeDone => probePos = Len(probeIn)
    /\ probeDone' = TRUE
    /\ pairs' = IF probeDone THEN pairs ELSE <<>>
    /\ UNCHANGED <<children, buildPos, probePos, opened, phase, idmap, ht, groupRows,
                   store, cursor, out, opens, throws>>

\* next() hands out the next pairs.
Emit ==
    /\ phase = "ready" /\ ~Drained
    /\ LET m == IF Len(pairs) - cursor < kOutBatch THEN Len(pairs) - cursor ELSE kOutBatch
       IN  /\ out' = out \o [i \in 1 .. m |-> ProbeCells(pairs[cursor + i][1])
                                              \o BuildCells(pairs[cursor + i][2])]
           /\ cursor' = cursor + m
    /\ UNCHANGED <<children, buildPos, probePos, opened, phase, idmap, ht, groupRows,
                   store, pairs, probeDone, opens, throws>>

Close ==
    /\ phase \in {"ready", "failed"}
    /\ phase' = "closed" /\ opened' = FALSE
    /\ probePos' = Len(probeIn)
    /\ FreshState
    /\ out' = <<>>
    /\ UNCHANGED <<children, buildPos, opens, throws>>

Next == Open \/ BuildBatch \/ BuildThrows \/ BuildDone
        \/ ProbeBatch \/ ProbeEnds \/ Emit \/ Close

Spec == Init /\ [][Next]_vars
-----------------------------------------------------------------------------
\* The pairs in progress point into the probe batch whose buffer is live and
\* into the store; the store's codes are codes of its own dictionary; every
\* group of the table has its list of store rows.
TypeOK ==
    /\ buildPos \in 0 .. Len(buildIn) /\ probePos \in 0 .. Len(probeIn)
    /\ phase \in {"closed", "building", "ready", "failed"}
    /\ opened = (phase # "closed")
    /\ DOMAIN groupRows = 0 .. ht.used - 1
    /\ \A key \in DOMAIN ht.index : ht.index[key] < ht.used /\ key < Len(idmap)
    /\ \A r \in DOMAIN store.rows :
          store.rows[r].valid => store.rows[r].code \in 0 .. Len(store.dict) - 1
    /\ ~probeDone => cursor <= Len(pairs)
    /\ pairs # <<>> => phase = "ready" /\ probePos > 0
    /\ \A i \in DOMAIN pairs :
          /\ pairs[i][1] \in ToSet(probeIn[probePos].sel)
          /\ pairs[i][2] \in {kNullBuildRow} \union DOMAIN store.rows

StoredRows == [r \in DOMAIN store.rows |-> BuildCells(r)]

\* Ids stand for the same string on both sides and in every batch: the rows
\* of a group that a probe can find are exactly the store rows whose string
\* is the one its id was given to, in store order.
GroupsByValue ==
    \A id \in DOMAIN ht.index :
        groupRows[ht.index[id]] = MatchingRows(StoredRows, <<1>>, <<At(idmap, id)>>)

Answer == JoinReference(LiveRows(probeIn), LiveRows(buildIn), <<1>>, <<1>>, type, 2)

\* What the caller has got since open() is the beginning of the join of the
\* two tables, and all of it once next() has answered nullopt -- also when
\* the join was closed early, or had failed, and was opened again.
JoinsLikeReference ==
    /\ out # <<>> => IsPrefix(out, Answer)
    /\ probeDone => out = Answer
===============================================================================
