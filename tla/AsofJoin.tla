------------------------------- MODULE AsofJoin -------------------------------
(***************************************************************************)
(* AsofJoin (tsx/asof.cpp): both children are wrapped in a Sort by key and *)
(* timestamp; open() drains the build side into a row store and the lists  *)
(* of store rows per key group; next() pulls sorted probe batches and      *)
(* merges them with a cursor that only moves forward within a group, and   *)
(* that is kept from one probe batch to the next.  A row is <<key, time>>. *)
(* Timestamps are signed words of Bits bits; a span is compared unsigned.  *)
(***************************************************************************)
EXTENDS Integers, Sequences, FiniteSets, SequencesExt, StringDict, ReferenceOracle

CONSTANTS Inputs,     \* records: keyType ("none": no key column, "I32", "STR")
                      \* and build, probe: the children's rows in order
          AsofTypes,  \* a subset of {"Inner", "Left"}
          Tolerances, \* NULL for no tolerance
          Bits,       \* width of a timestamp
          SortBatch,  \* rows per batch of the sorts
          kOutBatch,
          MaxOpens    \* bound: how often the caller opens the join

kNoGroup      == -1
kNullBuildRow == 0

\* The common domain of the timestamps: std::int64_t, here of Bits bits.
Word    == 2 ^ Bits
TimeSet == -(Word \div 2) .. Word \div 2 - 1

\* A row is its key and its time; a string is a number in the order of its bytes.
RowSet == (Int \union {NULL}) \X (TimeSet \union {NULL})

ASSUME AsofAssumption ==
    /\ {kOutBatch, SortBatch, Bits} \subseteq Nat \ {0}
    /\ AsofTypes \subseteq {"Inner", "Left"} /\ Tolerances \subseteq TimeSet \union {NULL}
    /\ NULL \notin Int /\ NaN \notin Int /\ NULL # NaN
    /\ \A i \in Inputs : /\ i.keyType \in {"none", "I32", "STR"}
                        /\ {i.build, i.probe} \subseteq Seq(RowSet)

VARIABLES build, probe, keyType, type, tolerance, \* the children's rows, the constructor's arguments
          buildPos, probePos,  \* rows the sorts have handed out
          phase,               \* the caller's view of the join
          ht,                  \* key words in first-seen order: their groups are 0, 1, ...
          groupRows,           \* matchable store rows per group
          store,               \* BuildStore and build_ts
          lastGid, mergeCursor,\* last_gid, cursor of State
          chunk,               \* the current probe batch
          pairs, cursor,       \* pair_probe / pair_build, pair_cursor_
          probeDone,
          out, opens

input == <<build, probe, keyType, type, tolerance>>
vars  == <<build, probe, keyType, type, tolerance, buildPos, probePos, phase, ht,
           groupRows, store, lastGid, mergeCursor, chunk, pairs, cursor, probeDone,
           out, opens>>
-----------------------------------------------------------------------------
Keyed == keyType # "none"

Cols == IF Keyed THEN <<1>> ELSE <<>>

\* sort_keys: the keys, then the time, ascending, NULLS LAST.
Ascending(col) == [col |-> col, dir |-> "Asc", nulls |-> "Last"]

SortKeys == IF Keyed THEN <<Ascending(1), Ascending(2)>> ELSE <<Ascending(2)>>

Sorted(table) == OrderBy(table, SortKeys)

\* read_time: widened to the common domain, NULL if the validity bit is clear.
Time(row) == row[2]

\* any_key_null.
KeyNull(row) == Keyed /\ row[1] = NULL

\* The dictionary a Sort builds for its STR column as it drains its child.
DictOf(table) ==
    FoldLeft(LAMBDA d, row : IF row[1] = NULL THEN d ELSE Intern(d, row[1]), <<>>, table)

\* The word of a key that the hash table gets: of a STR column, its code.
KeyWord(row, table) ==
    IF keyType = "STR" /\ row[1] # NULL THEN CodeOf(DictOf(table), row[1]) ELSE row[1]

\* Mutant of Within: the signed difference of the words, which may overflow.
WithinSigned(t, tb) ==
    LET d == (t - tb) % Word
    IN  tolerance = NULL \/ (IF d >= Word \div 2 THEN d - Word ELSE d) <= tolerance

\* The span as uint64 against the tolerance as uint64.
Within(t, tb) == tolerance = NULL \/ (t - tb) % Word <= tolerance % Word

Find(word) ==
    IF ~Keyed THEN 0
    ELSE IF word \in ToSet(ht) THEN (CHOOSE g \in DOMAIN ht : ht[g] = word) - 1
    ELSE kNoGroup

\* One sorted build row: its group (a NULL key uses an id that is never
\* found again, left out here), the store, the list if it can match.
AddRow(acc, row) ==
    LET word  == KeyWord(row, build)
        known == row[1] = NULL \/ word \in ToSet(acc.ht)
        table == IF ~Keyed \/ known THEN acc.ht ELSE Append(acc.ht, word)
        gid   == IF ~Keyed THEN 1 ELSE CHOOSE g \in 0 .. Len(table) :
                     IF row[1] = NULL THEN g = 0 ELSE g > 0 /\ table[g] = word
        lists == IF Len(table) > Len(acc.groupRows) THEN Append(acc.groupRows, <<>>)
                 ELSE acc.groupRows
    IN  [ht |-> table, store |-> Append(acc.store, row),
         groupRows |-> IF gid > 0 /\ Time(row) # NULL
                         THEN [lists EXCEPT ![gid] = Append(@, Len(acc.store) + 1)]
                         ELSE lists]

\* The rows of one sorted build batch, in order.
AddBatch(acc, rows) == FoldLeft(AddRow, acc, rows)

\* Mutant of NotAfter: a build row at the probe's own time is passed over.
Before(tb, t) == tb < t

NotAfter(tb, t) == tb <= t

\* One row of a probe batch: its group, the cursor moved past every build
\* row not after it, the candidate before the cursor.
MergeRow(acc, k, row) ==
    LET gid   == Find(KeyWord(row, probe))
        live  == gid # kNoGroup /\ Time(row) # NULL /\ ~KeyNull(row)
        list  == IF live THEN groupRows[gid + 1] ELSE <<>>
        start == IF live /\ gid # acc.gid THEN 0 ELSE acc.cursor
        stop  == CHOOSE c \in start .. Len(list) + start :
                    /\ \A i \in start + 1 .. c : i <= Len(list) /\ NotAfter(Time(store[list[i]]), Time(row))
                    /\ c < Len(list) => ~NotAfter(Time(store[list[c + 1]]), Time(row))
        cand  == IF live /\ stop > 0 /\ Within(Time(row), Time(store[list[stop]]))
                   THEN list[stop] ELSE kNullBuildRow
    IN  [gid    |-> IF live THEN gid ELSE acc.gid,
         cursor |-> IF live THEN stop ELSE acc.cursor,
         pairs  |-> IF cand = kNullBuildRow /\ type = "Inner" THEN acc.pairs
                    ELSE Append(acc.pairs, <<k, cand>>)]

\* The rows of one sorted probe batch, in order.
MergeBatch(acc, rows) == FoldLeft(LAMBDA a, k : MergeRow(a, k, rows[k]), acc,
                                  [k \in DOMAIN rows |-> k])

BuildCells(r) == IF r = kNullBuildRow THEN Nulls(2) ELSE store[r]
-----------------------------------------------------------------------------
NextChunk(rows, pos) == SubSeq(rows, pos + 1, IF pos + SortBatch < Len(rows)
                                               THEN pos + SortBatch ELSE Len(rows))

\* Mutant of FreshState: the merge cursor outlives its groups.
FreshStateKeepsMerge ==
    /\ ht' = <<>> /\ store' = <<>>
    /\ groupRows' = IF Keyed THEN <<>> ELSE << <<>> >>
    /\ UNCHANGED <<lastGid, mergeCursor>>
    /\ chunk' = <<>> /\ pairs' = <<>> /\ cursor' = 0 /\ probeDone' = FALSE

FreshState ==
    /\ ht' = <<>> /\ store' = <<>>
    /\ groupRows' = IF Keyed THEN <<>> ELSE << <<>> >>
    /\ lastGid' = kNoGroup /\ mergeCursor' = 0
    /\ chunk' = <<>> /\ pairs' = <<>> /\ cursor' = 0 /\ probeDone' = FALSE

Init ==
    /\ \E i \in Inputs : build = i.build /\ probe = i.probe /\ keyType = i.keyType
    /\ type \in AsofTypes /\ tolerance \in Tolerances
    /\ buildPos = 0 /\ probePos = 0 /\ phase = "closed"
    /\ ht = <<>> /\ store = <<>> /\ groupRows = <<>>
    /\ lastGid = kNoGroup /\ mergeCursor = 0
    /\ chunk = <<>> /\ pairs = <<>> /\ cursor = 0 /\ probeDone = FALSE
    /\ out = <<>> /\ opens = 0

Open ==
    /\ phase = "closed" /\ opens < MaxOpens
    /\ opens' = opens + 1
    /\ phase' = "building"
    /\ FreshState
    /\ buildPos' = 0 /\ out' = <<>>
    /\ UNCHANGED <<input, probePos>>

BuildBatch ==
    /\ phase = "building" /\ buildPos < Len(build)
    /\ LET rows == NextChunk(Sorted(build), buildPos)
           acc  == AddBatch([ht |-> ht, store |-> store, groupRows |-> groupRows], rows)
       IN  /\ buildPos' = buildPos + Len(rows)
           /\ ht' = acc.ht /\ store' = acc.store /\ groupRows' = acc.groupRows
    /\ UNCHANGED <<input, probePos, phase, lastGid, mergeCursor, chunk, pairs, cursor,
                   probeDone, out, opens>>

\* The build side is drained and closed, the probe side opened and sorted.
BuildDone ==
    /\ phase = "building" /\ buildPos = Len(build)
    /\ phase' = "ready" /\ probePos' = 0
    /\ UNCHANGED <<input, buildPos, ht, groupRows, store, lastGid, mergeCursor, chunk,
                   pairs, cursor, probeDone, out, opens>>

Drained == cursor >= Len(pairs)

\* build_pairs_for_probe.
ProbeBatch ==
    /\ phase = "ready" /\ Drained /\ ~probeDone /\ probePos < Len(probe)
    /\ LET rows == NextChunk(Sorted(probe), probePos)
           acc  == MergeBatch([gid |-> lastGid, cursor |-> mergeCursor, pairs |-> <<>>], rows)
       IN  /\ chunk' = rows
           /\ probePos' = probePos + Len(rows)
           /\ lastGid' = acc.gid /\ mergeCursor' = acc.cursor /\ pairs' = acc.pairs
    /\ cursor' = 0
    /\ UNCHANGED <<input, buildPos, phase, ht, groupRows, store, probeDone, out, opens>>

ProbeEnds ==
    /\ phase = "ready" /\ Drained
    /\ ~probeDone => probePos = Len(probe)
    /\ probeDone' = TRUE
    /\ pairs' = IF probeDone THEN pairs ELSE <<>>
    /\ UNCHANGED <<input, buildPos, probePos, phase, ht, groupRows, store, lastGid,
                   mergeCursor, chunk, cursor, out, opens>>

ChunkLength(left) == IF left < kOutBatch THEN left ELSE kOutBatch

\* next(): at most kOutBatch pairs.
Emit ==
    /\ phase = "ready" /\ ~Drained
    /\ LET m == ChunkLength(Len(pairs) - cursor)
       IN  /\ out' = out \o [i \in 1 .. m |-> chunk[pairs[cursor + i][1]]
                                              \o BuildCells(pairs[cursor + i][2])]
           /\ cursor' = cursor + m
    /\ UNCHANGED <<input, buildPos, probePos, phase, ht, groupRows, store, lastGid,
                   mergeCursor, chunk, pairs, probeDone, opens>>

Close ==
    /\ phase = "ready"
    /\ phase' = "closed"
    /\ FreshState
    /\ probePos' = Len(probe) /\ out' = <<>>
    /\ UNCHANGED <<input, buildPos, opens>>

Next == Open \/ BuildBatch \/ BuildDone \/ ProbeBatch \/ ProbeEnds \/ Emit \/ Close

Spec == Init /\ [][Next]_vars
-----------------------------------------------------------------------------
\* Every key word has one list of store rows, the merge cursor is a place in
\* the list of its group, and the pairs point into the current probe batch
\* and the store.
TypeOK ==
    /\ buildPos \in 0 .. Len(build) /\ probePos \in 0 .. Len(probe)
    /\ phase \in {"closed", "building", "ready"}
    /\ phase # "closed" => Len(groupRows) = (IF Keyed THEN Len(ht) ELSE 1)
    /\ \A g \in DOMAIN groupRows : ToSet(groupRows[g]) \subseteq DOMAIN store
    /\ lastGid = kNoGroup \/ lastGid + 1 \in DOMAIN groupRows
    /\ IF lastGid = kNoGroup THEN mergeCursor = 0
       ELSE mergeCursor \in 0 .. Len(groupRows[lastGid + 1])
    /\ ~probeDone => cursor <= Len(pairs)
    /\ \A i \in DOMAIN pairs : /\ pairs[i][1] \in DOMAIN chunk
                               /\ pairs[i][2] \in {kNullBuildRow} \union DOMAIN store

\* The last probe row that reached the merge.
LastMerged ==
    LET rows == Sorted(probe)
        live == {i \in 1 .. probePos : Find(KeyWord(rows[i], probe)) # kNoGroup
                                       /\ Time(rows[i]) # NULL /\ ~KeyNull(rows[i])}
    IN  rows[CHOOSE i \in live : \A j \in live : j <= i]

\* Across batches and groups the cursor of the merge stands exactly after the
\* build rows of the group that are not later than the last probe row merged.
CursorSplits ==
    phase = "ready" /\ lastGid # kNoGroup =>
        LET list == groupRows[lastGid + 1]
        IN  /\ lastGid = Find(KeyWord(LastMerged, probe))
            /\ \A i \in DOMAIN list : (i <= mergeCursor) = (Time(store[list[i]]) <= Time(LastMerged))

Answer == AsofReference(Sorted(probe), build, Cols, Cols, 2, 2, type, tolerance, 2)

\* What the caller has got since open() is the beginning of the as-of join of
\* the two tables in probe order, and all of it once next() answers nullopt.
AsofLikeReference ==
    /\ out # <<>> => IsPrefix(out, Answer)
    /\ probeDone => out = Answer
===============================================================================
