-------------------------------- MODULE Window --------------------------------
(***************************************************************************)
(* Window (tsx/window.cpp).  Tumbling: open() groups the child's batches   *)
(* by key and time bucket.  Sliding: open() wraps the child in a Sort by   *)
(* key and time, stores the sorted rows and sweeps over them once, with a  *)
(* running sum and count and a deque of candidates for the minimum or      *)
(* maximum of the frame.  next() hands the result out in batches of at     *)
(* most kOutBatch rows.  A row is <<key, time, value>>; an action is one   *)
(* call, one batch of the child or one row of the sweep.                   *)
(***************************************************************************)
EXTENDS Integers, Sequences, FiniteSets, SequencesExt, AggCells, ReferenceOracle

CONSTANTS Inputs,     \* records: mode, rows, param (W or P), aggs, isFloat, opens
          BatchRows,  \* rows per batch of the child
          kOutBatch

\* A row is its key, time and value; NaN is a value of F64 columns only.
RowSet(i) == (Int \union {NULL, NaN}) \X (Int \union {NULL})
             \X ((MinInt .. MaxInt) \union (IF i.isFloat THEN {NULL, NaN} ELSE {NULL}))

AggFuncs == {"CountStar", "Count", "Sum", "Min", "Max", "Avg"}

\* The width of a bucket is positive, the number of preceding rows a natural.
ASSUME WindowAssumption ==
    /\ {BatchRows, kOutBatch} \subseteq Nat \ {0}
    /\ {MinInt, MaxInt} \subseteq Int
    /\ NULL \notin Int /\ NaN \notin Int /\ NULL # NaN
    /\ \A i \in Inputs :
          /\ i.mode \in {"Tumbling", "Sliding"} /\ i.isFloat \in BOOLEAN
          /\ i.param \in Nat /\ (i.mode = "Tumbling" => i.param > 0)
          /\ i.rows \in Seq(RowSet(i))
          /\ i.aggs \in Seq([func : AggFuncs, col : {3}])

VARIABLES in,       \* the child's rows and the constructor's arguments
          hasChild, \* child_ is there: build_sliding moves it away
          pos,      \* rows pulled from the child, or swept
          phase,    \* "closed", "building", "sweeping", "ready", "crashed"
          tuples,   \* the table: the keys and bucket of each group
          cells,    \* per group, or per sorted row, the aggregates' cells
          store,    \* BuildStore: the sorted rows
          pstart, lo, \* the sweep's partition start and frame start
          acc,      \* per aggregate: sum, cnt and deque of SlideAcc
          emitted,  \* emit_cursor_
          done,     \* next() has answered nullopt
          out, opens

vars == <<in, hasChild, pos, phase, tuples, cells, store, pstart, lo, acc, emitted,
          done, out, opens>>

Aggs == in.aggs
Col(a) == IF Aggs[a].func = "CountStar" THEN 3 ELSE Aggs[a].col

\* store_val: the input of an aggregate, NULL if its validity is clear.
Value(a, row) == row[Col(a)]

\* read_time.
Time(row) == row[2]
-----------------------------------------------------------------------------
SortKeys == << [col |-> 1, dir |-> "Asc", nulls |-> "Last"],
               [col |-> 2, dir |-> "Asc", nulls |-> "Last"] >>

\* The bucket's lower edge by C++ division; a NULL time has a NULL bucket.
Bucket(t) == IF t = NULL THEN NULL ELSE TruncDiv(t, in.param) * in.param

\* One row of build_tumbling: its group under NullPolicy::kEqual, every cell.
GroupRow(a, row) ==
    LET tuple == <<row[1], Bucket(Time(row))>>
        known == tuple \in ToSet(a.tuples)
        ts    == IF known THEN a.tuples ELSE Append(a.tuples, tuple)
        start == [i \in DOMAIN Aggs |-> InitCell(Aggs[i].func, in.isFloat)]
        old   == IF known THEN a.cells ELSE Append(a.cells, start)
        g     == CHOOSE i \in DOMAIN ts : ts[i] = tuple
    IN  [tuples |-> ts,
         cells  |-> [old EXCEPT ![g] =
                       [i \in DOMAIN Aggs |-> FoldCell(@[i], Aggs[i].func, Value(i, row))]]]

\* The rows of one batch, in order.
GroupBatch(groups, rows) == FoldLeft(GroupRow, groups, rows)

NoAcc == [a \in DOMAIN Aggs |-> [sum |-> 0, cnt |-> 0, deque |-> <<>>]]

\* F64 inputs leave the integer sum alone.
Unit(v) == IF in.isFloat THEN 0 ELSE v

\* Mutant of Leave: a row that left the frame stays a candidate.
LeaveKeepsFront(a, x, r) ==
    IF Aggs[a].func = "CountStar" \/ Value(a, store[r]) = NULL THEN x
    ELSE [x EXCEPT !.sum = @ - Unit(Value(a, store[r])), !.cnt = @ - 1]

\* Row r leaves the frame of aggregate a.
Leave(a, x, r) ==
    LET v == Value(a, store[r])
        y == IF v = NULL THEN x ELSE [x EXCEPT !.sum = @ - Unit(v), !.cnt = @ - 1]
    IN  IF Aggs[a].func = "CountStar" THEN x
        ELSE IF y.deque # <<>> /\ Head(y.deque) = r THEN [y EXCEPT !.deque = Tail(@)]
        ELSE y

\* The rows of `gone` leave, one after another.
LeaveAll(a, x, gone) == FoldLeft(LAMBDA y, r : Leave(a, y, r), x, gone)

\* The candidates that stay in front of a new row i: strictly smaller ones
\* for a minimum, strictly greater ones for a maximum.
Stays(a, r, i) == IF Aggs[a].func = "Min"
                    THEN CellLess(Value(a, store[r]), Value(a, store[i]))
                    ELSE CellLess(Value(a, store[i]), Value(a, store[r]))

\* pop_back while the back does not stay, then push_back(i).
PushBack(a, deque, i) ==
    LET keep == CHOOSE n \in 0 .. Len(deque) :
                   /\ n > 0 => Stays(a, deque[n], i)
                   /\ \A m \in n + 1 .. Len(deque) : ~Stays(a, deque[m], i)
    IN  Append(SubSeq(deque, 1, keep), i)

\* Row i enters the frame of aggregate a.
Enter(a, x, i) ==
    LET v == Value(a, store[i])
    IN  IF Aggs[a].func = "CountStar" \/ v = NULL THEN x
        ELSE [sum |-> x.sum + Unit(v), cnt |-> x.cnt + 1,
              deque |-> IF Aggs[a].func \in {"Min", "Max"} THEN PushBack(a, x.deque, i)
                        ELSE x.deque]

\* A float sum is added up afresh over the frame, in order.
AddUp(values) == FoldLeft(LAMBDA s, v : IF v = NULL THEN s ELSE Plus(s, v), 0, values)

FrameSum(a, from, to) == AddUp([k \in 1 .. to - from + 1 |-> Value(a, store[from + k - 1])])

SumOf(a, x, from, to) == IF in.isFloat THEN FrameSum(a, from, to) ELSE x.sum

\* The finalized cell of row i over the frame from..i.
Finalize(a, x, from, i) ==
    LET func == Aggs[a].func
        cell == InitCell(func, in.isFloat)
    IN  IF func = "CountStar" THEN [cell EXCEPT !.cnt = i - from + 1]
        ELSE [cnt |-> x.cnt,
              val |-> CASE func \in {"Sum", "Avg"} -> SumOf(a, x, from, i)
                        [] func \in {"Min", "Max"} /\ x.cnt > 0 -> Value(a, store[Head(x.deque)])
                        [] OTHER -> cell.val]
-----------------------------------------------------------------------------
\* Mutant of Fresh: the cells of the last run are kept.
FreshKeepsCells ==
    /\ tuples' = <<>> /\ store' = <<>>
    /\ pstart' = 1 /\ lo' = 1 /\ acc' = NoAcc
    /\ emitted' = 0 /\ done' = FALSE /\ out' = <<>>
    /\ UNCHANGED cells

Fresh == /\ tuples' = <<>> /\ cells' = <<>> /\ store' = <<>>
         /\ pstart' = 1 /\ lo' = 1 /\ acc' = NoAcc
         /\ emitted' = 0 /\ done' = FALSE /\ out' = <<>>

Init == /\ in \in Inputs /\ hasChild = TRUE /\ pos = 0 /\ phase = "closed"
        /\ tuples = <<>> /\ cells = <<>> /\ store = <<>>
        /\ pstart = 1 /\ lo = 1 /\ acc = NoAcc
        /\ emitted = 0 /\ done = FALSE /\ out = <<>> /\ opens = 0

OpenTumbling ==
    /\ phase = "closed" /\ opens < in.opens /\ in.mode = "Tumbling"
    /\ opens' = opens + 1
    /\ phase' = "building" /\ pos' = 0
    /\ Fresh
    /\ UNCHANGED <<in, hasChild>>

TumbleBatch ==
    /\ phase = "building" /\ pos < Len(in.rows)
    /\ LET last == IF pos + BatchRows < Len(in.rows) THEN pos + BatchRows ELSE Len(in.rows)
           a == GroupBatch([tuples |-> tuples, cells |-> cells], SubSeq(in.rows, pos + 1, last))
       IN  /\ pos' = last
           /\ tuples' = a.tuples /\ cells' = a.cells
    /\ UNCHANGED <<in, hasChild, phase, store, pstart, lo, acc, emitted, done, out, opens>>

TumbleDone ==
    /\ phase = "building" /\ pos = Len(in.rows)
    /\ phase' = "ready"
    /\ UNCHANGED <<in, hasChild, pos, tuples, cells, store, pstart, lo, acc, emitted,
                   done, out, opens>>

\* child_ is moved into the Sort, which is drained into the store.
OpenSliding ==
    /\ phase = "closed" /\ opens < in.opens /\ in.mode = "Sliding" /\ hasChild
    /\ opens' = opens + 1
    /\ phase' = "sweeping" /\ pos' = 0
    /\ hasChild' = FALSE
    /\ tuples' = <<>> /\ cells' = <<>>
    /\ store' = OrderBy(in.rows, SortKeys)
    /\ pstart' = 1 /\ lo' = 1 /\ acc' = NoAcc
    /\ emitted' = 0 /\ done' = FALSE /\ out' = <<>>
    /\ UNCHANGED in

\* The Sort is constructed over a null child and asks it for its schema.
OpenWithoutChild ==
    /\ phase = "closed" /\ opens < in.opens /\ in.mode = "Sliding" /\ ~hasChild
    /\ opens' = opens + 1
    /\ phase' = "crashed"
    /\ UNCHANGED <<in, hasChild, pos, tuples, cells, store, pstart, lo, acc, emitted,
                   done, out>>

\* Mutant of FrameStart: the frame reaches back over the partition's start.
FrameStartAcross(i, start) == IF i - 1 > in.param THEN i - in.param ELSE 1

\* lo_target.
FrameStart(i, start) == i - (IF in.param < i - start THEN in.param ELSE i - start)

\* One turn of the sweep.
Sweep ==
    /\ phase = "sweeping" /\ pos < Len(store)
    /\ LET i     == pos + 1
           fresh == i > 1 /\ store[i][1] # store[i - 1][1]
           start == IF fresh THEN i ELSE pstart
           from  == IF fresh THEN i ELSE lo
           to    == FrameStart(i, start)
           gone  == [k \in 1 .. to - from |-> from + k - 1]
           Moved(a) == Enter(a, LeaveAll(a, IF fresh THEN NoAcc[a] ELSE acc[a], gone), i)
       IN  /\ pos' = i /\ pstart' = start /\ lo' = IF to > from THEN to ELSE from
           /\ acc' = [a \in DOMAIN Aggs |-> Moved(a)]
           /\ cells' = Append(cells, [a \in DOMAIN Aggs |-> Finalize(a, Moved(a), to, i)])
    /\ UNCHANGED <<in, hasChild, phase, tuples, store, emitted, done, out, opens>>

SweepDone ==
    /\ phase = "sweeping" /\ pos = Len(store)
    /\ phase' = "ready"
    /\ UNCHANGED <<in, hasChild, pos, tuples, cells, store, pstart, lo, acc, emitted,
                   done, out, opens>>

\* next_tumbling and next_sliding: the group's keys and bucket, or the
\* stored row, then the aggregates.
OutRow(i) == (IF in.mode = "Tumbling" THEN tuples[i] ELSE store[i])
             \o [a \in DOMAIN Aggs |-> WriteCell(cells[i][a], Aggs[a].func)]

Emit ==
    /\ phase = "ready" /\ emitted < Len(cells)
    /\ LET m == IF Len(cells) - emitted < kOutBatch THEN Len(cells) - emitted ELSE kOutBatch
       IN  /\ emitted' = emitted + m
           /\ out' = out \o [k \in 1 .. m |-> OutRow(emitted + k)]
    /\ UNCHANGED <<in, hasChild, pos, phase, tuples, cells, store, pstart, lo, acc,
                   done, opens>>

End ==
    /\ phase = "ready" /\ emitted >= Len(cells)
    /\ done' = TRUE
    /\ UNCHANGED <<in, hasChild, pos, phase, tuples, cells, store, pstart, lo, acc,
                   emitted, out, opens>>

Close ==
    /\ phase = "ready"
    /\ phase' = "closed"
    /\ Fresh
    /\ UNCHANGED <<in, hasChild, pos, opens>>

Next == OpenTumbling \/ TumbleBatch \/ TumbleDone \/ OpenSliding \/ OpenWithoutChild
        \/ Sweep \/ SweepDone \/ Emit \/ End \/ Close

Spec == Init /\ [][Next]_vars
-----------------------------------------------------------------------------
\* The child is moved away only by a sliding open; there are as many cells
\* as groups, or as rows swept, and none is handed out before its time.
TypeOK ==
    /\ phase \in {"closed", "building", "sweeping", "ready", "crashed"}
    /\ hasChild \/ in.mode = "Sliding"
    /\ in.mode = "Tumbling" => Len(cells) = Len(tuples) /\ store = <<>>
    /\ phase \in {"sweeping", "ready"} /\ in.mode = "Sliding" => Len(cells) = pos
    /\ emitted \in 0 .. Len(cells)
    /\ pstart <= lo /\ \A a \in DOMAIN acc : acc[a].cnt \in 0 .. Len(store)

FrameValues(a, from, to) == {r \in from .. to : Value(a, store[r]) # NULL}

\* The rows of a frame that no later value of it beats or equals.
Candidates(a, from, to) ==
    {r \in FrameValues(a, from, to) :
       \A s \in FrameValues(a, from, to) : s > r => Stays(a, r, s)}

Increasing(s) == \A m, n \in DOMAIN s : m < n => s[m] < s[n]

\* What the sweep carries from row to row belongs to the frame of the last
\* row swept and to nothing else: count and integer sum are those of the
\* frame's values, the deque holds exactly the candidates of the frame,
\* in order, and the frame is the row and at most P before it
\* in its partition.
FrameExact ==
    phase = "sweeping" /\ pos > 0 =>
        /\ lo = pos - (IF in.param < pos - pstart THEN in.param ELSE pos - pstart)
        /\ \A r \in pstart .. pos : store[r][1] = store[pos][1]
        /\ pstart > 1 => store[pstart - 1][1] # store[pos][1]
        /\ \A a \in DOMAIN Aggs : Aggs[a].func # "CountStar" =>
            /\ acc[a].cnt = Cardinality(FrameValues(a, lo, pos))
            /\ ~in.isFloat => acc[a].sum = FrameSum(a, lo, pos)
            /\ Aggs[a].func \in {"Min", "Max"} =>
                 /\ ToSet(acc[a].deque) = Candidates(a, lo, pos)
                 /\ Increasing(acc[a].deque)

Answer == IF in.mode = "Tumbling"
            THEN TumblingReference(in.rows, <<1>>, 2, in.param, Aggs)
            ELSE SlidingReference(OrderBy(in.rows, SortKeys), <<1>>, 2, in.param, Aggs)

\* What the caller has got since open() is the beginning of the reference's
\* result, and all of it once next() answers nullopt.
WindowLikeReference ==
    /\ out # <<>> => IsPrefix(out, Answer)
    /\ done => out = Answer

\* ops/operator.h:22-23: after close() a fresh open() is a valid call.
ReopenSafe == phase # "crashed"
===============================================================================
