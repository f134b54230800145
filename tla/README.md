# Verification of the query engine

TLA+ models of the engine's core logic, TLC runs that check them on small
instances, and TLAPS proofs for every value of the constants. The models are
translated from `src/`; `PROJECT.json` maps every definition to the lines it
stands for and lists the hazards the properties are aimed at.

Contents: 1 the system, 2 the modules and how they correspond to the code,
3 the runs, 4 the proofs, 5 the disagreements found, 6 what is abstracted,
7 what is not modelled, 8 the plan.

## 1. The system

A vectorized, pull-based query engine over immutable in-memory columns. A
`PlanBuilder` assembles a typed `Plan` tree; the plan lowers to a tree of
operators with `open / next / close`, and `next` returns a batch that is valid
until the next call. One thread drains the tree, or `ParallelEngine` gives every
morsel of the driving table a tree of its own.

| Component | State it keeps | Operations | What is hard | What makes it correct |
|---|---|---|---|---|
| **ParallelEngine** (`exec/parallel.cpp`) | the atomic morsel cursor; per worker a private result or map of accumulators; the merged map | `run` (dispatch), `run_streaming`, `run_aggregate`, `run_node` (Sort on top) | threads racing on one cursor; private state read after the joins; partial results combined in scheduling order; a throwing worker; plans it must turn away | the single-threaded plan's result: no morsel lost or repeated, exact merges, positional order under a Sort |
| **MorselScan** (`exec/morsel_scan.cpp`) | cursor within `[start, end)` | `open`, `next`, `close` | whole-word validity sub-views | batches tile the morsel, on word boundaries |
| **HashTable** (`ops/hashtable.cpp`) | slot array, key store, stored hashes, `occupied_`, `next_id_` | `insert_or_find`, `find`, internal `grow` | collisions, wrap-around, growth, exhausted ids, NULL policy, NULL sentinel equal to a real value | one dense id per key in first-seen order, a walk always ends |
| **HashJoin** (`ops/join.cpp`) | build table and row lists, pending pairs, STR id map | `open` (drains the build side), `next` | pairs pending while the probe batch is a view; dictionaries that differ per batch; a throwing child | the nested-loop join |
| **Aggregate** (`ops/aggregate.cpp`) | groups, accumulator cells, owned dictionary | `open` drains, `next` emits | NULL and NaN; empty input; strings under MIN and MAX; register tails | one row per group, SQL NULL rules |
| **Sort** (`ops/sort.cpp`) | the materialized rows, the permutation | `open` sorts, `next` gathers | radix and comparison paths must agree, stability | a stable ordering |
| **Scan, Filter, Project** (`ops`) | child, cursor, scratch | `open / next / close` | NULLs carried through compaction, empty batches, reopening | per-row semantics |
| **AsofJoin** (`tsx/asof.cpp`) | per-key sorted build rows, merge cursor | `open`, `next` | the cursor is right only while a group's rows are contiguous; unsigned tolerance | the nearest row at or before |
| **Window** (`tsx/window.cpp`) | bucket groups; sliding sums and deques | `open`, `next`, `close` | leave/enter over partitions; reopen after close | the frame's definition |
| **CompressedScan** (`tsx/compress.cpp`) | codec cursors across batches | `encode`, `open`, `next` | state carried over batch boundaries and NULL rows; wrapping differences | decode of encode is the identity |
| **Expressions** (`expr`) | none | `eval` | NULL propagation, casts, division, vector and scalar twins | SQL three-valued logic |
| **Plan, lowering** (`plan`) | immutable trees | builder calls, `lower`, `supported` | code paths that must accept the same plans | what is accepted can be lowered |
| **Columns, validity and gather kernels** (`core`, `simd`) | lanes, bitmap words, `all_valid`, dictionary | word loops with tails | bits past the end; views at an offset; a flag that disagrees with its bitmap | equal to the row-wise definition |

Interactions: a parent operator calls its child's `open / next / close`.
`Aggregate`, `HashJoin`, `AsofJoin` and `Window` own a `HashTable` each and call
it from one thread. `AsofJoin` and the sliding `Window` wrap their children in a
`Sort`. `ParallelEngine` gives every morsel its own operator tree (even the build
side of a join is private to it), so threads share only the immutable tables and
the atomic cursor.

## 2. Modules

| Module | Models |
|---|---|
| `Values`, `StringDict`, `Columns` | NULL and NaN; dictionaries; columns with lanes, bitmap words, `all_valid`, views, gather and compaction |
| `Expr` | expression builders with their type rules and inserted casts, the batch evaluator, vector kernels with tails and their scalar twins |
| `SqlExpr` | abstract: what an expression means on one row |
| `AggCells` | the accumulator cells `Aggregate` and `Window` share |
| `Operators`, `AggregateNode` | Scan, MorselScan, Filter, Project, Sort and Aggregate as tree nodes |
| `OperatorTree` | `open`, `next`, `close` over a whole tree |
| `Plan` | builder checks and schemas, `lower`, `lower_morsel`, `supported` and the rest of the parallel dispatch |
| `ReferenceOracle`, `PlanReference` | abstract: the independent interpreter, for each node and for a whole plan |
| `Query` | the composition: build a plan, then run it by one thread or by morsels |
| `MorselPool` | the pool both drivers contain: morsels, thread creation, the shared cursor, each worker's loop, `MorselScan` batch by batch, joins, termination by an exception |
| `ParallelRun` | what the two drivers have in common besides the pool: the shared driving table, the result |
| `ParallelStreaming` | `run_streaming` and the Sort `run_node` puts on top, over an abstract streaming tree |
| `ParallelAggregate` | `run_aggregate`: partial aggregation, fold, cross-worker merge, finalize |
| `SingleThread` | abstract: `ParallelEngine::run` as one step that delivers the single-threaded result |
| `HashTable` | the table slot by slot, growth included |
| `KeyIndex` | abstract: an index from keys to ids |
| `HashJoin`, `AsofJoin`, `Window` | the operators, one action per call, child batch or swept row |
| `Selections` | the elements of a sequence that pass a test, as loops with a `push_back` collect them |
| `Codecs`, `CompressedScan` | the codecs bit by bit; the scan that decodes batch by batch |
| `MC...` | bounded instances |
| `DataProofs` | theorems about columns; lemmas about ORDER BY, induction over finite sets and over positions, rearrangements, flattened sequences |
| `MorselPoolProofs`, `ParallelProofs`, `HashTableProofs`, `HashJoinProofs`, `AsofJoinProofs`, `WindowProofs`, `CompressedScanProofs` | theorems |

`ParallelStreaming` and `ParallelAggregate` extend `MorselPool`, through
`ParallelRun`, and conjoin its actions with their own. `ParallelProofs` is about both,
so the names they would share (`Next`, `TypeOK`, ...) begin with `Agg` in
`ParallelAggregate`. `ParallelStreaming` implements `SingleThread` and
`HashTable` implements `KeyIndex`, each by `INSTANCE ... WITH` a refinement
mapping. `HashJoin`, `AsofJoin`, `Window` and `Query` are compared with
`ReferenceOracle`, which is translated from the repository's own reference.

Definitions named "Mutant of X" are the planted faults that `PROJECT.json`
substitutes for X to show that a property can fail. They are in no specification.

### The pool

`mainpc` is where the calling thread is: creating threads, running `work(0)`,
joining in index order, merging. `pc[w]` is where worker `w`'s lambda is.
`Fetch` is `cursor.fetch_add(1)` with the loop test (the read and the increment
are one step because the code's operation is atomic; the mutant `LoadThenStore`
splits it). `Pull` is one `MorselScan::next()`, `Finish` the end of the drain,
which appends to the worker's private result. Indices are 0-based as in the code.
`Word` stands for the 64 rows a validity word covers.

`Abort` is an exception during the parallel section. Nothing catches it: it
unwinds through a vector of joinable threads or leaves a thread's function, and
either is `std::terminate`. Before any pool thread exists the exception reaches
the caller instead; the two outcomes are one model state, because no further step
exists and no result is delivered. An exception after the joins (allocation
during the merge) is not modelled.

### The drivers

A streaming tree is the constant `Emit`: the output rows of one driving row, in
order, which is what Scan, Filter, Project and a join with a private build side
amount to (`Query` runs the real trees). `Exchange` concatenates the drained
results worker by worker and applies the stable sort when the plan has one on top.

`ParallelAggregate` computes a morsel's partial cells as the frozen `Aggregate`
does (`Cells`), folds them into the worker's map (`FoldMorsel`), and merges one
worker's map per step (`MergeWorker`). The order of `Combine` is the code's, and
so is the difference between `FoldOp` (the NaN-greatest total order) and
`MergeOp` (raw `std::min` and `std::max`). AVG is finalized from its SUM and
COUNT partials.

### The hash table

One action is one turn of a loop: `Advance`, `Hit`, `MissFind`, `MissInsert`
are what the probe loop can do at a slot, `GrowSkip`, `GrowPick`, `GrowAdvance`,
`GrowPlace`, `GrowSwap` the loops of `grow()`. A batch of rows is a sequence of
calls: the code finishes a row, growth included, before the next. `Throw` is the
overflow error of `new_group_from`, which comes before any change. The hash is
any function of the normalized words. `Canon` is the normalization of a value (it
may identify two bit patterns, as `-0.0` and `+0.0`) and `NullWord` may equal the
word of a real value, as it can in the code.

### Columns and expressions

A column is its lanes, a bitmap (`<<>>` when the code has no buffer), the flag
`all_valid` and a dictionary. What is under a NULL is kept: `Fill` leaves `Junk`
there and the kernels compute on it, as the code does, so that a kernel whose
result depended on a NULL lane would show. Bitmaps have words of `WordBits` bits
with padding. A string is a number (the order of its bytes); a column holds
codes, and codes of two dictionaries are different things. An F64 is an integer
number of halves or NaN, enough for rounding at a half, comparison and NaN.

`Expr!Eval` takes "Vector" or "Scalar": the same node through the kernel (full
registers of `Lanes` lanes, then the tail) or through its scalar twin. `SqlExpr`
says what a node means on one row, without columns.

### The operator tree and a query

A node is a record; `Open`, `Next` and `Close` are recursive operators that
return the tree afterwards, since one call of the engine runs down the whole
tree. A node "Materialized" stands for HashJoin, AsofJoin or Window: it drains its
children with real calls and answers with the reference's rows, which is what
`HashJoin`, `AsofJoin` and `Window` are shown to return; its batches carry fresh
dictionaries. The two Sorts an AsofJoin makes over its inputs are nodes of the tree
(`SortedInput`): they outlive its `close()`. The one of a sliding Window does not.

`Query` begins with a scan, applies builder calls (`Filter`, `Project`,
`AggregateCall`, `Join`, `AsofJoin`, `WindowTumbling`, `WindowSliding`, `Sort`)
whose checks are the builder's, and then either lowers the plan and pulls it
batch by batch, once more after nullopt, closes it, opens it again, or submits it
to the parallel engine, where `RunMorsel` takes any morsel that is left
and `Exchange` merges and sorts. Threads and cursor are not repeated here. For an
aggregate on top, `Merged` is the reference over the concatenation of the
morsels' rows: that merging the workers' partial cells gives this is what
`ParallelAggregate` checks. (With NaN under MIN or MAX it refutes it, see
section 5; `Query` shows neither.)

`OpenThrows` is an allocation that fails while some breaker builds its state:
`Interrupted` gives the trees the exception can leave behind, in which every
breaker on the way is marked open over what it had built. The caller closes the
tree and opens it again. `threw` remembers whether the root's `close()` gets to
every operator that the exception left open (`LeftOpen`): where it does, the retry
has to give the right answer; where it does not, it gives a wrong one (section 5).

### HashJoin, AsofJoin, Window

`HashJoin` has a STR key, the hard case: `CanonMap` is the interning of a batch's
codes into ids both sides share. `BuildBatch` drains one build batch, `BuildThrows` is an
exception of the build child, `ProbeBatch` pairs one probe batch, `Emit` hands
out at most `kOutBatch` pairs, reading the probe columns through the batch the
child returned last. The table is used as `KeyIndex` promises.
`AsofJoin` has its `lastGid` and `mergeCursor`, carried from batch to batch; the
tolerance is compared as an unsigned word of `Bits` bits. `Window` has the group
cells of the tumbling mode and, row by row (`Sweep`), the sliding mode's sum,
count and deque for each aggregate.

### Codecs

Words have `W` bits instead of 64 and the fields shrink with them: a varint byte
carries `VarintBits`, the leading-zero count has `LeadBits` bits (too few, so it
is clamped as in the code) and a meaningful length of `W` is stored as 0. One
column stands for a table, since columns share nothing but the row cursor.

## 3. Runs

| Run | Distinct states | Shows |
|---|---|---|
| `streaming` | 105 thousand | no morsel drained twice or lost; the merge reads only final results; batches stay on word boundaries; a top-level Sort delivers the single-threaded key order; `SingleThread` is implemented up to row order; `run()` returns or the process ends |
| `sort_ties` | | violation: under tied keys the result is not positionally the single-threaded one |
| `aggregate` | 4.1 million | with NULL and NaN, every worker's map is at every moment the aggregate of its drained rows; merged counts, sums and averages are exact; without NaN MIN and MAX are too |
| `aggregate_nan_merge` | | violation: merged MIN or MAX with NaN |
| `hashtable` | 381 thousand | chains stay intact, one id per key, a free slot before every walk, every call returns, `KeyIndex` is implemented |
| `hash_join` | 44 thousand | ids stand for the same string on both sides and in every batch; the output is a prefix of the nested-loop join and in the end all of it, also after an early close or a failed open |
| `asof_join` | 272 thousand | the merge cursor splits its group at the last probe row whatever the batches; the output is the nearest preceding row's |
| `asof_str_keys` | | violation: with a STR key, rows of different keys join |
| `window` | 74 thousand | sums, counts and deques carried by the sweep are those of the current frame and nothing else; the output is the reference's |
| `window_reopen` | | violation: a sliding window cannot be opened again |
| `compress` | 81 thousand | values come back bit by bit however the rows are cut into batches; the decoder's carried state is the encoder's |
| `query` | 30 thousand | every plan of up to three nodes, alone, opened again, and by morsels, returns what `PlanReference` says, and so does a retry after an exception if `close()` has reached every open operator; accepted plans lower; vector and scalar kernels agree; nullopt is final |

Bounds, and why they are enough:

* *streaming*: 3 workers (the smallest number at which two pool threads race with
  each other and with the calling thread); morsels of 4 rows, batches of 2, words
  of 2, so a morsel takes more than one batch; tables of 0, 3, 4 and 9 rows: the
  empty table with its one empty morsel, a short single morsel that ends in the
  middle of a word, exactly one full morsel, and three morsels of which the last
  has a single row. Rows are of three kinds: filtered out, one output, two
  outputs; two outputs share a sort key. Every interleaving is explored.
* *aggregate*: 3 workers, one-row morsels, every table of up to 3 rows over
  2 keys (one of them NULL), values NULL, NaN, 1, 2, and filtered rows; grouped and
  global. Three morsels over three workers give every distribution: all in one
  worker, two and one, one each. One-row morsels lose nothing: what a larger
  morsel adds is inside `Cells`, the definition of the frozen Aggregate. It is the
  longest run, two to three minutes on two cores. The violation needs only 2 workers.
* *hashtable*: two key columns; keys with NULL in either column, one whose word
  equals the NULL sentinel, and two representations of one value; every hash
  function into {0, 3, 7} up to one fixed point, so that full collisions, walks
  that wrap in arrays of 2, 4 and 8 slots, and keys that growth separates all
  occur. The initial capacity is 2 and there are 4 ids, so there are two growths
  (with a limit of 7/10, the first from a full array and the second from a partly
  empty one) and the ids run out. Both NULL policies.
* *hash_join*: two build batches and three probe batches whose dictionaries give
  the same two strings different codes, an empty batch, unselected slots with any
  code, NULL keys, an empty build side; 2 pairs per call, so that one probe batch
  takes several calls; two opens and one exception.
* *asof_join*: every choice of 3 build and 3 probe rows (or an empty build side)
  from two keys, NULL keys and times, times at both ends of a 3-bit clock, where
  a span overflows the signed word; batches of 2 and chunks of 1; with and without
  a key column, with and without a tolerance; two opens. No two build rows have
  one key and one time: which of them wins is not promised (`tsx/asof.h:28-31`).
* *window*: five rows in two partitions (one of them of NULL keys) with ties and
  NULL times, every choice of values NULL, 1, 2 or NaN, frames of 0, 1 and 2
  preceding rows, all six aggregates at once; three rows with every choice of key
  and time for tumbling windows, opened twice. Times are not negative, which the
  code puts out of its grammar (`tsx/window.cpp:330`). A sliding window that is
  opened again is the subject of `window_reopen`; here it ends in `crashed`.
* *compress*: words of 8 bits; every column of up to 4 cells over NULL and four
  values chosen so that first and second differences wrap, XORs meet the clamp of
  the leading zeros, the reused window and the full-length run, and zig-zag varints
  take one and two bytes; batches of 1, 2 and 3 rows; two opens.
* *query*: four tables (every type, NULLs over junk, extremes, dictionaries in
  another order than their strings; a small one to join; a series; an empty one);
  two-bit bitmap words and two-lane registers, so that 5 rows have a full register,
  a tail and a padded word; I32 of 4 bits and I64 of 8 bits, so that products and
  casts overflow; scan batches of 2, morsels of 4; every accepted sequence of up to two
  calls of 36 prepared ones on a scan (the prepared calls are both valid and
  invalid, and meet each check of the builder from both sides). An exception comes
  out of every breaker of the plan, before its child's first batch, after it, and
  after the child is drained and closed.

Fairness. `ParallelStreaming!FairSpec` has weak fairness of the calling thread
and of each worker: the operating system runs every runnable thread and nothing
in a worker waits for another. `Abort` has none: nothing makes code throw.
`HashTable!FairSpec` has weak fairness of the steps of a call in progress, which
is sequential code; calls themselves need not come. The operators are driven by
their caller, who may stop at any time, so they have no liveness property.

Deadlock checking is on for the parallel engine and the hash table, where a
finished or terminated `run()` stutters explicitly (`Terminated`). It is off for
the operators and the query: a caller that has done its calls stops.

## 4. Proofs

| Theorem | States, for every value of the constants |
|---|---|
| `MorselPoolProofs!PoolSafety` | type correctness, `NoMorselTwice`, `NoMorselLost`, `MergeAfterAllDone`, `BatchesAligned` of the pool |
| `ParallelProofs!StreamingSafety`, `ParallelProofs!AggregateSafety` | the last four for `run_streaming` and `run_aggregate`, whose steps are shown to be steps of the pool |
| `HashTableProofs!TableSafety` | type correctness, `ChainsIntact`, `OneIdPerKey`, `FreeSlot` of the hash table |
| `HashTableProofs!TableImplementsIndex` | the hash table implements `KeyIndex` (initial states, every step, hence every behaviour) |
| `ParallelProofs!StreamingSorted` | type correctness of `run_streaming` and `SortedByKey`: with a Sort on top, every place holds a row with the sort key the single-threaded result has there |
| `ParallelProofs!StreamingImplements` | `run_streaming` implements `SingleThread` (initial states, every step, hence every behaviour): it delivers once, and the single-threaded rows in some order |
| `ParallelProofs!AggregateExact` | type correctness, `PartialsExact`, `AdditiveExact`, `MatchesUnlessNaN` of `run_aggregate` |
| `HashJoinProofs!JoinExact` | type correctness, `GroupsByValue`, `JoinsLikeReference` of the hash join |
| `AsofJoinProofs!AsofCursor` | type correctness and `CursorSplits` of the as-of join |
| `AsofJoinProofs!AsofExact` | `AsofLikeReference` of the as-of join, under `Comparable` (below) |
| `WindowProofs!WindowFrames` | type correctness and `FrameExact` of the window operator |
| `WindowProofs!WindowExact` | `WindowLikeReference`: tumbling and sliding, the rows handed out are the beginning of the reference's, and all of them at the end |
| `CompressedScanProofs!ScanTypes` | type correctness of the compressed scan |
| `CompressedScanProofs!ScanLossless` | `Lossless`: the cells handed out are the stored ones, bit by bit |
| `CompressedScanProofs!ScanInStep` | `DecoderInStep`: between batches the decoder has the encoder's position and carried state |
| `DataProofs!AllValidExact` | the word loop with the masked remainder accepts a bitmap exactly when the bit of every lane is set |
| `DataProofs!CompactExact` | lane k of a compacted column is lane `idx[k]` of the original, NULLs included |
| `DataProofs!SliceExact` | a view that starts on a word boundary shows the table's rows at its offset, NULLs included, and reads only bitmap words that are there |

Assumptions: positive sizes; morsels and batches of whole words; tables are
sequences of rows; keys are tuples of raw values and NULL, and NULL is not a word;
the hash of a tuple of words is a natural number; the load limit is below 1, as
the constructor clamps it. For the streaming driver: a tree emits a sequence of
rows for each driving row, and the ORDER BY key of a row is an integer. For the
aggregates: cells are integers, NULL and, in a float column, NaN, three different
things. For the hash join: a dictionary is a sequence of distinct strings, a
selection names physical rows of its batch, and a selected row that is not NULL
holds a code of its dictionary. For the as-of join: times and tolerances are signed
words of `Bits` bits, as `std::int64_t` is of 64. For the window: a row is a key, a time and a value
column that every aggregate reads, none of them a string (the constructor rejects
those), with NaN only in a float column and numbers no smaller than the identity of MAX and
no larger than that of MIN; W is positive and P a natural number, as the constructor
asserts. For the compressed scan: the widths are positive, the word's even, the length
field can tell as many lengths as a word has bits and the leading-zero field no more;
a column's values are words of its type (64 bits, the 32 of an I32, a bit) or NULL,
which is no number. TLC evaluates the same assumptions in the runs.

**The pool.** The properties are not inductive: that two workers never own
the same morsel says nothing about the index the cursor hands out next. `PoolInv`
adds that every owned morsel is below the cursor, that a worker's list is
increasing and below what it scans, that a worker leaves its loop only once the
cursor is past the end, who has been created, and who has been joined. `Fetch`
and `Finish` are the only actions that touch `Dispensing`; for the others one
lemma (`QuietDispensing`) suffices. `Positioned` says where a scan stands in its
morsel: on a word boundary, or at the morsel's end; with `AlignedSum` it gives `BatchesAligned`. The drivers do no more than conjoin
their own variables to steps of the pool, so its invariant carries over.

**Views.** `BatchesAligned` and `SliceExact` are two halves of one argument: the
engine always slices at a multiple of the word, and a slice at such a place is
right. The constructor of `MorselScan` checks its start and its batch size
(`exec/morsel_scan.cpp:22-30`); that every batch then starts on a boundary is what
`BatchesAligned` says.

**The hash table.** `TableInv` adds to the checked properties what a step relies
on. `RowsWellFormed`: stored rows are normalized rows, so equal keys have equal
hashes even where a lane is NULL. `Walk`: the slots a lookup has passed are
taken by other keys; with the chains it gives `MissMeansNew`, that an empty slot
proves the key absent, which is why an insertion keeps `OneIdPerKey`. `Growing`:
the new array holds exactly the groups of the old slots passed, each reachable
under the new capacity. `Counted`: `occupied_` is the number of taken slots, and
during growth the two arrays agree in count; with `ThresholdBelow` it gives
`FreeSlot`. `ChainedExtend` carries the argument for both insertion and growth:
a group put into the first empty slot of its walk breaks no other group's walk.
The order of two slots on one walk (`PathTotal`) is where wrap-around is settled.

**The refinement.** The index's ids are the table's under `KeyValue`, a row with
NULL in its masked columns. A step of a walk or of growth changes neither the ids
nor the call; `Hit` and `MissFind` answer, and by `MissMeansNew` and
`OneIdPerKey` the answer is the index's; `MissInsert` adds the one id; under
`kNeverMatch` a key with NULL is in no domain and takes an id all the same.

**Induction over data.** The library's induction rules take an operator as a
parameter, which the installed provers cannot instantiate. `DataProofs` states
the ones needed here for sets and functions instead (`SetInduction`,
`SetFoldExists`), from the well-foundedness of the natural numbers, and with them
what folds, rearrangements and flattened sequences of the models do. A recursive
function whose equation is proved this way can be used like any other.

**The parallel aggregate.** `AggInv` says what each map holds at every moment:
a worker's map, the cells of the rows of exactly the morsels it has finished; the
merged map, those of the workers joined so far. A fold step adds a morsel that by
`NoMorselTwice` is in no other map, a merge step the union of two disjoint sets of
rows, and counting and adding over a union of disjoint sets is adding. At the end
`NoMorselLost` makes the union the table. For MIN and MAX without NaN the merge's
raw comparison and the fold's total order are the same order.

**The streaming driver.** `StreamInv` adds to the pool's invariant that the
result exists only when every worker has been joined and is then what the exchange
made of the workers' lists (`Delivered`). Those lists hold each morsel exactly
once, so the exchange is a rearrangement of the table's morsels, and flattening
equal morsels in another order gives the same bag of rows: that is `SameRows`. A
stable sort puts each row where its rank says; it is an ascending rearrangement,
and two ascending rearrangements of one bag have the same key in every place
(`SortedByKey`), by counting the rows below a key.

**The hash join.** `JoinInv` says that an id stands for one string in every batch
of either side, although the codes differ (`GroupsByValue` is its visible
half); that the row list of a group is the increasing list of the stored rows with
that string; and that pending and emitted pairs together are the pairs of the
probe rows consumed so far, in order. A probe batch then extends what the nested
loop gives by the pairs of its rows, and `Emit` cuts a prefix of them.

**The as-of join.** `AsofInv` holds for every input, STR keys and ties included. It
says that the store is a prefix of the sorted build side and the list of a group
the increasing list of the stored rows with its word and a time (`Grouped`); once the
build side is drained, that a merge has read a prefix of the sorted probe side and
left its cursor where `CursorSplits` says (`MergedTo`). The step from one probe
batch to the next needs the Sort: the rows of a group are next to each other on the
probe side, so a group left is not met again and the cursor may start over, and
times do not decrease within it, so the cursor never has to go back. The list is in
the order of its times, so the row before the cursor is the latest that is not
later. `AnswerInv` adds that pending and emitted pairs together show the answer to
the probe rows read (`OutOK`), which is the reference's row by row (`RefIs`) if
the inputs are `Comparable`: without a key column, no two build rows with one time
that differ, since `tsx/asof.h:28-31` promises no tie-break (with one, key and
time are the whole row, so rows that tie are equal); keys whose words agree on both sides, which
fails only for a STR key with two dictionaries (`OwnWords`; `asof_str_keys` shows
what happens then); and a tolerance that is not negative (section 5). The
unsigned comparison of words is then the comparison of integers, however far apart
two times are.

**The window.** `WindowInv` says of the sweep what `FrameExact` says of the state
between two rows, and what a step from there needs: before the first row everything
is reset, and what an accumulator holds (`AccFor`) depends on the stored rows and the
bounds of its frame alone. A step moves the frame by at most one row at either end,
so three lemmas carry it: a reset accumulator is that of an empty frame
(`ResetExact`), a row that leaves takes its value and its place at the deque's front
with it (`LeaveExact`), and a row that enters drops exactly the candidates it beats
or equals (`EnterExact`), which are the last ones because the deque is ordered
(`DequePush`). The latest value of a frame is always a candidate, so a minimum or
maximum with a positive count never reads the front of an empty deque
(`FrontThere`, which the cells' type relies on). That the Sort below gives a
rearrangement of rows, in the order of its keys, is proved of the order of
`ReferenceOracle`, which places each row by its rank (`OrderBySorts`).

**The window's answer.** `AnswerInv` adds to `WindowInv` what has been computed so
far. Tumbling (`Grouping`): the groups are the reference's for the rows pulled, in
the order of their first rows, and a group's cells the fold over its members.
Sliding (`Swept`): every cell is the reference's fold over the frame. That takes
`FrameExact`, and for a minimum or maximum that the front of a deque is the extreme
value of the frame (`FrontExtreme`), NaN included. The reference groups the rows
first and sorts each group; the operator sorts by key and time once and cuts the
partitions out. Rows of one key stand together in the sorted rows (`KeysTogether`),
so these fall into runs, one per key in the order of the keys' first rows
(`RunsDivide`), and a run is the reference's group in the order of its times
(`RunRows`); `FramesAnswer` joins the runs' answers. `Handed` says that the caller
has got a prefix of all that (`RowsAnswer`).

**The compressed scan.** Four round trips come first: bits (`BitsRead`), varints
(`GetVarintReads`), zigzag (`ZigZagBack`) and differences modulo the word
(`DifferenceBack`), and that a word XORed twice with another is itself
(`XorTwice`); with the zeros on either side counted right (`ZerosOf`), the bits
between them restore a word (`MeaningfulBits`), the leading count clamped and the
full length stored as 0 included. An encoder is a fold, so it has the table of its
states after each prefix (`DodEncodes`, `GorillaEncodes`), and the piece it writes for
a value stays where it is whatever follows. The induction is on the values: a decoder
`InStep` with the encoder after k values reads the piece of the next one, gives that
value, and is in step after k + 1 (`DecodesNext`, one lemma per codec below it). A
NULL row takes nothing (`RowDecodes`), so a batch of any size moves the decoder from
behind the rows before the cursor to behind those before the next (`BatchDecodes`).
`ScanInv` says this of an open scan; `Lossless` alone would not be inductive, for it
says nothing of where the decoder stands.

Only model-checked: the liveness properties (`Terminates`, `CallsReturn`), which are
out of the prover's reach, as is everything with ENABLED; and the query. `Expr`,
`SqlExpr`, `OperatorTree`, `Plan`, `PlanReference` and `Query` have recursive operators
over trees, which the prover does not take; `Operators` and `AggregateNode` are
checked through `Query`. The safety properties that the other passing runs check are
all proved.

## 5. Disagreements between the code and its documentation

* **NaN in merged MIN and MAX** (`aggregate_nan_merge`). `exec/parallel.cpp:299-301`
  says the cross-worker merge must follow the NaN-greatest total order. `fold_plain`
  does; the merge of two workers' accumulators uses raw `std::min` and `std::max`
  (lines 524 and 536). When a group is shared by two workers and one side is NaN,
  the result depends on the workers' order.
* **Tied keys under a top-level Sort** (`sort_ties`). `exec/parallel.h:3-5` and
  `:35` promise a positional match with the single-threaded result. The sort is
  stable, but on the order of the exchange, which follows scheduling. Only the keys
  match position by position (`SortedByKey`, which holds).
* **String keys of an as-of join** (`asof_str_keys`). `tsx/asof.cpp:252` looks a
  STR key up by its dictionary code, though the two sides may have two
  dictionaries. The report puts STR keys out of the grammar and says such plans
  fail loudly; neither the constructor nor the builder rejects them, and rows of
  different keys join.
* **Reopening a sliding window** (`window_reopen`). `ops/operator.h:22-23` allows a
  fresh `open()` after `close()`. `build_sliding` has moved the child into a Sort
  that `close()` destroys (`tsx/window.cpp:436`); the second `open()` dereferences
  a null pointer. `Query` therefore reopens only plans without a sliding window.

Three more have no run of their own. The first two came up in `query`, whose
`RetryLikeReference` leaves them out: it asks only for retries with
`threw = "InReach"`. Asked for the other retries too, TLC finds it violated.

* **A breaker that was draining a breaker.** A breaker's `close()`
  (`ops/sort.cpp:234`, `ops/aggregate.cpp:495`) takes its child to be closed. After
  an exception out of `open()` it need not be: the breaker below stays marked open,
  and the fresh `open()` that `ops/operator.h:22-23` allows reads its half-built or
  half-drained state, so the retry loses rows (an Aggregate over a Join, for
  example). `HashJoin` and `AsofJoin` do close their probe child.
* **The build side of an as-of join.** The constructor of `AsofJoin` wraps both
  inputs in a `Sort` (`tsx/asof.cpp:163-166`), and `Sort::open` marks itself open
  before it drains (`ops/sort.cpp:192-198`). `AsofJoin::close()`
  (`tsx/asof.cpp:360-369`) closes the probe side's Sort only, because "the build
  child (Sort) was closed at end-of-build". If `open()` throws while it drains the
  build side, it was not: the next `build_->open()` returns at once over an empty
  or half-read Sort, and the join silently answers with build rows missing. No
  second breaker is needed; an as-of join of two scans shows it. An exception
  after the build side is drained, in the probe side's Sort, is harmless, and
  inside the property.

The third came up in the proof of the as-of join, whose comparison of tolerances
needs one that is not negative. `tsx/asof.h:98-100` says a match is kept only if
`t - tb <= *tolerance`; `tsx/asof.cpp:289-292` compares span and tolerance as
uint64, so that -1 keeps every match, while the reference
(`oracle/reference_oracle.cpp:726`) compares signed and drops it. Neither the
constructor nor the builder rejects a negative tolerance. With `Tolerances = {-1}`
TLC finds `AsofLikeReference` violated; `asof_join` leaves it out, and `AsofExact`
does so by `Comparable`.

## 6. Abstractions and limits

* Sums and counts are exact integers and an average is a pair (in a query, their
  quotient in halves); floating-point rounding and the undefined overflow of
  `int64` sums are not in the model.
* Narrow words: 4 and 8 bits for I32 and I64 in `query`, 3 for a timestamp in
  `asof_join`, 8 for a codec word. Wraparound and range checks happen at the
  boundary of the width and are parameterised by it.
* The hash function is arbitrary (any function of the words). Allocation failure
  inside the hash table is not modelled.
* One caller per table. `find` writes mutable scratch, so a shared build side
  would race; the code builds a private table per morsel.
* The capacity doubles without bound in the model; the code's 32-bit ids run out
  first, which the `NoGroup` bound represents.
* The joins have one key column, and a second column to tell rows apart; several
  key columns are in `HashTable` and, through the reference, in `Query`.
* Every batch in the operator tree is dense, because every operator of the code
  returns dense batches; selection vectors are an input that `HashJoin` is checked for.
* Exceptions out of `open()` are modelled in `HashJoin` (build side) and in `Query`
  (any breaker, before, during and after its drain), one of each; a retry after
  one that `close()` cannot clear is outside the properties (section 5).
  Exceptions out of `next()` are not modelled. A build side is a scan in `Query`.

## 7. Not modelled

* The hash mixing (`ops/hash_kernels.cpp`): the table is right for every function.
* Instruction selection, double rounding inside the vector casts, alignment and
  allocation of buffers: facts of the target machine.
* Text: plan printing, SQL rendering, result formatting, and the random generators
  of the test harness. No engine code reads them.
* Tests, planted bugs, benchmarks and third-party code. Several of the repository's
  planted bugs are mutants of definitions here.

## 8. Plan

1. Exceptions out of `next()`, and a second `open()` without a `close()`.
2. A shared build side, if the code gets one: `find` over one table by two threads.
3. `Query` over plans of a fixed shape, without recursion over trees, so that what a
   pipeline of proved operators returns can be proved as well.
