------------------------------ MODULE MorselPool ------------------------------
(***************************************************************************)
(* The worker pool that run_streaming and run_aggregate (exec/parallel.cpp)*)
(* both contain: the driving table is cut into morsels, `threads_` workers *)
(* (worker 0 is the calling thread, the others are spawned) draw morsel    *)
(* indices from one shared atomic cursor, drain each morsel through a      *)
(* private operator tree whose leaf is a MorselScan, and the calling       *)
(* thread joins the others in index order before it combines anything.     *)
(*                                                                         *)
(* Row and morsel indices are 0-based, as in the code.  Word stands for    *)
(* the 64 rows that one validity word covers.                              *)
(***************************************************************************)
EXTENDS Integers, Sequences

CONSTANTS Threads,     \* threads_ after the constructor: at least 1
          MorselRows,  \* morsel_rows_: rows in a full morsel
          BatchRows,   \* kScanBatch: rows in a full scan batch
          Word         \* rows per validity word (64)

ASSUME PoolAssumption ==
    /\ Threads \in Nat \ {0}
    /\ Word \in Nat \ {0}
    /\ MorselRows \in Nat \ {0} /\ MorselRows % Word = 0
    /\ BatchRows \in Nat \ {0}  /\ BatchRows % Word = 0

VARIABLES total,    \* num_rows() of the driving table; never changes
          mainpc,   \* where the calling thread is
          spawned,  \* pool threads created so far
          joined,   \* pool threads joined so far
          cursor,   \* the std::atomic dispenser
          pc,       \* where each worker's `work` lambda is
          claimed,  \* the local `i`: what the last fetch_add returned
          pos,      \* MorselScan::cursor_ of the worker's current tree
          parts     \* the morsels a worker has drained, in order

poolVars == <<total, mainpc, spawned, joined, cursor, pc, claimed, pos, parts>>

Workers == 0 .. Threads - 1

Lesser(a, b) == IF a <= b THEN a ELSE b

\* Mutant of NumMorsels: a last, shorter morsel is forgotten.
FullMorselsOnly == total \div MorselRows

(***************************************************************************)
(* make_morsels: [s, min(s + morsel_rows, total)) for s = 0, morsel_rows,  *)
(* ...; an empty table still has one (empty) morsel.                       *)
(***************************************************************************)
NumMorsels ==
    IF total = 0 THEN 1 ELSE (total + MorselRows - 1) \div MorselRows

\* Mutant of Start: an even split, which ignores the validity words.
EvenStart(m) == (m * total) \div NumMorsels

Start(m) == m * MorselRows
End(m)   == Lesser(Start(m) + MorselRows, total)

MorselRowSet(m) == Start(m) .. End(m) - 1

-----------------------------------------------------------------------------
PoolTypeOK ==
    /\ total \in Nat
    /\ mainpc \in {"spawn", "work", "join", "merge", "returned", "aborted"}
    /\ spawned \in 0 .. Threads - 1
    /\ joined \in 0 .. Threads - 1
    /\ cursor \in Nat
    /\ pc \in [Workers -> {"unstarted", "fetch", "scan", "done"}]
    /\ claimed \in [Workers -> Nat]
    /\ pos \in [Workers -> Nat]
    /\ parts \in [Workers -> Seq(Nat)]

PoolInit ==
    /\ mainpc = "spawn"
    /\ spawned = 0
    /\ joined = 0
    /\ cursor = 0
    /\ pc = [w \in Workers |-> "unstarted"]
    /\ claimed = [w \in Workers |-> 0]
    /\ pos = [w \in Workers |-> 0]
    /\ parts = [w \in Workers |-> <<>>]

-----------------------------------------------------------------------------
\* The calling thread.

\* Mutant of Spawn: worker 0 is spawned too, not taken by the caller.
SpawnAll ==
    /\ mainpc = "spawn"
    /\ spawned < Threads
    /\ spawned' = spawned + 1
    /\ pc' = [pc EXCEPT ![spawned] = "fetch"]
    /\ UNCHANGED <<total, mainpc, joined, cursor, claimed, pos, parts>>

\* pool.emplace_back(work, w): the new thread may run at once.
Spawn ==
    /\ mainpc = "spawn"
    /\ spawned < Threads - 1
    /\ spawned' = spawned + 1
    /\ pc' = [pc EXCEPT ![spawned + 1] = "fetch"]
    /\ UNCHANGED <<total, mainpc, joined, cursor, claimed, pos, parts>>

\* work(0): the calling thread becomes worker 0.
EnterWork ==
    /\ mainpc = "spawn"
    /\ spawned = Threads - 1
    /\ mainpc' = "work"
    /\ pc' = [pc EXCEPT ![0] = "fetch"]
    /\ UNCHANGED <<total, spawned, joined, cursor, claimed, pos, parts>>

LeaveWork ==
    /\ mainpc = "work"
    /\ pc[0] = "done"
    /\ mainpc' = "join"
    /\ UNCHANGED <<total, spawned, joined, cursor, pc, claimed, pos, parts>>

\* Mutant of Join: detach() in place of join().
Detach ==
    /\ mainpc = "join"
    /\ joined < Threads - 1
    /\ joined' = joined + 1
    /\ UNCHANGED <<total, mainpc, spawned, cursor, pc, claimed, pos, parts>>

\* th.join() on the next pool thread blocks until its lambda has returned.
Join ==
    /\ mainpc = "join"
    /\ joined < Threads - 1
    /\ pc[joined + 1] = "done"
    /\ joined' = joined + 1
    /\ UNCHANGED <<total, mainpc, spawned, cursor, pc, claimed, pos, parts>>

BeginMerge ==
    /\ mainpc = "join"
    /\ joined = Threads - 1
    /\ mainpc' = "merge"
    /\ UNCHANGED <<total, spawned, joined, cursor, pc, claimed, pos, parts>>

Return ==
    /\ mainpc = "merge"
    /\ mainpc' = "returned"
    /\ UNCHANGED <<total, spawned, joined, cursor, pc, claimed, pos, parts>>

(***************************************************************************)
(* Nothing catches an exception between the first emplace_back and the     *)
(* last join.  A failed thread creation, or a throw on the calling thread, *)
(* unwinds through a vector of joinable threads; a throw on a pool thread  *)
(* leaves its lambda.  Both are std::terminate.  (While no pool thread     *)
(* exists the exception reaches the caller instead; there is no result     *)
(* and nobody left to take a step either way.)                             *)
(***************************************************************************)
Abort ==
    /\ \/ mainpc = "spawn" /\ spawned < Threads - 1
       \/ mainpc # "aborted" /\ \E w \in Workers : pc[w] = "scan"
    /\ mainpc' = "aborted"
    /\ UNCHANGED <<total, spawned, joined, cursor, pc, claimed, pos, parts>>

-----------------------------------------------------------------------------
\* A worker's `work` lambda.

\* Mutant of FetchAdd: a load, then a store that another worker's store at
\* the same moment overwrites.
LoadThenStore(w) ==
    /\ claimed' = [claimed EXCEPT ![w] = cursor]
    /\ \/ cursor' = cursor + 1
       \/ cursor' = cursor /\ \E v \in Workers \ {w} : pc[v] = "fetch"

\* i = cursor.fetch_add(1): the read and the increment are one step.
FetchAdd(w) ==
    /\ claimed' = [claimed EXCEPT ![w] = cursor]
    /\ cursor' = cursor + 1

\* The loop test, then (lower_morsel, open()) a private tree whose
\* MorselScan starts at the morsel's first row.
Fetch(w) ==
    /\ mainpc # "aborted"
    /\ pc[w] = "fetch"
    /\ FetchAdd(w)
    /\ IF cursor < NumMorsels
         THEN /\ pc' = [pc EXCEPT ![w] = "scan"]
              /\ pos' = [pos EXCEPT ![w] = Start(cursor)]
         ELSE /\ pc' = [pc EXCEPT ![w] = "done"]
              /\ UNCHANGED pos
    /\ UNCHANGED <<total, mainpc, spawned, joined, parts>>

\* MorselScan::next() returns the rows BatchFrom(w) and advances its cursor.
BatchFrom(w) == pos[w] .. Lesser(pos[w] + BatchRows, End(claimed[w])) - 1

\* Mutant of Pull: the cursor moves by whole words only.
PullWholeWords(w) ==
    /\ mainpc # "aborted"
    /\ pc[w] = "scan"
    /\ pos[w] < End(claimed[w])
    /\ pos' = [pos EXCEPT ![w] =
                 (Lesser(@ + BatchRows, End(claimed[w])) \div Word) * Word]
    /\ UNCHANGED <<total, mainpc, spawned, joined, cursor, pc, claimed, parts>>

Pull(w) ==
    /\ mainpc # "aborted"
    /\ pc[w] = "scan"
    /\ pos[w] < End(claimed[w])
    /\ pos' = [pos EXCEPT ![w] = Lesser(@ + BatchRows, End(claimed[w]))]
    /\ UNCHANGED <<total, mainpc, spawned, joined, cursor, pc, claimed, parts>>

\* Mutant of Finish: the worker's slot is assigned, not appended to.
FinishOverwrites(w) ==
    /\ mainpc # "aborted"
    /\ pc[w] = "scan"
    /\ pos[w] >= End(claimed[w])
    /\ parts' = [parts EXCEPT ![w] = <<claimed[w]>>]
    /\ pc' = [pc EXCEPT ![w] = "fetch"]
    /\ UNCHANGED <<total, mainpc, spawned, joined, cursor, claimed, pos>>

\* MorselScan::next() returned nullopt: the drained result is the worker's.
Finish(w) ==
    /\ mainpc # "aborted"
    /\ pc[w] = "scan"
    /\ pos[w] >= End(claimed[w])
    /\ parts' = [parts EXCEPT ![w] = Append(@, claimed[w])]
    /\ pc' = [pc EXCEPT ![w] = "fetch"]
    /\ UNCHANGED <<total, mainpc, spawned, joined, cursor, claimed, pos>>

-----------------------------------------------------------------------------
PoolNext ==
    \/ Spawn \/ EnterWork \/ LeaveWork \/ Join \/ BeginMerge \/ Return \/ Abort
    \/ \E w \in Workers : Fetch(w) \/ Pull(w) \/ Finish(w)

PoolSpec == total \in Nat /\ PoolInit /\ [][PoolNext]_poolVars

-----------------------------------------------------------------------------
Drained(w) == {parts[w][i] : i \in DOMAIN parts[w]}

\* What a worker still owes: the morsel its private tree is scanning.
Holding(w) == IF pc[w] = "scan" THEN {claimed[w]} ELSE {}

Owned(w) == Drained(w) \union Holding(w)

(***************************************************************************)
(* No morsel is processed twice: a worker's list has no repetition (it is  *)
(* increasing and ends below what the worker is scanning), and two workers *)
(* never own the same morsel, whatever the interleaving of fetch_adds.     *)
(***************************************************************************)
NoMorselTwice ==
    /\ \A w \in Workers :
         /\ \A i, j \in DOMAIN parts[w] : i < j => parts[w][i] < parts[w][j]
         /\ Holding(w) \intersect Drained(w) = {}
    /\ \A v, w \in Workers : v # w => Owned(v) \intersect Owned(w) = {}

(***************************************************************************)
(* No morsel is lost: every index the cursor has passed is owned by some   *)
(* worker, so when the merge begins every morsel has been drained.         *)
(***************************************************************************)
NoMorselLost ==
    /\ \A m \in 0 .. NumMorsels - 1 :
         m < cursor => \E w \in Workers : m \in Owned(w)
    /\ mainpc \in {"merge", "returned"} =>
         \A m \in 0 .. NumMorsels - 1 : \E w \in Workers : m \in Drained(w)

(***************************************************************************)
(* The happens-before argument of parallel.h: once the calling thread is   *)
(* past its joins no worker will write again, so the merge reads a         *)
(* worker's private result only when it is final.                          *)
(***************************************************************************)
MergeAfterAllDone ==
    mainpc \in {"merge", "returned"} => \A w \in Workers : pc[w] = "done"

(***************************************************************************)
(* Every batch a MorselScan emits starts on a validity-word boundary (its  *)
(* validity sub-view is a whole-word offset) and stays inside the morsel   *)
(* and the table.                                                          *)
(***************************************************************************)
BatchesAligned ==
    \A w \in Workers :
      (pc[w] = "scan" /\ pos[w] < End(claimed[w])) =>
        /\ pos[w] % Word = 0
        /\ BatchFrom(w) \subseteq MorselRowSet(claimed[w])
        /\ BatchFrom(w) \subseteq 0 .. total - 1
===============================================================================
