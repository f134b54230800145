----------------------------- MODULE ParallelRun -----------------------------
(***************************************************************************)
(* ParallelEngine::run (exec/parallel.cpp): what its two drivers,          *)
(* run_streaming and run_aggregate, have in common besides the pool of     *)
(* workers.  Both dispense the morsels of one driving table, which no      *)
(* thread writes, and both hand the caller one result set.                 *)
(***************************************************************************)
EXTENDS MorselPool

CONSTANT NoResult  \* run() has not returned

VARIABLES table,   \* the driving table, immutable and shared
          result   \* what run() returns
===============================================================================
