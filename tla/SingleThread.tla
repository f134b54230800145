----------------------------- MODULE SingleThread -----------------------------
(***************************************************************************)
(* What ParallelEngine::run promises (exec/parallel.h): the same logical   *)
(* result as plan.lower() drained on one thread.  One step computes it     *)
(* from the table; a caller may also get no answer at all, because the     *)
(* process can be terminated first.                                        *)
(***************************************************************************)
CONSTANTS Drain(_),  \* the result of draining the lowered plan over a table
          NoAnswer   \* run() has not returned

VARIABLES table, answer

Init == answer = NoAnswer

Run == /\ answer = NoAnswer
       /\ answer' = Drain(table)
       /\ UNCHANGED table

Spec == Init /\ [][Run]_<<table, answer>>
===============================================================================
