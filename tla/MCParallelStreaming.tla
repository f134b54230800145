-------------------------- MODULE MCParallelStreaming --------------------------
(* Bounded instance of ParallelStreaming: a filtered-out row, a row with one *)
(* output, and a join row with two; two output rows share a sort key.        *)
EXTENDS ParallelStreaming

CONSTANT RowCounts

MCRows == {0, 1, 2}
MCEmit(r) == CASE r = 0 -> <<>>
               [] r = 1 -> << <<1, "a">> >>
               [] r = 2 -> << <<1, "b">>, <<0, "c">> >>
MCSortKey(o) == o[1]
\* Each length, with the three kinds of row spread over the morsels.
MCTables == {[i \in 1 .. n |-> (a * i + b) % 3] :
               n \in RowCounts, a \in 0 .. 2, b \in 0 .. 2}
================================================================================
