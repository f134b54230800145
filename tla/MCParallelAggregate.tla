-------------------------- MODULE MCParallelAggregate --------------------------
(* Bounded instances of ParallelAggregate: tables of up to MaxRows rows, some *)
(* of them filtered out below the aggregate.  Without NaN every table; with   *)
(* NaN those of one key, and those of two keys without NULLs or dropped rows. *)
EXTENDS ParallelAggregate

CONSTANT MaxRows

TablesOver(rows) == UNION {[1 .. n -> rows] : n \in 0 .. MaxRows}

MCTables ==
    TablesOver([k : Keys, v : Values \ {NaN}] \union {Dropped})
    \union TablesOver([k : {1}, v : Values \ {2}] \union {Dropped})
    \union TablesOver([k : Keys, v : {NaN, 1}])
================================================================================
