----------------------------- MODULE MCHashJoin -----------------------------
(* Constants for TLC: two strings, NULL keys, batches whose dictionaries    *)
(* disagree, an empty batch and unselected slots that hold any code.        *)
EXTENDS HashJoin, FiniteSets

Dicts == <<<<10, 20>>, <<20, 10>>, <<20>>, <<10, 20>>>>

\* Keys of a batch: codes of its dictionary, or a cleared bit over garbage.
Slots(dict) == [valid : {TRUE}, code : 0 .. Len(dict) - 1]
               \union {[valid |-> FALSE, code |-> 9]}

RowOf(s, id) == [valid |-> s.valid, code |-> s.code, id |-> id]

Dead(dict) == [valid |-> TRUE, code |-> 7, id |-> 0]

MCBuildInputs ==
    { << [dict |-> Dicts[1], sel |-> <<1, 3>>,
          rows |-> <<RowOf(a, 1), Dead(Dicts[1]), RowOf(b, 2)>>],
         [dict |-> Dicts[2], sel |-> <<1>>, rows |-> <<RowOf(c, 3)>>] >> :
        a \in Slots(Dicts[1]), b \in Slots(Dicts[1]), c \in Slots(Dicts[2]) }
    \union {<<>>}

MCProbeInputs ==
    { << [dict |-> Dicts[2], sel |-> <<2, 3>>,
          rows |-> <<Dead(Dicts[2]), RowOf(a, 1), RowOf(b, 2)>>],
         [dict |-> Dicts[1], sel |-> <<>>, rows |-> <<Dead(Dicts[1])>>],
         [dict |-> Dicts[3], sel |-> <<1>>, rows |-> <<RowOf(c, 3)>>] >> :
        a \in Slots(Dicts[2]), b \in Slots(Dicts[2]), c \in Slots(Dicts[3]) }
===============================================================================
