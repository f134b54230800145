------------------------------ MODULE MCWindow ------------------------------
(* Constants for TLC: every aggregate at once over integers or floats with  *)
(* NULL and NaN, two partitions, one of them of NULL keys, NULL times.       *)
EXTENDS Window

MCMinInt == -99

AllAggs == << [func |-> "CountStar", col |-> 3], [func |-> "Count", col |-> 3],
              [func |-> "Sum", col |-> 3], [func |-> "Min", col |-> 3],
              [func |-> "Max", col |-> 3], [func |-> "Avg", col |-> 3] >>

\* Five rows in two partitions, with every choice of values.
Slots == {<<<<2, 0>>, <<1, 5>>, <<1, 3>>, <<2, 4>>, <<1, 4>>>>,
          <<<<NULL, 1>>, <<NULL, 0>>, <<1, NULL>>, <<1, 0>>, <<NULL, 2>>>>}

SlidingInputs(n) ==
    UNION { { [mode |-> "Sliding", isFloat |-> f, param |-> P, aggs |-> AllAggs,
               rows |-> [r \in 1 .. 5 |-> Append(s[r], v[r])], opens |-> n] :
              s \in Slots, P \in 0 .. 2,
              v \in [1 .. 5 -> IF f THEN {NULL, 1, NaN} ELSE {NULL, 1, 2}] } :
            f \in BOOLEAN }

TumblingInputs ==
    { [mode |-> "Tumbling", isFloat |-> f, param |-> W, aggs |-> AllAggs, opens |-> 2,
       rows |-> [r \in 1 .. 3 |-> <<k[r], t[r], <<NULL, 1, IF f THEN NaN ELSE 2>>[r]>>]] :
        f \in BOOLEAN, W \in {1, 2}, k \in [1 .. 3 -> {NULL, 1}],
        t \in [1 .. 3 -> {NULL, 0, 1, 2}] }

MCInputs == SlidingInputs(2) \union TumblingInputs

ReopenInputs == { i \in SlidingInputs(2) : i.param = 1 /\ ~i.isFloat }
===============================================================================
