------------------------------ MODULE Selections ------------------------------
(***************************************************************************)
(* The elements of a sequence that pass a test, in their order: what the   *)
(* code's loops with a push_back collect.  This is SelectSeq said by the   *)
(* places of the elements, which is a form that can be reasoned about.     *)
(***************************************************************************)
EXTENDS Integers, Sequences, FiniteSets

\* How many of the places F are not after place i.
PlaceIn(F, i) == Cardinality({j \in F : j <= i})

\* The elements at the places F, in order.
ElementsAt(s, F) == [k \in 1 .. Cardinality(F) |-> s[CHOOSE i \in F : PlaceIn(F, i) = k]]

SelectedBy(s, Test(_)) == ElementsAt(s, {i \in DOMAIN s : Test(s[i])})
===============================================================================
