----------------------------- MODULE MCAsofJoin -----------------------------
(* Constants for TLC: NULL keys and times, times at both ends of a three-bit *)
(* word, no two build rows with the same key and time.                       *)
EXTENDS AsofJoin, FiniteSetsExt

Times == {-4, 0, 3}

Rows == ({10, 20} \X Times) \union {<<NULL, 0>>, <<10, NULL>>}

TablesOf(n, rows) == {SetToSeq(s) : s \in kSubset(n, rows)}

OneKey == {row \in Rows : row[1] = 10}

MCInputs ==
    [keyType : {"I32"}, build : TablesOf(0, Rows) \union TablesOf(3, Rows), probe : TablesOf(3, Rows)]
    \union [keyType : {"none"}, build : TablesOf(2, OneKey), probe : TablesOf(3, OneKey)]

\* Two dictionaries may give one string different codes.
StrTables == {<< <<10, 0>>, <<20, 0>> >>, << <<20, 3>> >>}

StrInputs == [keyType : {"STR"}, build : StrTables, probe : StrTables]
===============================================================================
