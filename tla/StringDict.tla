------------------------------ MODULE StringDict ------------------------------
(***************************************************************************)
(* StringDict (core/string_dict.h): the strings a column's codes stand     *)
(* for.  Codes are 0, 1, 2, ... in first-seen order and never change, so a *)
(* dictionary is the sequence of its strings.  A code means nothing        *)
(* without the dictionary of its own column.                               *)
(***************************************************************************)
EXTENDS Integers, Sequences, SequencesExt, Values

Strings(dict) == {dict[i] : i \in DOMAIN dict}

\* intern() in two parts: the dictionary afterwards, and the code it returns.
Intern(dict, s) == IF s \in Strings(dict) THEN dict ELSE Append(dict, s)

CodeOf(dict, s) == (CHOOSE i \in DOMAIN dict : dict[i] = s) - 1

\* intern() of the cells of a column in row order, NULLs left out.
InternAll(dict, cells) ==
    FoldLeft(LAMBDA d, s : IF s = NULL THEN d ELSE Intern(d, s), dict, cells)

\* at(): only for codes of this dictionary.
At(dict, code) == dict[code + 1]
===============================================================================
