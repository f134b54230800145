------------------------------- MODULE KeyIndex -------------------------------
(***************************************************************************)
(* What ops/hashtable.h promises of a table: an index from key values to   *)
(* group ids 0, 1, 2, ... in first-seen order, with no word about slots,   *)
(* hashes or growth.  A key that may not match (a NULL under kNeverMatch)  *)
(* gets an id of its own at every insertion and is never found.  When the  *)
(* ids are used up an insertion of a new key is an error that changes      *)
(* nothing.                                                                *)
(***************************************************************************)
EXTENDS Integers

CONSTANTS KeyValues,     \* key tuples as SQL compares them
          HasNull(_),    \* does the key tuple contain a NULL
          NoGroup,       \* number of ids, and the id of no group
          Overflow,      \* the outcome of an insertion that throws
          NoCall

VARIABLES policy, \* "kEqual" or "kNeverMatch", fixed at construction
          index,  \* findable key -> id
          used,   \* ids assigned so far (num_groups)
          call,   \* the call in progress, or NoCall
          ret     \* what the last call answered

vars == <<policy, index, used, call, ret>>

Matchable(k) == policy = "kEqual" \/ ~HasNull(k)

Init == /\ policy \in {"kEqual", "kNeverMatch"}
        /\ index = [k \in {} |-> 0]
        /\ used = 0
        /\ call = NoCall
        /\ ret = NoGroup

Call(kind, k) ==
    /\ call = NoCall
    /\ call' = [kind |-> kind, key |-> k]
    /\ ret' = NoGroup
    /\ UNCHANGED <<policy, index, used>>

Present(k) == Matchable(k) /\ k \in DOMAIN index

\* insert_or_find of a key already there, and find.
AnswerKnown ==
    /\ call # NoCall
    /\ \/ /\ Present(call.key)
          /\ ret' = index[call.key]
       \/ /\ ~Present(call.key) /\ call.kind = "find"
          /\ ret' = NoGroup
    /\ call' = NoCall
    /\ UNCHANGED <<policy, index, used>>

AnswerNew ==
    /\ call # NoCall
    /\ call.kind = "insert" /\ ~Present(call.key)
    /\ call' = NoCall
    /\ UNCHANGED policy
    /\ IF used = NoGroup
         THEN /\ ret' = Overflow
              /\ UNCHANGED <<index, used>>
         ELSE /\ ret' = used
              /\ used' = used + 1
              /\ index' = IF ~Matchable(call.key) THEN index
                          ELSE [k \in DOMAIN index \union {call.key} |->
                                  IF k = call.key THEN used ELSE index[k]]

Next == \/ \E kind \in {"insert", "find"}, k \in KeyValues : Call(kind, k)
        \/ AnswerKnown
        \/ AnswerNew

Spec == Init /\ [][Next]_vars
===============================================================================
