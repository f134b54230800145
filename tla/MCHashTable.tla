------------------------------ MODULE MCHashTable ------------------------------
(* Bounded instance of HashTable: keys of two columns.  1 is also the NULL    *)
(* sentinel's word, 20 and 2 are two bit patterns of one value (as -0.0 and   *)
(* +0.0 are), and the seeds are all the hash functions into HashValues.       *)
EXTENDS HashTable

CONSTANT HashValues

MCRaw == {1, 2, 20}
MCKeys == { <<NULL, 1>>, <<1, 1>>, <<2, 1>>, <<20, 1>>, <<1, NULL>>, <<1, 2>> }
MCCanon(v) == IF v = 20 THEN 2 ELSE v
MCSeeds == {s \in [[Cols -> Words] -> HashValues] : s[<<2, 2>>] = 0}
MCHashOf(s, ws) == s[ws]
================================================================================
