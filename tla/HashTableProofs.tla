--------------------------- MODULE HashTableProofs ---------------------------
(***************************************************************************)
(* HashTable is safe for every number of columns, hash function, load      *)
(* factor, capacity and id space: chains stay intact, a key has one id,    *)
(* and a free slot is left whenever a walk may start.                      *)
(*                                                                         *)
(* The inductive invariant TableInv adds to the checked invariants what a  *)
(* step relies on: stored rows are normalized rows, a walk has met only    *)
(* taken slots of other keys, growth has placed exactly the groups of the  *)
(* old slots it has passed, and occupied_ counts the taken slots.          *)
(***************************************************************************)
EXTENDS HashTable, FiniteSetTheorems, TLAPS

-----------------------------------------------------------------------------
\* The inductive invariant.

\* A row as normalize_and_hash makes it.
WellFormed(row) ==
    /\ row.hash = HashOf(seed, row.words)
    /\ \A j \in row.mask : row.words[j] = NullWord

RowsWellFormed ==
    /\ \A g \in 0 .. nextId - 1 : WellFormed(store[g])
    /\ phase = "probe" => WellFormed(op.row)

\* Array A of cap slots holds exactly the groups S, each once and reachable
\* from the home slot of its row in key store rows.
Chained(A, cap, S, rows) ==
    /\ \A g \in S : \E s \in 0 .. cap - 1 : A[s] = g
    /\ \A s \in 0 .. cap - 1 : A[s] # NoGroup => A[s] \in S
    /\ \A s, t \in 0 .. cap - 1 : A[s] # NoGroup /\ A[s] = A[t] => s = t
    /\ \A s \in 0 .. cap - 1 : A[s] # NoGroup =>
         \A x \in Path(cap, Home(rows[A[s]], cap), s) : A[x] # NoGroup

Chains == Chained(slots, capacity, Findable, store)

\* The slots a lookup has passed are taken by other keys.
Walk ==
    phase = "probe" /\ Matchable(op.row) =>
      \A x \in Path(capacity, Home(op.row, capacity), slot) :
        slots[x] # NoGroup /\ ~Matches(op.row, slots[x])

\* What growth has placed, and the walk of the group it is placing.
Placed == {g \in Findable : \E i \in 0 .. scan - 1 : slots[i] = g}

Growing ==
    /\ phase \in {"grow", "replace"} => Chained(ns, 2 * capacity, Placed, store)
    /\ phase = "replace" =>
         /\ slots[scan] # NoGroup
         /\ \A x \in Path(2 * capacity, Home(store[slots[scan]], 2 * capacity), slot) :
              ns[x] # NoGroup

\* The taken slots among the first n of array A.
TakenOf(A, n) == {s \in 0 .. n - 1 : A[s] # NoGroup}

Counted ==
    /\ occupied = Cardinality(TakenOf(slots, capacity))
    /\ occupied <= capacity
    /\ phase \in {"idle", "probe"} => occupied < capacity
    /\ phase \in {"grow", "replace"} =>
         Cardinality(TakenOf(ns, 2 * capacity)) = Cardinality(TakenOf(slots, scan))

TableInv == /\ TypeOK
            /\ RowsWellFormed
            /\ Chains
            /\ OneIdPerKey
            /\ Walk
            /\ Growing
            /\ Counted

-----------------------------------------------------------------------------
(***************************************************************************)
(* Home slots lie in the array.                                            *)
(***************************************************************************)
LEMMA HomeInArray ==
    ASSUME NEW row \in Row, NEW cap \in Nat \ {0}
    PROVE  Home(row, cap) \in 0 .. cap - 1
<1>1. row.hash \in Nat
  BY DEF Row
<1>2. row.hash % cap \in 0 .. cap - 1
  BY <1>1
<1>. QED BY <1>2 DEF Home

(***************************************************************************)
(* The next slot of a walk lies in the array, and the walk has then passed *)
(* at most the slot it leaves in addition.                                 *)
(***************************************************************************)
LEMMA PathStep ==
    ASSUME NEW cap \in Nat \ {0}, NEW h \in 0 .. cap - 1, NEW s \in 0 .. cap - 1
    PROVE  /\ After(s, cap) \in 0 .. cap - 1
           /\ Path(cap, h, After(s, cap)) \subseteq Path(cap, h, s) \union {s}
           /\ Path(cap, h, h) = {}
           /\ Path(cap, h, s) \subseteq 0 .. cap - 1
BY DEF After, Path

(***************************************************************************)
(* Of two slots reached from one home slot, one is met before the other.   *)
(***************************************************************************)
LEMMA PathTotal ==
    ASSUME NEW cap \in Nat \ {0}, NEW h \in 0 .. cap - 1,
           NEW s \in 0 .. cap - 1, NEW t \in 0 .. cap - 1, s # t
    PROVE  s \in Path(cap, h, t) \/ t \in Path(cap, h, s)
BY DEF Path

(***************************************************************************)
(* Rows with equal keys have equal words and hashes: what the masked lanes *)
(* hold is the NULL sentinel on both sides.                                *)
(***************************************************************************)
LEMMA EqualKeysEqualHash ==
    ASSUME NEW a \in Row, NEW b \in Row, WellFormed(a), WellFormed(b), KeyEqual(a, b)
    PROVE  a.hash = b.hash /\ KeyEqual(b, a)
<1>1. /\ a.words \in [Cols -> Words] /\ b.words \in [Cols -> Words]
      /\ a.mask \subseteq Cols /\ b.mask \subseteq Cols
  BY DEF Row
<1>2. \A j \in Cols : a.words[j] = b.words[j]
  BY DEF WellFormed, KeyEqual
<1>3. a.words = b.words
  BY <1>1, <1>2
<1>. QED BY <1>3 DEF WellFormed, KeyEqual

(***************************************************************************)
(* Normalization makes well-formed rows.                                   *)
(***************************************************************************)
LEMMA NormalizeRow ==
    ASSUME NEW key \in Keys, seed \in Seeds
    PROVE  Normalize(key) \in Row /\ WellFormed(Normalize(key))
<1>1. key \in [Cols -> Raw \union {NULL}]
  BY TableAssumption
<1> DEFINE words == [j \in Cols |-> WordOf(key[j])]
           mask  == {j \in Cols : key[j] = NULL}
<1>2. \A j \in Cols : WordOf(key[j]) \in Words
  <2> SUFFICES ASSUME NEW j \in Cols PROVE WordOf(key[j]) \in Words
    OBVIOUS
  <2>1. key[j] \in Raw \union {NULL}
    BY <1>1
  <2>. QED BY <2>1 DEF WordOf, Words
<1>3. words \in [Cols -> Words]
  BY <1>2
<1>4. HashOf(seed, words) \in Nat
  BY <1>3, TableAssumption
<1>5. Normalize(key) = [words |-> words, mask |-> mask, hash |-> HashOf(seed, words)]
  BY DEF Normalize
<1> HIDE DEF words
<1>6. Normalize(key) \in Row
  BY <1>3, <1>4, <1>5 DEF Row
<1>7. \A j \in mask : words[j] = NullWord
  BY DEF words, WordOf
<1>. QED BY <1>5, <1>6, <1>7 DEF WellFormed

(***************************************************************************)
(* The load limit is below the capacity.                                   *)
(***************************************************************************)
LEMMA ThresholdBelow ==
    ASSUME capacity \in Nat \ {0}
    PROVE  Threshold \in Nat /\ Threshold < capacity
<1>1. LoadNum \in Nat /\ LoadDen \in Nat /\ LoadNum < LoadDen
  BY TableAssumption
<1> DEFINE x == capacity * LoadNum
           q == x \div LoadDen
<1>2. x \in Nat /\ x < capacity * LoadDen
  BY <1>1
<1>3. q \in Nat /\ q * LoadDen <= x
  <2> HIDE DEF x
  <2>. QED BY <1>1, <1>2
<1> HIDE DEF x, q
<1>4. q * LoadDen < capacity * LoadDen
  BY <1>1, <1>2, <1>3
<1>5. q < capacity
  BY <1>1, <1>3, <1>4
<1>. QED BY <1>3, <1>5 DEF Threshold, x, q

-----------------------------------------------------------------------------
(***************************************************************************)
(* The constants' types, as later proofs cite them.                        *)
(***************************************************************************)
LEMMA ConstantTypes ==
    /\ MinCapacity \in Nat \ {0}
    /\ NoGroup \in Nat \ {0}
    /\ NumCols \in Nat \ {0}
BY TableAssumption

(***************************************************************************)
(* A new group extends the key store by the row of the call.               *)
(***************************************************************************)
LEMMA NewGroupStore ==
    ASSUME nextId \in 0 .. NoGroup, nextId # NoGroup, op.row \in Row,
           store \in [0 .. nextId - 1 -> Row], NewGroup
    PROVE  /\ nextId' = nextId + 1
           /\ nextId' \in 0 .. NoGroup
           /\ store' \in [0 .. nextId' - 1 -> Row]
           /\ store'[nextId] = op.row
           /\ \A g \in 0 .. nextId - 1 : store'[g] = store[g]
<1>1. nextId' = nextId + 1 /\ nextId' \in 0 .. NoGroup
  BY ConstantTypes DEF NewGroup
<1>2. store' = [g \in 0 .. nextId |-> IF g = nextId THEN op.row ELSE store[g]]
  BY DEF NewGroup
<1>3. 0 .. nextId' - 1 = 0 .. nextId
  BY <1>1
<1>4. \A g \in 0 .. nextId : g = nextId \/ g \in 0 .. nextId - 1
  OBVIOUS
<1>. QED BY <1>1, <1>2, <1>3, <1>4

(***************************************************************************)
(* Type correctness.                                                       *)
(***************************************************************************)
LEMMA TypeInit == Init => TypeOK
BY ConstantTypes DEF Init, TypeOK, NoOp

\* A taken slot holds a group that has a stored row.
LEMMA SlottedRow ==
    ASSUME TypeOK, Chains, NEW s \in 0 .. capacity - 1, slots[s] # NoGroup
    PROVE  /\ slots[s] \in Findable
           /\ slots[s] \in 0 .. nextId - 1
           /\ store[slots[s]] \in Row
BY DEF TypeOK, Chains, Chained, Findable

\* Every step keeps the types.
LEMMA TypeStep == TypeOK /\ Chains /\ [Next]_vars => TypeOK'
<1> SUFFICES ASSUME TypeOK, Chains, [Next]_vars PROVE TypeOK'
  OBVIOUS
<1> USE ConstantTypes
<1>1. ASSUME NEW kind \in {"insert", "find"}, NEW key \in Keys, Call(kind, key)
      PROVE  TypeOK'
  <2>1. Normalize(key) \in Row
    BY NormalizeRow DEF TypeOK
  <2>2. Home(Normalize(key), capacity) \in 0 .. capacity - 1
    BY <2>1, HomeInArray DEF TypeOK
  <2>. QED BY <1>1, <2>1, <2>2 DEF Call, TypeOK
<1>2. CASE DeadInsert
  <2>1. op.row \in Row
    BY <1>2 DEF DeadInsert, TypeOK
  <2>2. /\ nextId' \in 0 .. NoGroup
        /\ store' \in [0 .. nextId' - 1 -> Row]
    BY <1>2, <2>1, NewGroupStore DEF DeadInsert, TypeOK
  <2>3. found' \in -1 .. NoGroup
    BY <1>2 DEF DeadInsert, Answer, TypeOK
  <2>. QED BY <1>2, <2>2, <2>3 DEF DeadInsert, TypeOK
<1>3. CASE DeadFind
  BY <1>3 DEF DeadFind, Answer, TypeOK
<1>4. CASE Advance
  <2>1. slot \in 0 .. capacity - 1 /\ capacity \in Nat \ {0}
    BY <1>4 DEF Advance, Probing, TypeOK
  <2>2. After(slot, capacity) \in 0 .. capacity - 1
    BY <2>1, PathStep
  <2>. QED BY <1>4, <2>2 DEF Advance, Probing, TypeOK
<1>5. CASE Hit
  BY <1>5 DEF Hit, Probing, Answer, TypeOK
<1>6. CASE MissFind
  BY <1>6 DEF MissFind, Answer, TypeOK
<1>7. CASE MissInsert
  <2>1. op.row \in Row /\ slot \in 0 .. capacity - 1
    BY <1>7 DEF MissInsert, Probing, TypeOK
  <2>2. /\ nextId' \in 0 .. NoGroup
        /\ store' \in [0 .. nextId' - 1 -> Row]
    BY <1>7, <2>1, NewGroupStore DEF MissInsert, TypeOK
  <2>3. /\ found' \in -1 .. NoGroup
        /\ occupied' \in Nat
        /\ slots' \in [0 .. capacity - 1 -> 0 .. NoGroup]
    BY <1>7, <2>1 DEF MissInsert, Answer, TypeOK
  <2>4. /\ phase' \in {"idle", "grow"}
        /\ phase' = "grow" =>
             /\ scan' \in 0 .. capacity
             /\ ns' \in [0 .. 2 * capacity - 1 -> 0 .. NoGroup]
    BY <1>7 DEF MissInsert, TypeOK
  <2>. QED BY <1>7, <2>2, <2>3, <2>4 DEF MissInsert, TypeOK
<1>8. CASE Throw
  BY <1>8 DEF Throw, Answer, Overflow, TypeOK
<1>9. CASE GrowSkip
  <2>1. scan' \in 0 .. capacity
    BY <1>9 DEF GrowSkip, TypeOK
  <2>. QED BY <1>9, <2>1 DEF GrowSkip, TypeOK
<1>10. CASE GrowPick
  <2>1. store[slots[scan]] \in Row /\ 2 * capacity \in Nat \ {0}
    BY <1>10, SlottedRow DEF GrowPick, TypeOK
  <2>2. slot' \in 0 .. 2 * capacity - 1
    BY <1>10, <2>1, HomeInArray DEF GrowPick
  <2>. QED BY <1>10, <2>2 DEF GrowPick, TypeOK
<1>11. CASE GrowAdvance
  <2>1. slot \in 0 .. 2 * capacity - 1 /\ 2 * capacity \in Nat \ {0}
    BY <1>11 DEF GrowAdvance, TypeOK
  <2>2. After(slot, 2 * capacity) \in 0 .. 2 * capacity - 1
    BY <2>1, PathStep
  <2>. QED BY <1>11, <2>2 DEF GrowAdvance, TypeOK
<1>12. CASE GrowPlace
  <2>1. /\ scan \in 0 .. capacity - 1
        /\ slot \in 0 .. 2 * capacity - 1
        /\ slots[scan] \in 0 .. NoGroup
    BY <1>12 DEF GrowPlace, TypeOK
  <2>2. /\ scan' \in 0 .. capacity
        /\ ns' \in [0 .. 2 * capacity - 1 -> 0 .. NoGroup]
    BY <1>12, <2>1 DEF GrowPlace, TypeOK
  <2>. QED BY <1>12, <2>2 DEF GrowPlace, TypeOK
<1>13. CASE GrowSwap
  BY <1>13 DEF GrowSwap, TypeOK
<1>14. CASE UNCHANGED vars
  BY <1>14 DEF vars, TypeOK
<1>. QED
  BY <1>1, <1>2, <1>3, <1>4, <1>5, <1>6, <1>7, <1>8, <1>9, <1>10, <1>11, <1>12,
     <1>13, <1>14 DEF Next, Internal

-----------------------------------------------------------------------------
(***************************************************************************)
(* An empty slot at the end of a walk over taken slots can take a group.   *)
(***************************************************************************)
LEMMA ChainedExtend ==
    ASSUME NEW cap \in Nat \ {0}, NEW A \in [0 .. cap - 1 -> 0 .. NoGroup],
           NEW S, NEW rows, NEW g \in 0 .. NoGroup - 1, g \notin S,
           NoGroup \notin S, NEW t \in 0 .. cap - 1, A[t] = NoGroup,
           Chained(A, cap, S, rows),
           \A s \in 0 .. cap - 1 : A[s] # NoGroup => Home(rows[A[s]], cap) \in 0 .. cap - 1,
           Home(rows[g], cap) \in 0 .. cap - 1,
           \A x \in Path(cap, Home(rows[g], cap), t) : A[x] # NoGroup
    PROVE  Chained([A EXCEPT ![t] = g], cap, S \union {g}, rows)
<1> DEFINE B == [A EXCEPT ![t] = g]
<1>1. /\ B \in [0 .. cap - 1 -> 0 .. NoGroup]
      /\ B[t] = g /\ g # NoGroup
      /\ \A s \in 0 .. cap - 1 : s # t => B[s] = A[s]
  BY ConstantTypes
<1>2. \A s \in 0 .. cap - 1 : A[s] # NoGroup => B[s] = A[s] /\ B[s] # NoGroup
  BY <1>1
<1> HIDE DEF B
<1>3. \A k \in S \union {g} : \E s \in 0 .. cap - 1 : B[s] = k
  <2>1. ASSUME NEW k \in S PROVE \E s \in 0 .. cap - 1 : B[s] = k
    <3>1. PICK s \in 0 .. cap - 1 : A[s] = k
      BY DEF Chained
    <3>. QED BY <1>2, <3>1
  <2>. QED BY <1>1, <2>1
<1>4. \A s \in 0 .. cap - 1 : B[s] # NoGroup => B[s] \in S \union {g}
  BY <1>1 DEF Chained
<1>5. \A s, u \in 0 .. cap - 1 : B[s] # NoGroup /\ B[s] = B[u] => s = u
  <2> SUFFICES ASSUME NEW s \in 0 .. cap - 1, NEW u \in 0 .. cap - 1,
                      B[s] # NoGroup, B[s] = B[u]
               PROVE  s = u
    OBVIOUS
  <2>1. CASE s # t /\ u # t
    BY <1>1, <2>1 DEF Chained
  <2>2. CASE s = t /\ u # t
    BY <1>1, <2>2 DEF Chained
  <2>3. CASE s # t /\ u = t
    BY <1>1, <2>3 DEF Chained
  <2>. QED BY <2>1, <2>2, <2>3
<1>6. \A s \in 0 .. cap - 1 : B[s] # NoGroup =>
        \A x \in Path(cap, Home(rows[B[s]], cap), s) : B[x] # NoGroup
  <2> SUFFICES ASSUME NEW s \in 0 .. cap - 1, B[s] # NoGroup,
                      NEW x \in Path(cap, Home(rows[B[s]], cap), s)
               PROVE  B[x] # NoGroup
    OBVIOUS
  <2>1. Home(rows[B[s]], cap) \in 0 .. cap - 1
    BY <1>1
  <2>2. x \in 0 .. cap - 1
    <3> DEFINE h == Home(rows[B[s]], cap)
    <3>1. h \in 0 .. cap - 1 /\ x \in Path(cap, h, s)
      BY <2>1
    <3> HIDE DEF h
    <3>2. Path(cap, h, s) \subseteq 0 .. cap - 1
      BY <3>1, PathStep
    <3>. QED BY <3>1, <3>2
  <2>3. A[x] # NoGroup
    BY <1>1 DEF Chained
  <2>. QED BY <1>2, <2>2, <2>3
<1>. QED BY <1>3, <1>4, <1>5, <1>6 DEF Chained, B

(***************************************************************************)
(* Chains depend only on the rows of the groups in the array.              *)
(***************************************************************************)
LEMMA ChainedSameRows ==
    ASSUME NEW cap, NEW A, NEW S, NEW rows, NEW other, Chained(A, cap, S, rows),
           \A g \in S : other[g] = rows[g]
    PROVE  Chained(A, cap, S, other)
BY DEF Chained

-----------------------------------------------------------------------------
(***************************************************************************)
(* Which steps leave the stored groups and their slots alone.              *)
(***************************************************************************)
Kept == UNCHANGED <<seed, policy, capacity, slots, occupied, nextId, store>>

LookupStep == \/ \E kind \in {"insert", "find"}, key \in Keys : Call(kind, key)
              \/ DeadFind \/ Advance \/ Hit \/ MissFind \/ Throw
GrowthStep == GrowSkip \/ GrowPick \/ GrowAdvance \/ GrowPlace

(***************************************************************************)
(* Only an insertion of a new key and the end of growth change what is     *)
(* stored.                                                                 *)
(***************************************************************************)
LEMMA StepKinds ==
    ASSUME [Next]_vars
    PROVE  \/ (LookupStep \/ GrowthStep \/ UNCHANGED vars) /\ Kept
           \/ DeadInsert \/ MissInsert \/ GrowSwap
<1>1. LookupStep => Kept
  BY DEF LookupStep, Call, DeadFind, Advance, Hit, MissFind, Throw, Kept
<1>2. GrowthStep => Kept
  BY DEF GrowthStep, GrowSkip, GrowPick, GrowAdvance, GrowPlace, Kept
<1>3. UNCHANGED vars => Kept
  BY DEF vars, Kept
<1>4. Next => LookupStep \/ GrowthStep \/ DeadInsert \/ MissInsert \/ GrowSwap
  BY DEF Next, Internal, LookupStep, GrowthStep
<1>. QED BY <1>1, <1>2, <1>3, <1>4

(***************************************************************************)
(* The new group is findable exactly when its key is; the others stay so.  *)
(***************************************************************************)
LEMMA FindableAfterNewGroup ==
    ASSUME TypeOK, nextId # NoGroup, op.row \in Row, NewGroup, policy' = policy
    PROVE  /\ ~Matchable(op.row) => Findable' = Findable
           /\ Matchable(op.row) => Findable' = Findable \union {nextId}
           /\ \A g \in Findable : store'[g] = store[g] /\ g \in 0 .. nextId - 1
           /\ nextId \notin Findable /\ NoGroup \notin Findable
<1>1. /\ nextId' = nextId + 1
      /\ store'[nextId] = op.row
      /\ \A g \in 0 .. nextId - 1 : store'[g] = store[g]
  BY NewGroupStore DEF TypeOK
<1>2. nextId \in Nat /\ nextId < NoGroup /\ NoGroup \in Nat
  BY ConstantTypes DEF TypeOK
<1>3. 0 .. nextId' - 1 = (0 .. nextId - 1) \union {nextId}
  BY <1>1, <1>2
<1> DEFINE M(g) == policy' = "kEqual" \/ store'[g].mask = {}
<1>4. \A g \in 0 .. nextId - 1 : M(g) <=> Matchable(store[g])
  BY <1>1 DEF Matchable
<1>5. M(nextId) <=> Matchable(op.row)
  BY <1>1 DEF Matchable
<1>6. Findable' = {g \in 0 .. nextId' - 1 : M(g)}
  BY DEF Findable, Matchable
<1> HIDE DEF M
<1>7. nextId \notin Findable /\ NoGroup \notin Findable
  BY <1>2 DEF Findable
<1>8. ~Matchable(op.row) => Findable' = Findable
  BY <1>3, <1>4, <1>5, <1>6 DEF Findable
<1>9. Matchable(op.row) => Findable' = Findable \union {nextId}
  BY <1>3, <1>4, <1>5, <1>6 DEF Findable
<1>. QED BY <1>1, <1>7, <1>8, <1>9 DEF Findable

(***************************************************************************)
(* Rows in the store and in a call stay normalized rows.                   *)
(***************************************************************************)
LEMMA RowsStep == TypeOK /\ RowsWellFormed /\ [Next]_vars => RowsWellFormed'
<1> SUFFICES ASSUME TypeOK, RowsWellFormed, [Next]_vars PROVE RowsWellFormed'
  OBVIOUS
<1>1. ASSUME Kept, phase' = "probe" => op' = op /\ phase = "probe"
      PROVE  RowsWellFormed'
  BY <1>1 DEF Kept, RowsWellFormed, WellFormed
<1>2. CASE \E kind \in {"insert", "find"}, key \in Keys : Call(kind, key)
  <2>1. PICK kind \in {"insert", "find"}, key \in Keys : Call(kind, key)
    BY <1>2
  <2>2. WellFormed(Normalize(key)) /\ op'.row = Normalize(key) /\ Kept
    BY <2>1, NormalizeRow DEF Call, TypeOK, Kept
  <2>. QED BY <2>2 DEF RowsWellFormed, WellFormed, Kept
<1>3. CASE DeadInsert \/ MissInsert
  <2>1. /\ phase = "probe" /\ nextId # NoGroup /\ NewGroup /\ seed' = seed
        /\ phase' # "probe"
    BY <1>3 DEF DeadInsert, MissInsert, Probing
  <2>2. op.row \in Row
    BY <2>1 DEF TypeOK
  <2>3. /\ nextId' = nextId + 1
        /\ store'[nextId] = op.row
        /\ \A g \in 0 .. nextId - 1 : store'[g] = store[g]
    BY <2>1, <2>2, NewGroupStore DEF TypeOK
  <2>4. \A g \in 0 .. nextId' - 1 : g = nextId \/ g \in 0 .. nextId - 1
    BY <2>3 DEF TypeOK
  <2>5. \A g \in 0 .. nextId' - 1 : WellFormed(store'[g])
    BY <2>1, <2>3, <2>4 DEF RowsWellFormed
  <2>. QED BY <2>1, <2>5 DEF RowsWellFormed, WellFormed
<1>4. CASE GrowSwap
  BY <1>4 DEF GrowSwap, RowsWellFormed, WellFormed
<1>5. CASE DeadFind \/ Advance \/ Hit \/ MissFind \/ Throw \/ GrowthStep \/ UNCHANGED vars
  <2>1. phase' = "probe" => op' = op /\ phase = "probe"
    BY <1>5 DEF DeadFind, Advance, Hit, MissFind, Throw, GrowthStep, GrowSkip,
                GrowPick, GrowAdvance, GrowPlace, Probing, vars
  <2>2. Kept
    BY <1>5 DEF DeadFind, Advance, Hit, MissFind, Throw, GrowthStep, GrowSkip,
                GrowPick, GrowAdvance, GrowPlace, Kept, vars
  <2>. QED BY <1>1, <2>1, <2>2
<1>. QED BY <1>2, <1>3, <1>4, <1>5, StepKinds DEF LookupStep

-----------------------------------------------------------------------------
(***************************************************************************)
(* No findable group has the key of a lookup that reached an empty slot.   *)
(***************************************************************************)
LEMMA MissMeansNew ==
    ASSUME TypeOK, RowsWellFormed, Chains, Walk,
           Probing, slots[slot] = NoGroup, NEW g \in Findable
    PROVE  ~KeyEqual(op.row, store[g])
<1> SUFFICES ASSUME KeyEqual(op.row, store[g]) PROVE FALSE
  OBVIOUS
<1>1. /\ capacity \in Nat \ {0} /\ slot \in 0 .. capacity - 1
      /\ op.row \in Row /\ WellFormed(op.row)
      /\ \A x \in Path(capacity, Home(op.row, capacity), slot) :
           slots[x] # NoGroup /\ ~Matches(op.row, slots[x])
  BY DEF TypeOK, Probing, RowsWellFormed, Walk
<1>2. PICK s \in 0 .. capacity - 1 : slots[s] = g
  BY DEF Chains, Chained
<1>3. /\ g \in 0 .. nextId - 1 /\ g # NoGroup
      /\ store[g] \in Row /\ WellFormed(store[g])
  BY DEF Findable, TypeOK, RowsWellFormed
<1>4. store[g].hash = op.row.hash /\ Matches(op.row, g)
  BY <1>1, <1>3, EqualKeysEqualHash DEF Matches
<1>5. \A x \in Path(capacity, Home(op.row, capacity), s) : slots[x] # NoGroup
  BY <1>2, <1>3, <1>4 DEF Chains, Chained, Home
<1>6. Home(op.row, capacity) \in 0 .. capacity - 1 /\ s # slot
  BY <1>1, <1>2, <1>3, HomeInArray
<1>7. s \in Path(capacity, Home(op.row, capacity), slot)
      \/ slot \in Path(capacity, Home(op.row, capacity), s)
  BY <1>1, <1>6, PathTotal
<1>. QED BY <1>1, <1>2, <1>4, <1>5, <1>7

(***************************************************************************)
(* The chains survive every step.                                          *)
(***************************************************************************)
LEMMA ChainsStep ==
    TypeOK /\ RowsWellFormed /\ Chains /\ Walk /\ Growing /\ [Next]_vars => Chains'
<1> SUFFICES ASSUME TypeOK, RowsWellFormed, Chains, Walk, Growing, [Next]_vars
             PROVE  Chains'
  OBVIOUS
<1>1. CASE Kept
  BY <1>1 DEF Kept, Chains, Chained, Findable, Matchable
<1>2. CASE DeadInsert
  <2>1. /\ op.row \in Row /\ nextId # NoGroup /\ NewGroup /\ policy' = policy
        /\ ~Matchable(op.row)
        /\ slots' = slots /\ capacity' = capacity
    BY <1>2 DEF DeadInsert, TypeOK
  <2>2. Findable' = Findable /\ \A g \in Findable : store'[g] = store[g]
    BY <2>1, FindableAfterNewGroup
  <2>3. Chained(slots, capacity, Findable, store')
    BY <2>2, ChainedSameRows DEF Chains
  <2>. QED BY <2>1, <2>2, <2>3 DEF Chains, Chained
<1>3. CASE MissInsert
  <2>1. /\ op.row \in Row /\ nextId # NoGroup /\ NewGroup /\ policy' = policy
        /\ Probing /\ Matchable(op.row)
        /\ slots[slot] = NoGroup /\ slot \in 0 .. capacity - 1
        /\ slots' = [slots EXCEPT ![slot] = nextId] /\ capacity' = capacity
    BY <1>3 DEF MissInsert, Probing, TypeOK
  <2>2. /\ Findable' = Findable \union {nextId}
        /\ nextId \notin Findable /\ NoGroup \notin Findable
        /\ \A g \in Findable : store'[g] = store[g] /\ g \in 0 .. nextId - 1
    BY <2>1, FindableAfterNewGroup
  <2>3. Chained(slots, capacity, Findable, store')
    BY <2>2, ChainedSameRows DEF Chains
  <2>4. store'[nextId] = op.row /\ nextId \in 0 .. NoGroup - 1
    BY <2>1, NewGroupStore, ConstantTypes DEF TypeOK
  <2>5. \A s \in 0 .. capacity - 1 : slots[s] # NoGroup =>
          Home(store'[slots[s]], capacity) \in 0 .. capacity - 1
    BY <2>2, SlottedRow, HomeInArray DEF TypeOK
  <2>6. /\ Home(store'[nextId], capacity) \in 0 .. capacity - 1
        /\ \A x \in Path(capacity, Home(store'[nextId], capacity), slot) :
             slots[x] # NoGroup
    BY <2>1, <2>4, HomeInArray DEF Walk, Probing, TypeOK
  <2>7. Chained(slots', capacity, Findable \union {nextId}, store')
    BY <2>1, <2>2, <2>3, <2>4, <2>5, <2>6, ChainedExtend DEF TypeOK
  <2>. QED BY <2>1, <2>2, <2>7 DEF Chains, Chained
<1>4. CASE GrowSwap
  <2>1. /\ Chained(ns, 2 * capacity, Placed, store) /\ scan = capacity
        /\ slots' = ns /\ capacity' = 2 * capacity
        /\ UNCHANGED <<store, nextId, policy>>
    BY <1>4 DEF GrowSwap, Growing
  <2>2. Placed = Findable
    BY <2>1 DEF Placed, Chains, Chained
  <2>3. Findable' = Findable
    BY <2>1 DEF Findable, Matchable
  <2>. QED BY <2>1, <2>2, <2>3 DEF Chains, Chained
<1>. QED BY <1>1, <1>2, <1>3, <1>4, StepKinds

(***************************************************************************)
(* A key keeps its one id through every step.                              *)
(***************************************************************************)
LEMMA OneIdStep ==
    TypeOK /\ RowsWellFormed /\ Chains /\ Walk /\ OneIdPerKey /\ [Next]_vars
      => OneIdPerKey'
<1> SUFFICES ASSUME TypeOK, RowsWellFormed, Chains, Walk, OneIdPerKey, [Next]_vars
             PROVE  OneIdPerKey'
  OBVIOUS
<1>1. CASE Kept \/ GrowSwap
  BY <1>1 DEF Kept, GrowSwap, OneIdPerKey, Findable, Matchable
<1>2. CASE DeadInsert
  <2>1. /\ op.row \in Row /\ nextId # NoGroup /\ NewGroup /\ policy' = policy
        /\ ~Matchable(op.row)
    BY <1>2 DEF DeadInsert, TypeOK
  <2>2. Findable' = Findable /\ \A g \in Findable : store'[g] = store[g]
    BY <2>1, FindableAfterNewGroup
  <2>. QED BY <2>2 DEF OneIdPerKey
<1>3. CASE MissInsert
  <2>1. /\ op.row \in Row /\ nextId # NoGroup /\ NewGroup /\ policy' = policy
        /\ Probing /\ Matchable(op.row) /\ slots[slot] = NoGroup
    BY <1>3 DEF MissInsert, Probing, TypeOK
  <2>2. /\ Findable' = Findable \union {nextId}
        /\ \A g \in Findable : store'[g] = store[g]
    BY <2>1, FindableAfterNewGroup
  <2>3. store'[nextId] = op.row
    BY <2>1, NewGroupStore DEF TypeOK
  <2>4. \A g \in Findable : ~KeyEqual(op.row, store[g])
    BY <2>1, MissMeansNew
  <2>5. \A g \in Findable : ~KeyEqual(store[g], op.row)
    <3> SUFFICES ASSUME NEW g \in Findable, KeyEqual(store[g], op.row) PROVE FALSE
      OBVIOUS
    <3>1. /\ store[g] \in Row /\ WellFormed(store[g])
          /\ op.row \in Row /\ WellFormed(op.row)
      BY <2>1 DEF Findable, TypeOK, RowsWellFormed, Probing
    <3>. QED BY <3>1, <2>4, EqualKeysEqualHash
  <2>. QED BY <2>2, <2>3, <2>4, <2>5 DEF OneIdPerKey
<1>. QED BY <1>1, <1>2, <1>3, StepKinds

(***************************************************************************)
(* A walk starts having passed nothing and passes one slot at a time, each *)
(* taken by another key.                                                   *)
(***************************************************************************)
LEMMA WalkStep == TypeOK /\ Walk /\ [Next]_vars => Walk'
<1> SUFFICES ASSUME TypeOK, Walk, [Next]_vars PROVE Walk'
  OBVIOUS
<1>1. CASE \E kind \in {"insert", "find"}, key \in Keys : Call(kind, key)
  <2>1. PICK kind \in {"insert", "find"}, key \in Keys : Call(kind, key)
    BY <1>1
  <2>2. /\ op'.row = Normalize(key) /\ capacity' = capacity
        /\ slot' = Home(Normalize(key), capacity)
    BY <2>1 DEF Call
  <2>3. Normalize(key) \in Row /\ capacity \in Nat \ {0}
    BY NormalizeRow DEF TypeOK
  <2>4. slot' \in 0 .. capacity - 1
    BY <2>2, <2>3, HomeInArray
  <2>5. Path(capacity', Home(op'.row, capacity'), slot') = {}
    BY <2>2, <2>3, <2>4, PathStep DEF Home
  <2>. QED BY <2>5 DEF Walk
<1>2. CASE Advance
  <2>1. /\ Probing /\ phase = "probe" /\ Matchable(op.row)
        /\ slots[slot] # NoGroup /\ ~Matches(op.row, slots[slot])
        /\ slot' = After(slot, capacity)
        /\ UNCHANGED <<policy, capacity, slots, store, op>>
    BY <1>2 DEF Advance, Probing
  <2>2. /\ capacity \in Nat \ {0} /\ slot \in 0 .. capacity - 1
        /\ op.row \in Row
    BY <2>1 DEF TypeOK
  <2>3. Home(op.row, capacity) \in 0 .. capacity - 1
    BY <2>2, HomeInArray
  <2>4. Path(capacity, Home(op.row, capacity), slot')
          \subseteq Path(capacity, Home(op.row, capacity), slot) \union {slot}
    BY <2>1, <2>2, <2>3, PathStep
  <2>5. \A x \in Path(capacity, Home(op.row, capacity), slot') :
          slots[x] # NoGroup /\ ~Matches(op.row, slots[x])
    BY <2>1, <2>4 DEF Walk
  <2>. QED BY <2>1, <2>5 DEF Walk, Matches, KeyEqual
<1>3. CASE UNCHANGED vars
  BY <1>3 DEF vars, Walk, Matchable, Matches, KeyEqual
<1>4. CASE DeadFind \/ Hit \/ MissFind \/ Throw \/ GrowthStep
           \/ DeadInsert \/ MissInsert \/ GrowSwap
  <2>1. phase' # "probe"
    BY <1>4 DEF DeadFind, Hit, MissFind, Throw, GrowthStep, GrowSkip, GrowPick,
                GrowAdvance, GrowPlace, DeadInsert, MissInsert, GrowSwap
  <2>. QED BY <2>1 DEF Walk
<1>. QED BY <1>1, <1>2, <1>3, <1>4, StepKinds DEF LookupStep

(***************************************************************************)
(* Growth keeps the new array's chains intact over what it has placed.     *)
(***************************************************************************)
LEMMA GrowingStep ==
    TypeOK /\ Chains /\ Growing /\ [Next]_vars => Growing'
<1> SUFFICES ASSUME TypeOK, Chains, Growing, [Next]_vars PROVE Growing'
  OBVIOUS
<1> USE ConstantTypes
<1>1. CASE MissInsert
  <2> SUFFICES ASSUME phase' = "grow" PROVE Growing'
    BY <1>1 DEF MissInsert, Growing
  <2>1. /\ scan' = 0 /\ capacity' = capacity
        /\ ns' = [s \in 0 .. 2 * capacity - 1 |-> NoGroup]
    BY <1>1 DEF MissInsert
  <2>2. Placed' = {}
    BY <2>1 DEF Placed
  <2>3. \A s \in 0 .. 2 * capacity - 1 : ns'[s] = NoGroup
    BY <2>1
  <2>4. Chained(ns', 2 * capacity', Placed', store')
    BY <2>1, <2>2, <2>3 DEF Chained
  <2>. QED BY <2>4 DEF Growing
<1>2. CASE GrowSkip
  <2>1. /\ phase = "grow" /\ phase' = "grow" /\ scan' = scan + 1
        /\ slots[scan] = NoGroup
        /\ scan \in 0 .. capacity - 1
        /\ UNCHANGED <<policy, capacity, slots, nextId, store, ns>>
    BY <1>2 DEF GrowSkip, TypeOK
  <2>2. Findable' = Findable /\ NoGroup \notin Findable
    BY <2>1 DEF Findable, Matchable, TypeOK
  <2>3. 0 .. scan' - 1 = (0 .. scan - 1) \union {scan}
    BY <2>1
  <2>4. Placed' = Placed
    BY <2>1, <2>2, <2>3 DEF Placed
  <2>. QED BY <2>1, <2>4 DEF Growing, Chained
<1>3. CASE GrowPick
  <2>1. /\ phase = "grow" /\ phase' = "replace"
        /\ slots[scan] # NoGroup /\ scan \in 0 .. capacity - 1
        /\ slot' = Home(store[slots[scan]], 2 * capacity)
        /\ UNCHANGED <<policy, capacity, slots, nextId, store, ns, scan>>
    BY <1>3 DEF GrowPick, TypeOK
  <2>2. Placed' = Placed
    BY <2>1 DEF Placed, Findable, Matchable
  <2>3. store[slots[scan]] \in Row /\ 2 * capacity \in Nat \ {0}
    BY <2>1, SlottedRow DEF TypeOK
  <2>4. slot' \in 0 .. 2 * capacity - 1
    BY <2>1, <2>3, HomeInArray
  <2>5. Path(2 * capacity, Home(store[slots[scan]], 2 * capacity), slot') = {}
    BY <2>1, <2>3, <2>4, PathStep
  <2>6. Path(2 * capacity', Home(store'[slots'[scan']], 2 * capacity'), slot') = {}
    BY <2>1, <2>5
  <2>. QED BY <2>1, <2>2, <2>6 DEF Growing, Chained
<1>4. CASE GrowAdvance
  <2>1. /\ phase = "replace" /\ phase' = "replace"
        /\ ns[slot] # NoGroup
        /\ slot' = After(slot, 2 * capacity)
        /\ slots[scan] # NoGroup /\ scan \in 0 .. capacity - 1
        /\ slot \in 0 .. 2 * capacity - 1
        /\ UNCHANGED <<policy, capacity, slots, nextId, store, ns, scan>>
    BY <1>4 DEF GrowAdvance, TypeOK, Growing
  <2>2. Placed' = Placed
    BY <2>1 DEF Placed, Findable, Matchable
  <2>3. store[slots[scan]] \in Row /\ 2 * capacity \in Nat \ {0}
    BY <2>1, SlottedRow DEF TypeOK
  <2> DEFINE home == Home(store[slots[scan]], 2 * capacity)
  <2>4. home \in 0 .. 2 * capacity - 1
    BY <2>3, HomeInArray
  <2>5. \A x \in Path(2 * capacity, home, slot) : ns[x] # NoGroup
    BY <2>1 DEF Growing
  <2> HIDE DEF home
  <2>6. Path(2 * capacity, home, slot') \subseteq Path(2 * capacity, home, slot) \union {slot}
    BY <2>1, <2>3, <2>4, PathStep
  <2>7. \A x \in Path(2 * capacity, home, slot') : ns[x] # NoGroup
    BY <2>1, <2>5, <2>6
  <2>8. \A x \in Path(2 * capacity', Home(store'[slots'[scan']], 2 * capacity'), slot') :
          ns'[x] # NoGroup
    BY <2>1, <2>7 DEF home
  <2>. QED BY <2>1, <2>2, <2>8 DEF Growing, Chained
<1>5. CASE GrowPlace
  <2>1. /\ phase = "replace" /\ phase' = "grow"
        /\ ns[slot] = NoGroup /\ slot \in 0 .. 2 * capacity - 1
        /\ ns' = [ns EXCEPT ![slot] = slots[scan]]
        /\ scan' = scan + 1
        /\ slots[scan] # NoGroup /\ scan \in 0 .. capacity - 1
        /\ UNCHANGED <<policy, capacity, slots, nextId, store>>
    BY <1>5 DEF GrowPlace, TypeOK, Growing
  <2>2. /\ slots[scan] \in Findable
        /\ slots[scan] \in 0 .. nextId - 1
        /\ store[slots[scan]] \in Row
    BY <2>1, SlottedRow
  <2>3. slots[scan] \notin Placed
    <3> SUFFICES ASSUME NEW i \in 0 .. scan - 1, slots[i] = slots[scan] PROVE FALSE
      BY DEF Placed
    <3>1. i \in 0 .. capacity - 1 /\ i # scan /\ slots[i] # NoGroup
      BY <2>1 DEF TypeOK
    <3>. QED BY <2>1, <3>1 DEF Chains, Chained
  <2>4. Placed' = Placed \union {slots[scan]}
    <3>1. Findable' = Findable
      BY <2>1 DEF Findable, Matchable
    <3>2. 0 .. scan' - 1 = (0 .. scan - 1) \union {scan}
      BY <2>1
    <3>. QED BY <2>1, <2>2, <3>1, <3>2 DEF Placed
  <2>5. /\ 2 * capacity \in Nat \ {0}
        /\ ns \in [0 .. 2 * capacity - 1 -> 0 .. NoGroup]
        /\ NoGroup \notin Placed
        /\ slots[scan] \in 0 .. NoGroup - 1
    BY <2>1, <2>2 DEF TypeOK, Placed, Findable
  <2>6. \A s \in 0 .. 2 * capacity - 1 : ns[s] # NoGroup =>
          Home(store[ns[s]], 2 * capacity) \in 0 .. 2 * capacity - 1
    <3> SUFFICES ASSUME NEW s \in 0 .. 2 * capacity - 1, ns[s] # NoGroup
                 PROVE  Home(store[ns[s]], 2 * capacity) \in 0 .. 2 * capacity - 1
      OBVIOUS
    <3>1. ns[s] \in Findable
      BY <2>1 DEF Growing, Chained, Placed
    <3>2. store[ns[s]] \in Row
      BY <3>1 DEF Findable, TypeOK
    <3>. QED BY <2>5, <3>2, HomeInArray
  <2>7. /\ Home(store[slots[scan]], 2 * capacity) \in 0 .. 2 * capacity - 1
        /\ \A x \in Path(2 * capacity, Home(store[slots[scan]], 2 * capacity), slot) :
             ns[x] # NoGroup
        /\ Chained(ns, 2 * capacity, Placed, store)
    BY <2>1, <2>2, <2>5, HomeInArray DEF Growing
  <2>8. Chained(ns', 2 * capacity, Placed \union {slots[scan]}, store)
    BY <2>1, <2>3, <2>5, <2>6, <2>7, ChainedExtend
  <2>. QED BY <2>1, <2>4, <2>8 DEF Growing, Chained
<1>6. CASE UNCHANGED vars
  BY <1>6 DEF vars, Growing, Chained, Placed, Findable, Matchable
<1>7. CASE LookupStep \/ DeadInsert \/ GrowSwap
  <2>1. phase' \notin {"grow", "replace"}
    BY <1>7 DEF LookupStep, Call, DeadFind, Advance, Hit, MissFind, Throw,
                DeadInsert, GrowSwap, Probing
  <2>. QED BY <2>1 DEF Growing
<1>. QED BY <1>1, <1>2, <1>3, <1>4, <1>5, <1>6, <1>7, StepKinds DEF GrowthStep

-----------------------------------------------------------------------------
(***************************************************************************)
(* Counting slots: none, one more slot looked at, one more slot taken.     *)
(***************************************************************************)
LEMMA TakenFinite ==
    ASSUME NEW A, NEW n \in Nat
    PROVE  /\ IsFiniteSet(TakenOf(A, n))
           /\ Cardinality(TakenOf(A, n)) \in Nat
           /\ Cardinality(TakenOf(A, n)) <= n
<1>1. IsFiniteSet(0 .. n - 1) /\ Cardinality(0 .. n - 1) = n
  <2>1. 0 \in Int /\ n - 1 \in Int /\ (IF 0 > n - 1 THEN 0 ELSE n - 1 - 0 + 1) = n
    OBVIOUS
  <2>. QED BY <2>1, FS_Interval
<1>2. TakenOf(A, n) \in SUBSET (0 .. n - 1)
  BY DEF TakenOf
<1>3. /\ IsFiniteSet(TakenOf(A, n))
      /\ Cardinality(TakenOf(A, n)) <= Cardinality(0 .. n - 1)
  BY <1>1, <1>2, FS_Subset
<1>. QED BY <1>1, <1>3, FS_CardinalityType

\* A table whose slots are free has none taken.
LEMMA TakenNone ==
    ASSUME NEW A, NEW n \in Nat, \A s \in 0 .. n - 1 : A[s] = NoGroup
    PROVE  Cardinality(TakenOf(A, n)) = 0
<1>1. TakenOf(A, n) = {}
  BY DEF TakenOf
<1>. QED BY <1>1, FS_EmptySet

\* One more slot adds one when it is taken.
LEMMA TakenOneMoreSlot ==
    ASSUME NEW A, NEW n \in Nat
    PROVE  Cardinality(TakenOf(A, n + 1)) =
             IF A[n] = NoGroup THEN Cardinality(TakenOf(A, n))
             ELSE Cardinality(TakenOf(A, n)) + 1
<1>1. CASE A[n] = NoGroup
  <2>1. TakenOf(A, n + 1) = TakenOf(A, n)
    BY <1>1 DEF TakenOf
  <2>. QED BY <1>1, <2>1
<1>2. CASE A[n] # NoGroup
  <2>1. TakenOf(A, n + 1) = TakenOf(A, n) \union {n} /\ n \notin TakenOf(A, n)
    BY <1>2 DEF TakenOf
  <2>2. Cardinality(TakenOf(A, n) \union {n}) = Cardinality(TakenOf(A, n)) + 1
    BY <2>1, TakenFinite, FS_AddElement
  <2>. QED BY <1>2, <2>1, <2>2
<1>. QED BY <1>1, <1>2

\* Filling a free slot takes one more.
LEMMA TakenFill ==
    ASSUME NEW n \in Nat, NEW A \in [0 .. n - 1 -> 0 .. NoGroup],
           NEW t \in 0 .. n - 1, A[t] = NoGroup,
           NEW g \in 0 .. NoGroup, g # NoGroup
    PROVE  Cardinality(TakenOf([A EXCEPT ![t] = g], n)) = Cardinality(TakenOf(A, n)) + 1
<1> DEFINE B == [A EXCEPT ![t] = g]
<1>1. B[t] = g /\ \A s \in 0 .. n - 1 : s # t => B[s] = A[s]
  OBVIOUS
<1> HIDE DEF B
<1>2. TakenOf(B, n) = TakenOf(A, n) \union {t} /\ t \notin TakenOf(A, n)
  BY <1>1 DEF TakenOf
<1>3. Cardinality(TakenOf(A, n) \union {t}) = Cardinality(TakenOf(A, n)) + 1
  BY <1>2, TakenFinite, FS_AddElement
<1>. QED BY <1>2, <1>3 DEF B

(***************************************************************************)
(* occupied_ counts the taken slots through every step, growth included.   *)
(***************************************************************************)
LEMMA CountedStep ==
    TypeOK /\ Counted /\ Growing /\ [Next]_vars => Counted'
<1> SUFFICES ASSUME TypeOK, Counted, Growing, [Next]_vars PROVE Counted'
  OBVIOUS
<1> USE ConstantTypes
<1>1. CASE LookupStep \/ DeadInsert \/ UNCHANGED vars
  <2>1. /\ UNCHANGED <<slots, capacity, occupied, ns, scan>>
        /\ \/ phase \in {"idle", "probe"} /\ phase' \in {"idle", "probe"}
           \/ phase' = phase
    BY <1>1 DEF LookupStep, Call, DeadFind, Advance, Hit, MissFind, Throw,
                DeadInsert, Probing, vars
  <2>. QED BY <2>1 DEF Counted, TakenOf
<1>2. CASE MissInsert
  <2>1. /\ phase = "probe" /\ slots[slot] = NoGroup /\ nextId # NoGroup
        /\ slot \in 0 .. capacity - 1 /\ nextId \in 0 .. NoGroup
        /\ slots' = [slots EXCEPT ![slot] = nextId]
        /\ occupied' = occupied + 1 /\ scan' = 0 /\ capacity' = capacity
        /\ slots \in [0 .. capacity - 1 -> 0 .. NoGroup]
        /\ capacity \in Nat /\ occupied \in Nat
    BY <1>2 DEF MissInsert, Probing, TypeOK
  <2>2. occupied = Cardinality(TakenOf(slots, capacity)) /\ occupied < capacity
    BY <2>1 DEF Counted
  <2>3. occupied' = Cardinality(TakenOf(slots', capacity'))
    BY <2>1, <2>2, TakenFill
  <2>4. occupied' <= capacity'
    BY <2>1, <2>2
  <2>5. phase' \in {"idle", "probe"} => occupied' < capacity'
    <3>1. phase' \in {"idle", "probe"} => ~(occupied + 1 > Threshold)
      BY <1>2 DEF MissInsert
    <3>2. Threshold \in Nat /\ Threshold < capacity
      BY ThresholdBelow DEF TypeOK
    <3>. QED BY <2>1, <3>1, <3>2
  <2>6. phase' \in {"grow", "replace"} =>
          Cardinality(TakenOf(ns', 2 * capacity')) = Cardinality(TakenOf(slots', scan'))
    <3> SUFFICES ASSUME phase' \in {"grow", "replace"}
                 PROVE  Cardinality(TakenOf(ns', 2 * capacity')) =
                          Cardinality(TakenOf(slots', scan'))
      OBVIOUS
    <3>1. ns' = [s \in 0 .. 2 * capacity - 1 |-> NoGroup]
      BY <1>2 DEF MissInsert
    <3>2. \A s \in 0 .. 2 * capacity - 1 : ns'[s] = NoGroup
      BY <3>1
    <3>3. Cardinality(TakenOf(ns', 2 * capacity)) = 0
      BY <2>1, <3>2, TakenNone
    <3>4. Cardinality(TakenOf(slots', 0)) = 0
      BY TakenNone
    <3>. QED BY <2>1, <3>3, <3>4
  <2>. QED BY <2>3, <2>4, <2>5, <2>6 DEF Counted
<1>3. CASE GrowPick \/ GrowAdvance
  <2>1. /\ UNCHANGED <<slots, capacity, occupied, ns, scan>>
        /\ phase \in {"grow", "replace"} /\ phase' = "replace"
    BY <1>3 DEF GrowPick, GrowAdvance
  <2>. QED BY <2>1 DEF Counted, TakenOf
<1>4. CASE GrowSkip
  <2>1. /\ phase = "grow" /\ phase' = "grow" /\ slots[scan] = NoGroup
        /\ scan' = scan + 1 /\ scan \in Nat
        /\ UNCHANGED <<slots, capacity, occupied, ns>>
    BY <1>4 DEF GrowSkip, TypeOK
  <2>2. Cardinality(TakenOf(slots, scan + 1)) = Cardinality(TakenOf(slots, scan))
    BY <2>1, TakenOneMoreSlot
  <2>. QED BY <2>1, <2>2 DEF Counted
<1>5. CASE GrowPlace
  <2>1. /\ phase = "replace" /\ phase' = "grow"
        /\ slots[scan] # NoGroup /\ scan \in 0 .. capacity - 1
        /\ slots[scan] \in 0 .. NoGroup
        /\ ns[slot] = NoGroup /\ slot \in 0 .. 2 * capacity - 1
        /\ ns \in [0 .. 2 * capacity - 1 -> 0 .. NoGroup]
        /\ ns' = [ns EXCEPT ![slot] = slots[scan]]
        /\ scan' = scan + 1 /\ scan \in Nat /\ 2 * capacity \in Nat
        /\ UNCHANGED <<slots, capacity, occupied>>
    <3>1. /\ phase = "replace" /\ phase' = "grow" /\ ns[slot] = NoGroup
          /\ ns' = [ns EXCEPT ![slot] = slots[scan]] /\ scan' = scan + 1
          /\ UNCHANGED <<slots, capacity, occupied>>
      BY <1>5 DEF GrowPlace
    <3>2. /\ capacity \in Nat \ {0} /\ slots \in [0 .. capacity - 1 -> 0 .. NoGroup]
          /\ scan \in 0 .. capacity /\ scan < capacity /\ slot \in 0 .. 2 * capacity - 1
          /\ ns \in [0 .. 2 * capacity - 1 -> 0 .. NoGroup]
      BY <3>1 DEF TypeOK
    <3>3. slots[scan] # NoGroup
      BY <3>1 DEF Growing
    <3>4. scan \in 0 .. capacity - 1 /\ scan \in Nat /\ 2 * capacity \in Nat
      BY <3>2
    <3>5. slots[scan] \in 0 .. NoGroup
      BY <3>2, <3>4
    <3>. QED BY <3>1, <3>2, <3>3, <3>4, <3>5
  <2>2. Cardinality(TakenOf(slots, scan + 1)) = Cardinality(TakenOf(slots, scan)) + 1
    BY <2>1, TakenOneMoreSlot
  <2>3. Cardinality(TakenOf(ns', 2 * capacity)) = Cardinality(TakenOf(ns, 2 * capacity)) + 1
    BY <2>1, TakenFill
  <2>4. Cardinality(TakenOf(ns, 2 * capacity)) = Cardinality(TakenOf(slots, scan))
    BY <2>1 DEF Counted
  <2>5. Cardinality(TakenOf(ns', 2 * capacity')) = Cardinality(TakenOf(slots', scan'))
    BY <2>1, <2>2, <2>3, <2>4
  <2>. QED BY <2>1, <2>5 DEF Counted
<1>6. CASE GrowSwap
  <2>1. /\ phase = "grow" /\ phase' = "idle" /\ scan = capacity
        /\ slots' = ns /\ capacity' = 2 * capacity /\ occupied' = occupied
        /\ capacity \in Nat \ {0} /\ occupied \in Nat
    BY <1>6 DEF GrowSwap, TypeOK
  <2>2. /\ occupied = Cardinality(TakenOf(slots, capacity))
        /\ occupied <= capacity
        /\ Cardinality(TakenOf(ns, 2 * capacity)) = Cardinality(TakenOf(slots, scan))
    BY <2>1 DEF Counted
  <2>3. occupied' = Cardinality(TakenOf(slots', capacity'))
    BY <2>1, <2>2
  <2>4. occupied' < capacity'
    BY <2>1, <2>2
  <2>. QED BY <2>1, <2>3, <2>4 DEF Counted
<1>. QED BY <1>1, <1>2, <1>3, <1>4, <1>5, <1>6, StepKinds DEF GrowthStep

-----------------------------------------------------------------------------
(***************************************************************************)
(* The inductive invariant holds at the start ...                          *)
(***************************************************************************)
LEMMA InvInit == Init => TableInv
<1> SUFFICES ASSUME Init PROVE TableInv
  OBVIOUS
<1>1. TypeOK
  BY TypeInit
<1>2. /\ phase = "idle" /\ nextId = 0 /\ occupied = 0
      /\ capacity \in Nat \ {0}
      /\ slots = [s \in 0 .. capacity - 1 |-> NoGroup]
  BY ConstantTypes DEF Init
<1>3. Findable = {}
  BY <1>2 DEF Findable
<1>4. \A s \in 0 .. capacity - 1 : slots[s] = NoGroup
  BY <1>2
<1>5. Chains
  BY <1>3, <1>4 DEF Chains, Chained
<1>6. RowsWellFormed /\ Walk /\ Growing
  BY <1>2 DEF RowsWellFormed, Walk, Growing
<1>7. OneIdPerKey
  BY <1>3 DEF OneIdPerKey
<1>8. Cardinality(TakenOf(slots, capacity)) = 0
  BY <1>2, <1>4, TakenNone
<1>9. Counted
  BY <1>2, <1>8 DEF Counted
<1>. QED BY <1>1, <1>5, <1>6, <1>7, <1>9 DEF TableInv

(***************************************************************************)
(* ... every step keeps it ...                                             *)
(***************************************************************************)
LEMMA InvStep == TableInv /\ [Next]_vars => TableInv'
BY TypeStep, RowsStep, ChainsStep, OneIdStep, WalkStep, GrowingStep, CountedStep
   DEF TableInv

(***************************************************************************)
(* ... and it gives the two checked invariants it does not contain.        *)
(***************************************************************************)
LEMMA InvChains == TableInv => ChainsIntact
<1> SUFFICES ASSUME TypeOK, Chains PROVE ChainsIntact
  BY DEF TableInv
<1>1. DOMAIN slots = 0 .. capacity - 1
  BY DEF TypeOK
<1>. QED BY <1>1 DEF Chains, Chained, ChainsIntact

\* A table below its load limit has a free slot, so a probe stops.
LEMMA InvFreeSlot == TableInv => FreeSlot
<1> SUFFICES ASSUME TypeOK, Counted PROVE FreeSlot
  BY DEF TableInv
<1>1. DOMAIN slots = 0 .. capacity - 1 /\ capacity \in Nat \ {0}
  BY DEF TypeOK
<1>2. Taken = TakenOf(slots, capacity)
  BY <1>1 DEF Taken, TakenOf
<1>3. ASSUME phase \in {"idle", "probe"}
      PROVE  \E s \in DOMAIN slots : slots[s] = NoGroup
  <2> SUFFICES ASSUME \A s \in 0 .. capacity - 1 : slots[s] # NoGroup PROVE FALSE
    BY <1>1
  <2>1. TakenOf(slots, capacity) = 0 .. capacity - 1
    BY DEF TakenOf
  <2>2. Cardinality(0 .. capacity - 1) = capacity
    <3>1. /\ 0 \in Int /\ capacity - 1 \in Int
          /\ (IF 0 > capacity - 1 THEN 0 ELSE capacity - 1 - 0 + 1) = capacity
      BY <1>1
    <3>. QED BY <3>1, FS_Interval
  <2>. QED BY <1>1, <1>3, <2>1, <2>2 DEF Counted
<1>. QED BY <1>2, <1>3 DEF FreeSlot, Counted

(***************************************************************************)
(* In every execution, whatever the keys, the hash function, the load      *)
(* factor and the capacity: the probe chains are intact, no two findable   *)
(* groups have the same key, and a walk finds a free slot.                 *)
(***************************************************************************)
THEOREM TableSafety ==
    Spec => [](TypeOK /\ ChainsIntact /\ OneIdPerKey /\ FreeSlot)
<1>1. TableInv => TypeOK /\ ChainsIntact /\ OneIdPerKey /\ FreeSlot
  BY InvChains, InvFreeSlot DEF TableInv
<1>. QED BY <1>1, InvInit, InvStep, PTL DEF Spec

-----------------------------------------------------------------------------
(***************************************************************************)
(* Refinement.  HashTable implements KeyIndex: every behaviour of the slot *)
(* array, with any hash function, any collisions and any growth, is a      *)
(* behaviour of the plain index from keys to first-seen ids that           *)
(* ops/hashtable.h promises.  A call is answered by the step that settles  *)
(* `found`; probes and growth are steps in which the index stands still.   *)
(***************************************************************************)

(***************************************************************************)
(* A row's key value is NULL in exactly the masked columns.                *)
(***************************************************************************)
LEMMA KeyValueOfRow ==
    ASSUME NEW row \in Row
    PROVE  /\ KeyValue(row) \in [Cols -> Words \union {NULL}]
           /\ \A j \in Cols : KeyValue(row)[j] = NULL <=> j \in row.mask
           /\ \A j \in Cols \ row.mask : KeyValue(row)[j] = row.words[j]
<1>1. row.words \in [Cols -> Words] /\ row.mask \subseteq Cols
  BY DEF Row
<1>2. \A j \in Cols : row.words[j] \in Words /\ row.words[j] # NULL
  BY <1>1, WordAssumption
<1>3. \A j \in Cols : KeyValue(row)[j] = IF j \in row.mask THEN NULL ELSE row.words[j]
  BY DEF KeyValue
<1>4. KeyValue(row) = [j \in Cols |-> KeyValue(row)[j]]
  BY DEF KeyValue
<1>5. \A j \in Cols : KeyValue(row)[j] \in Words \union {NULL}
  BY <1>2, <1>3
<1>6. KeyValue(row) \in [Cols -> Words \union {NULL}]
  BY <1>4, <1>5
<1>. QED BY <1>2, <1>3, <1>6

(***************************************************************************)
(* key_equal compares key values.                                          *)
(***************************************************************************)
LEMMA SameKey ==
    ASSUME NEW a \in Row, NEW b \in Row
    PROVE  KeyValue(a) = KeyValue(b) <=> KeyEqual(a, b)
<1>1. a.mask \subseteq Cols /\ b.mask \subseteq Cols
  BY DEF Row
<1>2. ASSUME KeyValue(a) = KeyValue(b) PROVE KeyEqual(a, b)
  <2>0. \A j \in Cols : j \in a.mask <=> j \in b.mask
    BY <1>2, KeyValueOfRow
  <2>1. a.mask = b.mask
    BY <1>1, <2>0
  <2>. QED BY <1>2, <2>1, KeyValueOfRow DEF KeyEqual
<1>3. ASSUME KeyEqual(a, b) PROVE KeyValue(a) = KeyValue(b)
  BY <1>1, <1>3 DEF KeyEqual, KeyValue
<1>. QED BY <1>2, <1>3

(***************************************************************************)
(* The null policy reads the mask; the index reads the key.                *)
(***************************************************************************)
LEMMA SameMatchable ==
    ASSUME NEW row \in Row
    PROVE  Index!Matchable(KeyValue(row)) <=> Matchable(row)
<1>1. row.mask \subseteq Cols
  BY DEF Row
<1>2. (\E j \in Cols : KeyValue(row)[j] = NULL) <=> row.mask # {}
  BY <1>1, KeyValueOfRow
<1>. QED BY <1>2 DEF Index!Matchable, Matchable

(***************************************************************************)
(* A findable group is the id of its key.                                  *)
(***************************************************************************)
LEMMA IdOfGroup ==
    ASSUME TypeOK, OneIdPerKey, NEW g \in Findable
    PROVE  KeyValue(store[g]) \in KnownKeys /\ IdOf(KeyValue(store[g])) = g
<1>1. \A h \in Findable : store[h] \in Row
  BY DEF Findable, TypeOK
<1>2. \A h \in Findable : KeyValue(store[h]) = KeyValue(store[g]) => h = g
  BY <1>1, SameKey DEF OneIdPerKey
<1>. QED BY <1>2 DEF KnownKeys, IdOf

(***************************************************************************)
(* What the mapping makes of the index and of a call in progress.          *)
(***************************************************************************)
LEMMA IdsOfKeys ==
    /\ DOMAIN IdsNow = KnownKeys
    /\ \A k \in KnownKeys : IdsNow[k] = IdOf(k)
BY DEF IdsNow

\* The call a probe answers is the one that was made, on its row's key.
LEMMA CallOfRow ==
    ASSUME TypeOK, phase = "probe"
    PROVE  /\ op.kind \in {"insert", "find"} /\ op.row \in Row
           /\ CallNow # NoOp
           /\ CallNow.kind = op.kind /\ CallNow.key = KeyValue(op.row)
<1>1. op.kind \in {"insert", "find"} /\ op.row \in Row
  BY DEF TypeOK
<1>2. CallNow = [kind |-> op.kind, key |-> KeyValue(op.row)]
  BY DEF CallNow
<1>3. CallNow.kind = op.kind /\ NoOp.kind = "none"
  BY <1>2 DEF NoOp
<1>. QED BY <1>1, <1>2, <1>3

(***************************************************************************)
(* A lookup that met an empty slot, or that may not match, has no id.      *)
(***************************************************************************)
LEMMA MissMeansUnknown ==
    ASSUME TableInv, Probing, slots[slot] = NoGroup
    PROVE  KeyValue(op.row) \notin KnownKeys
<1>1. op.row \in Row /\ \A g \in Findable : store[g] \in Row
  BY CallOfRow DEF TableInv, Probing, Findable, TypeOK
<1>2. \A g \in Findable : ~KeyEqual(op.row, store[g])
  BY MissMeansNew DEF TableInv
<1>. QED BY <1>1, <1>2, SameKey DEF KnownKeys

\* The keys known and their ids depend only on the policy and the groups.
LEMMA SameIndex ==
    ASSUME UNCHANGED <<policy, nextId, store>>
    PROVE  Findable' = Findable /\ KnownKeys' = KnownKeys /\ IdsNow' = IdsNow
<1>1. Findable' = Findable
  BY DEF Findable, Matchable
<1>2. KnownKeys' = KnownKeys
  BY <1>1 DEF KnownKeys, KeyValue
<1>3. \A k : IdOf(k)' = IdOf(k)
  BY <1>1 DEF IdOf, KeyValue
<1>. QED BY <1>1, <1>2, <1>3 DEF IdsNow

-----------------------------------------------------------------------------
(***************************************************************************)
(* The empty table is the empty index.                                     *)
(***************************************************************************)
LEMMA IndexInit == Init => Index!Init
<1> SUFFICES ASSUME Init PROVE Index!Init
  OBVIOUS
<1>1. KnownKeys = {}
  BY DEF Init, Findable, KnownKeys
<1>2. IdsNow = [k \in {} |-> 0]
  BY <1>1 DEF IdsNow
<1>3. CallNow = NoOp
  BY DEF Init, CallNow
<1>. QED BY <1>2, <1>3 DEF Init, Index!Init

(***************************************************************************)
(* Probing and growth leave the index as it is.                            *)
(***************************************************************************)
LEMMA SilentSteps ==
    ASSUME \/ Advance \/ GrowSkip \/ GrowPick \/ GrowAdvance \/ GrowPlace \/ GrowSwap
           \/ UNCHANGED vars
    PROVE  UNCHANGED Index!vars
<1>1. UNCHANGED <<policy, nextId, store, op, found>> /\ (phase = "probe" <=> phase' = "probe")
  BY DEF Advance, GrowSkip, GrowPick, GrowAdvance, GrowPlace, GrowSwap, vars, Probing
<1>2. CallNow' = CallNow
  BY <1>1 DEF CallNow, KeyValue
<1>. QED BY <1>1, <1>2, SameIndex DEF Index!vars

(***************************************************************************)
(* A call begins with the key value of the caller's key.                   *)
(***************************************************************************)
LEMMA CallStep ==
    ASSUME TypeOK, NEW kind \in {"insert", "find"}, NEW key \in Keys, Call(kind, key)
    PROVE  Index!Next
<1> DEFINE k == KeyValue(Normalize(key))
<1>1. key \in [Cols -> Raw \union {NULL}]
  BY TableAssumption
<1>2. \A j \in Cols : k[j] = IF key[j] = NULL THEN NULL ELSE Canon(key[j])
  BY DEF KeyValue, Normalize, WordOf
<1>3. k \in [Cols -> {Canon(v) : v \in Raw} \union {NULL}]
  <2>1. k = [j \in Cols |-> k[j]]
    BY DEF KeyValue
  <2>. QED BY <1>1, <1>2, <2>1
<1>4. UNCHANGED <<policy, nextId, store>> /\ phase = "idle" /\ phase' = "probe"
      /\ op' = [kind |-> kind, row |-> Normalize(key)] /\ found' = NoGroup
  BY DEF Call
<1>5. CallNow = NoOp /\ CallNow' = [kind |-> kind, key |-> k]
  BY <1>4 DEF CallNow, KeyValue
<1> HIDE DEF k
<1>6. Index!Call(kind, k)
  BY <1>4, <1>5, SameIndex DEF Index!Call
<1>. QED BY <1>3, <1>6 DEF Index!Next

(***************************************************************************)
(* A call that ends without a new group.                                   *)
(***************************************************************************)
LEMMA KnownStep ==
    ASSUME TableInv, DeadFind \/ Hit \/ MissFind
    PROVE  Index!AnswerKnown
<1>1. /\ UNCHANGED <<policy, nextId, store>> /\ phase = "probe" /\ phase' = "idle"
      /\ TypeOK /\ OneIdPerKey
  BY DEF DeadFind, Hit, MissFind, Probing, TableInv
<1>2. IdsNow' = IdsNow /\ CallNow' = NoOp
  BY <1>1, SameIndex DEF CallNow
<1>3. op.row \in Row /\ CallNow # NoOp /\ CallNow.kind = op.kind /\ CallNow.key = KeyValue(op.row)
  BY <1>1, CallOfRow
<1>4. CASE Hit
  <2> DEFINE g == slots[slot]
  <2>1. /\ slot \in 0 .. capacity - 1 /\ g # NoGroup /\ found' = g
        /\ KeyEqual(op.row, store[g]) /\ Matchable(op.row)
    BY <1>1, <1>4 DEF Hit, Probing, Answer, Matches, TypeOK
  <2>2. g \in Findable /\ store[g] \in Row
    BY <1>1, <2>1, SlottedRow DEF TableInv
  <2>3. KeyValue(op.row) = KeyValue(store[g])
    BY <1>3, <2>1, <2>2, SameKey
  <2>4. KeyValue(op.row) \in KnownKeys /\ found' = IdsNow[KeyValue(op.row)]
    BY <1>1, <2>1, <2>2, <2>3, IdOfGroup, IdsOfKeys
  <2>5. Index!Matchable(KeyValue(op.row))
    BY <1>3, <2>1, SameMatchable
  <2>6. Index!Present(CallNow.key)
    BY <1>3, <2>4, <2>5, IdsOfKeys DEF Index!Present
  <2>. QED BY <1>1, <1>2, <1>3, <2>4, <2>6 DEF Index!AnswerKnown
<1>5. CASE DeadFind \/ MissFind
  <2>1. op.kind = "find" /\ found' = NoGroup
    BY <1>5 DEF DeadFind, MissFind, Answer
  <2>2. ~Index!Matchable(KeyValue(op.row)) \/ KeyValue(op.row) \notin KnownKeys
    BY <1>3, <1>5, SameMatchable, MissMeansUnknown DEF DeadFind, MissFind
  <2>3. ~Index!Present(CallNow.key)
    BY <1>3, <2>2, IdsOfKeys DEF Index!Present
  <2>. QED BY <1>1, <1>2, <1>3, <2>1, <2>3 DEF Index!AnswerKnown
<1>. QED BY <1>4, <1>5

(***************************************************************************)
(* A call that assigns the next id, or finds the ids used up.              *)
(***************************************************************************)
LEMMA NewStep ==
    ASSUME TableInv, DeadInsert \/ MissInsert \/ Throw
    PROVE  Index!AnswerNew
<1> DEFINE key == KeyValue(op.row)
<1>1. /\ policy' = policy /\ phase = "probe" /\ phase' # "probe" /\ op.kind = "insert"
      /\ TypeOK /\ OneIdPerKey
  BY DEF DeadInsert, MissInsert, Throw, Probing, TableInv
<1>2. op.row \in Row /\ CallNow # NoOp /\ CallNow.kind = "insert" /\ CallNow.key = key
  BY <1>1, CallOfRow
<1>3. CallNow' = NoOp
  BY <1>1 DEF CallNow
<1>4. Matchable(op.row) => key \notin KnownKeys
  BY <1>1, MissMeansUnknown DEF DeadInsert, MissInsert, Throw, Probing
<1>5. Index!Matchable(key) <=> Matchable(op.row)
  BY <1>2, SameMatchable
<1>6. ~Index!Present(key)
  BY <1>4, <1>5, IdsOfKeys DEF Index!Present
<1>7. CASE Throw
  <2>1. UNCHANGED <<policy, nextId, store>> /\ nextId = NoGroup /\ found' = Overflow
    BY <1>1, <1>7 DEF Throw, Answer
  <2>2. IdsNow' = IdsNow
    BY <2>1, SameIndex
  <2> HIDE DEF key
  <2>. QED BY <1>1, <1>2, <1>3, <1>6, <2>1, <2>2 DEF Index!AnswerNew
<1>8. CASE DeadInsert \/ MissInsert
  <2>1. /\ nextId # NoGroup /\ NewGroup /\ nextId' = nextId + 1 /\ found' = nextId
        /\ store'[nextId] = op.row
    BY <1>1, <1>2, <1>8, NewGroupStore
       DEF DeadInsert, MissInsert, Answer, NewGroup, TypeOK
  <2>2. /\ ~Matchable(op.row) => Findable' = Findable
        /\ Matchable(op.row) => Findable' = Findable \union {nextId}
        /\ \A g \in Findable : store'[g] = store[g]
        /\ nextId \notin Findable
    BY <1>1, <1>2, <2>1, FindableAfterNewGroup
  <2>3. \A g \in Findable : KeyValue(store'[g]) = KeyValue(store[g])
    BY <2>2 DEF KeyValue
  <2>4. CASE ~Matchable(op.row)
    <3>1. KnownKeys' = KnownKeys
      BY <2>2, <2>3, <2>4 DEF KnownKeys
    <3>2. \A k : IdOf(k)' = IdOf(k)
      BY <2>2, <2>3, <2>4 DEF IdOf
    <3>3. IdsNow' = IdsNow
      BY <3>1, <3>2 DEF IdsNow
    <3> HIDE DEF key
    <3>. QED BY <1>1, <1>2, <1>3, <1>5, <1>6, <2>1, <2>4, <3>3 DEF Index!AnswerNew
  <2>5. CASE Matchable(op.row)
    <3>1. KeyValue(store'[nextId]) = key
      BY <2>1 DEF KeyValue
    <3>2. KnownKeys' = KnownKeys \union {key}
      BY <2>2, <2>3, <2>5, <3>1 DEF KnownKeys
    <3>3. ASSUME NEW k \in KnownKeys PROVE IdOf(k)' = IdOf(k)
      <4>1. PICK g \in Findable : KeyValue(store[g]) = k
        BY DEF KnownKeys
      <4>2. \A h \in Findable : KeyValue(store[h]) = k => h = g
        BY <1>1, <4>1, SameKey DEF OneIdPerKey, Findable, TypeOK
      <4>3. key # k
        BY <1>4, <2>5
      <4>4. \A h \in Findable' : KeyValue(store'[h]) = k <=> h = g
        BY <2>2, <2>3, <2>5, <3>1, <4>1, <4>2, <4>3
      <4>. QED BY <2>2, <2>5, <4>1, <4>2, <4>4 DEF IdOf
    <3>4. ASSUME NEW k, k = key PROVE IdOf(k)' = nextId
      <4>1. \A h \in Findable : KeyValue(store'[h]) # k
        BY <1>4, <2>3, <2>5, <3>4 DEF KnownKeys
      <4>2. \A h \in Findable' : KeyValue(store'[h]) = k <=> h = nextId
        BY <3>4, <2>2, <2>5, <3>1, <4>1
      <4>. QED BY <2>2, <2>5, <4>2 DEF IdOf
    <3> HIDE DEF key
    <3>5. IdsNow' = [k \in KnownKeys \union {key} |-> IF k = key THEN nextId ELSE IdOf(k)]
      BY <3>2, <3>3, <3>4 DEF IdsNow
    <3>6. IdsNow' = [k \in DOMAIN IdsNow \union {key} |-> IF k = key THEN nextId ELSE IdsNow[k]]
      BY <3>5, IdsOfKeys
    <3>. QED BY <1>1, <1>2, <1>3, <1>5, <1>6, <2>1, <2>5, <3>6 DEF Index!AnswerNew
  <2>. QED BY <2>4, <2>5
<1>. QED BY <1>7, <1>8

(***************************************************************************)
(* Every execution of the table, for every hash function, capacity, load   *)
(* limit and id space, is an execution of the index: each call gets the id *)
(* of its key, new keys get the ids in order, and nothing else is seen.    *)
(***************************************************************************)
THEOREM TableImplementsIndex == Spec => ImplementsIndex
<1>1. TableInv /\ [Next]_vars => [Index!Next]_Index!vars
  <2> SUFFICES ASSUME TableInv, [Next]_vars PROVE [Index!Next]_Index!vars
    OBVIOUS
  <2>1. ASSUME NEW kind \in {"insert", "find"}, NEW key \in Keys, Call(kind, key)
        PROVE  Index!Next
    BY <2>1, CallStep DEF TableInv
  <2>2. CASE DeadFind \/ Hit \/ MissFind
    BY <2>2, KnownStep DEF Index!Next
  <2>3. CASE DeadInsert \/ MissInsert \/ Throw
    BY <2>3, NewStep DEF Index!Next
  <2>4. CASE \/ Advance \/ GrowSkip \/ GrowPick \/ GrowAdvance \/ GrowPlace \/ GrowSwap
             \/ UNCHANGED vars
    BY <2>4, SilentSteps
  <2>. QED BY <2>1, <2>2, <2>3, <2>4 DEF Next, Internal
<1>. QED BY <1>1, IndexInit, InvInit, InvStep, PTL DEF Spec, ImplementsIndex, Index!Spec
=============================================================================
