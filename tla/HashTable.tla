------------------------------ MODULE HashTable ------------------------------
(***************************************************************************)
(* HashTable (ops/hashtable.cpp): open addressing, linear probing, a       *)
(* power-of-two slot array that doubles when the load limit is passed, and *)
(* a key store indexed by group id.  One action is one turn of a loop of   *)
(* the code: a probe looks at one slot, growth re-slots one slot.  A batch *)
(* of n rows is n calls in a row; a table has one caller at a time.        *)
(***************************************************************************)
EXTENDS Integers, FiniteSets

CONSTANTS NumCols,      \* key columns
          Raw,          \* column values before normalization, other than NULL
          Keys,         \* the key tuples that callers use
          Canon(_),     \* normalize_value: a value's canonical word
          NullWord,     \* kNullWord, the word of a NULL lane
          NULL,
          Seeds,        \* hash seeds
          HashOf(_, _), \* the 64-bit hash of a tuple of words, per seed
          NoGroup,      \* kNoGroup: ids are 0 .. NoGroup - 1
          MinCapacity,  \* the slot count a table starts with
          LoadNum, LoadDen \* max_load_factor_ as a fraction

Cols     == 1 .. NumCols
Words    == {Canon(v) : v \in Raw} \union {NullWord}
Overflow == -1    \* the answer of a call that threw overflow_error

\* The constructor clamps the load factor to (0, 0.95].
ASSUME TableAssumption ==
    /\ NumCols \in Nat \ {0}
    /\ NULL \notin Raw
    /\ Keys \subseteq [Cols -> Raw \union {NULL}]
    /\ \A s \in Seeds, ws \in [Cols -> Words] : HashOf(s, ws) \in Nat
    /\ NoGroup \in Nat \ {0}
    /\ MinCapacity \in Nat \ {0}
    /\ LoadNum \in Nat /\ LoadDen \in Nat /\ LoadNum < LoadDen

\* A word is a 64-bit number; NULL is none.
ASSUME WordAssumption == NULL \notin Words

VARIABLES seed, policy,  \* seed_, null_policy_: set by the constructor
          capacity,      \* capacity_
          slots,         \* slots_: slot -> group id, or NoGroup
          occupied,      \* occupied_
          nextId,        \* next_id_
          store,         \* group id -> its key words, null mask and hash
          phase,         \* where the current call is
          op,            \* the call: its kind and its normalized row
          slot,          \* the local `slot` of a walk
          found,         \* the local `found`: the call's answer
          ns, scan       \* grow(): the new slot array, the old slot reached

vars == <<seed, policy, capacity, slots, occupied, nextId, store,
          phase, op, slot, found, ns, scan>>

-----------------------------------------------------------------------------
\* normalize_and_hash for one row: a NULL lane gets a mask bit and the
\* sentinel word, which the word of a real value may equal.
WordOf(v) == IF v = NULL THEN NullWord ELSE Canon(v)

Normalize(key) ==
    LET words == [j \in Cols |-> WordOf(key[j])]
    IN  [words |-> words,
         mask  |-> {j \in Cols : key[j] = NULL},
         hash  |-> HashOf(seed, words)]

\* key_equal: masks first, then every lane that is not NULL.
KeyEqual(a, b) ==
    /\ a.mask = b.mask
    /\ \A j \in Cols \ a.mask : a.words[j] = b.words[j]

\* Mutant of Matches: NULL never equals NULL, whatever the policy.
MatchesNonNull(row, g) == KeyEqual(row, store[g]) /\ row.mask = {}

\* The walk compares the cheap stored hash before the key.
Matches(row, g) == store[g].hash = row.hash /\ KeyEqual(row, store[g])

\* Mutant of Matchable: the null policy is not consulted.
MatchableAlways(row) == row.mask \subseteq Cols

Matchable(row) == policy = "kEqual" \/ row.mask = {}

\* Mutant of Threshold: the table may fill up.
ThresholdFull == capacity

Threshold == (capacity * LoadNum) \div LoadDen

Home(row, cap) == row.hash % cap                        \* h & mask
\* Mutants of After: no wrap-around; a step that misses every other slot.
AfterNoWrap(s, cap)  == s + 1
AfterByTwo(s, cap)   == (s + 2) % cap
After(s, cap)  == IF s + 1 = cap THEN 0 ELSE s + 1      \* (slot + 1) & mask

-----------------------------------------------------------------------------
NoOp    == [kind |-> "none", row |-> <<>>]
NoSlots == [s \in {} |-> NoGroup]

Init ==
    /\ seed \in Seeds
    /\ policy \in {"kEqual", "kNeverMatch"}
    /\ capacity = MinCapacity
    /\ slots = [s \in 0 .. MinCapacity - 1 |-> NoGroup]
    /\ occupied = 0
    /\ nextId = 0
    /\ store = [g \in {} |-> NoOp]
    /\ phase = "idle"
    /\ op = NoOp
    /\ slot = 0
    /\ found = NoGroup
    /\ ns = NoSlots
    /\ scan = 0

\* insert_or_find or find is called with a row.
Call(kind, key) ==
    LET row == Normalize(key)
    IN  /\ phase = "idle"
        /\ phase' = "probe"
        /\ op' = [kind |-> kind, row |-> row]
        /\ slot' = Home(row, capacity)
        /\ found' = NoGroup
        /\ UNCHANGED <<seed, policy, capacity, slots, occupied, nextId, store, ns, scan>>

\* The row is answered; its locals are gone.
Answer(g) == found' = g /\ op' = NoOp /\ slot' = 0

\* new_group_from: the row's words, mask and hash under the next id.
NewGroup ==
    /\ nextId' = nextId + 1
    /\ store' = [g \in 0 .. nextId |-> IF g = nextId THEN op.row ELSE store[g]]

\* kNeverMatch and a NULL in the key: a dead id, never slotted.
DeadInsert ==
    /\ phase = "probe" /\ op.kind = "insert" /\ ~Matchable(op.row)
    /\ nextId # NoGroup
    /\ NewGroup
    /\ Answer(nextId)
    /\ phase' = "idle"
    /\ UNCHANGED <<seed, policy, capacity, slots, occupied, ns, scan>>

DeadFind ==
    /\ phase = "probe" /\ op.kind = "find" /\ ~Matchable(op.row)
    /\ Answer(NoGroup)
    /\ phase' = "idle"
    /\ UNCHANGED <<seed, policy, capacity, slots, occupied, nextId, store, ns, scan>>

-----------------------------------------------------------------------------
\* The probe loop.
Probing == phase = "probe" /\ Matchable(op.row)

Advance ==
    /\ Probing
    /\ slots[slot] # NoGroup
    /\ ~Matches(op.row, slots[slot])
    /\ slot' = After(slot, capacity)
    /\ UNCHANGED <<seed, policy, capacity, slots, occupied, nextId, store,
                   phase, op, found, ns, scan>>

Hit ==
    /\ Probing
    /\ slots[slot] # NoGroup
    /\ Matches(op.row, slots[slot])
    /\ Answer(slots[slot])
    /\ phase' = "idle"
    /\ UNCHANGED <<seed, policy, capacity, slots, occupied, nextId, store, ns, scan>>

MissFind ==
    /\ Probing /\ op.kind = "find"
    /\ slots[slot] = NoGroup
    /\ Answer(NoGroup)
    /\ phase' = "idle"
    /\ UNCHANGED <<seed, policy, capacity, slots, occupied, nextId, store, ns, scan>>

MissInsert ==
    /\ Probing /\ op.kind = "insert"
    /\ slots[slot] = NoGroup
    /\ nextId # NoGroup
    /\ NewGroup
    /\ slots' = [slots EXCEPT ![slot] = nextId]
    /\ occupied' = occupied + 1
    /\ Answer(nextId)
    /\ scan' = 0
    /\ IF occupied + 1 > Threshold
         THEN /\ phase' = "grow"
              /\ ns' = [s \in 0 .. 2 * capacity - 1 |-> NoGroup]
         ELSE /\ phase' = "idle"
              /\ UNCHANGED ns
    /\ UNCHANGED <<seed, policy, capacity>>

\* new_group_from throws before it has changed anything.
Throw ==
    /\ phase = "probe" /\ op.kind = "insert"
    /\ Matchable(op.row) => slots[slot] = NoGroup
    /\ nextId = NoGroup
    /\ Answer(Overflow)
    /\ phase' = "idle"
    /\ UNCHANGED <<seed, policy, capacity, slots, occupied, nextId, store, ns, scan>>

-----------------------------------------------------------------------------
\* grow(): every slot of the old array in turn.
GrowSkip ==
    /\ phase = "grow" /\ scan < capacity
    /\ slots[scan] = NoGroup
    /\ scan' = scan + 1
    /\ UNCHANGED <<seed, policy, capacity, slots, occupied, nextId, store,
                   phase, op, slot, found, ns>>

\* Mutant of GrowPick: the home slot is taken with the old mask.
GrowPickOldMask ==
    /\ phase = "grow" /\ scan < capacity
    /\ slots[scan] # NoGroup
    /\ slot' = Home(store[slots[scan]], capacity)
    /\ phase' = "replace"
    /\ UNCHANGED <<seed, policy, capacity, slots, occupied, nextId, store,
                   op, found, ns, scan>>

GrowPick ==
    /\ phase = "grow" /\ scan < capacity
    /\ slots[scan] # NoGroup
    /\ slot' = Home(store[slots[scan]], 2 * capacity)
    /\ phase' = "replace"
    /\ UNCHANGED <<seed, policy, capacity, slots, occupied, nextId, store,
                   op, found, ns, scan>>

GrowAdvance ==
    /\ phase = "replace"
    /\ ns[slot] # NoGroup
    /\ slot' = After(slot, 2 * capacity)
    /\ UNCHANGED <<seed, policy, capacity, slots, occupied, nextId, store,
                   phase, op, found, ns, scan>>

GrowPlace ==
    /\ phase = "replace"
    /\ ns[slot] = NoGroup
    /\ ns' = [ns EXCEPT ![slot] = slots[scan]]
    /\ scan' = scan + 1
    /\ phase' = "grow"
    /\ slot' = 0
    /\ UNCHANGED <<seed, policy, capacity, slots, occupied, nextId, store, op, found>>

GrowSwap ==
    /\ phase = "grow" /\ scan = capacity
    /\ slots' = ns
    /\ capacity' = 2 * capacity
    /\ ns' = NoSlots
    /\ scan' = 0
    /\ phase' = "idle"
    /\ UNCHANGED <<seed, policy, occupied, nextId, store, op, slot, found>>

-----------------------------------------------------------------------------
Internal == \/ DeadInsert \/ DeadFind
            \/ Advance \/ Hit \/ MissFind \/ MissInsert \/ Throw
            \/ GrowSkip \/ GrowPick \/ GrowAdvance \/ GrowPlace \/ GrowSwap

Next == \/ \E kind \in {"insert", "find"}, key \in Keys : Call(kind, key)
        \/ Internal

Spec == Init /\ [][Next]_vars

\* A call that has begun runs on: it is sequential code.
FairSpec == Spec /\ WF_vars(Internal)

-----------------------------------------------------------------------------
Row == [words : [Cols -> Words], mask : SUBSET Cols, hash : Nat]

\* Groups that a lookup must be able to reach.
Findable == {g \in 0 .. nextId - 1 : Matchable(store[g])}

\* The slots a walk looks at before slot t when it starts at slot h.
Path(cap, h, t) == IF h <= t THEN h .. t - 1 ELSE (h .. cap - 1) \union (0 .. t - 1)

(***************************************************************************)
(* Type invariant of the table and of the call in progress.                *)
(***************************************************************************)
TypeOK ==
    /\ seed \in Seeds
    /\ policy \in {"kEqual", "kNeverMatch"}
    /\ capacity \in Nat \ {0}
    /\ slots \in [0 .. capacity - 1 -> 0 .. NoGroup]
    /\ occupied \in Nat
    /\ nextId \in 0 .. NoGroup
    /\ store \in [0 .. nextId - 1 -> Row]
    /\ phase \in {"idle", "probe", "grow", "replace"}
    /\ phase = "probe" => /\ op \in [kind : {"insert", "find"}, row : Row]
                          /\ slot \in 0 .. capacity - 1
    /\ found \in -1 .. NoGroup
    /\ phase \in {"grow", "replace"} => /\ scan \in 0 .. capacity
                                        /\ ns \in [0 .. 2 * capacity - 1 -> 0 .. NoGroup]
    /\ phase = "replace" => /\ scan < capacity
                            /\ slot \in 0 .. 2 * capacity - 1

(***************************************************************************)
(* Every findable group is in exactly one slot, no other group is in any,  *)
(* and no slot between a group's home slot and its own is empty: a walk    *)
(* that starts at the home slot reaches the group.  This must survive      *)
(* growth, which moves every group and wraps the walks elsewhere.          *)
(***************************************************************************)
ChainsIntact ==
    /\ \A g \in Findable : \E s \in DOMAIN slots : slots[s] = g
    /\ \A s \in DOMAIN slots : slots[s] # NoGroup =>
         /\ slots[s] \in Findable
         /\ \A t \in DOMAIN slots : slots[t] = slots[s] => t = s
         /\ \A x \in Path(capacity, Home(store[slots[s]], capacity), s) :
              slots[x] # NoGroup

(***************************************************************************)
(* Two findable groups never hold equal keys: a key seen again, under any  *)
(* collision, before, during or after growth, gets the id it had.          *)
(***************************************************************************)
OneIdPerKey ==
    \A g, h \in Findable : KeyEqual(store[g], store[h]) => g = h

(***************************************************************************)
(* There is an empty slot whenever a walk may run ("load factor < 1 => a   *)
(* free slot always exists"), and occupied_ counts the taken ones, so the  *)
(* load test fires before the last slot is taken.                          *)
(***************************************************************************)
Taken == {s \in DOMAIN slots : slots[s] # NoGroup}

FreeSlot ==
    /\ occupied = Cardinality(Taken)
    /\ phase \in {"idle", "probe"} => \E s \in DOMAIN slots : slots[s] = NoGroup

(***************************************************************************)
(* Every call returns: no walk circles a full array and growth ends.       *)
(***************************************************************************)
CallsReturn == phase # "idle" ~> phase = "idle"

(***************************************************************************)
(* The table is the index of hashtable.h.  A call is answered in the step  *)
(* that settles `found`; growth after it changes nothing a caller can see. *)
(***************************************************************************)
KeyValue(row) == [j \in Cols |-> IF j \in row.mask THEN NULL ELSE row.words[j]]

KnownKeys == {KeyValue(store[g]) : g \in Findable}
IdOf(k)   == CHOOSE g \in Findable : KeyValue(store[g]) = k
IdsNow    == [k \in KnownKeys |-> IdOf(k)]
CallNow   == IF phase = "probe"
               THEN [kind |-> op.kind, key |-> KeyValue(op.row)] ELSE NoOp

Index == INSTANCE KeyIndex WITH
    KeyValues <- [Cols -> {Canon(v) : v \in Raw} \union {NULL}],
    HasNull   <- LAMBDA k : \E j \in Cols : k[j] = NULL,
    NoCall    <- NoOp,
    index     <- IdsNow,
    used      <- nextId,
    call      <- CallNow,
    ret       <- found

ImplementsIndex == Index!Spec
===============================================================================
