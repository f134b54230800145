--------------------------- MODULE MorselPoolProofs ---------------------------
(***************************************************************************)
(* The worker pool's safety for every number of threads, table size and    *)
(* morsel size: no morsel is drained twice, none is lost, the merge starts *)
(* only when every worker is done, and every batch starts on a word of the *)
(* validity bitmap and stays inside its morsel.                            *)
(***************************************************************************)
EXTENDS MorselPool, DataProofs

-----------------------------------------------------------------------------
(***************************************************************************)
(* The inductive invariant.  The dispenser only grows and a worker's claim *)
(* is below it; a worker's drained morsels are increasing and below the    *)
(* one it is scanning; every index dispensed is owned by exactly one       *)
(* worker; a worker leaves its loop only when the cursor is past the end;  *)
(* a scan stands on a word boundary of its morsel or has reached its end.  *)
(***************************************************************************)
Claims ==
    \A w \in Workers :
      /\ \A m \in Owned(w) : m < cursor /\ m < NumMorsels
      /\ pc[w] = "scan" => \A m \in Drained(w) : m < claimed[w]
      /\ pc[w] = "done" => cursor >= NumMorsels

Increasing ==
    \A w \in Workers : \A i, j \in DOMAIN parts[w] : i < j => parts[w][i] < parts[w][j]

Disjoint ==
    \A v, w \in Workers : v # w => Owned(v) \intersect Owned(w) = {}

Dispensed ==
    \A m \in 0 .. NumMorsels - 1 : m < cursor => \E w \in Workers : m \in Owned(w)

Joins ==
    /\ mainpc \in {"spawn", "work"} => joined = 0
    /\ mainpc \in {"join", "merge", "returned"} =>
         /\ pc[0] = "done"
         /\ \A w \in 1 .. joined : pc[w] = "done"
    /\ mainpc \in {"merge", "returned"} => joined = Threads - 1

\* A thread that has not been created yet is not in its loop.
Created ==
    /\ \A w \in spawned + 1 .. Threads - 1 : pc[w] = "unstarted"
    /\ mainpc = "spawn" => pc[0] = "unstarted"

Dispensing == Claims /\ Increasing /\ Disjoint /\ Dispensed

Positioned ==
    \A w \in Workers : pc[w] = "scan" =>
      /\ Start(claimed[w]) <= pos[w]
      /\ pos[w] % Word = 0 \/ pos[w] >= End(claimed[w])

PoolInv == PoolTypeOK /\ Created /\ Joins /\ Dispensing /\ Positioned

-----------------------------------------------------------------------------
(***************************************************************************)
(* make_morsels yields at least one morsel.                                *)
(***************************************************************************)
LEMMA NumMorselsType == ASSUME total \in Nat PROVE NumMorsels \in Nat
<1>1. CASE total = 0
  BY <1>1 DEF NumMorsels
<1>2. CASE total # 0
  <2>1. /\ total + MorselRows - 1 \in Nat
        /\ MorselRows \in Nat \ {0}
    BY PoolAssumption
  <2>2. \A a \in Nat, b \in Nat \ {0} : a \div b \in Nat
    OBVIOUS
  <2>. QED BY <1>2, <2>1, <2>2 DEF NumMorsels
<1>. QED BY <1>1, <1>2

(***************************************************************************)
(* The sizes are positive.                                                 *)
(***************************************************************************)
LEMMA Sizes == /\ Threads \in Nat /\ Threads > 0
               /\ MorselRows \in Nat /\ MorselRows > 0
               /\ BatchRows \in Nat /\ BatchRows > 0
               /\ Word \in Nat \ {0}
BY PoolAssumption

(***************************************************************************)
(* Workers are numbered from 0 and there is at least one.                  *)
(***************************************************************************)
LEMMA WorkerFacts ==
    /\ 0 \in Workers
    /\ \A w \in Workers : w \in Nat
    /\ \A i \in 0 .. Threads - 2 : i + 1 \in Workers
BY Sizes DEF Workers

(***************************************************************************)
(* What appending a morsel does to the set of drained morsels.             *)
(***************************************************************************)
LEMMA AppendDrained ==
    ASSUME NEW s \in Seq(Nat), NEW m \in Nat
    PROVE  /\ Append(s, m) \in Seq(Nat)
           /\ {Append(s, m)[i] : i \in DOMAIN Append(s, m)} = {s[i] : i \in DOMAIN s} \union {m}
           /\ \A i \in DOMAIN s : i \in DOMAIN Append(s, m) /\ Append(s, m)[i] = s[i]
           /\ \A i \in DOMAIN Append(s, m) : i \in DOMAIN s \/ (i = Len(s) + 1 /\ Append(s, m)[i] = m)
<1>1. Append(s, m) \in Seq(Nat)
  OBVIOUS
<1>2. /\ DOMAIN s = 1 .. Len(s)
      /\ DOMAIN Append(s, m) = 1 .. Len(s) + 1
      /\ Len(s) \in Nat
  OBVIOUS
<1>3. /\ \A i \in 1 .. Len(s) : Append(s, m)[i] = s[i]
      /\ Append(s, m)[Len(s) + 1] = m
  OBVIOUS
<1>4. \A i \in DOMAIN Append(s, m) : i \in DOMAIN s \/ i = Len(s) + 1
  BY <1>2
<1>. QED BY <1>1, <1>2, <1>3, <1>4

(***************************************************************************)
(* Type correctness of the pool.                                           *)
(***************************************************************************)
LEMMA PoolTypeInit == total \in Nat /\ PoolInit => PoolTypeOK
BY Sizes DEF PoolInit, PoolTypeOK, Workers

\* Every step of the pool keeps the types.
LEMMA PoolTypeStep == PoolTypeOK /\ [PoolNext]_poolVars => PoolTypeOK'
<1> SUFFICES ASSUME PoolTypeOK, [PoolNext]_poolVars PROVE PoolTypeOK'
  OBVIOUS
<1> USE Sizes DEF PoolTypeOK
<1>1. CASE Spawn
  <2>1. pc' \in [Workers -> {"unstarted", "fetch", "scan", "done"}]
    BY <1>1 DEF Spawn
  <2>2. spawned' \in 0 .. Threads - 1
    BY <1>1 DEF Spawn
  <2>. QED BY <1>1, <2>1, <2>2 DEF Spawn
<1>2. CASE EnterWork
  BY <1>2 DEF EnterWork
<1>3. CASE LeaveWork \/ BeginMerge \/ Return \/ Abort
  BY <1>3 DEF LeaveWork, BeginMerge, Return, Abort
<1>4. CASE Join
  BY <1>4 DEF Join
<1>5. ASSUME NEW w \in Workers, Fetch(w) PROVE PoolTypeOK'
  <2>1. Start(cursor) \in Nat
    BY DEF Start
  <2>2. cursor' \in Nat /\ claimed' \in [Workers -> Nat]
    BY <1>5 DEF Fetch, FetchAdd
  <2>3. pc' \in [Workers -> {"unstarted", "fetch", "scan", "done"}]
    BY <1>5 DEF Fetch
  <2>4. pos' \in [Workers -> Nat]
    BY <1>5, <2>1 DEF Fetch
  <2>. QED BY <1>5, <2>2, <2>3, <2>4 DEF Fetch
<1>6. ASSUME NEW w \in Workers, Pull(w) PROVE PoolTypeOK'
  <2>1. pos[w] < End(claimed[w]) => Lesser(pos[w] + BatchRows, End(claimed[w])) \in Nat
    BY DEF Lesser, End, Start
  <2>. QED BY <1>6, <2>1 DEF Pull
<1>7. ASSUME NEW w \in Workers, Finish(w) PROVE PoolTypeOK'
  <2>1. Append(parts[w], claimed[w]) \in Seq(Nat)
    OBVIOUS
  <2>. QED BY <1>7, <2>1 DEF Finish
<1>8. CASE UNCHANGED poolVars
  BY <1>8 DEF poolVars
<1>. QED BY <1>1, <1>2, <1>3, <1>4, <1>5, <1>6, <1>7, <1>8 DEF PoolNext

-----------------------------------------------------------------------------
(***************************************************************************)
(* Steps that neither dispense nor finish a morsel.                        *)
(***************************************************************************)
Quiet ==
    /\ UNCHANGED <<total, cursor, claimed, parts>>
    /\ \A w \in Workers : /\ pc'[w] = "scan" <=> pc[w] = "scan"
                          /\ pc'[w] = "done" <=> pc[w] = "done"

\* A step that leaves the dispenser and the workers' morsels alone keeps
\* the invariant about them.
LEMMA QuietDispensing == Dispensing /\ Quiet => Dispensing'
<1> SUFFICES ASSUME Dispensing, Quiet PROVE Dispensing'
  OBVIOUS
<1>1. NumMorsels' = NumMorsels /\ cursor' = cursor
  BY DEF Quiet, NumMorsels
<1>2. ASSUME NEW w \in Workers
      PROVE  /\ Drained(w)' = Drained(w)
             /\ Holding(w)' = Holding(w)
             /\ Owned(w)' = Owned(w)
  <2>1. Drained(w)' = Drained(w)
    BY DEF Quiet, Drained
  <2>2. Holding(w)' = Holding(w)
    BY DEF Quiet, Holding
  <2>. QED BY <2>1, <2>2 DEF Owned
<1>3. Claims'
  <2> SUFFICES ASSUME NEW w \in Workers
               PROVE  /\ \A m \in Owned(w)' : m < cursor' /\ m < NumMorsels'
                      /\ pc'[w] = "scan" => \A m \in Drained(w)' : m < claimed'[w]
                      /\ pc'[w] = "done" => cursor' >= NumMorsels'
    BY DEF Claims
  <2>1. claimed' = claimed /\ (pc'[w] = "scan" => pc[w] = "scan")
                          /\ (pc'[w] = "done" => pc[w] = "done")
    BY DEF Quiet
  <2>. QED BY <1>1, <1>2, <2>1 DEF Dispensing, Claims
<1>4. Increasing'
  BY DEF Dispensing, Increasing, Quiet
<1>5. Disjoint'
  BY <1>2 DEF Dispensing, Disjoint
<1>6. Dispensed'
  BY <1>1, <1>2 DEF Dispensing, Dispensed
<1>. QED BY <1>3, <1>4, <1>5, <1>6 DEF Dispensing

(***************************************************************************)
(* The calling thread's actions, Pull and stuttering are quiet.            *)
(***************************************************************************)
LEMMA QuietActions ==
    ASSUME PoolTypeOK, Created,
           \/ Spawn \/ EnterWork \/ LeaveWork \/ Join \/ BeginMerge \/ Return
           \/ Abort \/ (\E w \in Workers : Pull(w)) \/ UNCHANGED poolVars
    PROVE  Quiet
<1> USE Sizes, WorkerFacts
<1>1. CASE Spawn
  <2>1. pc[spawned + 1] = "unstarted"
    BY <1>1 DEF Spawn, Created, PoolTypeOK
  <2>2. \A w \in Workers : pc'[w] = IF w = spawned + 1 THEN "fetch" ELSE pc[w]
    BY <1>1 DEF Spawn, PoolTypeOK
  <2>. QED BY <1>1, <2>1, <2>2 DEF Spawn, Quiet
<1>2. CASE EnterWork
  <2>1. pc[0] = "unstarted"
    BY <1>2 DEF EnterWork, Created
  <2>2. \A w \in Workers : pc'[w] = IF w = 0 THEN "fetch" ELSE pc[w]
    BY <1>2 DEF EnterWork, PoolTypeOK
  <2>. QED BY <1>2, <2>1, <2>2 DEF EnterWork, Quiet
<1>3. CASE LeaveWork \/ Join \/ BeginMerge \/ Return \/ Abort
  BY <1>3 DEF LeaveWork, Join, BeginMerge, Return, Abort, Quiet
<1>4. CASE \E w \in Workers : Pull(w)
  BY <1>4 DEF Pull, Quiet
<1>5. CASE UNCHANGED poolVars
  BY <1>5 DEF poolVars, Quiet
<1>. QED BY <1>1, <1>2, <1>3, <1>4, <1>5

(***************************************************************************)
(* A worker draws the next index, or finds the cursor past the end.        *)
(***************************************************************************)
LEMMA FetchDispensing ==
    ASSUME PoolTypeOK, Dispensing, NEW w \in Workers, Fetch(w)
    PROVE  Dispensing'
<1> USE WorkerFacts
<1>1. /\ NumMorsels' = NumMorsels
      /\ NumMorsels \in Nat
      /\ cursor \in Nat /\ cursor' = cursor + 1
      /\ parts' = parts
      /\ pc[w] = "fetch"
  BY NumMorselsType DEF Fetch, FetchAdd, NumMorsels, PoolTypeOK
<1>2. \A v \in Workers : Drained(v)' = Drained(v)
  BY <1>1 DEF Drained
<1>3. \A v \in Workers : v # w => /\ pc'[v] = pc[v] /\ claimed'[v] = claimed[v]
                                  /\ Owned(v)' = Owned(v)
  BY <1>2 DEF Fetch, FetchAdd, PoolTypeOK, Owned, Holding
<1>4. Increasing'
  BY <1>1 DEF Dispensing, Increasing
<1>5. Owned(w) = Drained(w)
  BY <1>1 DEF Owned, Holding
<1>6. CASE cursor < NumMorsels
  <2>1. pc'[w] = "scan" /\ claimed'[w] = cursor
    BY <1>6 DEF Fetch, FetchAdd, PoolTypeOK
  <2>2. Owned(w)' = Drained(w) \union {cursor}
    BY <1>2, <2>1 DEF Owned, Holding
  <2>3. \A v \in Workers : \A m \in Owned(v) : m < cursor /\ m < NumMorsels /\ m \in Nat
    <3>1. \A v \in Workers : \A m \in Owned(v) : m \in Nat
      BY DEF Owned, Drained, Holding, PoolTypeOK
    <3>. QED BY <3>1 DEF Dispensing, Claims
  <2>4. Claims'
    <3> SUFFICES ASSUME NEW v \in Workers
                 PROVE  /\ \A m \in Owned(v)' : m < cursor' /\ m < NumMorsels
                        /\ pc'[v] = "scan" => \A m \in Drained(v) : m < claimed'[v]
                        /\ pc'[v] = "done" => cursor' >= NumMorsels
      BY <1>1, <1>2 DEF Claims
    <3>1. CASE v = w
      BY <3>1, <1>1, <1>5, <1>6, <2>1, <2>2, <2>3
    <3>2. CASE v # w
      BY <3>2, <1>1, <1>3, <2>3 DEF Dispensing, Claims
    <3>. QED BY <3>1, <3>2
  <2>5. Disjoint'
    <3> SUFFICES ASSUME NEW u \in Workers, NEW v \in Workers, u # v
                 PROVE  Owned(u)' \intersect Owned(v)' = {}
      BY DEF Disjoint
    <3>1. Owned(u) \intersect Owned(v) = {} /\ cursor \notin Owned(u) /\ cursor \notin Owned(v)
      BY <1>1, <2>3 DEF Dispensing, Disjoint
    <3>2. /\ Owned(u)' \subseteq Owned(u) \union (IF u = w THEN {cursor} ELSE {})
          /\ Owned(v)' \subseteq Owned(v) \union (IF v = w THEN {cursor} ELSE {})
      BY <1>3, <1>5, <2>2
    <3>. QED BY <3>1, <3>2
  <2>6. Dispensed'
    <3> SUFFICES ASSUME NEW m \in 0 .. NumMorsels - 1, m < cursor + 1
                 PROVE  \E v \in Workers : m \in Owned(v)'
      BY <1>1 DEF Dispensed
    <3>1. CASE m = cursor
      BY <3>1, <2>2
    <3>2. CASE m < cursor
      BY <3>2, <1>3, <1>5, <2>2 DEF Dispensing, Dispensed
    <3>. QED BY <3>1, <3>2, <1>1
  <2>. QED BY <1>4, <2>4, <2>5, <2>6 DEF Dispensing
<1>7. CASE ~(cursor < NumMorsels)
  <2>1. pc'[w] = "done"
    BY <1>7 DEF Fetch, PoolTypeOK
  <2>2. \A v \in Workers : Owned(v)' = Owned(v)
    BY <1>2, <1>3, <1>5, <2>1 DEF Owned, Holding
  <2>3. Claims'
    <3> SUFFICES ASSUME NEW v \in Workers
                 PROVE  /\ \A m \in Owned(v) : m < cursor + 1 /\ m < NumMorsels
                        /\ pc'[v] = "scan" => \A m \in Drained(v) : m < claimed'[v]
                        /\ pc'[v] = "done" => cursor + 1 >= NumMorsels
      BY <1>1, <1>2, <2>2 DEF Claims
    <3>1. \A m \in Owned(v) : m \in Nat
      BY DEF Owned, Drained, Holding, PoolTypeOK
    <3>. QED BY <1>1, <1>3, <1>7, <2>1, <3>1 DEF Dispensing, Claims
  <2>4. Disjoint'
    BY <2>2 DEF Dispensing, Disjoint
  <2>5. Dispensed'
    BY <1>1, <1>7, <2>2 DEF Dispensing, Dispensed
  <2>. QED BY <1>4, <2>3, <2>4, <2>5 DEF Dispensing
<1>. QED BY <1>6, <1>7

(***************************************************************************)
(* A worker's drained morsel moves from what it holds to its list.         *)
(***************************************************************************)
LEMMA FinishDispensing ==
    ASSUME PoolTypeOK, Dispensing, NEW w \in Workers, Finish(w)
    PROVE  Dispensing'
<1>1. /\ NumMorsels' = NumMorsels /\ cursor' = cursor /\ claimed' = claimed
      /\ pc[w] = "scan" /\ pc'[w] = "fetch"
      /\ parts[w] \in Seq(Nat) /\ claimed[w] \in Nat
      /\ parts'[w] = Append(parts[w], claimed[w])
  BY DEF Finish, NumMorsels, PoolTypeOK
<1>2. \A v \in Workers : v # w => pc'[v] = pc[v] /\ parts'[v] = parts[v]
  BY DEF Finish, PoolTypeOK
<1>3. Drained(w)' = Drained(w) \union {claimed[w]}
  BY <1>1, AppendDrained DEF Drained
<1>4. \A v \in Workers : v # w => Drained(v)' = Drained(v) /\ Owned(v)' = Owned(v)
  BY <1>1, <1>2 DEF Drained, Owned, Holding
<1>5. Owned(w)' = Owned(w)
  BY <1>1, <1>3 DEF Owned, Holding
<1>6. Claims'
  BY <1>1, <1>2, <1>3, <1>4, <1>5 DEF Dispensing, Claims
<1>7. Increasing'
  <2> SUFFICES ASSUME NEW v \in Workers,
                      NEW i \in DOMAIN parts'[v], NEW j \in DOMAIN parts'[v], i < j
               PROVE  parts'[v][i] < parts'[v][j]
    BY DEF Increasing
  <2>1. CASE v # w
    BY <2>1, <1>2 DEF Dispensing, Increasing
  <2>2. CASE v = w
    <3>1. DOMAIN parts[w] = 1 .. Len(parts[w]) /\ Len(parts[w]) \in Nat
      BY <1>1
    <3>2. DOMAIN parts'[w] = 1 .. Len(parts[w]) + 1
      BY <1>1
    <3>3. i \in DOMAIN parts[w] /\ parts'[w][i] = parts[w][i]
      BY <1>1, <2>2, <3>1, <3>2
    <3>4. CASE j \in DOMAIN parts[w]
      <4>1. parts'[w][j] = parts[w][j]
        BY <1>1, <3>1, <3>4
      <4>. QED BY <2>2, <3>3, <3>4, <4>1 DEF Dispensing, Increasing
    <3>5. CASE j \notin DOMAIN parts[w]
      <4>1. parts'[w][j] = claimed[w]
        BY <1>1, <2>2, <3>1, <3>2, <3>5
      <4>2. parts[w][i] \in Drained(w)
        BY <3>3 DEF Drained
      <4>. QED BY <1>1, <2>2, <3>3, <4>1, <4>2 DEF Dispensing, Claims
    <3>. QED BY <3>4, <3>5
  <2>. QED BY <2>1, <2>2
<1>8. Disjoint'
  BY <1>4, <1>5 DEF Dispensing, Disjoint
<1>9. Dispensed'
  BY <1>1, <1>4, <1>5 DEF Dispensing, Dispensed
<1>. QED BY <1>6, <1>7, <1>8, <1>9 DEF Dispensing

-----------------------------------------------------------------------------
(***************************************************************************)
(* Who has started and who has been waited for.                            *)
(***************************************************************************)
LEMMA CreatedStep == PoolTypeOK /\ Created /\ [PoolNext]_poolVars => Created'
<1> SUFFICES ASSUME PoolTypeOK, Created, [PoolNext]_poolVars PROVE Created'
  OBVIOUS
<1> USE Sizes, WorkerFacts
<1>1. CASE Spawn
  <2>1. \A w \in Workers : w # spawned + 1 => pc'[w] = pc[w]
    BY <1>1 DEF Spawn, PoolTypeOK
  <2>2. \A w \in spawned' + 1 .. Threads - 1 : w \in Workers /\ w # spawned + 1
                                            /\ w \in spawned + 1 .. Threads - 1
    BY <1>1 DEF Spawn, PoolTypeOK, Workers
  <2>3. pc'[0] = pc[0] /\ mainpc' = mainpc
    BY <1>1, <2>1 DEF Spawn, PoolTypeOK
  <2>. QED BY <2>1, <2>2, <2>3 DEF Created
<1>2. CASE EnterWork
  <2>1. spawned + 1 .. Threads - 1 = {} /\ spawned' = spawned /\ mainpc' = "work"
    BY <1>2 DEF EnterWork, PoolTypeOK
  <2>. QED BY <2>1 DEF Created
<1>3. CASE LeaveWork \/ Join \/ BeginMerge \/ Return \/ Abort
  BY <1>3 DEF LeaveWork, Join, BeginMerge, Return, Abort, Created
<1>4. ASSUME NEW w \in Workers, Fetch(w) \/ Pull(w) \/ Finish(w) PROVE Created'
  <2>1. pc[w] # "unstarted" /\ spawned' = spawned /\ mainpc' = mainpc
    BY <1>4 DEF Fetch, Pull, Finish
  <2>2. \A v \in Workers : pc[v] = "unstarted" => pc'[v] = "unstarted"
    BY <1>4, <2>1 DEF Fetch, Pull, Finish, PoolTypeOK
  <2>3. \A v \in spawned + 1 .. Threads - 1 : v \in Workers
    BY DEF Workers, PoolTypeOK
  <2>. QED BY <2>1, <2>2, <2>3 DEF Created
<1>5. CASE UNCHANGED poolVars
  BY <1>5 DEF poolVars, Created
<1>. QED BY <1>1, <1>2, <1>3, <1>4, <1>5 DEF PoolNext

\* The calling thread is past a join only when that worker is done.
LEMMA JoinsStep == PoolTypeOK /\ Joins /\ [PoolNext]_poolVars => Joins'
<1> SUFFICES ASSUME PoolTypeOK, Joins, [PoolNext]_poolVars PROVE Joins'
  OBVIOUS
<1> USE Sizes, WorkerFacts
<1>1. CASE Spawn \/ EnterWork \/ Abort
  BY <1>1 DEF Spawn, EnterWork, Abort, Joins
<1>2. CASE LeaveWork
  <2>1. mainpc = "work" /\ mainpc' = "join" /\ pc' = pc /\ pc[0] = "done" /\ joined' = joined
    BY <1>2 DEF LeaveWork
  <2>2. joined = 0
    BY <2>1 DEF Joins
  <2>. QED BY <2>1, <2>2 DEF Joins
<1>3. CASE Join
  <2>1. mainpc = "join" /\ mainpc' = "join" /\ pc' = pc /\ joined' = joined + 1
        /\ pc[joined + 1] = "done"
    BY <1>3 DEF Join
  <2>2. \A w \in 1 .. joined + 1 : w \in 1 .. joined \/ w = joined + 1
    BY DEF PoolTypeOK
  <2>. QED BY <2>1, <2>2 DEF Joins
<1>4. CASE BeginMerge \/ Return
  BY <1>4 DEF BeginMerge, Return, Joins
<1>5. ASSUME NEW w \in Workers, Fetch(w) \/ Pull(w) \/ Finish(w) PROVE Joins'
  <2>1. pc[w] # "done" /\ joined' = joined /\ mainpc' = mainpc
    BY <1>5 DEF Fetch, Pull, Finish
  <2>2. \A v \in Workers : pc[v] = "done" => pc'[v] = "done"
    BY <1>5, <2>1 DEF Fetch, Pull, Finish, PoolTypeOK
  <2>3. \A v \in 1 .. joined : v \in Workers
    BY DEF Workers, PoolTypeOK
  <2>. QED BY <2>1, <2>2, <2>3 DEF Joins
<1>6. CASE UNCHANGED poolVars
  BY <1>6 DEF poolVars, Joins
<1>. QED BY <1>1, <1>2, <1>3, <1>4, <1>5, <1>6 DEF PoolNext

-----------------------------------------------------------------------------
(***************************************************************************)
(* What division with remainder makes of multiples.                        *)
(***************************************************************************)
LEMMA MultipleMod ==
    ASSUME NEW d \in Nat \ {0}, NEW k \in Nat
    PROVE  (d * k) % d = 0
<1> DEFINE x == d * k
           q == x \div d
<1>1. x \in Nat
  OBVIOUS
<1>2. x = d * q + (x % d) /\ x % d \in 0 .. d - 1 /\ q \in Nat
  BY <1>1, DivMod
<1> HIDE DEF x, q
<1>3. d * (k - q) = x % d
  <2>1. d * (k - q) = d * k - d * q
    BY <1>2
  <2>. QED BY <1>2, <2>1 DEF x
<1>4. k - q >= 1 => d * (k - q) >= d
  BY <1>2
<1>5. k - q <= -1 => d * (k - q) <= -d
  BY <1>2
<1>6. k - q = 0
  BY <1>2, <1>3, <1>4, <1>5
<1>. QED BY <1>2, <1>3, <1>6 DEF x

\* Multiples of a word add up to a multiple of it.
LEMMA AlignedSum ==
    ASSUME NEW a \in Nat, NEW b \in Nat, a % Word = 0, b % Word = 0
    PROVE  (a + b) % Word = 0
<1> DEFINE m == a \div Word
           n == b \div Word
<1>1. m \in Nat /\ a = Word * m /\ n \in Nat /\ b = Word * n
  BY Sizes, DivMod
<1> HIDE DEF m, n
<1>2. a + b = Word * (m + n) /\ m + n \in Nat
  BY <1>1, Sizes
<1>. QED BY <1>2, Sizes, MultipleMod

(***************************************************************************)
(* Every morsel starts on a word boundary.                                 *)
(***************************************************************************)
LEMMA AlignedStart == ASSUME NEW m \in Nat PROVE Start(m) % Word = 0
<1> DEFINE q == MorselRows \div Word
<1>1. q \in Nat /\ MorselRows = Word * q
  BY Sizes, PoolAssumption, DivMod
<1> HIDE DEF q
<1>2. m * MorselRows = Word * (m * q) /\ m * q \in Nat
  BY <1>1, Sizes
<1>. QED BY <1>2, Sizes, MultipleMod DEF Start

\* The scans keep to word boundaries, except at the end of their morsel.
LEMMA PositionedStep == PoolTypeOK /\ Positioned /\ [PoolNext]_poolVars => Positioned'
<1> SUFFICES ASSUME PoolTypeOK, Positioned, [PoolNext]_poolVars PROVE Positioned'
  OBVIOUS
<1> USE Sizes, WorkerFacts
<1>1. total \in Nat /\ \A m \in Nat : Start(m) \in Nat /\ End(m) \in Nat
  BY DEF PoolTypeOK, Start, End, Lesser
<1>2. ASSUME UNCHANGED <<total, claimed, pos>>,
             \A w \in Workers : pc'[w] = "scan" => pc[w] = "scan"
      PROVE  Positioned'
  BY <1>2 DEF Positioned, Start, End
<1>3. CASE Spawn \/ EnterWork
  BY <1>2, <1>3 DEF Spawn, EnterWork, PoolTypeOK
<1>4. CASE LeaveWork \/ Join \/ BeginMerge \/ Return \/ Abort \/ UNCHANGED poolVars
  BY <1>2, <1>4 DEF LeaveWork, Join, BeginMerge, Return, Abort, poolVars
<1>5. ASSUME NEW w \in Workers, Finish(w) PROVE Positioned'
  BY <1>2, <1>5 DEF Finish, PoolTypeOK
<1>6. ASSUME NEW w \in Workers, Fetch(w) PROVE Positioned'
  <2>1. /\ cursor \in Nat /\ total' = total /\ claimed'[w] = cursor
        /\ pc'[w] = "scan" => pos'[w] = Start(cursor)
        /\ \A v \in Workers \ {w} : pc'[v] = pc[v] /\ pos'[v] = pos[v]
                                   /\ claimed'[v] = claimed[v]
    BY <1>6 DEF Fetch, FetchAdd, PoolTypeOK
  <2>2. \A m \in Nat : Start(m)' = Start(m) /\ End(m)' = End(m)
    BY <2>1 DEF Start, End
  <2>3. claimed'[w] \in Nat /\ \A v \in Workers : claimed[v] \in Nat
    BY <2>1 DEF PoolTypeOK
  <2>4. pc'[w] = "scan" => Start(cursor) <= pos'[w] /\ pos'[w] % Word = 0
    BY <1>1, <2>1, AlignedStart
  <2>5. ASSUME NEW v \in Workers, pc'[v] = "scan"
        PROVE  Start(claimed'[v]) <= pos'[v]
               /\ (pos'[v] % Word = 0 \/ pos'[v] >= End(claimed'[v]))
    BY <2>1, <2>3, <2>4, <2>5 DEF Positioned
  <2>. QED BY <2>1, <2>5 DEF Positioned, Start, End
<1>7. ASSUME NEW w \in Workers, Pull(w) PROVE Positioned'
  <2> DEFINE e == End(claimed[w])
  <2>1. /\ total' = total /\ claimed' = claimed /\ pc' = pc
        /\ pc[w] = "scan" /\ pos[w] < e /\ pos[w] \in Nat /\ claimed[w] \in Nat
        /\ pos'[w] = Lesser(pos[w] + BatchRows, e)
        /\ \A v \in Workers \ {w} : pos'[v] = pos[v]
    BY <1>7 DEF Pull, PoolTypeOK
  <2>2. e \in Nat
    BY <1>1, <2>1
  <2>3. Start(claimed[w]) <= pos[w] /\ pos[w] % Word = 0 /\ Start(claimed[w]) \in Nat
    BY <1>1, <2>1, <2>2 DEF Positioned
  <2>4. (pos[w] + BatchRows) % Word = 0
    BY <2>1, <2>3, AlignedSum, PoolAssumption
  <2> HIDE DEF e
  <2>5. /\ Start(claimed[w]) <= pos'[w]
        /\ pos'[w] % Word = 0 \/ pos'[w] >= e
    BY <2>1, <2>2, <2>3, <2>4 DEF Lesser
  <2>6. ASSUME NEW v \in Workers, pc[v] = "scan"
        PROVE  Start(claimed[v]) <= pos'[v]
               /\ (pos'[v] % Word = 0 \/ pos'[v] >= End(claimed[v]))
    BY <2>1, <2>5, <2>6 DEF Positioned, e
  <2>. QED BY <2>1, <2>6 DEF Positioned, Start, End
<1>. QED BY <1>3, <1>4, <1>5, <1>6, <1>7 DEF PoolNext

\* A scan on a word boundary below its morsel's end emits an aligned batch.
LEMMA PositionedImplies == PoolTypeOK /\ Positioned => BatchesAligned
<1> SUFFICES ASSUME PoolTypeOK, Positioned, NEW w \in Workers,
                    pc[w] = "scan", pos[w] < End(claimed[w])
             PROVE  /\ pos[w] % Word = 0
                    /\ BatchFrom(w) \subseteq MorselRowSet(claimed[w])
                    /\ BatchFrom(w) \subseteq 0 .. total - 1
  BY DEF BatchesAligned
<1>1. total \in Nat /\ pos[w] \in Nat /\ claimed[w] \in Nat
  BY DEF PoolTypeOK
<1>2. /\ Start(claimed[w]) \in Nat /\ End(claimed[w]) \in Nat
      /\ End(claimed[w]) <= total
  BY <1>1, Sizes DEF Start, End, Lesser
<1>3. Start(claimed[w]) <= pos[w] /\ pos[w] % Word = 0
  BY <1>1, <1>2 DEF Positioned
<1>. QED BY <1>1, <1>2, <1>3, Sizes DEF BatchFrom, MorselRowSet, Lesser

-----------------------------------------------------------------------------
(***************************************************************************)
(* The invariant holds initially, is preserved by every step of the pool,  *)
(* and implies the pool's safety properties.                               *)
(***************************************************************************)
LEMMA PoolInvInit == total \in Nat /\ PoolInit => PoolInv
<1> SUFFICES ASSUME total \in Nat, PoolInit PROVE PoolInv
  OBVIOUS
<1>1. \A w \in Workers : Drained(w) = {} /\ Holding(w) = {} /\ Owned(w) = {}
  BY DEF PoolInit, Drained, Holding, Owned
<1>2. Created /\ Joins
  BY Sizes DEF PoolInit, Created, Joins, Workers
<1>3. Claims /\ Increasing /\ Disjoint
  BY <1>1 DEF PoolInit, Claims, Increasing, Disjoint
<1>4. Dispensed
  BY NumMorselsType DEF PoolInit, Dispensed
<1>5. Positioned
  BY DEF PoolInit, Positioned
<1>. QED BY PoolTypeInit, <1>2, <1>3, <1>4, <1>5 DEF PoolInv, Dispensing

\* The inductive invariant holds after every step of the pool.
LEMMA PoolInvStep == PoolInv /\ [PoolNext]_poolVars => PoolInv'
<1> SUFFICES ASSUME PoolInv, [PoolNext]_poolVars PROVE PoolInv'
  OBVIOUS
<1> USE DEF PoolInv
<1>1. PoolTypeOK' /\ Created' /\ Joins' /\ Positioned'
  BY PoolTypeStep, CreatedStep, JoinsStep, PositionedStep
<1>2. Dispensing'
  <2>1. CASE \/ Spawn \/ EnterWork \/ LeaveWork \/ Join \/ BeginMerge \/ Return
             \/ Abort \/ (\E w \in Workers : Pull(w)) \/ UNCHANGED poolVars
    BY <2>1, QuietActions, QuietDispensing
  <2>2. ASSUME NEW w \in Workers, Fetch(w) PROVE Dispensing'
    BY <2>2, FetchDispensing
  <2>3. ASSUME NEW w \in Workers, Finish(w) PROVE Dispensing'
    BY <2>3, FinishDispensing
  <2>. QED BY <2>1, <2>2, <2>3 DEF PoolNext
<1>. QED BY <1>1, <1>2

\* The inductive invariant implies the four safety properties.
LEMMA PoolInvImplies ==
    PoolInv => NoMorselTwice /\ NoMorselLost /\ MergeAfterAllDone /\ BatchesAligned
<1> SUFFICES ASSUME PoolInv
             PROVE  NoMorselTwice /\ NoMorselLost /\ MergeAfterAllDone /\ BatchesAligned
  OBVIOUS
<1> USE WorkerFacts, Sizes DEF PoolInv, Dispensing
<1>1. NoMorselTwice
  <2>1. ASSUME NEW w \in Workers PROVE Holding(w) \intersect Drained(w) = {}
    <3>1. CASE pc[w] = "scan"
      BY <3>1 DEF Holding, Claims, PoolTypeOK
    <3>2. CASE pc[w] # "scan"
      BY <3>2 DEF Holding
    <3>. QED BY <3>1, <3>2
  <2>. QED BY <2>1 DEF NoMorselTwice, Increasing, Disjoint
<1>2. MergeAfterAllDone
  <2>1. \A w \in Workers : w = 0 \/ w \in 1 .. Threads - 1
    BY DEF Workers
  <2>. QED BY <2>1 DEF MergeAfterAllDone, Joins
<1>3. NoMorselLost
  <2>1. ASSUME mainpc \in {"merge", "returned"}, NEW m \in 0 .. NumMorsels - 1
        PROVE  \E w \in Workers : m \in Drained(w)
    <3>1. \A w \in Workers : Owned(w) = Drained(w)
      BY <1>2, <2>1 DEF MergeAfterAllDone, Owned, Holding
    <3>2. m < cursor
      BY <1>2, <2>1, NumMorselsType DEF MergeAfterAllDone, Claims, PoolTypeOK
    <3>. QED BY <3>1, <3>2 DEF Dispensed
  <2>. QED BY <2>1 DEF NoMorselLost, Dispensed
<1>4. BatchesAligned
  BY PositionedImplies
<1>. QED BY <1>1, <1>2, <1>3, <1>4

(***************************************************************************)
(* The pool on its own: its states have the declared types, no morsel is   *)
(* processed twice, none is lost, nothing is merged while a worker may     *)
(* still write, and batches are aligned to the validity words.             *)
(***************************************************************************)
THEOREM PoolSafety ==
    PoolSpec => [](/\ PoolTypeOK /\ NoMorselTwice /\ NoMorselLost
                   /\ MergeAfterAllDone /\ BatchesAligned)
<1>1. total \in Nat /\ PoolInit => PoolInv
  BY PoolInvInit
<1>2. PoolInv /\ [PoolNext]_poolVars => PoolInv'
  BY PoolInvStep
<1>3. PoolInv => /\ PoolTypeOK /\ NoMorselTwice /\ NoMorselLost
                 /\ MergeAfterAllDone /\ BatchesAligned
  BY PoolInvImplies DEF PoolInv
<1>. QED BY <1>1, <1>2, <1>3, PTL DEF PoolSpec
================================================================================
