----------------------------- MODULE HashJoinProofs -----------------------------
(***************************************************************************)
(* HashJoin's answer is the join of the two tables, for every input its    *)
(* constants admit.  The argument follows a row: the ids of a string agree *)
(* between the batches (InternAllExact, CanonMapOK), so the groups of the  *)
(* table are the places of one string among the rows stored (InsertOK,     *)
(* AddRowsOK), so the pairs of a probe batch show what the reference makes *)
(* of its rows (BatchPairsOK), and chunks of kOutBatch pairs cut the answer*)
(* without losing or repeating a row (CutMoves).  JoinInv states this of   *)
(* every state, between two batches and between two chunks of one.         *)
(***************************************************************************)
EXTENDS HashJoin, DataProofs

-----------------------------------------------------------------------------
(***************************************************************************)
(* MatchingRows.                                                           *)
(***************************************************************************)
\* Build row r has the key.
Hit(build, bk, key, r) == KeyTuple(build[r], bk) = key

\* h[k] is the positions of the first k rows that have the key.
MatchTable(h, build, bk, key) ==
    /\ h \in [0 .. Len(build) -> Seq(Nat)]
    /\ h[0] = <<>>
    /\ \A k \in 1 .. Len(build) :
          h[k] = IF Hit(build, bk, key, k) THEN Append(h[k - 1], k) ELSE h[k - 1]

\* The reference's index of a key, as a table over the build rows in order.
LEMMA MatchingTable ==
    ASSUME NEW X, NEW build \in Seq(X), NEW bk, NEW key
    PROVE  \E h : MatchTable(h, build, bk, key) /\ MatchingRows(build, bk, key) = h[Len(build)]
<1> DEFINE n == Len(build)
           seq == [r \in DOMAIN build |-> r]
           Op(r, rows) == IF Hit(build, bk, key, r) THEN Append(rows, r) ELSE rows
           step == [k \in 1 .. n |-> [a \in Seq(Nat) |-> Op(k, a)]]
           body(f) == [s \in SUBSET DOMAIN seq |->
                         IF s = {} THEN <<>> ELSE Op(seq[Max(s)], f[s \ {Max(s)}])]
           it == CHOOSE f : f = body(f)
<1>1. n \in Nat /\ DOMAIN build = 1 .. n /\ DOMAIN seq = 1 .. n /\ \A k \in 1 .. n : seq[k] = k
  OBVIOUS
<1>2. \A k \in 1 .. n, a \in Seq(Nat) : step[k][a] = Op(k, a) /\ Op(k, a) \in Seq(Nat)
  BY <1>1
<1>3. Steps(step, n, Seq(Nat)) /\ <<>> \in Seq(Nat)
  BY <1>2 DEF Steps
<1> HIDE DEF step
<1>4. PICK g : SetTable(g, n, Seq(Nat), <<>>, step)
  <2> HIDE DEF n
  <2>. QED BY <1>1, <1>3, SeqFoldExists
<1>5. MatchingRows(build, bk, key) = it[DOMAIN seq]
  BY Zenon DEF MatchingRows, FoldLeft, MapThenFoldSet, Hit
<1> HIDE DEF seq, n
<1>6. g = body(g)
  <2>1. ASSUME NEW s \in SUBSET (1 .. n), s # {} PROVE g[s] = Op(seq[Max(s)], g[s \ {Max(s)}])
    <3>1. g[s] = step[Max(s)][g[s \ {Max(s)}]] /\ g[s \ {Max(s)}] \in Seq(Nat)
      BY <1>4, <2>1 DEF SetTable
    <3>2. Max(s) \in 1 .. n
      BY <1>1, <2>1, MaxOf
    <3>. QED BY <1>1, <1>2, <3>1, <3>2
  <2>. QED BY <1>1, <1>4, <2>1 DEF SetTable
<1>7. it = body(it)
  <2> HIDE DEF body
  <2>. QED BY <1>6
<1> DEFINE h == [k \in 0 .. n |-> it[1 .. k]]
<1> HIDE DEF it
<1>8. h[0] = <<>>
  BY <1>1, <1>7
<1>9. ASSUME NEW k \in 1 .. n PROVE h[k] = Op(k, h[k - 1])
  <2>1. 1 .. k \in SUBSET (1 .. n) /\ 1 .. k # {} /\ Max(1 .. k) = k /\ (1 .. k) \ {k} = 1 .. k - 1
    BY <1>1, Initial
  <2>2. it[1 .. k] = Op(k, it[1 .. k - 1])
    <3>1. \A s \in SUBSET (1 .. n) : s # {} => it[s] = Op(seq[Max(s)], it[s \ {Max(s)}])
      BY <1>1, <1>7
    <3> HIDE DEF Op, body
    <3>2. it[1 .. k] = Op(seq[k], it[1 .. k - 1])
      BY <2>1, <3>1
    <3>. QED BY <1>1, <3>2
  <2>3. k \in 0 .. n /\ k - 1 \in 0 .. n
    BY <1>1
  <2>. QED BY <2>2, <2>3
<1>10. h[n] = it[DOMAIN seq]
  BY <1>1
<1> DEFINE S == {k \in Nat : k <= n => h[k] \in Seq(Nat)}
<1> HIDE DEF h
<1>11. 0 \in S
  BY <1>3, <1>8
<1>12. ASSUME NEW k \in Nat, k \in S PROVE k + 1 \in S
  <2>1. SUFFICES ASSUME k + 1 <= n PROVE h[k + 1] \in Seq(Nat)
    OBVIOUS
  <2>2. k + 1 \in 1 .. n /\ (k + 1) - 1 = k /\ k <= n
    BY <1>1, <2>1
  <2>3. h[k] \in Seq(Nat) /\ h[k + 1] = Op(k + 1, h[k])
    BY <1>9, <1>12, <2>2
  <2>4. k + 1 \in Nat
    OBVIOUS
  <2>. QED BY <2>3, <2>4
<1> HIDE DEF S
<1>13. \A k \in Nat : k \in S
  BY <1>11, <1>12, SetInduction
<1>14. h \in [0 .. n -> Seq(Nat)]
  <2>1. \A k \in 0 .. n : h[k] \in Seq(Nat)
    BY <1>1, <1>13 DEF S
  <2>. QED BY <2>1 DEF h
<1>15. MatchTable(h, build, bk, key)
  BY <1>8, <1>9, <1>14 DEF MatchTable, n
<1>. QED BY <1>5, <1>10, <1>15 DEF n

\* The key of a row of this join is its first cell, NULL if that is.
LEMMA KeyOfRow ==
    ASSUME NEW row, NEW v
    PROVE  /\ KeyTuple(row, <<1>>) = <<row[1]>>
           /\ KeyTuple(row, <<1>>) = <<v>> <=> row[1] = v
           /\ NullKey(<<v>>) <=> v = NULL
<1>1. KeyTuple(row, <<1>>) = <<row[1]>>
  BY DEF KeyTuple
<1>2. NullKey(<<v>>) <=> v = NULL
  BY DEF NullKey
<1>. QED BY <1>1, <1>2

\* The positions of the rows whose first cell is v.
Places(S, v) == MatchingRows(S, <<1>>, <<v>>)

\* One more row is one more place if its first cell is v.
LEMMA PlacesAppend ==
    ASSUME NEW X, NEW S \in Seq(X), NEW x \in X, NEW v
    PROVE  Places(Append(S, x), v)
             = IF x[1] = v THEN Append(Places(S, v), Len(S) + 1) ELSE Places(S, v)
<1> DEFINE n == Len(S)
           T == Append(S, x)
<1>1. T \in Seq(X) /\ Len(T) = n + 1 /\ n \in Nat /\ T[n + 1] = x /\ \A k \in 1 .. n : T[k] = S[k]
  OBVIOUS
<1>2. PICK g : MatchTable(g, S, <<1>>, <<v>>) /\ Places(S, v) = g[n]
  BY MatchingTable DEF Places
<1>3. PICK h : MatchTable(h, T, <<1>>, <<v>>) /\ Places(T, v) = h[n + 1]
  <2> HIDE DEF T
  <2>1. PICK h : MatchTable(h, T, <<1>>, <<v>>) /\ MatchingRows(T, <<1>>, <<v>>) = h[Len(T)]
    BY <1>1, MatchingTable
  <2>. QED BY <1>1, <2>1 DEF Places
<1> DEFINE N == {k \in Nat : k <= n => h[k] = g[k]}
<1> HIDE DEF T, n
<1>4. 0 \in N
  BY <1>2, <1>3 DEF MatchTable
<1>5. ASSUME NEW k \in Nat, k \in N PROVE k + 1 \in N
  <2>1. SUFFICES ASSUME k + 1 <= n PROVE h[k + 1] = g[k + 1]
    OBVIOUS
  <2>2. k + 1 \in 1 .. n /\ k + 1 \in 1 .. n + 1 /\ (k + 1) - 1 = k /\ k <= n
    BY <1>1, <2>1
  <2>3. h[k] = g[k]
    BY <1>5, <2>2
  <2>4. Hit(T, <<1>>, <<v>>, k + 1) <=> Hit(S, <<1>>, <<v>>, k + 1)
    BY <1>1, <2>2 DEF Hit
  <2>5. g[k + 1] = IF Hit(S, <<1>>, <<v>>, k + 1) THEN Append(g[k], k + 1) ELSE g[k]
    BY <1>2, <2>2 DEF MatchTable, n
  <2>6. h[k + 1] = IF Hit(T, <<1>>, <<v>>, k + 1) THEN Append(h[k], k + 1) ELSE h[k]
    BY <1>1, <1>3, <2>2 DEF MatchTable
  <2>. QED BY <2>3, <2>4, <2>5, <2>6
<1> HIDE DEF N
<1>6. n \in N
  BY <1>1, <1>4, <1>5, SetInduction
<1>7. h[n] = g[n]
  BY <1>1, <1>6 DEF N
<1>8. h[n + 1] = IF Hit(T, <<1>>, <<v>>, n + 1) THEN Append(h[n], n + 1) ELSE h[n]
  <2>1. n + 1 \in 1 .. Len(T) /\ (n + 1) - 1 = n
    BY <1>1
  <2>. QED BY <1>3, <2>1 DEF MatchTable
<1>9. Hit(T, <<1>>, <<v>>, n + 1) <=> x[1] = v
  BY <1>1, KeyOfRow DEF Hit
<1>. QED BY <1>2, <1>3, <1>7, <1>8, <1>9 DEF T, n

\* What Places holds.
PlacesOf(p, S, v) ==
    /\ p \in Seq(Nat)
    /\ \A i \in 1 .. Len(p) : p[i] \in 1 .. Len(S) /\ S[p[i]][1] = v
    /\ (\A r \in 1 .. Len(S) : S[r][1] # v) => p = <<>>

\* What Places holds, for every sequence of rows.
LEMMA PlacesExact ==
    ASSUME NEW X, NEW S \in Seq(X), NEW v
    PROVE  PlacesOf(Places(S, v), S, v)
<1> DEFINE n == Len(S)
           Ok(p) == /\ p \in Seq(Nat)
                    /\ \A i \in 1 .. Len(p) : p[i] \in 1 .. n /\ S[p[i]][1] = v
                    /\ (\A r \in 1 .. n : S[r][1] # v) => p = <<>>
<1>1. n \in Nat
  OBVIOUS
<1>2. PICK h : MatchTable(h, S, <<1>>, <<v>>) /\ Places(S, v) = h[n]
  BY MatchingTable DEF Places
<1> DEFINE N == {k \in Nat : k <= n => Ok(h[k])}
<1> HIDE DEF n
<1>3. 0 \in N
  BY <1>2 DEF MatchTable
<1>4. ASSUME NEW k \in Nat, k \in N PROVE k + 1 \in N
  <2>1. SUFFICES ASSUME k + 1 <= n PROVE Ok(h[k + 1])
    OBVIOUS
  <2>2. k + 1 \in 1 .. n /\ (k + 1) - 1 = k /\ k <= n
    BY <1>1, <2>1
  <2>3. Ok(h[k])
    BY <1>4, <2>2
  <2>4. Hit(S, <<1>>, <<v>>, k + 1) <=> S[k + 1][1] = v
    BY KeyOfRow DEF Hit
  <2>5. h[k + 1] = IF Hit(S, <<1>>, <<v>>, k + 1) THEN Append(h[k], k + 1) ELSE h[k]
    BY <1>2, <2>2 DEF MatchTable, n
  <2>6. CASE S[k + 1][1] = v
    <3> DEFINE p == h[k]
               q == Append(p, k + 1)
    <3>1. q = h[k + 1] /\ p \in Seq(Nat)
      BY <2>3, <2>4, <2>5, <2>6
    <3>2. /\ q \in Seq(Nat) /\ Len(q) = Len(p) + 1 /\ q[Len(p) + 1] = k + 1 /\ Len(p) \in Nat
          /\ \A i \in 1 .. Len(p) : q[i] = p[i]
      BY <3>1
    <3>3. \A i \in 1 .. Len(p) : p[i] \in 1 .. n /\ S[p[i]][1] = v
      BY <2>3
    <3> HIDE DEF p, q
    <3>4. ASSUME NEW i \in 1 .. Len(q) PROVE q[i] \in 1 .. n /\ S[q[i]][1] = v
      <4>1. CASE i \in 1 .. Len(p)
        BY <3>2, <3>3, <4>1
      <4>2. CASE i = Len(p) + 1
        BY <2>2, <2>6, <3>2, <4>2
      <4>. QED BY <3>2, <4>1, <4>2
    <3>. QED BY <2>2, <2>6, <3>1, <3>2, <3>4
  <2>7. CASE S[k + 1][1] # v
    BY <2>3, <2>4, <2>5, <2>7
  <2>. QED BY <2>6, <2>7
<1> HIDE DEF N
<1>5. n \in N
  BY <1>1, <1>3, <1>4, SetInduction
<1> HIDE DEF Ok
<1>6. Ok(Places(S, v))
  BY <1>1, <1>2, <1>5 DEF N
<1>. QED BY <1>6 DEF Ok, PlacesOf, n

(***************************************************************************)
(* Dictionaries.                                                           *)
(***************************************************************************)
\* A dictionary of strings of X: no string has two codes.
IsDict(d, X) ==
    /\ d \in Seq(X)
    /\ \A i, j \in 1 .. Len(d) : d[i] = d[j] => i = j

\* e gives every code of d the string it has in d.
Extends(e, d) == Len(d) <= Len(e) /\ \A i \in 1 .. Len(d) : e[i] = d[i]

\* Intern keeps the codes there are, and s has one afterwards.
LEMMA InternDict ==
    ASSUME NEW X, NEW d, IsDict(d, X), NEW s \in X
    PROVE  /\ IsDict(Intern(d, s), X) /\ Extends(Intern(d, s), d)
           /\ s \in Strings(Intern(d, s))
<1> DEFINE e == Append(d, s)
<1>1. d \in Seq(X) /\ Len(d) \in Nat /\ DOMAIN d = 1 .. Len(d)
      /\ \A i, j \in 1 .. Len(d) : d[i] = d[j] => i = j
  BY DEF IsDict
<1>2. /\ e \in Seq(X) /\ Len(e) = Len(d) + 1 /\ e[Len(d) + 1] = s /\ DOMAIN e = 1 .. Len(d) + 1
      /\ \A i \in 1 .. Len(d) : e[i] = d[i]
  BY <1>1
<1> HIDE DEF e
<1>3. CASE s \in Strings(d)
  <2>1. Intern(d, s) = d
    BY <1>3 DEF Intern
  <2>. QED BY <1>1, <1>3, <2>1 DEF Extends
<1>4. CASE s \notin Strings(d)
  <2>1. Intern(d, s) = e
    BY <1>4 DEF Intern, e
  <2>2. \A i \in 1 .. Len(d) : d[i] # s
    BY <1>1, <1>4 DEF Strings
  <2>3. ASSUME NEW i \in 1 .. Len(e), NEW j \in 1 .. Len(e), e[i] = e[j] PROVE i = j
    <3>1. i \in 1 .. Len(d) \/ i = Len(d) + 1
      BY <1>1, <1>2
    <3>2. j \in 1 .. Len(d) \/ j = Len(d) + 1
      BY <1>1, <1>2
    <3>. QED BY <1>1, <1>2, <2>2, <2>3, <3>1, <3>2
  <2>4. IsDict(e, X)
    BY <1>2, <2>3 DEF IsDict
  <2>5. Extends(e, d)
    BY <1>1, <1>2 DEF Extends
  <2>6. s \in Strings(e)
    <3>1. Len(d) + 1 \in DOMAIN e
      BY <1>1, <1>2
    <3>. QED BY <1>2, <3>1 DEF Strings
  <2>. QED BY <2>1, <2>4, <2>5, <2>6
<1>. QED BY <1>3, <1>4

\* A dictionary that extends d has the strings of d.
LEMMA ExtendsKeeps ==
    ASSUME NEW X, NEW d, IsDict(d, X), NEW e, IsDict(e, X), Extends(e, d)
    PROVE  \A s \in Strings(d) : s \in Strings(e)
<1>1. /\ DOMAIN d = 1 .. Len(d) /\ DOMAIN e = 1 .. Len(e) /\ Len(d) \in Nat /\ Len(e) \in Nat
      /\ Len(d) <= Len(e) /\ \A i \in 1 .. Len(d) : e[i] = d[i]
  BY DEF IsDict, Extends
<1>2. ASSUME NEW i \in DOMAIN d PROVE d[i] \in Strings(e)
  <2>1. i \in DOMAIN e /\ e[i] = d[i]
    BY <1>1
  <2>. QED BY <2>1 DEF Strings
<1>. QED BY <1>2 DEF Strings

\* Extends is transitive.
LEMMA ExtendsTransitive ==
    ASSUME NEW X, NEW d, IsDict(d, X), NEW e, IsDict(e, X), NEW f, IsDict(f, X),
           Extends(e, d), Extends(f, e)
    PROVE  Extends(f, d)
BY DEF IsDict, Extends

\* CodeOf and At are inverse.
LEMMA CodeAt ==
    ASSUME NEW X, NEW d, IsDict(d, X), NEW s \in Strings(d)
    PROVE  CodeOf(d, s) \in 0 .. Len(d) - 1 /\ At(d, CodeOf(d, s)) = s /\ s \in X
<1>1. d \in Seq(X) /\ DOMAIN d = 1 .. Len(d) /\ Len(d) \in Nat
  BY DEF IsDict
<1>2. \E i \in DOMAIN d : d[i] = s
  BY DEF Strings
<1> DEFINE c == CHOOSE i \in DOMAIN d : d[i] = s
<1>3. c \in DOMAIN d /\ d[c] = s
  BY <1>2
<1> HIDE DEF c
<1>4. CodeOf(d, s) = c - 1
  BY DEF CodeOf, c
<1>5. c \in 1 .. Len(d) /\ (c - 1) + 1 = c
  BY <1>1, <1>3
<1>6. s \in X
  BY <1>1, <1>3, <1>5
<1>. QED BY <1>1, <1>3, <1>4, <1>5, <1>6 DEF At

\* A code stands for a string of the dictionary.
LEMMA AtString ==
    ASSUME NEW X, NEW d, IsDict(d, X), NEW c \in 0 .. Len(d) - 1
    PROVE  At(d, c) \in X /\ At(d, c) \in Strings(d)
<1>1. d \in Seq(X) /\ DOMAIN d = 1 .. Len(d) /\ Len(d) \in Nat /\ c + 1 \in 1 .. Len(d)
  BY DEF IsDict
<1>. QED BY <1>1 DEF At, Strings

\* Two codes do not stand for one string.
LEMMA AtOnce ==
    ASSUME NEW X, NEW d, IsDict(d, X), NEW c \in 0 .. Len(d) - 1, NEW e \in 0 .. Len(d) - 1,
           At(d, c) = At(d, e)
    PROVE  c = e
<1>1. Len(d) \in Nat /\ c + 1 \in 1 .. Len(d) /\ e + 1 \in 1 .. Len(d)
  BY DEF IsDict
<1>2. c + 1 = e + 1
  BY <1>1 DEF At, IsDict
<1>. QED BY <1>1, <1>2

(***************************************************************************)
(* InternAll.                                                              *)
(***************************************************************************)
\* e extends d and has every valid cell.
Interned(e, d, cells, X) ==
    /\ IsDict(e, X) /\ Extends(e, d)
    /\ \A k \in 1 .. Len(cells) : cells[k] # NULL => cells[k] \in Strings(e)

\* InternAll keeps the codes there are, and every valid cell has one afterwards.
LEMMA InternAllExact ==
    ASSUME NEW X, NULL \notin X, NEW d, IsDict(d, X), NEW cells \in Seq(X \union {NULL})
    PROVE  Interned(InternAll(d, cells), d, cells, X)
<1> DEFINE n == Len(cells)
           Op(s, a) == IF s = NULL THEN a ELSE Intern(a, s)
           step == [k \in 1 .. n |-> [a \in Seq(X) |-> Op(cells[k], a)]]
           body(f) == [s \in SUBSET DOMAIN cells |->
                         IF s = {} THEN d ELSE Op(cells[Max(s)], f[s \ {Max(s)}])]
           it == CHOOSE f : f = body(f)
<1>1. n \in Nat /\ DOMAIN cells = 1 .. n /\ \A k \in 1 .. n : cells[k] \in X \union {NULL}
  OBVIOUS
<1>2. ASSUME NEW k \in 1 .. n, NEW a \in Seq(X)
      PROVE  step[k][a] = Op(cells[k], a) /\ Op(cells[k], a) \in Seq(X)
  <2>1. CASE cells[k] = NULL
    BY <2>1
  <2>2. CASE cells[k] # NULL
    <3>1. cells[k] \in X
      BY <1>1, <2>2
    <3>2. Append(a, cells[k]) \in Seq(X)
      BY <3>1
    <3>. QED BY <2>2, <3>2 DEF Intern
  <2>. QED BY <2>1, <2>2
<1>3. Steps(step, n, Seq(X)) /\ d \in Seq(X)
  BY <1>2 DEF Steps, IsDict
<1> HIDE DEF step
<1>4. PICK g : SetTable(g, n, Seq(X), d, step)
  <2> HIDE DEF n
  <2>. QED BY <1>1, <1>3, SeqFoldExists
<1>5. InternAll(d, cells) = it[DOMAIN cells]
  BY Zenon DEF InternAll, FoldLeft, MapThenFoldSet
<1> HIDE DEF n
<1>6. g = body(g)
  <2>1. ASSUME NEW s \in SUBSET (1 .. n), s # {} PROVE g[s] = Op(cells[Max(s)], g[s \ {Max(s)}])
    <3>1. g[s] = step[Max(s)][g[s \ {Max(s)}]] /\ g[s \ {Max(s)}] \in Seq(X)
      BY <1>4, <2>1 DEF SetTable
    <3>2. Max(s) \in 1 .. n
      BY <1>1, <2>1, MaxOf
    <3>. QED BY <1>1, <1>2, <3>1, <3>2
  <2> HIDE DEF Op
  <2>. QED BY <1>1, <1>4, <2>1 DEF SetTable
<1>7. it = body(it)
  <2> HIDE DEF body
  <2>. QED BY <1>6
<1> DEFINE h == [k \in 0 .. n |-> it[1 .. k]]
<1> HIDE DEF it
<1>8. h[0] = d
  BY <1>1, <1>7
<1>9. ASSUME NEW k \in 1 .. n PROVE h[k] = Op(cells[k], h[k - 1])
  <2>1. 1 .. k \in SUBSET (1 .. n) /\ 1 .. k # {} /\ Max(1 .. k) = k /\ (1 .. k) \ {k} = 1 .. k - 1
    BY <1>1, Initial
  <2>2. it[1 .. k] = Op(cells[k], it[1 .. k - 1])
    <3>1. \A s \in SUBSET (1 .. n) : s # {} => it[s] = Op(cells[Max(s)], it[s \ {Max(s)}])
      BY <1>1, <1>7
    <3> HIDE DEF Op, body
    <3>. QED BY <2>1, <3>1
  <2>3. k \in 0 .. n /\ k - 1 \in 0 .. n
    BY <1>1
  <2> HIDE DEF Op
  <2>. QED BY <2>2, <2>3
<1>10. h[n] = it[DOMAIN cells]
  BY <1>1
<1> DEFINE Ok(k) == /\ IsDict(h[k], X) /\ Extends(h[k], d)
                    /\ \A j \in 1 .. k : cells[j] # NULL => cells[j] \in Strings(h[k])
           S == {k \in Nat : k <= n => Ok(k)}
<1> HIDE DEF h
<1>11. 0 \in S
  <2>1. Extends(d, d)
    BY DEF Extends, IsDict
  <2>. QED BY <1>8, <2>1
<1>12. ASSUME NEW k \in Nat, k \in S PROVE k + 1 \in S
  <2>1. SUFFICES ASSUME k + 1 <= n PROVE Ok(k + 1)
    OBVIOUS
  <2>2. k + 1 \in 1 .. n /\ (k + 1) - 1 = k /\ k <= n
    BY <1>1, <2>1
  <2>3. IsDict(h[k], X) /\ Extends(h[k], d)
        /\ \A j \in 1 .. k : cells[j] # NULL => cells[j] \in Strings(h[k])
    BY <1>12, <2>2
  <2>4. h[k + 1] = Op(cells[k + 1], h[k])
    BY <1>9, <2>2
  <2>5. CASE cells[k + 1] = NULL
    <3>1. h[k + 1] = h[k]
      BY <2>4, <2>5
    <3>2. \A j \in 1 .. k + 1 : j \in 1 .. k \/ j = k + 1
      OBVIOUS
    <3>. QED BY <2>3, <2>5, <3>1, <3>2
  <2>6. CASE cells[k + 1] # NULL
    <3>1. cells[k + 1] \in X
      BY <1>1, <2>2, <2>6
    <3>2. h[k + 1] = Intern(h[k], cells[k + 1])
      BY <2>4, <2>6
    <3>3. IsDict(h[k + 1], X) /\ Extends(h[k + 1], h[k]) /\ cells[k + 1] \in Strings(h[k + 1])
      BY <2>3, <3>1, <3>2, InternDict
    <3>4. Extends(h[k + 1], d)
      BY <2>3, <3>3, ExtendsTransitive
    <3>5. \A s \in Strings(h[k]) : s \in Strings(h[k + 1])
      BY <2>3, <3>3, ExtendsKeeps
    <3>6. \A j \in 1 .. k + 1 : j \in 1 .. k \/ j = k + 1
      OBVIOUS
    <3>. QED BY <2>3, <3>3, <3>4, <3>5, <3>6
  <2>. QED BY <2>5, <2>6
<1> HIDE DEF S
<1>13. n \in S
  BY <1>1, <1>11, <1>12, SetInduction
<1>14. Ok(n)
  BY <1>1, <1>13 DEF S
<1> HIDE DEF Ok
<1>15. Ok(n) /\ h[n] = InternAll(d, cells)
  BY <1>5, <1>10, <1>14
<1>. QED BY <1>15 DEF Ok, Interned, n

\* h[k] is what the first k live rows of b make of acc.
AddTable(h, acc, b, map) ==
    /\ h[0] = acc
    /\ \A k \in 1 .. Len(b.sel) : h[k] = AddRow(h[k - 1], b, b.sel[k], map)

\* AddRows adds the live rows of a batch one by one.
LEMMA AddRowsTable ==
    ASSUME NEW acc, NEW b, NEW map, Len(b.sel) \in Nat
    PROVE  \E h : AddTable(h, acc, b, map) /\ AddRows(acc, b, map) = h[Len(b.sel)]
<1> DEFINE n == Len(b.sel)
           body(f) == [k \in 0 .. n |-> IF k = 0 THEN acc ELSE AddRow(f[k - 1], b, b.sel[k], map)]
           it == CHOOSE f : f = body(f)
           Ok(f, m) == /\ f[0] = acc
                       /\ \A k \in 1 .. m : f[k] = AddRow(f[k - 1], b, b.sel[k], map)
           N == {m \in Nat : \E f : Ok(f, m)}
<1>1. 0 \in N
  <2> DEFINE f == [k \in 0 .. 0 |-> acc]
  <2>1. f[0] = acc
    OBVIOUS
  <2> HIDE DEF f
  <2>2. Ok(f, 0)
    BY <2>1
  <2> HIDE DEF Ok
  <2>. QED BY <2>2
<1>2. ASSUME NEW m \in Nat, m \in N PROVE m + 1 \in N
  <2>1. PICK f : Ok(f, m)
    BY <1>2
  <2> DEFINE g == [k \in 0 .. m + 1 |-> IF k <= m THEN f[k] ELSE AddRow(f[m], b, b.sel[m + 1], map)]
  <2>2. g[0] = acc
    BY <2>1
  <2>3. ASSUME NEW k \in 1 .. m + 1 PROVE g[k] = AddRow(g[k - 1], b, b.sel[k], map)
    <3>1. k \in 0 .. m + 1 /\ k - 1 \in 0 .. m + 1 /\ k - 1 <= m
      OBVIOUS
    <3>2. CASE k <= m
      <4>1. k \in 1 .. m /\ g[k] = f[k] /\ g[k - 1] = f[k - 1]
        BY <3>1, <3>2
      <4>. QED BY <2>1, <4>1
    <3>3. CASE ~(k <= m)
      <4>1. k = m + 1 /\ k - 1 = m /\ g[k] = AddRow(f[m], b, b.sel[m + 1], map) /\ g[k - 1] = f[m]
        BY <3>1, <3>3
      <4> HIDE DEF g
      <4>. QED BY <4>1
    <3>. QED BY <3>2, <3>3
  <2> HIDE DEF g
  <2>4. Ok(g, m + 1)
    BY <2>2, <2>3
  <2> HIDE DEF Ok
  <2>. QED BY <2>4
<1> HIDE DEF Ok, N
<1>3. n \in N
  BY <1>1, <1>2, SetInduction
<1>4. PICK f : Ok(f, n)
  BY <1>3 DEF N
<1> DEFINE g == [k \in 0 .. n |-> f[k]]
<1>5. g = body(g)
  <2>1. ASSUME NEW k \in 0 .. n, k # 0 PROVE f[k] = AddRow(g[k - 1], b, b.sel[k], map)
    <3>1. k \in 1 .. n /\ k - 1 \in 0 .. n
      BY <2>1
    <3>. QED BY <1>4, <3>1 DEF Ok
  <2>2. f[0] = acc
    BY <1>4 DEF Ok
  <2> HIDE DEF n
  <2>. QED BY <2>1, <2>2
<1>6. it = body(it)
  <2> HIDE DEF body, g
  <2>. QED BY <1>5
<1>7. AddRows(acc, b, map) = it[n]
  BY Zenon DEF AddRows
<1> HIDE DEF it
<1>8. AddTable(it, acc, b, map)
  <2>1. it[0] = acc
    BY <1>6
  <2>2. ASSUME NEW k \in 1 .. n PROVE it[k] = AddRow(it[k - 1], b, b.sel[k], map)
    <3>1. k \in 0 .. n /\ k # 0
      OBVIOUS
    <3> HIDE DEF n
    <3>. QED BY <1>6, <3>1
  <2>. QED BY <2>1, <2>2 DEF AddTable
<1>. QED BY <1>7, <1>8

\* The strings and the other values of the children's batches.
Str == UNION {UNION {Strings(bs[i].dict) : i \in DOMAIN bs} : bs \in BuildInputs \union ProbeInputs}
Oth == UNION {UNION {{bs[i].rows[p].id : p \in DOMAIN bs[i].rows} : i \in DOMAIN bs} :
                 bs \in BuildInputs \union ProbeInputs}
Val == Str \union Oth \union {NULL}
Row == Seq(Val)

\* A batch of a child, seen through the strings of its live rows.
Batch(b) ==
    /\ b.sel \in Seq(DOMAIN b.rows)
    /\ \A p \in DOMAIN b.rows : b.rows[p].valid \in BOOLEAN /\ b.rows[p].id \in Oth
    /\ \A p \in ToSet(b.sel) : KeyOf(b, p) \in Str \union {NULL}
    /\ \A p \in ToSet(b.sel) : KeyOf(b, p) = NULL <=> ~b.rows[p].valid

\* NULL is no string.
LEMMA NullNoString == NULL \notin Str
BY JoinAssumption DEF Str, WellFormed

\* Every batch a child returns is one.
LEMMA Batches ==
    ASSUME NEW bs \in BuildInputs \union ProbeInputs
    PROVE  bs \in Seq(ToSet(bs)) /\ \A i \in 1 .. Len(bs) : Batch(bs[i])
<1>1. bs \in Seq(ToSet(bs)) /\ \A i \in DOMAIN bs : WellFormed(bs[i])
  BY JoinAssumption
<1>2. ASSUME NEW i \in 1 .. Len(bs) PROVE Batch(bs[i])
  <2> DEFINE b == bs[i]
  <2>1. i \in DOMAIN bs
    BY <1>1
  <2>2. WellFormed(b)
    BY <1>1, <2>1
  <2>3. Strings(b.dict) \subseteq Str
    BY <2>1 DEF Str
  <2>4. \A p \in DOMAIN b.rows : b.rows[p].id \in Oth
    BY <2>1 DEF Oth
  <2> HIDE DEF b
  <2>5. ASSUME NEW p \in ToSet(b.sel)
        PROVE  KeyOf(b, p) \in Str \union {NULL} /\ (KeyOf(b, p) = NULL <=> ~b.rows[p].valid)
    <3>1. CASE ~b.rows[p].valid
      BY <3>1 DEF KeyOf
    <3>2. CASE b.rows[p].valid
      <4>1. b.rows[p].code \in 0 .. Len(b.dict) - 1
        BY <2>2, <3>2 DEF WellFormed
      <4>2. b.rows[p].code + 1 \in DOMAIN b.dict
        BY <2>2, <4>1 DEF WellFormed
      <4>3. KeyOf(b, p) \in Strings(b.dict)
        BY <3>2, <4>2 DEF KeyOf, At, Strings
      <4>4. NULL \notin Strings(b.dict)
        BY <2>2 DEF WellFormed
      <4>. QED BY <2>3, <3>2, <4>3, <4>4
    <3>. QED BY <3>1, <3>2
  <2>6. Batch(b)
    BY <2>2, <2>4, <2>5 DEF WellFormed, Batch
  <2>. QED BY <2>6 DEF b
<1>. QED BY <1>1, <1>2

\* p is the physical position of a live row.
Selected(b, p) == Batch(b) /\ p \in ToSet(b.sel)

\* The cells of a live row: its string or NULL, and its other column.
LEMMA CellsRow ==
    ASSUME NEW b, NEW p, Selected(b, p)
    PROVE  /\ Cells(b, p) \in Row /\ Len(Cells(b, p)) = 2
           /\ Cells(b, p)[1] = KeyOf(b, p) /\ Cells(b, p)[2] = b.rows[p].id
           /\ KeyOf(b, p) \in Str \union {NULL} /\ KeyOf(b, p) \in Val
           /\ b.rows[p].id \in Oth /\ b.rows[p].valid \in BOOLEAN
           /\ KeyOf(b, p) = NULL <=> ~b.rows[p].valid
<1>1. \A q \in ToSet(b.sel) : q \in DOMAIN b.rows
  BY DEF Selected, Batch, ToSet
<1>2. /\ KeyOf(b, p) \in Str \union {NULL} /\ b.rows[p].id \in Oth /\ b.rows[p].valid \in BOOLEAN
      /\ KeyOf(b, p) = NULL <=> ~b.rows[p].valid
  BY <1>1 DEF Selected, Batch
<1>3. KeyOf(b, p) \in Val /\ b.rows[p].id \in Val
  BY <1>2 DEF Val
<1> DEFINE k == KeyOf(b, p)
           o == b.rows[p].id
<1> HIDE DEF k, o
<1>4. <<k, o>> \in Seq(Val) /\ Len(<<k, o>>) = 2 /\ <<k, o>>[1] = k /\ <<k, o>>[2] = o
  BY <1>3 DEF k, o
<1>5. Cells(b, p) = <<k, o>>
  BY DEF Cells, k, o
<1>. QED BY <1>2, <1>3, <1>4, <1>5 DEF k, o, Row

(***************************************************************************)
(* The store.                                                              *)
(***************************************************************************)
\* A row of BuildStore.
StoreRow == [valid : BOOLEAN, id : Oth, code : Int]

\* The row emit_build_column shows for store row r.
Shown(s, r) ==
    <<IF s.rows[r].valid THEN At(s.dict, s.rows[r].code) ELSE NULL, s.rows[r].id>>

\* The store holds the rows S.
StoreOK(s, S) ==
    /\ IsDict(s.dict, Str)
    /\ s.rows \in Seq(StoreRow) /\ Len(s.rows) = Len(S)
    /\ \A r \in 1 .. Len(S) :
          /\ s.rows[r].valid => s.rows[r].code \in 0 .. Len(s.dict) - 1
          /\ Shown(s, r) = S[r]

\* append_row stores one more row, in the string it had in its batch.
LEMMA AppendRowOK ==
    ASSUME NEW s, NEW S \in Seq(Row), StoreOK(s, S), NEW b, NEW p, Selected(b, p)
    PROVE  /\ StoreOK(AppendRow(s, b, p), Append(S, Cells(b, p)))
           /\ Len(AppendRow(s, b, p).rows) = Len(S) + 1
<1> DEFINE x == Cells(b, p)
           key == KeyOf(b, p)
           valid == b.rows[p].valid
           dict == IF valid THEN Intern(s.dict, key) ELSE s.dict
           code == IF valid THEN CodeOf(dict, key) ELSE 0
           row == [valid |-> valid, id |-> b.rows[p].id, code |-> code]
           t == AppendRow(s, b, p)
           T == Append(S, x)
           n == Len(S)
<1>1. t.dict = dict /\ t.rows = Append(s.rows, row)
  BY DEF AppendRow
<1>2. /\ x \in Row /\ x = <<key, b.rows[p].id>> /\ b.rows[p].id \in Oth /\ valid \in BOOLEAN
      /\ key \in Str \union {NULL} /\ (key = NULL <=> ~valid)
  BY CellsRow DEF Cells
<1>3. /\ IsDict(s.dict, Str) /\ s.rows \in Seq(StoreRow) /\ Len(s.rows) = n /\ n \in Nat
      /\ \A r \in 1 .. n : s.rows[r].valid => s.rows[r].code \in 0 .. Len(s.dict) - 1
      /\ \A r \in 1 .. n : Shown(s, r) = S[r]
  BY DEF StoreOK
<1> HIDE DEF key, valid, x, t
<1>4. /\ IsDict(dict, Str) /\ Extends(dict, s.dict)
      /\ valid => code \in 0 .. Len(dict) - 1 /\ At(dict, code) = key
      /\ code \in Int
  <2>1. CASE valid
    <3>1. key \in Str
      BY <1>2, <2>1
    <3>2. IsDict(dict, Str) /\ Extends(dict, s.dict) /\ key \in Strings(dict)
      BY <1>3, <2>1, <3>1, InternDict
    <3> HIDE DEF dict
    <3>3. CodeOf(dict, key) \in 0 .. Len(dict) - 1 /\ At(dict, CodeOf(dict, key)) = key
      BY <3>2, CodeAt
    <3>4. Len(dict) \in Nat
      BY <3>2 DEF IsDict
    <3>. QED BY <2>1, <3>2, <3>3, <3>4
  <2>2. CASE ~valid
    <3>1. dict = s.dict /\ code = 0
      BY <2>2
    <3>2. Extends(s.dict, s.dict)
      BY <1>3 DEF Extends, IsDict
    <3>. QED BY <1>3, <2>2, <3>1, <3>2
  <2>. QED BY <1>2, <2>1, <2>2
<1> HIDE DEF dict, code
<1>5. row \in StoreRow
  BY <1>2, <1>4 DEF StoreRow
<1>5a. row.valid = valid /\ row.id = b.rows[p].id /\ row.code = code
  OBVIOUS
<1> HIDE DEF row
<1>6. /\ t.rows \in Seq(StoreRow) /\ Len(t.rows) = n + 1 /\ t.rows[n + 1] = row
      /\ \A r \in 1 .. n : t.rows[r] = s.rows[r]
  BY <1>1, <1>3, <1>5
<1>7. Len(T) = n + 1 /\ T[n + 1] = x /\ \A r \in 1 .. n : T[r] = S[r]
  BY <1>2
<1> HIDE DEF T
<1>8. ASSUME NEW r \in 1 .. n + 1
      PROVE  /\ t.rows[r].valid => t.rows[r].code \in 0 .. Len(t.dict) - 1
             /\ Shown(t, r) = T[r]
  <2>1. CASE r \in 1 .. n
    <3>0. t.rows[r] = s.rows[r] /\ T[r] = S[r]
      BY <1>6, <1>7, <2>1
    <3>1. s.rows[r].valid => s.rows[r].code \in 0 .. Len(s.dict) - 1
      BY <1>3, <2>1
    <3>2. Len(s.dict) <= Len(dict) /\ Len(s.dict) \in Nat /\ Len(dict) \in Nat
      BY <1>3, <1>4 DEF Extends, IsDict
    <3>3. ASSUME s.rows[r].valid
          PROVE  /\ s.rows[r].code \in 0 .. Len(dict) - 1
                 /\ At(dict, s.rows[r].code) = At(s.dict, s.rows[r].code)
      <4>1. s.rows[r].code \in 0 .. Len(s.dict) - 1
        BY <3>1, <3>3
      <4>2. s.rows[r].code + 1 \in 1 .. Len(s.dict)
        BY <3>2, <4>1
      <4>3. dict[s.rows[r].code + 1] = s.dict[s.rows[r].code + 1]
        BY <1>4, <4>2 DEF Extends
      <4>. QED BY <3>2, <4>1, <4>3 DEF At
    <3>4. Shown(t, r) = Shown(s, r)
      BY <1>1, <3>0, <3>3 DEF Shown
    <3>5. Shown(s, r) = S[r]
      BY <1>3, <2>1
    <3>. QED BY <1>1, <3>0, <3>3, <3>4, <3>5
  <2>2. CASE r = n + 1
    <3>1. t.rows[r] = row /\ T[r] = x
      BY <1>6, <1>7, <2>2
    <3>2. Shown(t, r) = <<IF valid THEN At(dict, code) ELSE NULL, b.rows[p].id>>
      BY <1>1, <1>5a, <3>1 DEF Shown
    <3>3. (IF valid THEN At(dict, code) ELSE NULL) = key
      BY <1>2, <1>4
    <3>. QED BY <1>1, <1>2, <1>4, <1>5a, <3>1, <3>2, <3>3
  <2>3. r \in 1 .. n \/ r = n + 1
    BY <1>3
  <2>. QED BY <2>1, <2>2, <2>3
<1>9. StoreOK(t, T)
  BY <1>1, <1>4, <1>6, <1>7, <1>8 DEF StoreOK
<1>. QED BY <1>6, <1>9 DEF t, T, x, n

(***************************************************************************)
(* The index and the lists of store rows.                                  *)
(***************************************************************************)
\* t and gr index the rows S by the ids map gives their first cells.
IndexOK(t, gr, S, map) ==
    /\ t.used \in Nat
    /\ \A id \in DOMAIN t.index : id \in 0 .. Len(map) - 1 /\ t.index[id] \in 0 .. t.used - 1
    /\ \A i, j \in DOMAIN t.index : t.index[i] = t.index[j] => i = j
    /\ DOMAIN gr = 0 .. t.used - 1
    /\ \A g \in 0 .. t.used - 1 : gr[g] \in Seq(Nat)
    /\ \A id \in DOMAIN t.index :
          gr[t.index[id]] = Places(S, At(map, id)) /\ gr[t.index[id]] # <<>>
    /\ \A r \in 1 .. Len(S) :
          S[r][1] # NULL => \E id \in DOMAIN t.index : At(map, id) = S[r][1]

\* An id the table does not have names a string no row has.
LEMMA NoIdNoPlaces ==
    ASSUME NEW t, NEW gr, NEW S \in Seq(Row), NEW map, IsDict(map, Str), IndexOK(t, gr, S, map),
           NEW id \in 0 .. Len(map) - 1, id \notin DOMAIN t.index
    PROVE  Places(S, At(map, id)) = <<>>
<1>1. At(map, id) \in Str /\ At(map, id) # NULL
  BY AtString, NullNoString
<1>2. ASSUME NEW r \in 1 .. Len(S), S[r][1] = At(map, id) PROVE FALSE
  <2>1. PICK i \in DOMAIN t.index : At(map, i) = S[r][1]
    BY <1>1, <1>2 DEF IndexOK
  <2>2. i \in 0 .. Len(map) - 1 /\ At(map, i) = At(map, id)
    BY <1>2, <2>1 DEF IndexOK
  <2>3. i = id
    BY <2>2, AtOnce
  <2>. QED BY <2>1, <2>3
<1>3. PlacesOf(Places(S, At(map, id)), S, At(map, id))
  BY PlacesExact
<1>. QED BY <1>2, <1>3 DEF PlacesOf

\* The lists of store rows after one more, r, has gone to group g.
Listed(gr, used, g, r) ==
    [h \in 0 .. used - 1 |->
        (IF h \in DOMAIN gr THEN gr[h] ELSE <<>>) \o (IF h = g THEN <<r>> ELSE <<>>)]

\* gr has a list of store rows for each of the first m groups.
Lists(gr, m) == DOMAIN gr = 0 .. m - 1 /\ \A h \in 0 .. m - 1 : gr[h] \in Seq(Nat)

\* l is gr with r at the end of the list of g.
OneMore(l, gr, m, used, g, r) ==
    /\ DOMAIN l = 0 .. used - 1
    /\ \A h \in 0 .. m - 1 : l[h] = IF h = g THEN Append(gr[h], r) ELSE gr[h]
    /\ g \notin 0 .. m - 1 => l[g] = <<r>>

\* Listed leaves the other lists as they are.
LEMMA ListedAt ==
    ASSUME NEW m \in Nat, NEW used \in Nat, m <= used, NEW gr, Lists(gr, m),
           NEW g \in 0 .. used - 1, NEW r \in Nat
    PROVE  OneMore(Listed(gr, used, g, r), gr, m, used, g, r)
<1>0. DOMAIN gr = 0 .. m - 1 /\ \A h \in 0 .. m - 1 : gr[h] \in Seq(Nat)
  BY DEF Lists
<1>1. ASSUME NEW a \in Seq(Nat) PROVE a \o <<>> = a /\ a \o <<r>> = Append(a, r)
  <2>1. a \o <<>> = a
    BY <1>1, ConcatEmptySeq
  <2>2. Append(a, r) = a \o <<r>>
    BY <1>1, AppendIsConcat
  <2>. QED BY <2>1, <2>2
<1>2. <<>> \o <<r>> = <<r>>
  OBVIOUS
<1>3. ASSUME NEW h \in 0 .. m - 1
      PROVE  Listed(gr, used, g, r)[h] = IF h = g THEN Append(gr[h], r) ELSE gr[h]
  <2> DEFINE a == gr[h]
  <2>1. a \in Seq(Nat) /\ h \in 0 .. used - 1
    BY <1>0
  <2>2. Listed(gr, used, g, r)[h] = a \o (IF h = g THEN <<r>> ELSE <<>>)
    BY <1>0, <2>1 DEF Listed
  <2> HIDE DEF a
  <2>3. Listed(gr, used, g, r)[h] = IF h = g THEN Append(a, r) ELSE a
    <3>1. CASE h = g
      <4>1. Listed(gr, used, g, r)[h] = a \o <<r>>
        BY <2>2, <3>1
      <4>. QED BY <1>1, <2>1, <3>1, <4>1
    <3>2. CASE h # g
      <4>1. Listed(gr, used, g, r)[h] = a \o <<>>
        BY <2>2, <3>2
      <4>. QED BY <1>1, <2>1, <3>2, <4>1
    <3>. QED BY <3>1, <3>2
  <2>. QED BY <2>3 DEF a
<1>4. ASSUME g \notin 0 .. m - 1 PROVE Listed(gr, used, g, r)[g] = <<r>>
  <2>1. Listed(gr, used, g, r)[g] = <<>> \o <<r>>
    BY <1>0, <1>4 DEF Listed
  <2>. QED BY <1>2, <2>1
<1>5. DOMAIN Listed(gr, used, g, r) = 0 .. used - 1
  BY DEF Listed
<1>. QED BY <1>3, <1>4, <1>5 DEF OneMore

\* One more row: under the id of its first cell, or in a group of its own.
LEMMA InsertOK ==
    ASSUME NEW t, NEW gr, NEW S \in Seq(Row), NEW map, IsDict(map, Str), IndexOK(t, gr, S, map),
           NEW x \in Row, NEW c, x[1] \in Str \union {NULL},
           IF x[1] = NULL THEN c = NULL ELSE c \in 0 .. Len(map) - 1 /\ At(map, c) = x[1]
    PROVE  IndexOK(Insert(t, c), Listed(gr, Insert(t, c).used, InsertGroup(t, c), Len(S) + 1),
                   Append(S, x), map)
<1> DEFINE u == Insert(t, c)
           g == InsertGroup(t, c)
           r == Len(S) + 1
           T == Append(S, x)
           lg == Listed(gr, u.used, g, r)
           Old == DOMAIN t.index
<1>1. /\ t.used \in Nat
      /\ \A id \in Old : id \in 0 .. Len(map) - 1 /\ t.index[id] \in 0 .. t.used - 1
      /\ \A i, j \in Old : t.index[i] = t.index[j] => i = j
      /\ DOMAIN gr = 0 .. t.used - 1
      /\ \A h \in 0 .. t.used - 1 : gr[h] \in Seq(Nat)
      /\ \A id \in Old : gr[t.index[id]] = Places(S, At(map, id)) /\ gr[t.index[id]] # <<>>
      /\ \A k \in 1 .. Len(S) : S[k][1] # NULL => \E id \in Old : At(map, id) = S[k][1]
  BY DEF IndexOK
<1>2. /\ T \in Seq(Row) /\ Len(T) = r /\ r \in Nat /\ Len(S) \in Nat
      /\ T[r] = x /\ \A k \in 1 .. Len(S) : T[k] = S[k]
  OBVIOUS
<1>3. \A v : Places(T, v) = IF x[1] = v THEN Append(Places(S, v), r) ELSE Places(S, v)
  BY PlacesAppend
<1>4. c \in Old => c # NULL
  <2>1. \A id \in Old : id \in Int
    BY <1>1
  <2>. QED BY <2>1, JoinAssumption
<1>5. NULL \notin Str
  BY NullNoString
<1>6. ASSUME NEW id \in Old PROVE At(map, id) \in Str /\ At(map, id) # NULL
  BY <1>1, <1>5, AtString
<1> HIDE DEF T, Old
<1>7. CASE c \in Old
  <2>1. u = t /\ g = t.index[c] /\ g \in 0 .. t.used - 1
    <3>1. t.index[c] # -1
      BY <1>1, <1>7
    <3>. QED BY <1>1, <1>4, <1>7, <3>1 DEF Insert, InsertGroup, Find, kNoGroup, Old
  <2>2. c \in 0 .. Len(map) - 1 /\ At(map, c) = x[1]
    BY <1>4, <1>7
  <2> HIDE DEF u, g, r
  <2>3. /\ DOMAIN lg = 0 .. t.used - 1
        /\ \A h \in 0 .. t.used - 1 : lg[h] = IF h = g THEN Append(gr[h], r) ELSE gr[h]
    <3>1. Lists(gr, t.used)
      BY <1>1 DEF Lists
    <3>2. t.used \in Nat /\ t.used <= t.used /\ g \in 0 .. t.used - 1 /\ r \in Nat
      BY <1>1, <1>2, <2>1
    <3>3. OneMore(Listed(gr, t.used, g, r), gr, t.used, t.used, g, r)
      BY Zenon, <3>1, <3>2, ListedAt
    <3>4. OneMore(lg, gr, t.used, t.used, g, r)
      BY <2>1, <3>3
    <3>. QED BY <3>4 DEF OneMore
  <2> HIDE DEF lg
  <2>4. \A h \in 0 .. t.used - 1 : lg[h] \in Seq(Nat)
    <3>1. ASSUME NEW h \in 0 .. t.used - 1 PROVE lg[h] \in Seq(Nat)
      <4> DEFINE a == gr[h]
      <4>1. a \in Seq(Nat)
        BY <1>1
      <4>2. Append(a, r) \in Seq(Nat)
        BY <1>2, <4>1
      <4>3. lg[h] = IF h = g THEN Append(a, r) ELSE a
        BY <2>3
      <4>. QED BY <4>1, <4>2, <4>3
    <3>. QED BY <3>1
  <2>5. ASSUME NEW id \in Old
        PROVE  lg[t.index[id]] = Places(T, At(map, id)) /\ lg[t.index[id]] # <<>>
    <3>1. t.index[id] \in 0 .. t.used - 1 /\ gr[t.index[id]] = Places(S, At(map, id))
          /\ gr[t.index[id]] # <<>>
      BY <1>1
    <3>2. CASE id = c
      <4>1. lg[t.index[id]] = Append(Places(S, At(map, id)), r)
        BY <2>1, <2>3, <3>1, <3>2
      <4>2. Places(T, At(map, id)) = Append(Places(S, At(map, id)), r)
        BY <1>3, <2>2, <3>2
      <4>3. Places(S, At(map, id)) \in Seq(Nat)
        BY <1>1, <3>1
      <4>4. Append(Places(S, At(map, id)), r) # <<>>
        <5> DEFINE a == Places(S, At(map, id))
        <5>1. a \in Seq(Nat)
          BY <4>3
        <5> HIDE DEF a
        <5>2. Append(a, r) # <<>>
          <6>1. Len(Append(a, r)) = Len(a) + 1 /\ Len(a) \in Nat
            BY <5>1
          <6>2. Len(<<>>) = 0
            OBVIOUS
          <6>3. Len(a) + 1 # 0
            BY <6>1
          <6>. QED BY <6>1, <6>2, <6>3
        <5>. QED BY <5>2 DEF a
      <4>. QED BY <4>1, <4>2, <4>4
    <3>3. CASE id # c
      <4>1. t.index[id] # g
        BY <1>1, <1>7, <2>1, <3>3
      <4>2. At(map, id) # x[1]
        BY <1>1, <2>2, <3>3, AtOnce
      <4>. QED BY <1>3, <2>3, <3>1, <4>1, <4>2
    <3>. QED BY <3>2, <3>3
  <2>6. ASSUME NEW k \in 1 .. r, T[k][1] # NULL PROVE \E id \in Old : At(map, id) = T[k][1]
    <3>1. CASE k = r
      BY <1>2, <1>7, <2>2, <3>1
    <3>2. CASE k # r
      <4>1. k \in 1 .. Len(S)
        BY <1>2, <3>2 DEF r
      <4>. QED BY <1>1, <1>2, <2>6, <4>1
    <3>. QED BY <3>1, <3>2
  <2>7. IndexOK(t, lg, T, map)
    BY <1>1, <1>2, <2>3, <2>4, <2>5, <2>6 DEF IndexOK, Old
  <2>. QED BY <2>1, <2>7 DEF u, g, r, lg, T
<1>8. CASE c \notin Old
  <2>1. /\ g = t.used /\ u.used = t.used + 1
        /\ u.index = IF c = NULL THEN t.index
                     ELSE [k \in Old \union {c} |-> IF k = c THEN t.used ELSE t.index[k]]
    BY <1>8 DEF Insert, InsertGroup, Find, kNoGroup, Old
  <2> HIDE DEF u, g, r
  <2>2. /\ DOMAIN lg = 0 .. u.used - 1
        /\ \A h \in 0 .. t.used - 1 : lg[h] = IF h = g THEN Append(gr[h], r) ELSE gr[h]
        /\ lg[g] = <<r>>
    <3>1. g \in 0 .. u.used - 1 /\ g \notin 0 .. t.used - 1 /\ u.used \in Nat /\ t.used <= u.used
      BY <1>1, <2>1
    <3>2. Lists(gr, t.used)
      BY <1>1 DEF Lists
    <3>3. OneMore(lg, gr, t.used, u.used, g, r)
      BY <1>1, <1>2, <3>1, <3>2, ListedAt
    <3>. QED BY <3>1, <3>3 DEF OneMore
  <2> HIDE DEF lg
  <2>3. \A h \in 0 .. t.used - 1 : lg[h] = gr[h]
    BY <1>1, <2>1, <2>2
  <2>4. <<r>> \in Seq(Nat) /\ <<r>> # <<>>
    BY <1>2
  <2>5. ASSUME NEW h \in 0 .. u.used - 1 PROVE lg[h] \in Seq(Nat)
    <3>1. h \in 0 .. t.used - 1 \/ h = g
      BY <1>1, <2>1
    <3>. QED BY <1>1, <2>2, <2>3, <2>4, <3>1
  <2>6. u.used \in Nat
    BY <1>1, <2>1
  <2>7. ASSUME NEW id \in Old, id # c
        PROVE  /\ t.index[id] \in 0 .. t.used - 1
               /\ lg[t.index[id]] = Places(T, At(map, id)) /\ lg[t.index[id]] # <<>>
    <3>1. /\ t.index[id] \in 0 .. t.used - 1 /\ id \in 0 .. Len(map) - 1
          /\ gr[t.index[id]] = Places(S, At(map, id)) /\ gr[t.index[id]] # <<>>
      BY <1>1
    <3>2. At(map, id) # x[1]
      <4>1. CASE x[1] = NULL
        BY <1>6, <4>1
      <4>2. CASE x[1] # NULL
        BY <2>7, <3>1, <4>2, AtOnce
      <4>. QED BY <4>1, <4>2
    <3>. QED BY <1>3, <2>3, <3>1, <3>2
  <2>8. CASE c = NULL
    <3>1. u.index = t.index /\ x[1] = NULL
      <4>1. c \notin 0 .. Len(map) - 1
        <5>1. \A i \in 0 .. Len(map) - 1 : i \in Int
          BY DEF IsDict
        <5>. QED BY <2>8, <5>1, JoinAssumption
      <4>. QED BY <2>1, <2>8, <4>1
    <3>2. ASSUME NEW k \in 1 .. r, T[k][1] # NULL PROVE \E id \in Old : At(map, id) = T[k][1]
      <4>1. k \in 1 .. Len(S)
        BY <1>2, <3>1, <3>2 DEF r
      <4>. QED BY <1>1, <1>2, <3>2, <4>1
    <3>3. \A id \in Old : id # c
      BY <1>8
    <3>4. \A id \in Old : id \in 0 .. Len(map) - 1 /\ t.index[id] \in 0 .. u.used - 1
      BY <1>1, <2>1
    <3>5. IndexOK(u, lg, T, map)
      BY <1>1, <1>2, <2>2, <2>5, <2>6, <2>7, <3>1, <3>2, <3>3, <3>4 DEF IndexOK, Old
    <3>. QED BY <3>5 DEF u, g, r, lg, T
  <2>9. CASE c # NULL
    <3>1. c \in 0 .. Len(map) - 1 /\ At(map, c) = x[1] /\ x[1] # NULL
      BY <2>9
    <3>2. /\ DOMAIN u.index = Old \union {c} /\ u.index[c] = t.used
          /\ \A id \in Old : u.index[id] = t.index[id]
      BY <1>8, <2>1, <2>9
    <3>3. ASSUME NEW id \in DOMAIN u.index
          PROVE  id \in 0 .. Len(map) - 1 /\ u.index[id] \in 0 .. u.used - 1
      BY <1>1, <2>1, <3>1, <3>2
    <3>4. ASSUME NEW i \in DOMAIN u.index, NEW j \in DOMAIN u.index, u.index[i] = u.index[j]
          PROVE  i = j
      BY <1>1, <3>2, <3>4
    <3>5. ASSUME NEW id \in DOMAIN u.index
          PROVE  lg[u.index[id]] = Places(T, At(map, id)) /\ lg[u.index[id]] # <<>>
      <4>1. CASE id = c
        <5>1. Places(S, At(map, c)) = <<>>
          BY <1>8, <3>1, NoIdNoPlaces DEF Old
        <5>2. Places(T, At(map, c)) = Append(<<>>, r)
          BY <1>3, <3>1, <5>1
        <5>3. Append(<<>>, r) = <<r>>
          OBVIOUS
        <5>. QED BY <2>1, <2>2, <2>4, <3>2, <4>1, <5>2, <5>3
      <4>2. CASE id # c
        BY <2>7, <3>2, <4>2
      <4>. QED BY <4>1, <4>2
    <3>6. ASSUME NEW k \in 1 .. r, T[k][1] # NULL
          PROVE  \E id \in DOMAIN u.index : At(map, id) = T[k][1]
      <4>1. CASE k = r
        BY <1>2, <3>1, <3>2, <4>1
      <4>2. CASE k # r
        <5>1. k \in 1 .. Len(S)
          BY <1>2, <4>2 DEF r
        <5>. QED BY <1>1, <1>2, <3>2, <3>6, <5>1
      <4>. QED BY <4>1, <4>2
    <3>7. IndexOK(u, lg, T, map)
      BY <1>2, <2>2, <2>5, <2>6, <3>3, <3>4, <3>5, <3>6 DEF IndexOK
    <3>. QED BY <3>7 DEF u, g, r, lg, T
  <2>. QED BY <2>8, <2>9
<1>. QED BY <1>7, <1>8

(***************************************************************************)
(* One build batch.                                                        *)
(***************************************************************************)
\* The store holds the rows S and the table indexes them.
AccOK(acc, S, map) == StoreOK(acc.store, S) /\ IndexOK(acc.ht, acc.groupRows, S, map)

\* The ids of the batch's keys are in map.
Known(b, map) ==
    /\ IsDict(map, Str)
    /\ \A p \in ToSet(b.sel) : KeyOf(b, p) # NULL => KeyOf(b, p) \in Strings(map)

\* A live build row, stored and indexed.
LEMMA AddRowOK ==
    ASSUME NEW acc, NEW S \in Seq(Row), NEW map, AccOK(acc, S, map),
           NEW b, NEW p, Selected(b, p), Known(b, map)
    PROVE  AccOK(AddRow(acc, b, p, map), Append(S, Cells(b, p)), map)
<1> DEFINE c == Canon(b, p, map)
           x == Cells(b, p)
           t == Insert(acc.ht, c)
           g == InsertGroup(acc.ht, c)
           s == AppendRow(acc.store, b, p)
           new == AddRow(acc, b, p, map)
<1>1. /\ x \in Row /\ x[1] = KeyOf(b, p) /\ x[1] \in Str \union {NULL} /\ b.rows[p].valid \in BOOLEAN
      /\ KeyOf(b, p) = NULL <=> ~b.rows[p].valid
  BY CellsRow
<1>2. IsDict(map, Str) /\ (KeyOf(b, p) # NULL => KeyOf(b, p) \in Strings(map))
  BY DEF Known, Selected
<1>3. IF x[1] = NULL THEN c = NULL ELSE c \in 0 .. Len(map) - 1 /\ At(map, c) = x[1]
  <2>1. CASE b.rows[p].valid
    <3>1. c = CodeOf(map, KeyOf(b, p)) /\ KeyOf(b, p) \in Strings(map)
      BY <1>1, <1>2, <2>1 DEF Canon
    <3>. QED BY <1>1, <1>2, <2>1, <3>1, CodeAt
  <2>2. CASE ~b.rows[p].valid
    BY <1>1, <2>2 DEF Canon
  <2>. QED BY <1>1, <2>1, <2>2
<1>4. StoreOK(s, Append(S, x)) /\ Len(s.rows) = Len(S) + 1
  BY AppendRowOK DEF AccOK
<1> HIDE DEF x, c
<1>5. IndexOK(t, Listed(acc.groupRows, t.used, g, Len(S) + 1), Append(S, x), map)
  BY <1>1, <1>2, <1>3, InsertOK DEF AccOK
<1>6. new.ht = t /\ new.store = s
  BY DEF AddRow, c
<1>7. new.groupRows = Listed(acc.groupRows, t.used, g, Len(S) + 1)
  <2>1. new.groupRows = Listed(acc.groupRows, t.used, g, Len(s.rows))
    BY DEF AddRow, Listed, c
  <2>. QED BY <1>4, <2>1
<1> HIDE DEF t, g, s, new
<1>8. AccOK(new, Append(S, x), map)
  BY <1>4, <1>5, <1>6, <1>7 DEF AccOK
<1>. QED BY <1>8 DEF new, x

\* The live rows of a batch.
BatchRows(b) == [k \in DOMAIN b.sel |-> Cells(b, b.sel[k])]

\* The live rows of a batch are rows, one for each selected position.
LEMMA BatchRowsType ==
    ASSUME NEW b, Batch(b)
    PROVE  /\ BatchRows(b) \in Seq(Row) /\ Len(BatchRows(b)) = Len(b.sel) /\ Len(b.sel) \in Nat
           /\ DOMAIN b.sel = 1 .. Len(b.sel)
           /\ \A k \in 1 .. Len(b.sel) : Selected(b, b.sel[k]) /\ BatchRows(b)[k] = Cells(b, b.sel[k])
<1>1. b.sel \in Seq(DOMAIN b.rows) /\ DOMAIN b.sel = 1 .. Len(b.sel) /\ Len(b.sel) \in Nat
  BY DEF Batch
<1>2. ASSUME NEW k \in 1 .. Len(b.sel) PROVE Selected(b, b.sel[k]) /\ Cells(b, b.sel[k]) \in Row
  <2>1. Selected(b, b.sel[k])
    BY <1>1 DEF Selected, ToSet
  <2>. QED BY <2>1, CellsRow
<1>. QED BY <1>1, <1>2 DEF BatchRows

\* The live rows of a build batch, stored and indexed.
LEMMA AddRowsOK ==
    ASSUME NEW acc, NEW S \in Seq(Row), NEW map, AccOK(acc, S, map),
           NEW b, Batch(b), Known(b, map)
    PROVE  AccOK(AddRows(acc, b, map), Cat(S, BatchRows(b)), map)
<1> DEFINE n == Len(b.sel)
           R == BatchRows(b)
           First(k) == S \o SubSeq(R, 1, k)
<1>1. /\ R \in Seq(Row) /\ Len(R) = n /\ n \in Nat
      /\ \A k \in 1 .. n : Selected(b, b.sel[k]) /\ R[k] = Cells(b, b.sel[k])
  BY BatchRowsType
<1> HIDE DEF R
<1>2. PICK h : AddTable(h, acc, b, map) /\ AddRows(acc, b, map) = h[n]
  BY <1>1, AddRowsTable
<1>3. First(0) = S
  <2>1. SubSeq(R, 1, 0) = <<>>
    BY SubSeqEmpty
  <2>. QED BY <2>1, ConcatEmptySeq
<1>4. ASSUME NEW k \in Nat, k + 1 <= n
      PROVE  First(k) \in Seq(Row) /\ First(k + 1) = Append(First(k), R[k + 1])
  <2> DEFINE a == SubSeq(R, 1, k)
             e == R[k + 1]
  <2>1. a \in Seq(Row) /\ e \in Row
    BY <1>1, <1>4
  <2>2. SubSeq(R, 1, k + 1) = a \o <<e>>
    <3>1. k + 1 \in 1 .. Len(R) /\ (k + 1) - 1 = k
      BY <1>1, <1>4
    <3>2. SubSeq(R, 1, k + 1) = SubSeq(R, 1, (k + 1) - 1) \o <<R[k + 1]>>
      BY <1>1, <3>1, SubSeqRecursiveSecond
    <3>. QED BY <3>1, <3>2
  <2> HIDE DEF a, e
  <2>3. S \o a \in Seq(Row)
    BY <2>1
  <2>4. S \o (a \o <<e>>) = (S \o a) \o <<e>>
    BY <2>1, ConcatAssociative
  <2>5. (S \o a) \o <<e>> = Append(S \o a, e)
    BY <2>1, <2>3, AppendIsConcat
  <2>. QED BY <2>2, <2>3, <2>4, <2>5 DEF a, e
<1> HIDE DEF First
<1> DEFINE N == {k \in Nat : k <= n => AccOK(h[k], First(k), map)}
<1>5. 0 \in N
  BY <1>2, <1>3 DEF AddTable
<1>6. ASSUME NEW k \in Nat, k \in N PROVE k + 1 \in N
  <2>1. SUFFICES ASSUME k + 1 <= n PROVE AccOK(h[k + 1], First(k + 1), map)
    OBVIOUS
  <2>2. k + 1 \in 1 .. n /\ (k + 1) - 1 = k /\ k <= n
    BY <1>1, <2>1
  <2>3. AccOK(h[k], First(k), map) /\ First(k) \in Seq(Row)
    BY <1>4, <1>6, <2>1, <2>2
  <2>4. h[k + 1] = AddRow(h[k], b, b.sel[k + 1], map)
    BY <1>2, <2>2 DEF AddTable
  <2>5. Selected(b, b.sel[k + 1]) /\ R[k + 1] = Cells(b, b.sel[k + 1])
    BY <1>1, <2>2
  <2>6. AccOK(AddRow(h[k], b, b.sel[k + 1], map), Append(First(k), Cells(b, b.sel[k + 1])), map)
    BY <2>3, <2>5, AddRowOK
  <2>7. First(k + 1) = Append(First(k), R[k + 1])
    BY <1>4, <2>1
  <2>. QED BY <2>4, <2>5, <2>6, <2>7
<1> HIDE DEF N
<1>7. n \in N
  BY <1>1, <1>5, <1>6, SetInduction
<1>8. First(n) = Cat(S, R)
  <2>1. SubSeq(R, 1, n) = R
    BY <1>1, SubSeqFull
  <2>. QED BY <2>1 DEF First, Cat
<1>9. AccOK(h[n], First(n), map)
  BY <1>1, <1>7 DEF N
<1>. QED BY <1>2, <1>8, <1>9 DEF R

\* A new id changes nothing for the ids there were.
LEMMA Reindexed ==
    ASSUME NEW t, NEW gr, NEW S, NEW map, IndexOK(t, gr, S, map), IsDict(map, Str),
           NEW e, IsDict(e, Str), Extends(e, map)
    PROVE  IndexOK(t, gr, S, e)
<1>1. Len(map) \in Nat /\ Len(e) \in Nat /\ Len(map) <= Len(e)
  BY DEF IsDict, Extends
<1>2. ASSUME NEW id \in 0 .. Len(map) - 1 PROVE id \in 0 .. Len(e) - 1 /\ At(e, id) = At(map, id)
  <2>1. id + 1 \in 1 .. Len(map) /\ id \in 0 .. Len(e) - 1
    BY <1>1
  <2>. QED BY <2>1 DEF At, Extends
<1>3. \A id \in DOMAIN t.index : id \in 0 .. Len(map) - 1
  BY DEF IndexOK
<1>4. \A id \in DOMAIN t.index : id \in 0 .. Len(e) - 1 /\ At(e, id) = At(map, id)
  BY <1>2, <1>3
<1>. QED BY <1>4 DEF IndexOK

\* canonicalize_str_key_to_i32 gives every live key of the batch an id and
\* keeps the ids given before.
LEMMA CanonMapOK ==
    ASSUME NEW b, Batch(b), NEW map, IsDict(map, Str)
    PROVE  Known(b, CanonMap(b, map)) /\ Extends(CanonMap(b, map), map)
<1> DEFINE cells == [k \in DOMAIN b.sel |-> KeyOf(b, b.sel[k])]
           n == Len(b.sel)
<1>1. /\ DOMAIN b.sel = 1 .. n /\ n \in Nat
      /\ \A k \in 1 .. n : Selected(b, b.sel[k])
  BY BatchRowsType
<1>2. \A k \in 1 .. n : KeyOf(b, b.sel[k]) \in Str \union {NULL}
  BY <1>1, CellsRow
<1> HIDE DEF n
<1>3. cells \in Seq(Str \union {NULL}) /\ Len(cells) = n /\ \A k \in 1 .. n : cells[k] = KeyOf(b, b.sel[k])
  BY <1>1, <1>2
<1>4. CanonMap(b, map) = InternAll(map, cells)
  BY DEF CanonMap
<1> HIDE DEF cells
<1>5. Interned(InternAll(map, cells), map, cells, Str)
  BY <1>3, NullNoString, InternAllExact
<1>6. ASSUME NEW p \in ToSet(b.sel), KeyOf(b, p) # NULL PROVE KeyOf(b, p) \in Strings(CanonMap(b, map))
  <2>1. PICK k \in 1 .. n : p = b.sel[k]
    BY <1>1 DEF ToSet
  <2>. QED BY <1>3, <1>4, <1>5, <1>6, <2>1 DEF Interned
<1>. QED BY <1>4, <1>5, <1>6 DEF Interned, Known

(***************************************************************************)
(* The live rows of the first k batches.                                   *)
(***************************************************************************)
\* The live rows of the first k batches.
Before(bs, k) == LiveRows(SubSeq(bs, 1, k))

\* The live rows batch by batch.
LEMMA BeforeNext ==
    ASSUME NEW bs \in BuildInputs \union ProbeInputs
    PROVE  /\ Len(bs) \in Nat
           /\ Before(bs, 0) = <<>> /\ Before(bs, Len(bs)) = LiveRows(bs)
           /\ \A k \in 0 .. Len(bs) : Before(bs, k) \in Seq(Row)
           /\ \A k \in 0 .. Len(bs) - 1 :
                 Before(bs, k + 1) = Cat(Before(bs, k), BatchRows(bs[k + 1]))
<1> DEFINE n == Len(bs)
           rows(k) == [i \in 1 .. k |-> BatchRows(bs[i])]
<1>1. bs \in Seq(ToSet(bs)) /\ n \in Nat /\ \A i \in 1 .. n : Batch(bs[i])
  BY Batches
<1>2. \A i \in 1 .. n : BatchRows(bs[i]) \in Seq(Row)
  BY <1>1, BatchRowsType
<1>3. ASSUME NEW k \in 0 .. n PROVE Before(bs, k) = FlattenSeq(rows(k))
  <2> DEFINE f == SubSeq(bs, 1, k)
  <2>1. DOMAIN f = 1 .. k /\ \A i \in 1 .. k : f[i] = bs[i]
    BY <1>1
  <2> HIDE DEF f
  <2>2. [i \in DOMAIN f |-> BatchRows(f[i])] = rows(k)
    BY <2>1
  <2>3. LiveRows(f) = FlattenSeq([i \in DOMAIN f |-> BatchRows(f[i])])
    BY DEF LiveRows, BatchRows
  <2>. QED BY <2>2, <2>3 DEF Before, f
<1>4. ASSUME NEW k \in 0 .. n PROVE SeqsOf(rows(k), Row) /\ Len(rows(k)) = k
  BY <1>1, <1>2 DEF SeqsOf
<1>5. Before(bs, 0) = <<>>
  <2>1. rows(0) = <<>>
    OBVIOUS
  <2>2. 0 \in 0 .. n
    BY <1>1
  <2>. QED BY <1>3, <2>1, <2>2, FlattenEmpty
<1>6. SubSeq(bs, 1, n) = bs
  BY <1>1, SubSeqFull
<1>7. ASSUME NEW k \in 0 .. n - 1
      PROVE  Before(bs, k + 1) = Cat(Before(bs, k), BatchRows(bs[k + 1]))
  <2> DEFINE e == BatchRows(bs[k + 1])
  <2>1. k \in 0 .. n /\ k + 1 \in 0 .. n /\ k + 1 \in 1 .. n /\ k \in Nat
    BY <1>1
  <2>2. rows(k) \in Seq(Seq(Row)) /\ e \in Seq(Row) /\ Len(rows(k)) = k
    BY <1>2, <1>4, <2>1 DEF SeqsOf
  <2>3. rows(k + 1) = Append(rows(k), e)
    <3>1. DOMAIN Append(rows(k), e) = 1 .. k + 1 /\ Append(rows(k), e)[k + 1] = e
          /\ \A i \in 1 .. k : Append(rows(k), e)[i] = rows(k)[i]
      BY <2>1, <2>2
    <3>2. \A i \in 1 .. k + 1 : i \in 1 .. k \/ i = k + 1
      BY <2>1
    <3>. QED BY <2>1, <3>1, <3>2
  <2> HIDE DEF e, rows
  <2>4. FlattenSeq(Append(rows(k), e)) = Cat(FlattenSeq(rows(k)), e)
    BY <2>2, FlattenAppend
  <2>. QED BY <1>3, <2>1, <2>3, <2>4 DEF e
<1>8. ASSUME NEW k \in 0 .. n PROVE Before(bs, k) \in Seq(Row)
  <2> HIDE DEF rows
  <2>1. rows(k) \in Seq(Seq(Row)) /\ <<>> \in Seq(Seq(Row))
    BY <1>4 DEF SeqsOf
  <2>2. FlattenSeq(rows(k)) \in Seq(Row)
    BY <2>1, FlattenConcat
  <2>. QED BY <1>3, <2>2
<1>. QED BY <1>1, <1>5, <1>6, <1>7, <1>8 DEF Before

(***************************************************************************)
(* The pairs of a probe batch.                                             *)
(***************************************************************************)
\* The pairs a batch may have with a store of n rows.
PairSet(b, n) == ToSet(b.sel) \X (0 .. n)

\* The build half of an output row; none for kNullBuildRow.
Built(s, r) == IF r = kNullBuildRow THEN <<NULL, NULL>> ELSE Shown(s, r)

\* The output row of a pair.
Render(b, s) == [q \in PairSet(b, Len(s.rows)) |-> Cells(b, q[1]) \o Built(s, q[2])]

\* What the reference makes of probe rows.
RowOf(x, S, ty) == JoinRow(x, S, <<1>>, <<1>>, ty, 2)
RowsOf(R, S, ty) == JoinReference(R, S, <<1>>, <<1>>, ty, 2)

\* RowOf as a function of the probe row.
RowFn(S, ty) == [x \in Row |-> RowOf(x, S, ty)]

\* What the reference makes of one probe row, by the places of its string.
LEMMA RowOfIs ==
    ASSUME NEW S, NEW x, NEW ty
    PROVE  RowOf(x, S, ty)
             = IF x[1] # NULL /\ Places(S, x[1]) # <<>>
                 THEN [i \in DOMAIN Places(S, x[1]) |-> x \o S[Places(S, x[1])[i]]]
                 ELSE IF ty = "Left" THEN <<x \o <<NULL, NULL>>>> ELSE <<>>
<1>1. KeyTuple(x, <<1>>) = <<x[1]>> /\ (NullKey(<<x[1]>>) <=> x[1] = NULL)
  BY KeyOfRow
<1>2. Nulls(2) = <<NULL, NULL>>
  BY DEF Nulls
<1>. QED BY <1>1, <1>2 DEF RowOf, JoinRow, Places

\* That is a sequence of rows.
LEMMA RowOfType ==
    ASSUME NEW S \in Seq(Row), NEW x \in Row, NEW ty
    PROVE  RowOf(x, S, ty) \in Seq(Row)
<1> DEFINE v == x[1]
           m == Places(S, v)
<1>1. PlacesOf(m, S, v)
  BY PlacesExact
<1>2. m \in Seq(Nat) /\ \A i \in 1 .. Len(m) : m[i] \in 1 .. Len(S)
  BY <1>1 DEF PlacesOf
<1>3. RowOf(x, S, ty) = IF v # NULL /\ m # <<>> THEN [i \in DOMAIN m |-> x \o S[m[i]]]
                        ELSE IF ty = "Left" THEN <<x \o <<NULL, NULL>>>> ELSE <<>>
  BY RowOfIs
<1> HIDE DEF m, v
<1>4. \A k \in 1 .. Len(S) : x \o S[k] \in Row
  <2>1. ASSUME NEW k \in 1 .. Len(S) PROVE x \o S[k] \in Row
    <3>1. S[k] \in Row
      BY ElementOfSeq
    <3>. QED BY <3>1, ConcatProperties DEF Row
  <2>. QED BY <2>1
<1>5. x \o <<NULL, NULL>> \in Row
  <2>1. <<NULL, NULL>> \in Seq(Val)
    BY DEF Val
  <2>. QED BY <2>1, ConcatProperties DEF Row
<1>6. [i \in DOMAIN m |-> x \o S[m[i]]] \in Seq(Row)
  <2>1. DOMAIN m = 1 .. Len(m) /\ Len(m) \in Nat
    BY <1>2
  <2>2. \A i \in 1 .. Len(m) : x \o S[m[i]] \in Row
    BY <1>2, <1>4
  <2>. QED BY <2>1, <2>2, SMTT(30)
<1>7. <<x \o <<NULL, NULL>>>> \in Seq(Row) /\ <<>> \in Seq(Row)
  <2> DEFINE y == x \o <<NULL, NULL>>
  <2>1. y \in Row
    BY <1>5
  <2> HIDE DEF y
  <2>2. <<y>> \in Seq(Row) /\ <<>> \in Seq(Row)
    BY <2>1
  <2>. QED BY <2>2 DEF y
<1>. QED BY <1>3, <1>6, <1>7

\* The reference answers probe row by probe row.
LEMMA RefRowsIs ==
    ASSUME NEW S \in Seq(Row), NEW R \in Seq(Row), NEW ty
    PROVE  /\ RowsOf(R, S, ty) = FlattenSeq(MapSeq(RowFn(S, ty), R))
           /\ Fn(RowFn(S, ty), Row, Seq(Row))
           /\ MapSeq(RowFn(S, ty), R) \in Seq(Seq(Row)) /\ RowsOf(R, S, ty) \in Seq(Row)
<1> DEFINE f == RowFn(S, ty)
<1>1. Fn(f, Row, Seq(Row)) /\ \A x \in Row : f[x] = RowOf(x, S, ty)
  BY RowOfType DEF Fn, RowFn
<1>2. DOMAIN R = 1 .. Len(R) /\ \A k \in 1 .. Len(R) : R[k] \in Row
  OBVIOUS
<1> HIDE DEF f
<1>3. [r \in DOMAIN R |-> RowOf(R[r], S, ty)] = MapSeq(f, R)
  BY <1>1, <1>2 DEF MapSeq
<1>4. Mapped(MapSeq(f, R), f, R, Seq(Row))
  BY <1>1, MapType
<1>5. MapSeq(f, R) \in Seq(Seq(Row)) /\ <<>> \in Seq(Seq(Row))
  BY <1>4 DEF Mapped
<1>6. RowsOf(R, S, ty) = FlattenSeq([r \in DOMAIN R |-> RowOf(R[r], S, ty)])
  BY DEF RowsOf, JoinReference, RowOf
<1>7. FlattenSeq(MapSeq(f, R)) \in Seq(Row)
  BY <1>5, FlattenConcat
<1>. QED BY <1>1, <1>3, <1>5, <1>6, <1>7 DEF f

\* The reference answers for some rows and then for the others.
LEMMA RefConcat ==
    ASSUME NEW S \in Seq(Row), NEW P \in Seq(Row), NEW R \in Seq(Row), NEW ty
    PROVE  RowsOf(Cat(P, R), S, ty) = Cat(RowsOf(P, S, ty), RowsOf(R, S, ty))
<1> DEFINE f == RowFn(S, ty)
<1>1. Cat(P, R) \in Seq(Row)
  BY CatType
<1>2. /\ RowsOf(P, S, ty) = FlattenSeq(MapSeq(f, P)) /\ MapSeq(f, P) \in Seq(Seq(Row))
      /\ RowsOf(R, S, ty) = FlattenSeq(MapSeq(f, R)) /\ MapSeq(f, R) \in Seq(Seq(Row))
      /\ RowsOf(Cat(P, R), S, ty) = FlattenSeq(MapSeq(f, Cat(P, R)))
      /\ Fn(f, Row, Seq(Row))
  BY <1>1, RefRowsIs
<1> HIDE DEF f
<1>3. MapSeq(f, Cat(P, R)) = Cat(MapSeq(f, P), MapSeq(f, R))
  BY <1>2, MapConcat
<1>4. FlattenSeq(Cat(MapSeq(f, P), MapSeq(f, R))) = Cat(FlattenSeq(MapSeq(f, P)), FlattenSeq(MapSeq(f, R)))
  BY <1>2, FlattenConcat
<1>. QED BY <1>2, <1>3, <1>4

\* f gives a pair its output row.
Renders(f, b, S) ==
    /\ Fn(f, PairSet(b, Len(S)), Row)
    /\ \A p \in ToSet(b.sel) : f[<<p, kNullBuildRow>>] = Cells(b, p) \o <<NULL, NULL>>
    /\ \A p \in ToSet(b.sel) : \A r \in 1 .. Len(S) : f[<<p, r>>] = Cells(b, p) \o S[r]

\* What the output row of each kind of pair is.
LEMMA RenderFn ==
    ASSUME NEW s, NEW S \in Seq(Row), StoreOK(s, S), NEW b, Batch(b)
    PROVE  Renders(Render(b, s), b, S)
<1> DEFINE n == Len(S)
           f == Render(b, s)
<1>1. n \in Nat /\ Len(s.rows) = n /\ \A r \in 1 .. n : Shown(s, r) = S[r]
  BY DEF StoreOK
<1>2. ASSUME NEW r \in 0 .. n PROVE Built(s, r) \in Row
  <2>1. CASE r = 0
    <3>1. <<NULL, NULL>> \in Seq(Val)
      BY DEF Val
    <3>. QED BY <2>1, <3>1 DEF Built, kNullBuildRow, Row
  <2>2. CASE r # 0
    <3>1. r \in 1 .. Len(S)
      BY <1>1, <2>2
    <3>2. S[r] \in Row
      BY <3>1, ElementOfSeq
    <3>. QED BY <1>1, <2>2, <3>1, <3>2 DEF Built, kNullBuildRow
  <2>. QED BY <2>1, <2>2
<1>3. ASSUME NEW p \in ToSet(b.sel) PROVE Cells(b, p) \in Row
  <2>1. Selected(b, p)
    BY DEF Selected
  <2>. QED BY <2>1, CellsRow
<1>4. ASSUME NEW q \in PairSet(b, n) PROVE Cells(b, q[1]) \o Built(s, q[2]) \in Row
  <2>1. q[1] \in ToSet(b.sel) /\ q[2] \in 0 .. n
    BY DEF PairSet
  <2> DEFINE u == Cells(b, q[1])
             w == Built(s, q[2])
  <2>2. u \in Seq(Val) /\ w \in Seq(Val)
    BY <1>2, <1>3, <2>1 DEF Row
  <2> HIDE DEF u, w
  <2>3. u \o w \in Seq(Val)
    BY <2>2, ConcatProperties
  <2>. QED BY <2>3 DEF u, w, Row
<1>5. Fn(f, PairSet(b, n), Row)
  BY <1>1, <1>4 DEF Fn, Render
<1>6. \A q \in PairSet(b, n) : f[q] = Cells(b, q[1]) \o Built(s, q[2])
  BY <1>1 DEF Render
<1> HIDE DEF f
<1>7. ASSUME NEW p \in ToSet(b.sel), NEW r \in 0 .. n
      PROVE  f[<<p, r>>] = Cells(b, p) \o Built(s, r)
  <2>1. <<p, r>> \in PairSet(b, n) /\ <<p, r>>[1] = p /\ <<p, r>>[2] = r
    BY DEF PairSet
  <2> DEFINE q == <<p, r>>
  <2>2. q \in PairSet(b, n) /\ q[1] = p /\ q[2] = r
    BY <2>1
  <2> HIDE DEF q
  <2>3. f[q] = Cells(b, p) \o Built(s, r)
    BY Zenon, <1>6, <2>2
  <2>. QED BY <2>3 DEF q
<1>8. Built(s, kNullBuildRow) = <<NULL, NULL>> /\ kNullBuildRow \in 0 .. n
  BY <1>1 DEF Built, kNullBuildRow
<1>9. \A r \in 1 .. n : Built(s, r) = S[r] /\ r \in 0 .. n
  BY <1>1 DEF Built, kNullBuildRow
<1>10. \A p \in ToSet(b.sel) : f[<<p, kNullBuildRow>>] = Cells(b, p) \o <<NULL, NULL>>
  BY Zenon, <1>7, <1>8
<1>11. \A p \in ToSet(b.sel) : \A r \in 1 .. n : f[<<p, r>>] = Cells(b, p) \o S[r]
  BY Zenon, <1>7, <1>9
<1>. QED BY <1>5, <1>10, <1>11 DEF f, Renders

\* One probe row: its pairs, shown, are what the reference makes of it.
PairsShown(ps, b, s, n, R) ==
    /\ ps \in Seq(PairSet(b, n))
    /\ MapSeq(Render(b, s), ps) = R

\* The pairs of a probe row, shown, are what the reference makes of it.
LEMMA PairsOfOK ==
    ASSUME NEW S \in Seq(Row), StoreOK(store, S), NEW map, IndexOK(ht, groupRows, S, map),
           NEW b, NEW p, Selected(b, p), Known(b, map)
    PROVE  PairsShown(PairsOf(b, p, map), b, store, Len(S), RowOf(Cells(b, p), S, type))
<1> DEFINE x == Cells(b, p)
           n == Len(S)
           f == Render(b, store)
           c == Canon(b, p, map)
           g == Find(ht, c)
           m == Places(S, x[1])
<1>1. /\ x \in Row /\ x[1] = KeyOf(b, p) /\ x[1] \in Str \union {NULL} /\ b.rows[p].valid \in BOOLEAN
      /\ KeyOf(b, p) = NULL <=> ~b.rows[p].valid
  BY CellsRow
<1>2. IsDict(map, Str) /\ (x[1] # NULL => x[1] \in Strings(map)) /\ p \in ToSet(b.sel) /\ Batch(b)
  BY <1>1 DEF Known, Selected
<1>3. /\ f[<<p, kNullBuildRow>>] = x \o <<NULL, NULL>>
      /\ \A r \in 1 .. n : f[<<p, r>>] = x \o S[r]
  <2> HIDE DEF x, f, n
  <2>1. Renders(Render(b, store), b, S)
    BY <1>2, RenderFn
  <2>2. Renders(f, b, S)
    BY <2>1 DEF f
  <2>. QED BY <1>2, <2>2 DEF Renders, x, n
<1>4. PlacesOf(m, S, x[1])
  BY PlacesExact
<1>5. m \in Seq(Nat) /\ \A i \in 1 .. Len(m) : m[i] \in 1 .. n
  BY <1>4 DEF PlacesOf
<1>6. RowOf(x, S, type) = IF x[1] # NULL /\ m # <<>> THEN [i \in DOMAIN m |-> x \o S[m[i]]]
                          ELSE IF type = "Left" THEN <<x \o <<NULL, NULL>>>> ELSE <<>>
  BY RowOfIs
<1>7. n \in Nat
  OBVIOUS
<1>8. /\ \A id \in DOMAIN ht.index : id \in 0 .. Len(map) - 1 /\ ht.index[id] \in 0 .. ht.used - 1
      /\ \A id \in DOMAIN ht.index :
            groupRows[ht.index[id]] = Places(S, At(map, id)) /\ groupRows[ht.index[id]] # <<>>
      /\ ht.used \in Nat
  BY DEF IndexOK
<1>9. PairsOf(b, p, map) = IF g # kNoGroup THEN [i \in DOMAIN groupRows[g] |-> <<p, groupRows[g][i]>>]
                           ELSE IF type = "Left" THEN <<<<p, kNullBuildRow>>>> ELSE <<>>
  BY DEF PairsOf
<1>10. x[1] # NULL => c \in 0 .. Len(map) - 1 /\ At(map, c) = x[1]
  <2>1. SUFFICES ASSUME x[1] # NULL PROVE c \in 0 .. Len(map) - 1 /\ At(map, c) = x[1]
    OBVIOUS
  <2>2. c = CodeOf(map, x[1]) /\ x[1] \in Strings(map)
    BY <1>1, <1>2, <2>1 DEF Canon
  <2> HIDE DEF x, c
  <2>. QED BY <1>2, <2>2, CodeAt
<1>11. x[1] = NULL => c = NULL
  BY <1>1 DEF Canon
<1> HIDE DEF x, f, c, m, n
<1>12. CASE c \in DOMAIN ht.index
  <2>1. g = ht.index[c] /\ g # kNoGroup
    BY <1>8, <1>12 DEF Find, kNoGroup
  <2>2. x[1] # NULL
    <3>1. c \in Int
      BY <1>8, <1>12
    <3>. QED BY <1>11, <3>1, JoinAssumption
  <2>3. groupRows[g] = m /\ m # <<>>
    BY <1>8, <1>10, <1>12, <2>1, <2>2 DEF m
  <2> HIDE DEF g
  <2> DEFINE ps == [i \in DOMAIN m |-> <<p, m[i]>>]
  <2>4. PairsOf(b, p, map) = ps
    BY <1>9, <2>1, <2>3
  <2>5. DOMAIN m = 1 .. Len(m) /\ Len(m) \in Nat
    BY <1>5
  <2>6. \A i \in 1 .. Len(m) : <<p, m[i]>> \in PairSet(b, n)
    BY <1>2, <1>5, <1>7 DEF PairSet
  <2>7. ps \in Seq(PairSet(b, n))
    BY <2>5, <2>6
  <2>8. MapSeq(f, ps) = [i \in DOMAIN m |-> x \o S[m[i]]]
    <3>1. \A i \in DOMAIN m : f[ps[i]] = x \o S[m[i]]
      BY <1>3, <1>5, <2>5
    <3>2. DOMAIN ps = DOMAIN m
      OBVIOUS
    <3> HIDE DEF ps
    <3>3. MapSeq(f, ps) = [i \in DOMAIN m |-> f[ps[i]]]
      BY <3>2 DEF MapSeq
    <3>4. [i \in DOMAIN m |-> f[ps[i]]] = [i \in DOMAIN m |-> x \o S[m[i]]]
      BY Zenon, <3>1
    <3>. QED BY <3>3, <3>4
  <2>9. RowOf(x, S, type) = [i \in DOMAIN m |-> x \o S[m[i]]]
    BY <1>6, <2>2, <2>3
  <2> HIDE DEF ps
  <2>10. MapSeq(f, ps) = RowOf(x, S, type)
    BY Zenon, <2>8, <2>9
  <2>. QED BY <2>4, <2>7, <2>10 DEF PairsShown, f, x, n
<1>13. CASE c \notin DOMAIN ht.index
  <2>1. g = kNoGroup
    BY <1>13 DEF Find
  <2>2. x[1] = NULL \/ m = <<>>
    <3>1. SUFFICES ASSUME x[1] # NULL PROVE m = <<>>
      OBVIOUS
    <3>2. c \in 0 .. Len(map) - 1 /\ At(map, c) = x[1]
      BY <1>10, <3>1
    <3>3. Places(S, At(map, c)) = <<>>
      BY <1>2, <1>13, <3>2, NoIdNoPlaces
    <3>. QED BY <3>2, <3>3 DEF m
  <2>3. CASE type = "Left"
    <3> DEFINE q == <<p, kNullBuildRow>>
    <3>1. PairsOf(b, p, map) = <<q>>
      BY <1>9, <2>1, <2>3
    <3>2. q \in PairSet(b, n)
      BY <1>2, <1>7 DEF PairSet, kNullBuildRow
    <3>3. f[q] = x \o <<NULL, NULL>>
      BY <1>3
    <3> HIDE DEF q
    <3>4. <<q>> \in Seq(PairSet(b, n)) /\ MapSeq(f, <<q>>) = <<f[q]>>
      BY <3>2 DEF MapSeq
    <3>5. RowOf(x, S, type) = <<x \o <<NULL, NULL>>>>
      BY <1>6, <2>2, <2>3
    <3>. QED BY <3>1, <3>3, <3>4, <3>5 DEF PairsShown, f, x, n
  <2>4. CASE type # "Left"
    <3>1. PairsOf(b, p, map) = <<>>
      BY <1>9, <2>1, <2>4
    <3>2. <<>> \in Seq(PairSet(b, n)) /\ MapSeq(f, <<>>) = <<>>
      BY DEF MapSeq
    <3>3. RowOf(x, S, type) = <<>>
      BY <1>6, <2>2, <2>4
    <3>. QED BY <3>1, <3>2, <3>3 DEF PairsShown, f, x, n
  <2>. QED BY <2>3, <2>4
<1>. QED BY <1>12, <1>13

(***************************************************************************)
(* The invariant.                                                          *)
(***************************************************************************)
\* The build rows drained so far.
Drawn == IF phase = "closed" THEN <<>> ELSE Before(buildIn, buildPos)

\* What the reference makes of the probe rows pulled so far.
Answered == RowsOf(Before(probeIn, probePos), LiveRows(buildIn), type)

\* The pairs in progress, shown, and those not handed out yet.
Pending == MapSeq(Render(probeIn[probePos], store), pairs)
Rest    == SubSeq(Pending, cursor + 1, Len(Pending))

\* The inputs are those of the constants.
Inputs == buildIn \in BuildInputs /\ probeIn \in ProbeInputs /\ type \in JoinTypes

\* The cursors are in range and opened_ says what the phase says.
Cursors ==
    /\ buildPos \in 0 .. Len(buildIn) /\ probePos \in 0 .. Len(probeIn) /\ cursor \in Nat
    /\ phase \in {"closed", "building", "ready", "failed"} /\ opened = (phase # "closed")
    /\ probeDone \in BOOLEAN

\* The store and the table hold the build rows drained so far, by the ids
\* given so far.
BuildSide ==
    /\ IsDict(idmap, Str)
    /\ StoreOK(store, Drawn)
    /\ IndexOK(ht, groupRows, Drawn, idmap)

\* Outside next() nothing is handed out or in progress.
Idle == phase # "ready" => out = <<>> /\ pairs = <<>> /\ cursor = 0 /\ ~probeDone

\* The pairs in progress belong to the probe batch last pulled.
PairsOK ==
    /\ pairs # <<>> =>
          probePos > 0 /\ pairs \in Seq(PairSet(probeIn[probePos], Len(store.rows)))
    /\ ~probeDone => cursor <= Len(pairs)
    /\ probeDone => pairs = <<>> /\ probePos = Len(probeIn)

\* The rows handed out and those of the pairs in progress are the answer for
\* the probe rows pulled.
OutOK ==
    phase = "ready" =>
        buildPos = Len(buildIn) /\ out \in Seq(Row) /\ Cat(out, Rest) = Answered

\* The inductive invariant.
JoinInv == Inputs /\ Cursors /\ BuildSide /\ Idle /\ PairsOK /\ OutOK

\* The pairs of a probe batch, shown, are what the reference makes of its
\* live rows.
LEMMA BatchPairsOK ==
    ASSUME NEW S \in Seq(Row), StoreOK(store, S), NEW map, IndexOK(ht, groupRows, S, map),
           NEW b, Batch(b), Known(b, map)
    PROVE  PairsShown(FlattenSeq([k \in DOMAIN b.sel |-> PairsOf(b, b.sel[k], map)]),
                      b, store, Len(S), RowsOf(BatchRows(b), S, type))
<1> DEFINE n == Len(b.sel)
           A == PairSet(b, Len(S))
           f == Render(b, store)
           jr == RowFn(S, type)
           R == BatchRows(b)
           ss == [k \in DOMAIN b.sel |-> PairsOf(b, b.sel[k], map)]
<1>1. /\ R \in Seq(Row) /\ Len(R) = n /\ n \in Nat /\ DOMAIN b.sel = 1 .. n
      /\ \A k \in 1 .. n : Selected(b, b.sel[k]) /\ R[k] = Cells(b, b.sel[k])
  BY BatchRowsType
<1>2. RowsOf(R, S, type) = FlattenSeq(MapSeq(jr, R))
  BY <1>1, RefRowsIs
<1>3. Renders(f, b, S)
  BY RenderFn
<1>4. Fn(f, A, Row)
  BY <1>3 DEF Renders
<1> HIDE DEF n, R, f, A, jr
<1>5. ASSUME NEW k \in 1 .. n
      PROVE  /\ PairsOf(b, b.sel[k], map) \in Seq(A)
             /\ MapSeq(f, PairsOf(b, b.sel[k], map)) = RowOf(R[k], S, type)
  <2>1. PairsShown(PairsOf(b, b.sel[k], map), b, store, Len(S), RowOf(Cells(b, b.sel[k]), S, type))
    BY <1>1, PairsOfOK
  <2>. QED BY <1>1, <2>1 DEF PairsShown, f, A
<1>6. SeqsOf(ss, A) /\ DOMAIN ss = 1 .. n /\ \A k \in 1 .. n : ss[k] = PairsOf(b, b.sel[k], map)
  BY <1>1, <1>5 DEF SeqsOf
<1> HIDE DEF ss
<1>7. MapSeq(f, FlattenSeq(ss)) = FlattenSeq(MapEach(f, ss))
  BY <1>4, <1>6, MapFlatten
<1>8. MapEach(f, ss) = MapSeq(jr, R)
  <2>1. \A k \in 1 .. n : R[k] \in Row
    BY <1>1
  <2>2. \A k \in 1 .. n : jr[R[k]] = RowOf(R[k], S, type)
    BY <2>1 DEF jr, RowFn
  <2>3. \A k \in 1 .. n : MapSeq(f, ss[k]) = jr[R[k]]
    BY <1>5, <1>6, <2>2
  <2>4. DOMAIN R = 1 .. n
    BY <1>1
  <2>. QED BY <1>6, <2>3, <2>4 DEF MapSeq, MapEach
<1>9. FlattenSeq(ss) \in Seq(A)
  <2>1. ss \in Seq(Seq(A)) /\ <<>> \in Seq(Seq(A))
    BY <1>6 DEF SeqsOf
  <2>. QED BY <2>1, FlattenConcat
<1>10. PairsShown(FlattenSeq(ss), b, store, Len(S), FlattenSeq(MapSeq(jr, R)))
  BY <1>7, <1>8, <1>9 DEF PairsShown, f, A
<1>. QED BY <1>2, <1>10 DEF ss, R

\* Past the last pair nothing is left.
LEMMA NothingLeft ==
    ASSUME NEW R, Len(R) \in Nat, NEW c \in Nat, c >= Len(R)
    PROVE  SubSeq(R, c + 1, Len(R)) = <<>>
BY SubSeqEmpty

\* A closed join, and one that has just been opened.
LEMMA FreshOK ==
    /\ IsDict(<<>>, Str)
    /\ StoreOK([dict |-> <<>>, rows |-> <<>>], <<>>)
    /\ IndexOK(NewTable, [g \in {} |-> <<>>], <<>>, <<>>)
<1>1. IsDict(<<>>, Str)
  BY DEF IsDict
<1>2. StoreOK([dict |-> <<>>, rows |-> <<>>], <<>>)
  BY <1>1 DEF StoreOK
<1>3. IndexOK(NewTable, [g \in {} |-> <<>>], <<>>, <<>>)
  BY DEF IndexOK, NewTable
<1>. QED BY <1>1, <1>2, <1>3

\* No pairs show no rows.
LEMMA NothingShown ==
    ASSUME NEW f
    PROVE  MapSeq(f, <<>>) = <<>> /\ \A c \in Nat : SubSeq(MapSeq(f, <<>>), c + 1, Len(MapSeq(f, <<>>))) = <<>>
<1>1. MapSeq(f, <<>>) = <<>>
  BY DEF MapSeq
<1>2. ASSUME NEW c \in Nat PROVE SubSeq(<<>>, c + 1, Len(<<>>)) = <<>>
  <2>1. Len(<<>>) = 0
    OBVIOUS
  <2>. QED BY <2>1, NothingLeft
<1>. QED BY <1>1, <1>2

\* Without pairs in progress there is nothing left to hand out.
LEMMA RestEmpty ==
    ASSUME cursor \in Nat, pairs = <<>>
    PROVE  Rest = <<>>
BY NothingShown DEF Rest, Pending

\* A join that was never opened satisfies the invariant.
LEMMA InitInv == Init => JoinInv
<1>1. SUFFICES ASSUME Init PROVE JoinInv
  OBVIOUS
<1>2. Inputs
  BY <1>1 DEF Init, Inputs
<1>3. Len(buildIn) \in Nat /\ Len(probeIn) \in Nat
  BY <1>2, BeforeNext DEF Inputs
<1>4. Cursors /\ Idle /\ PairsOK /\ OutOK
  <2>1. /\ buildPos = 0 /\ probePos = 0 /\ opened = FALSE /\ phase = "closed"
        /\ pairs = <<>> /\ cursor = 0 /\ probeDone = FALSE /\ out = <<>>
    BY <1>1 DEF Init
  <2>2. buildPos \in 0 .. Len(buildIn) /\ probePos \in 0 .. Len(probeIn)
    BY <1>3, <2>1
  <2>3. opened = (phase # "closed") /\ cursor \in Nat /\ cursor <= Len(pairs)
    <3>1. opened = (phase # "closed")
      BY Zenon, <2>1
    <3>2. Len(<<>>) = 0
      OBVIOUS
    <3>. QED BY <2>1, <3>1, <3>2
  <2>4. Cursors
    BY <2>1, <2>2, <2>3 DEF Cursors
  <2>5. Idle
    BY <2>1 DEF Idle
  <2>6. PairsOK
    BY <2>1, <2>3 DEF PairsOK
  <2>7. OutOK
    BY <2>1 DEF OutOK
  <2>. QED BY <2>4, <2>5, <2>6, <2>7
<1>5. BuildSide
  <2>1. Drawn = <<>>
    BY <1>1 DEF Init, Drawn
  <2>. QED BY <1>1, <2>1, FreshOK DEF Init, BuildSide
<1>. QED BY <1>2, <1>4, <1>5 DEF JoinInv

\* open() keeps the invariant: it starts from nothing.
LEMMA OpenInv == JoinInv /\ Open => JoinInv'
<1>1. SUFFICES ASSUME JoinInv, Open PROVE JoinInv'
  OBVIOUS
<1>2. Inputs'
  BY <1>1 DEF JoinInv, Inputs, Open, children
<1>3. Len(buildIn) \in Nat /\ Before(buildIn, 0) = <<>>
  BY <1>1, BeforeNext DEF JoinInv, Inputs
<1>4. Cursors' /\ Idle' /\ PairsOK' /\ OutOK'
  <2>1. /\ buildPos' = 0 /\ probePos' = probePos /\ opened' = TRUE /\ phase' = "building"
        /\ pairs' = <<>> /\ cursor' = 0 /\ probeDone' = FALSE /\ out' = <<>>
        /\ buildIn' = buildIn /\ probeIn' = probeIn
    BY <1>1 DEF Open, FreshState, children
  <2>2. buildPos' \in 0 .. Len(buildIn') /\ probePos' \in 0 .. Len(probeIn')
    BY <1>1, <1>3, <2>1 DEF JoinInv, Cursors
  <2>3. opened' = (phase' # "closed") /\ cursor' \in Nat /\ cursor' <= Len(pairs')
    <3>1. opened' = (phase' # "closed")
      BY Zenon, <2>1
    <3>2. Len(<<>>) = 0
      OBVIOUS
    <3>. QED BY <2>1, <3>1, <3>2
  <2>4. Cursors'
    BY <2>1, <2>2, <2>3 DEF Cursors
  <2>5. Idle'
    BY <2>1 DEF Idle
  <2>6. PairsOK'
    BY <2>1, <2>3 DEF PairsOK
  <2>7. OutOK'
    BY <2>1 DEF OutOK
  <2>. QED BY <2>4, <2>5, <2>6, <2>7
<1>5. BuildSide'
  <2>1. Drawn' = <<>>
    BY <1>1, <1>3 DEF Open, Drawn, children
  <2>. QED BY <1>1, <2>1, FreshOK DEF Open, FreshState, BuildSide
<1>. QED BY <1>2, <1>4, <1>5 DEF JoinInv

\* A build batch keeps it: the batch's live rows are stored and indexed.
LEMMA BuildBatchInv == JoinInv /\ BuildBatch => JoinInv'
<1>1. SUFFICES ASSUME JoinInv, BuildBatch PROVE JoinInv'
  OBVIOUS
<1> DEFINE b == buildIn[buildPos + 1]
           map == CanonMap(b, idmap)
           acc == [ht |-> ht, store |-> store, groupRows |-> groupRows]
           new == AddRows(acc, b, map)
<1>2. /\ phase = "building" /\ buildPos < Len(buildIn) /\ buildPos' = buildPos + 1
      /\ idmap' = map /\ ht' = new.ht /\ store' = new.store /\ groupRows' = new.groupRows
      /\ UNCHANGED <<buildIn, probeIn, type, probePos, opened, phase, pairs, cursor, probeDone, out>>
  BY <1>1 DEF BuildBatch, children
<1>3. Inputs'
  BY <1>1, <1>2 DEF JoinInv, Inputs
<1>4. /\ Len(buildIn) \in Nat /\ buildPos \in 0 .. Len(buildIn) - 1 /\ buildPos + 1 \in 1 .. Len(buildIn)
      /\ Before(buildIn, buildPos) \in Seq(Row)
      /\ Before(buildIn, buildPos + 1) = Cat(Before(buildIn, buildPos), BatchRows(b))
  <2>1. Len(buildIn) \in Nat /\ buildPos \in 0 .. Len(buildIn) - 1 /\ buildPos \in 0 .. Len(buildIn)
    BY <1>1, <1>2, BeforeNext DEF JoinInv, Inputs, Cursors
  <2>. QED BY <1>1, <2>1, BeforeNext DEF JoinInv, Inputs
<1>5. Cursors' /\ Idle' /\ PairsOK' /\ OutOK'
  <2>1. pairs = <<>> /\ pairs' = <<>> /\ phase' # "ready"
    BY <1>1, <1>2 DEF JoinInv, Idle
  <2>2. Cursors'
    BY <1>1, <1>2, <1>4 DEF JoinInv, Cursors
  <2>3. Idle' /\ OutOK'
    BY <1>1, <1>2 DEF JoinInv, Idle, OutOK
  <2>4. PairsOK'
    BY <1>1, <1>2, <2>1 DEF JoinInv, PairsOK
  <2>. QED BY <2>2, <2>3, <2>4
<1>6. Batch(b)
  <2>1. \A i \in 1 .. Len(buildIn) : Batch(buildIn[i])
    BY <1>1, Batches DEF JoinInv, Inputs
  <2>. QED BY <1>4, <2>1
<1>7. BuildSide'
  <2> DEFINE S == Before(buildIn, buildPos)
  <2>1. IsDict(idmap, Str) /\ StoreOK(store, S) /\ IndexOK(ht, groupRows, S, idmap)
    BY <1>1, <1>2 DEF JoinInv, BuildSide, Drawn
  <2>2. Drawn' = Cat(S, BatchRows(b))
    BY <1>2, <1>4 DEF Drawn
  <2> HIDE DEF b, S
  <2>3. Known(b, map) /\ Extends(map, idmap)
    BY <1>6, <2>1, CanonMapOK
  <2> HIDE DEF map
  <2>4. IsDict(map, Str)
    BY <2>3 DEF Known
  <2>5. IndexOK(ht, groupRows, S, map)
    BY <2>1, <2>3, <2>4, Reindexed
  <2>6. AccOK(acc, S, map) /\ S \in Seq(Row)
    BY <1>4, <2>1, <2>5 DEF AccOK, S
  <2> HIDE DEF acc
  <2>7. AccOK(new, Cat(S, BatchRows(b)), map)
    BY <1>6, <2>3, <2>6, AddRowsOK
  <2> HIDE DEF new
  <2>. QED BY <1>2, <2>2, <2>4, <2>7 DEF BuildSide, AccOK
<1>. QED BY <1>3, <1>5, <1>7 DEF JoinInv

\* An exception of the build child keeps it.
LEMMA BuildThrowsInv == JoinInv /\ BuildThrows => JoinInv'
<1>1. SUFFICES ASSUME JoinInv, BuildThrows PROVE JoinInv'
  OBVIOUS
<1>2. /\ phase = "building" /\ phase' = "failed"
      /\ UNCHANGED <<buildIn, probeIn, type, buildPos, probePos, opened, idmap, ht, groupRows,
                     store, pairs, cursor, probeDone, out>>
  BY <1>1 DEF BuildThrows, children
<1>3. Inputs' /\ Cursors'
  BY <1>1, <1>2 DEF JoinInv, Inputs, Cursors
<1>4. Idle' /\ OutOK'
  BY <1>1, <1>2 DEF JoinInv, Idle, OutOK
<1>5. PairsOK'
  BY <1>1, <1>2 DEF JoinInv, PairsOK
<1>6. BuildSide'
  <2>1. Drawn' = Drawn
    BY <1>2 DEF Drawn
  <2>. QED BY <1>1, <1>2, <2>1 DEF JoinInv, BuildSide
<1>. QED BY <1>3, <1>4, <1>5, <1>6 DEF JoinInv

\* The end of the drain keeps it: nothing is handed out or pending.
LEMMA BuildDoneInv == JoinInv /\ BuildDone => JoinInv'
<1>1. SUFFICES ASSUME JoinInv, BuildDone PROVE JoinInv'
  OBVIOUS
<1>2. /\ phase = "building" /\ phase' = "ready" /\ buildPos = Len(buildIn) /\ probePos' = 0
      /\ UNCHANGED <<buildIn, probeIn, type, buildPos, opened, idmap, ht, groupRows,
                     store, pairs, cursor, probeDone, out>>
  BY <1>1 DEF BuildDone, children
<1>3. out = <<>> /\ pairs = <<>> /\ cursor = 0 /\ ~probeDone
  BY <1>1, <1>2 DEF JoinInv, Idle
<1>4. Len(probeIn) \in Nat /\ Before(probeIn, 0) = <<>>
  BY <1>1, BeforeNext DEF JoinInv, Inputs
<1>5. Inputs' /\ Cursors'
  BY <1>1, <1>2, <1>4 DEF JoinInv, Inputs, Cursors
<1>6. Idle' /\ PairsOK'
  BY <1>2, <1>3 DEF Idle, PairsOK
<1>7. OutOK'
  <2>1. Rest' = <<>>
    <3>1. Pending' = <<>>
      BY <1>2, <1>3, NothingShown DEF Pending
    <3>2. cursor' \in Nat
      BY <1>2, <1>3
    <3>. QED BY <3>1, <3>2, NothingLeft DEF Rest
  <2>2. Answered' = <<>>
    <3>1. RowsOf(<<>>, LiveRows(buildIn), type) = <<>>
      BY FlattenEmpty DEF RowsOf, JoinReference
    <3>. QED BY <1>2, <1>4, <3>1 DEF Answered
  <2>3. Cat(<<>>, <<>>) = <<>> /\ <<>> \in Seq(Row)
    <3>1. <<>> \in Seq(Row)
      OBVIOUS
    <3>. QED BY <3>1, CatEmpty
  <2>. QED BY <1>2, <1>3, <2>1, <2>2, <2>3 DEF OutOK
<1>8. BuildSide'
  <2>1. Drawn' = Drawn
    BY <1>2 DEF Drawn
  <2>. QED BY <1>1, <1>2, <2>1 DEF JoinInv, BuildSide
<1>. QED BY <1>5, <1>6, <1>7, <1>8 DEF JoinInv

\* close() keeps it.
LEMMA CloseInv == JoinInv /\ Close => JoinInv'
<1>1. SUFFICES ASSUME JoinInv, Close PROVE JoinInv'
  OBVIOUS
<1>2. /\ phase' = "closed" /\ opened' = FALSE /\ probePos' = Len(probeIn) /\ out' = <<>>
      /\ idmap' = <<>> /\ ht' = NewTable /\ groupRows' = [g \in {} |-> <<>>]
      /\ store' = [dict |-> <<>>, rows |-> <<>>] /\ pairs' = <<>> /\ cursor' = 0 /\ probeDone' = FALSE
      /\ UNCHANGED <<buildIn, probeIn, type, buildPos>>
  BY <1>1 DEF Close, FreshState, children
<1>3. Len(probeIn) \in Nat
  BY <1>1, BeforeNext DEF JoinInv, Inputs
<1>4. Inputs' /\ Cursors'
  <2>1. Inputs'
    BY <1>1, <1>2 DEF JoinInv, Inputs
  <2>2. buildPos' \in 0 .. Len(buildIn') /\ probePos' \in 0 .. Len(probeIn')
    BY <1>1, <1>2, <1>3 DEF JoinInv, Cursors
  <2>3. opened' = (phase' # "closed") /\ cursor' \in Nat
    BY <1>2
  <2>4. Cursors'
    BY <1>2, <2>2, <2>3 DEF Cursors
  <2>. QED BY <2>1, <2>4
<1>5. Idle' /\ PairsOK' /\ OutOK'
  <2>1. cursor' <= Len(pairs')
    BY <1>2
  <2>. QED BY <1>2, <2>1 DEF Idle, PairsOK, OutOK
<1>6. BuildSide'
  <2>1. Drawn' = <<>>
    BY <1>2 DEF Drawn
  <2>. QED BY <1>2, <2>1, FreshOK DEF BuildSide
<1>. QED BY <1>4, <1>5, <1>6 DEF JoinInv

\* What the pairs in progress show.
LEMMA PendingType ==
    ASSUME JoinInv, pairs # <<>>
    PROVE  /\ Batch(probeIn[probePos]) /\ probePos > 0
           /\ Renders(Render(probeIn[probePos], store), probeIn[probePos], Drawn)
           /\ pairs \in Seq(PairSet(probeIn[probePos], Len(Drawn))) /\ Len(pairs) \in Nat
           /\ Mapped(Pending, Render(probeIn[probePos], store), pairs, Row)
<1> DEFINE b == probeIn[probePos]
           f == Render(b, store)
           A == PairSet(b, Len(Drawn))
<1>1. Inputs /\ Cursors /\ PairsOK /\ StoreOK(store, Drawn)
  BY DEF JoinInv, BuildSide
<1>2. probePos > 0 /\ pairs \in Seq(PairSet(b, Len(store.rows)))
  BY <1>1 DEF PairsOK
<1>3. Batch(b)
  <2>1. \A i \in 1 .. Len(probeIn) : Batch(probeIn[i])
    BY <1>1, Batches DEF Inputs
  <2>2. probePos \in 1 .. Len(probeIn)
    BY <1>1, <1>2 DEF Cursors
  <2>. QED BY <2>1, <2>2
<1>4. Drawn \in Seq(Row)
  <2>1. <<>> \in Seq(Row)
    OBVIOUS
  <2>2. Before(buildIn, buildPos) \in Seq(Row)
    BY <1>1, BeforeNext DEF Inputs, Cursors
  <2>. QED BY <2>1, <2>2 DEF Drawn
<1>5. Len(store.rows) = Len(Drawn)
  BY <1>1 DEF StoreOK
<1>6. pairs \in Seq(A)
  BY <1>2, <1>5
<1> HIDE DEF b
<1>7. Renders(f, b, Drawn)
  BY <1>1, <1>3, <1>4, RenderFn
<1>8. Fn(f, A, Row)
  BY <1>7 DEF Renders
<1> HIDE DEF f, A
<1>9. Mapped(MapSeq(f, pairs), f, pairs, Row)
  BY <1>6, <1>8, MapType
<1>10. Len(pairs) \in Nat
  BY <1>6
<1>. QED BY <1>2, <1>3, <1>6, <1>7, <1>9, <1>10 DEF Pending, b, f, A

\* With every pair handed out, the caller has the answer for the rows pulled.
LEMMA AllShown ==
    ASSUME JoinInv, phase = "ready", Drained
    PROVE  Rest = <<>> /\ out = Answered /\ out \in Seq(Row)
<1>1. cursor \in Nat /\ out \in Seq(Row) /\ Cat(out, Rest) = Answered
  BY DEF JoinInv, Cursors, OutOK
<1>2. Rest = <<>>
  <2>1. CASE pairs = <<>>
    BY <1>1, <2>1, RestEmpty
  <2>2. CASE pairs # <<>>
    <3>1. Len(Pending) = Len(pairs) /\ Len(pairs) \in Nat
      BY <2>2, PendingType DEF Mapped
    <3>2. Len(Pending) \in Nat /\ cursor >= Len(Pending)
      BY <3>1 DEF Drained
    <3>. QED BY <1>1, <3>2, NothingLeft DEF Rest
  <2>. QED BY <2>1, <2>2
<1>3. Cat(out, Rest) = out
  BY <1>1, <1>2, CatEmpty
<1>. QED BY <1>1, <1>2, <1>3

\* A probe batch keeps it: the pairs handed out are the answer so far, and
\* the new pairs are what its live rows add.
LEMMA ProbeBatchInv == JoinInv /\ ProbeBatch => JoinInv'
<1>1. SUFFICES ASSUME JoinInv, ProbeBatch PROVE JoinInv'
  OBVIOUS
<1> DEFINE b == probeIn[probePos + 1]
           map == CanonMap(b, idmap)
           S == LiveRows(buildIn)
           P == Before(probeIn, probePos)
<1>2. /\ phase = "ready" /\ Drained /\ ~probeDone /\ probePos < Len(probeIn)
      /\ probePos' = probePos + 1 /\ idmap' = map /\ cursor' = 0
      /\ pairs' = FlattenSeq([k \in DOMAIN b.sel |-> PairsOf(b, b.sel[k], map)])
      /\ UNCHANGED <<buildIn, probeIn, type, buildPos, opened, phase, ht, groupRows, store,
                     probeDone, out>>
  BY <1>1 DEF ProbeBatch, children
<1>3. Inputs /\ Cursors /\ BuildSide /\ PairsOK /\ OutOK
  BY <1>1 DEF JoinInv
<1>4. /\ Len(probeIn) \in Nat /\ probePos \in 0 .. Len(probeIn) - 1 /\ probePos + 1 \in 1 .. Len(probeIn)
      /\ P \in Seq(Row) /\ Before(probeIn, probePos + 1) = Cat(P, BatchRows(b))
  <2>1. Len(probeIn) \in Nat /\ probePos \in 0 .. Len(probeIn) - 1 /\ probePos \in 0 .. Len(probeIn)
    BY <1>2, <1>3, BeforeNext DEF Inputs, Cursors
  <2>2. /\ \A k \in 0 .. Len(probeIn) : Before(probeIn, k) \in Seq(Row)
        /\ \A k \in 0 .. Len(probeIn) - 1 :
              Before(probeIn, k + 1) = Cat(Before(probeIn, k), BatchRows(probeIn[k + 1]))
    BY <1>3, BeforeNext DEF Inputs
  <2>3. probePos + 1 \in 1 .. Len(probeIn)
    BY <2>1
  <2>. QED BY Zenon, <2>1, <2>2, <2>3
<1>5. Batch(b)
  <2>1. \A i \in 1 .. Len(probeIn) : Batch(probeIn[i])
    BY <1>3, Batches DEF Inputs
  <2>. QED BY <1>4, <2>1
<1>6. Drawn = S /\ S \in Seq(Row) /\ Drawn' = S
  <2>1. buildPos = Len(buildIn)
    BY <1>2, <1>3 DEF OutOK
  <2>2. Before(buildIn, buildPos) = S /\ Before(buildIn, buildPos) \in Seq(Row)
    BY <1>3, <2>1, BeforeNext DEF Inputs, Cursors
  <2>. QED BY <1>2, <2>2 DEF Drawn
<1>7. out = RowsOf(P, S, type) /\ out \in Seq(Row)
  BY <1>1, <1>2, AllShown DEF Answered
<1> HIDE DEF b, S, P
<1>8. IsDict(idmap, Str) /\ StoreOK(store, S) /\ IndexOK(ht, groupRows, S, idmap)
  BY <1>3, <1>6 DEF BuildSide
<1>9. Known(b, map) /\ Extends(map, idmap)
  BY <1>5, <1>8, CanonMapOK
<1> HIDE DEF map
<1>10. IsDict(map, Str)
  BY <1>9 DEF Known
<1>11. IndexOK(ht, groupRows, S, map)
  BY <1>8, <1>9, <1>10, Reindexed
<1>12. PairsShown(pairs', b, store, Len(S), RowsOf(BatchRows(b), S, type))
  BY <1>2, <1>5, <1>6, <1>8, <1>9, <1>11, BatchPairsOK
<1>13. /\ pairs' \in Seq(PairSet(b, Len(S)))
       /\ MapSeq(Render(b, store), pairs') = RowsOf(BatchRows(b), S, type)
  BY <1>12 DEF PairsShown
<1>14. BatchRows(b) \in Seq(Row)
  BY <1>5, BatchRowsType
<1>15. Inputs'
  BY <1>2, <1>3 DEF Inputs
<1>16. Cursors'
  BY <1>2, <1>3, <1>4 DEF Cursors
<1>17. BuildSide'
  BY <1>2, <1>6, <1>8, <1>10, <1>11 DEF BuildSide
<1>18. Idle'
  BY <1>2 DEF Idle
<1>19. PairsOK'
  <2>1. Len(store.rows) = Len(S)
    BY <1>8 DEF StoreOK
  <2>2. pairs' \in Seq(PairSet(probeIn'[probePos'], Len(store'.rows)))
    BY <1>2, <1>13, <2>1 DEF b
  <2>3. probePos' > 0 /\ cursor' <= Len(pairs')
    <3>1. Len(pairs') \in Nat
      BY <1>13
    <3>. QED BY <1>2, <1>4, <3>1
  <2>. QED BY <1>2, <2>2, <2>3 DEF PairsOK
<1>20. OutOK'
  <2> DEFINE T == RowsOf(BatchRows(b), S, type)
  <2>1. T \in Seq(Row)
    BY <1>6, <1>14, RefRowsIs
  <2>2. Pending' = T
    BY <1>2, <1>13 DEF Pending, b
  <2> HIDE DEF T
  <2>3. Rest' = T
    <3>1. SubSeq(T, 1, Len(T)) = T
      BY <2>1, SubSeqFull
    <3>2. Rest' = SubSeq(T, cursor' + 1, Len(T))
      BY <2>2 DEF Rest
    <3>3. cursor' + 1 = 1
      BY <1>2
    <3>. QED BY <3>1, <3>2, <3>3
  <2>4. Answered' = RowsOf(Cat(P, BatchRows(b)), S, type)
    BY <1>2, <1>4 DEF Answered, S
  <2>5. RowsOf(Cat(P, BatchRows(b)), S, type) = Cat(RowsOf(P, S, type), T)
    BY <1>4, <1>6, <1>14, RefConcat DEF T
  <2>6. buildPos' = Len(buildIn')
    BY <1>2, <1>3 DEF OutOK
  <2>. QED BY <1>2, <1>7, <2>3, <2>4, <2>5, <2>6 DEF OutOK
<1>. QED BY <1>15, <1>16, <1>17, <1>18, <1>19, <1>20 DEF JoinInv

\* The end of the probe child keeps it.
LEMMA ProbeEndsInv == JoinInv /\ ProbeEnds => JoinInv'
<1>1. SUFFICES ASSUME JoinInv, ProbeEnds PROVE JoinInv'
  OBVIOUS
<1>2. /\ phase = "ready" /\ Drained /\ (~probeDone => probePos = Len(probeIn)) /\ probeDone' = TRUE
      /\ pairs' = (IF probeDone THEN pairs ELSE <<>>)
      /\ UNCHANGED <<buildIn, probeIn, type, buildPos, probePos, opened, phase, idmap, ht,
                     groupRows, store, cursor, out>>
  BY <1>1 DEF ProbeEnds, children
<1>3. Inputs /\ Cursors /\ BuildSide /\ PairsOK /\ OutOK
  BY <1>1 DEF JoinInv
<1>4. pairs' = <<>> /\ probePos' = Len(probeIn')
  BY <1>2, <1>3 DEF PairsOK
<1>5. Inputs' /\ Cursors' /\ Idle' /\ PairsOK'
  BY <1>2, <1>3, <1>4 DEF Inputs, Cursors, Idle, PairsOK
<1>6. BuildSide'
  <2>1. Drawn' = Drawn
    BY <1>2 DEF Drawn
  <2>. QED BY <1>2, <1>3, <2>1 DEF BuildSide
<1>7. OutOK'
  <2>1. out = Answered /\ out \in Seq(Row)
    BY <1>1, <1>2, AllShown
  <2>2. Rest' = <<>>
    <3>1. Pending' = <<>>
      BY <1>4, NothingShown DEF Pending
    <3>2. cursor' \in Nat /\ Len(<<>>) = 0
      BY <1>2, <1>3 DEF Cursors
    <3>. QED BY <3>1, <3>2, NothingLeft DEF Rest
  <2>3. Answered' = Answered
    BY <1>2 DEF Answered
  <2>4. Cat(out, <<>>) = out
    BY <2>1, CatEmpty
  <2>. QED BY <1>2, <1>3, <2>1, <2>2, <2>3, <2>4 DEF OutOK
<1>. QED BY <1>5, <1>6, <1>7 DEF JoinInv

\* next() keeps it: the rows handed out move from the pending to the given.
LEMMA EmitInv == JoinInv /\ Emit => JoinInv'
<1>1. SUFFICES ASSUME JoinInv, Emit PROVE JoinInv'
  OBVIOUS
<1> DEFINE m == IF Len(pairs) - cursor < kOutBatch THEN Len(pairs) - cursor ELSE kOutBatch
           b == probeIn[probePos]
           f == Render(b, store)
           rows == [i \in 1 .. m |-> ProbeCells(pairs[cursor + i][1]) \o BuildCells(pairs[cursor + i][2])]
<1>2. /\ phase = "ready" /\ ~Drained /\ out' = out \o rows /\ cursor' = cursor + m
      /\ UNCHANGED <<buildIn, probeIn, type, buildPos, probePos, opened, phase, idmap, ht,
                     groupRows, store, pairs, probeDone>>
  BY <1>1 DEF Emit, children
<1>3. Inputs /\ Cursors /\ BuildSide /\ PairsOK /\ OutOK /\ cursor \in Nat /\ out \in Seq(Row)
  BY <1>1, <1>2 DEF JoinInv, Cursors, OutOK
<1>4. pairs # <<>>
  <2>1. Len(<<>>) = 0
    OBVIOUS
  <2>. QED BY <1>2, <1>3, <2>1 DEF Drained
<1>5. /\ Renders(f, b, Drawn) /\ pairs \in Seq(PairSet(b, Len(Drawn)))
      /\ Len(pairs) \in Nat /\ Mapped(Pending, f, pairs, Row)
  BY <1>1, <1>4, PendingType
<1>6. m \in Nat \ {0} /\ cursor + m <= Len(pairs)
  BY <1>2, <1>3, <1>5, JoinAssumption DEF Drained
<1>7. Pending \in Seq(Row) /\ Len(Pending) = Len(pairs) /\ \A i \in 1 .. Len(pairs) : Pending[i] = f[pairs[i]]
  BY <1>5 DEF Mapped
<1>8. rows = SubSeq(Pending, cursor + 1, cursor + m)
  <2>1. \A i \in 1 .. Len(pairs) : Pending[i] = ProbeCells(pairs[i][1]) \o BuildCells(pairs[i][2])
    <3>1. SUFFICES ASSUME NEW i \in 1 .. Len(pairs)
                   PROVE  Pending[i] = ProbeCells(pairs[i][1]) \o BuildCells(pairs[i][2])
      OBVIOUS
    <3>2. pairs[i] \in PairSet(b, Len(Drawn)) /\ Len(store.rows) = Len(Drawn)
      BY <1>3, <1>5 DEF BuildSide, StoreOK
    <3> DEFINE q == pairs[i]
    <3>3. f[q] = Cells(b, q[1]) \o Built(store, q[2])
      <4> HIDE DEF b, q
      <4>. QED BY <3>2 DEF q, Render
    <3>4. BuildCells(q[2]) = Built(store, q[2])
      BY DEF BuildCells, Built, Shown
    <3>. QED BY <1>7, <3>3, <3>4 DEF ProbeCells
  <2> HIDE DEF m, b, f
  <2> DEFINE cut == SubSeq(Pending, cursor + 1, cursor + m)
             e == [i \in 1 .. Len(pairs) |-> ProbeCells(pairs[i][1]) \o BuildCells(pairs[i][2])]
  <2>2. \A i \in 1 .. m : cursor + i \in 1 .. Len(pairs)
    BY <1>3, <1>5, <1>6
  <2>3. DOMAIN cut = 1 .. m /\ \A i \in 1 .. m : cut[i] = Pending[cursor + i]
    BY <1>3, <1>5, <1>6, <1>7
  <2>4. \A i \in 1 .. m : Pending[cursor + i] = e[cursor + i]
    BY <2>1, <2>2
  <2>5. rows = [i \in 1 .. m |-> e[cursor + i]]
    BY Zenon, <2>2
  <2> HIDE DEF rows, e
  <2>6. cut = [i \in 1 .. m |-> cut[i]]
    <3> DEFINE z == cut
    <3>1. z \in Seq(Row) /\ DOMAIN z = 1 .. m
      BY <1>3, <1>6, <1>7, <2>3
    <3> HIDE DEF cut, z
    <3>2. z = [i \in 1 .. m |-> z[i]]
      BY <3>1
    <3>. QED BY <3>2 DEF z
  <2> HIDE DEF cut
  <2>7. \A i \in 1 .. m : cut[i] = e[cursor + i]
    BY <2>3, <2>4
  <2>8. [i \in 1 .. m |-> cut[i]] = [i \in 1 .. m |-> e[cursor + i]]
    BY Zenon, <2>7
  <2>. QED BY Zenon, <2>5, <2>6, <2>8 DEF cut
<1> HIDE DEF rows, m, b, f
<1>9. Inputs' /\ Cursors' /\ Idle'
  BY <1>2, <1>3, <1>6 DEF Inputs, Cursors, Idle
<1>10. BuildSide'
  <2>1. Drawn' = Drawn
    BY <1>2 DEF Drawn
  <2>. QED BY <1>2, <1>3, <2>1 DEF BuildSide
<1>11. PairsOK'
  <2>1. cursor' <= Len(pairs')
    BY <1>2, <1>6
  <2>. QED BY <1>2, <1>3, <2>1 DEF PairsOK
<1>12. OutOK'
  <2> DEFINE u == SubSeq(Pending, cursor + 1, cursor + m)
             w == SubSeq(Pending, cursor + m + 1, Len(Pending))
  <2>1. Cat(Cat(out, u), w) = Cat(out, Rest) /\ Cat(out, u) \in Seq(Row)
    BY <1>3, <1>6, <1>7, CutMoves DEF Rest
  <2>2. out' = Cat(out, u)
    BY <1>2, <1>8 DEF Cat
  <2>3. Rest' = w
    <3>1. Pending' = Pending
      BY <1>2 DEF Pending
    <3>. QED BY <1>2, <3>1 DEF Rest
  <2>4. Answered' = Answered
    BY <1>2 DEF Answered
  <2> HIDE DEF u, w
  <2>. QED BY <1>2, <1>3, <2>1, <2>2, <2>3, <2>4 DEF OutOK
<1>. QED BY <1>9, <1>10, <1>11, <1>12 DEF JoinInv

\* A stuttering step keeps it.
LEMMA StaysInv == JoinInv /\ UNCHANGED vars => JoinInv'
<1>1. SUFFICES ASSUME JoinInv, UNCHANGED vars PROVE JoinInv'
  OBVIOUS
<1>2. UNCHANGED <<buildIn, probeIn, type, buildPos, probePos, opened, phase, idmap, ht, groupRows,
                  store, pairs, cursor, probeDone, out>>
  BY <1>1 DEF vars
<1>3. Inputs' /\ Cursors' /\ Idle' /\ PairsOK'
  BY <1>1, <1>2 DEF JoinInv, Inputs, Cursors, Idle, PairsOK
<1>4. BuildSide'
  <2>1. Drawn' = Drawn
    BY <1>2 DEF Drawn
  <2>. QED BY <1>1, <1>2, <2>1 DEF JoinInv, BuildSide
<1>5. OutOK'
  <2>1. Rest' = Rest /\ Answered' = Answered
    BY <1>2 DEF Rest, Pending, Answered
  <2>. QED BY <1>1, <1>2, <2>1 DEF JoinInv, OutOK
<1>. QED BY <1>3, <1>4, <1>5 DEF JoinInv

\* Every step keeps the invariant.
LEMMA StepInv == JoinInv /\ [Next]_vars => JoinInv'
<1>1. SUFFICES ASSUME JoinInv, [Next]_vars PROVE JoinInv'
  OBVIOUS
<1>2. CASE Open
  BY <1>1, <1>2, OpenInv
<1>3. CASE BuildBatch
  BY <1>1, <1>3, BuildBatchInv
<1>4. CASE BuildThrows
  BY <1>1, <1>4, BuildThrowsInv
<1>5. CASE BuildDone
  BY <1>1, <1>5, BuildDoneInv
<1>6. CASE ProbeBatch
  BY <1>1, <1>6, ProbeBatchInv
<1>7. CASE ProbeEnds
  BY <1>1, <1>7, ProbeEndsInv
<1>8. CASE Emit
  BY <1>1, <1>8, EmitInv
<1>9. CASE Close
  BY <1>1, <1>9, CloseInv
<1>10. CASE UNCHANGED vars
  BY <1>1, <1>10, StaysInv
<1>. QED BY <1>1, <1>2, <1>3, <1>4, <1>5, <1>6, <1>7, <1>8, <1>9, <1>10 DEF Next

\* The invariant implies TypeOK.
LEMMA InvTypeOK == JoinInv => TypeOK
<1>1. SUFFICES ASSUME JoinInv PROVE TypeOK
  OBVIOUS
<1>2. Cursors /\ BuildSide /\ Idle /\ PairsOK
  BY <1>1 DEF JoinInv
<1>3. /\ buildPos \in 0 .. Len(buildIn) /\ probePos \in 0 .. Len(probeIn)
      /\ phase \in {"closed", "building", "ready", "failed"} /\ opened = (phase # "closed")
  BY <1>2 DEF Cursors
<1>4. IsDict(idmap, Str) /\ StoreOK(store, Drawn) /\ IndexOK(ht, groupRows, Drawn, idmap)
  BY <1>2 DEF BuildSide
<1>5. /\ DOMAIN groupRows = 0 .. ht.used - 1
      /\ \A key \in DOMAIN ht.index : ht.index[key] < ht.used /\ key < Len(idmap)
  <2>1. Len(idmap) \in Nat /\ ht.used \in Nat
    BY <1>4 DEF IsDict, IndexOK
  <2>2. \A key \in DOMAIN ht.index : key \in 0 .. Len(idmap) - 1 /\ ht.index[key] \in 0 .. ht.used - 1
    BY <1>4 DEF IndexOK
  <2>3. DOMAIN groupRows = 0 .. ht.used - 1
    BY <1>4 DEF IndexOK
  <2>. QED BY <2>1, <2>2, <2>3
<1>6. DOMAIN store.rows = 1 .. Len(Drawn) /\ Len(store.rows) = Len(Drawn)
  BY <1>4 DEF StoreOK
<1>7. \A r \in DOMAIN store.rows :
         store.rows[r].valid => store.rows[r].code \in 0 .. Len(store.dict) - 1
  BY <1>4, <1>6 DEF StoreOK
<1>8. ~probeDone => cursor <= Len(pairs)
  BY <1>2 DEF PairsOK
<1>9. pairs # <<>> => phase = "ready" /\ probePos > 0
  BY <1>2 DEF PairsOK, Idle
<1>10. \A i \in DOMAIN pairs :
          /\ pairs[i][1] \in ToSet(probeIn[probePos].sel)
          /\ pairs[i][2] \in {kNullBuildRow} \union DOMAIN store.rows
  <2>1. SUFFICES ASSUME NEW i \in DOMAIN pairs
                 PROVE  /\ pairs[i][1] \in ToSet(probeIn[probePos].sel)
                        /\ pairs[i][2] \in {kNullBuildRow} \union DOMAIN store.rows
    OBVIOUS
  <2>2. pairs # <<>>
    BY <2>1
  <2>3. pairs[i] \in PairSet(probeIn[probePos], Len(store.rows))
    BY <1>2, <2>1, <2>2 DEF PairsOK
  <2>4. pairs[i][1] \in ToSet(probeIn[probePos].sel) /\ pairs[i][2] \in 0 .. Len(store.rows)
    BY <2>3 DEF PairSet
  <2>5. Len(store.rows) \in Nat
    BY <1>4 DEF StoreOK
  <2>. QED BY <1>6, <2>4, <2>5 DEF kNullBuildRow
<1>. QED BY <1>3, <1>5, <1>7, <1>8, <1>9, <1>10 DEF TypeOK

\* The build rows drained are rows.
LEMMA DrawnType == JoinInv => Drawn \in Seq(Row)
<1>1. SUFFICES ASSUME JoinInv PROVE Drawn \in Seq(Row)
  OBVIOUS
<1>2. <<>> \in Seq(Row)
  OBVIOUS
<1>3. Before(buildIn, buildPos) \in Seq(Row)
  BY <1>1, BeforeNext DEF JoinInv, Inputs, Cursors
<1>. QED BY <1>2, <1>3 DEF Drawn

\* The invariant implies GroupsByValue.
LEMMA InvGroups == JoinInv => GroupsByValue
<1>1. SUFFICES ASSUME JoinInv PROVE GroupsByValue
  OBVIOUS
<1>2. StoreOK(store, Drawn) /\ IndexOK(ht, groupRows, Drawn, idmap) /\ Drawn \in Seq(Row)
  BY <1>1, DrawnType DEF JoinInv, BuildSide
<1>3. StoredRows = Drawn
  <2>1. Len(Drawn) \in Nat /\ DOMAIN store.rows = 1 .. Len(Drawn) /\ DOMAIN Drawn = 1 .. Len(Drawn)
    BY <1>2 DEF StoreOK
  <2>2. \A r \in 1 .. Len(Drawn) : BuildCells(r) = Drawn[r]
    <3>1. SUFFICES ASSUME NEW r \in 1 .. Len(Drawn) PROVE BuildCells(r) = Drawn[r]
      OBVIOUS
    <3>2. Shown(store, r) = Drawn[r]
      BY <1>2 DEF StoreOK
    <3>3. r # 0
      BY <2>1
    <3>4. BuildCells(r) = Shown(store, r)
      BY <3>3 DEF BuildCells, Shown, kNullBuildRow
    <3>. QED BY <3>2, <3>4
  <2> DEFINE D == Drawn
             n == Len(Drawn)
  <2>3. D = [r \in 1 .. n |-> D[r]]
    <3>1. D \in Seq(Row) /\ DOMAIN D = 1 .. n
      BY <1>2, <2>1
    <3> HIDE DEF D, n
    <3>. QED BY <3>1
  <2>4. \A r \in 1 .. n : BuildCells(r) = D[r]
    BY <2>2
  <2>5. StoredRows = [r \in 1 .. n |-> BuildCells(r)]
    BY <2>1 DEF StoredRows
  <2> HIDE DEF D, n
  <2>6. [r \in 1 .. n |-> BuildCells(r)] = [r \in 1 .. n |-> D[r]]
    BY Zenon, <2>4
  <2>. QED BY Zenon, <2>3, <2>5, <2>6 DEF D
<1>4. \A id \in DOMAIN ht.index : groupRows[ht.index[id]] = Places(Drawn, At(idmap, id))
  BY <1>2 DEF IndexOK
<1>. QED BY <1>3, <1>4 DEF GroupsByValue, Places

\* The rows of the first batches are the first rows.
LEMMA BeforeIsPrefix ==
    ASSUME NEW bs \in BuildInputs \union ProbeInputs, NEW k \in 0 .. Len(bs)
    PROVE  \E R \in Seq(Row) : LiveRows(bs) = Cat(Before(bs, k), R)
<1> DEFINE n == Len(bs)
           Next1(j) == \E R \in Seq(Row) : Before(bs, k + j) = Cat(Before(bs, k), R)
           N == {j \in Nat : k + j <= n => Next1(j)}
<1>1. /\ n \in Nat /\ Before(bs, n) = LiveRows(bs)
      /\ \A i \in 0 .. n : Before(bs, i) \in Seq(Row)
      /\ \A i \in 0 .. n - 1 : Before(bs, i + 1) = Cat(Before(bs, i), BatchRows(bs[i + 1]))
  BY BeforeNext
<1>2. \A i \in 1 .. n : BatchRows(bs[i]) \in Seq(Row)
  BY Batches, BatchRowsType
<1>3. Before(bs, k) \in Seq(Row)
  BY <1>1
<1> HIDE DEF n
<1>4. 0 \in N
  <2>1. Cat(Before(bs, k), <<>>) = Before(bs, k) /\ <<>> \in Seq(Row)
    BY <1>3, CatEmpty
  <2>2. k + 0 = k
    OBVIOUS
  <2>. QED BY <2>1, <2>2
<1>5. ASSUME NEW j \in Nat, j \in N PROVE j + 1 \in N
  <2>1. SUFFICES ASSUME k + (j + 1) <= n PROVE Next1(j + 1)
    OBVIOUS
  <2>2. k + j \in 0 .. n - 1 /\ k + j + 1 \in 1 .. n /\ k + j <= n /\ k + (j + 1) = k + j + 1
    BY <1>1, <2>1
  <2>3. PICK R \in Seq(Row) : Before(bs, k + j) = Cat(Before(bs, k), R)
    BY <1>5, <2>2
  <2> DEFINE e == BatchRows(bs[k + j + 1])
  <2>4. Before(bs, k + j + 1) = Cat(Before(bs, k + j), e) /\ e \in Seq(Row)
    BY <1>1, <1>2, <2>2
  <2> HIDE DEF e
  <2>5. Cat(Cat(Before(bs, k), R), e) = Cat(Before(bs, k), Cat(R, e)) /\ Cat(R, e) \in Seq(Row)
    BY <1>3, <2>4, CatAssociative, CatType
  <2>. QED BY <2>2, <2>3, <2>4, <2>5
<1> HIDE DEF N
<1>6. \A j \in Nat : j \in N
  BY <1>4, <1>5, SetInduction
<1>7. n - k \in Nat /\ k + (n - k) = n
  BY <1>1 DEF n
<1>8. Next1(n - k)
  <2> DEFINE m == n - k
  <2>1. m \in Nat /\ k + m <= n
    BY <1>1, <1>7
  <2> HIDE DEF m, Next1
  <2>2. m \in N
    BY <1>6, <2>1
  <2>3. Next1(m)
    BY <2>1, <2>2 DEF N
  <2>. QED BY <2>3 DEF m
<1>. QED BY <1>1, <1>7, <1>8

\* The invariant implies JoinsLikeReference.
LEMMA InvAnswer == JoinInv => JoinsLikeReference
<1>1. SUFFICES ASSUME JoinInv PROVE JoinsLikeReference
  OBVIOUS
<1>2. Inputs /\ Cursors /\ Idle /\ PairsOK /\ OutOK
  BY <1>1 DEF JoinInv
<1> DEFINE S == LiveRows(buildIn)
<1>3. Answer = RowsOf(LiveRows(probeIn), S, type)
  BY DEF Answer, RowsOf
<1>4. S \in Seq(Row) /\ Len(probeIn) \in Nat /\ Before(probeIn, Len(probeIn)) = LiveRows(probeIn)
  <2>1. buildIn \in BuildInputs \union ProbeInputs /\ probeIn \in BuildInputs \union ProbeInputs
    BY <1>2 DEF Inputs
  <2>2. Len(buildIn) \in 0 .. Len(buildIn) /\ Before(buildIn, Len(buildIn)) = S
    BY <2>1, BeforeNext
  <2>3. Before(buildIn, Len(buildIn)) \in Seq(Row)
    BY <2>1, <2>2, BeforeNext
  <2>. QED BY <2>1, <2>2, <2>3, BeforeNext
<1> HIDE DEF S
<1>5. probeDone => out = Answer
  <2>1. SUFFICES ASSUME probeDone PROVE out = Answer
    OBVIOUS
  <2>2. pairs = <<>> /\ probePos = Len(probeIn) /\ phase = "ready"
    BY <1>2, <2>1 DEF Idle, PairsOK
  <2>3. Drained
    <3>1. Len(<<>>) = 0 /\ cursor \in Nat
      BY <1>2 DEF Cursors
    <3>. QED BY <2>2, <3>1 DEF Drained
  <2>4. out = Answered
    BY <1>1, <2>2, <2>3, AllShown
  <2>. QED BY <1>3, <1>4, <2>2, <2>4 DEF Answered, S
<1>6. out # <<>> => IsPrefix(out, Answer)
  <2>1. SUFFICES ASSUME out # <<>> PROVE IsPrefix(out, Answer)
    OBVIOUS
  <2>2. phase = "ready"
    BY <1>2, <2>1 DEF Idle
  <2>3. out \in Seq(Row) /\ Cat(out, Rest) = Answered /\ cursor \in Nat
    BY <1>2, <2>2 DEF OutOK, Cursors
  <2>4. Rest \in Seq(Row)
    <3>1. CASE pairs = <<>>
      <4>1. <<>> \in Seq(Row)
        OBVIOUS
      <4>. QED BY <2>3, <3>1, <4>1, RestEmpty
    <3>2. CASE pairs # <<>>
      <4>1. Pending \in Seq(Row)
        BY <1>1, <3>2, PendingType DEF Mapped
      <4>. QED BY <2>3, <4>1 DEF Rest
    <3>. QED BY <3>1, <3>2
  <2> DEFINE P == Before(probeIn, probePos)
  <2>5. P \in Seq(Row)
    BY <1>2, BeforeNext DEF Inputs, Cursors
  <2>6. PICK R \in Seq(Row) : LiveRows(probeIn) = Cat(P, R)
    <3>1. probeIn \in BuildInputs \union ProbeInputs /\ probePos \in 0 .. Len(probeIn)
      BY <1>2 DEF Inputs, Cursors
    <3>. QED BY <3>1, BeforeIsPrefix
  <2>7. Answered = RowsOf(P, S, type)
    BY DEF Answered, S
  <2> HIDE DEF P
  <2> DEFINE T == RowsOf(R, S, type)
  <2>8. Answer = Cat(Answered, T) /\ T \in Seq(Row)
    BY <1>3, <1>4, <2>5, <2>6, <2>7, RefConcat, RefRowsIs
  <2> HIDE DEF T
  <2>9. Cat(Cat(out, Rest), T) = Cat(out, Cat(Rest, T)) /\ Cat(Rest, T) \in Seq(Row)
    BY <2>3, <2>4, <2>8, CatAssociative, CatType
  <2>10. IsPrefix(out, Cat(out, Cat(Rest, T)))
    BY <2>3, <2>9, PrefixOf
  <2>. QED BY <2>3, <2>8, <2>9, <2>10
<1>. QED BY <1>5, <1>6 DEF JoinsLikeReference

\* Whatever the batches, dictionaries, selections, output size and the moments
\* of exceptions, closes and reopens: HashJoin keeps its cursors, codes and
\* pairs in range, its groups are the rows of one string on both sides, and
\* what next() hands out is the join of the two tables, row by row.
THEOREM JoinExact == Spec => [](TypeOK /\ GroupsByValue /\ JoinsLikeReference)
<1>1. Init => JoinInv
  BY InitInv
<1>2. JoinInv /\ [Next]_vars => JoinInv'
  BY StepInv
<1>3. JoinInv => TypeOK /\ GroupsByValue /\ JoinsLikeReference
  BY InvTypeOK, InvGroups, InvAnswer
<1>. QED BY <1>1, <1>2, <1>3, PTL DEF Spec
================================================================================
