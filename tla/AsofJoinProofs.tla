---------------------------- MODULE AsofJoinProofs ----------------------------
(***************************************************************************)
(* The merge cursor of AsofJoin is where it should be, for every pair of   *)
(* tables, every batch size and any number of openings.                    *)
(***************************************************************************)
EXTENDS AsofJoin, DataProofs

-----------------------------------------------------------------------------
(***************************************************************************)
(* The sorted tables.                                                      *)
(***************************************************************************)
\* Rows that may match one another are in the order of their times.
Timely(t) ==
    \A i, j \in DOMAIN t :
       i < j /\ (Keyed => t[i][1] = t[j][1]) /\ Time(t[i]) # NULL /\ Time(t[j]) # NULL
       => Time(t[i]) <= Time(t[j])

\* The key specifications of the two Sorts.
LEMMA SortKeysAre ==
    /\ SortKeys \in Seq(KeySpec) /\ \A k \in DOMAIN SortKeys : SortKeys[k] \in KeySpec
    /\ Keyed => DOMAIN SortKeys = 1 .. 2 /\ SortKeys[1].col = 1 /\ SortKeys[2].col = 2
                /\ SortKeys[2].dir = "Asc"
    /\ ~Keyed => DOMAIN SortKeys = 1 .. 1 /\ SortKeys[1].col = 2 /\ SortKeys[1].dir = "Asc"
<1>1. /\ Ascending(1) \in KeySpec /\ Ascending(1).col = 1
      /\ Ascending(2) \in KeySpec /\ Ascending(2).col = 2 /\ Ascending(2).dir = "Asc"
  BY DEF Ascending, KeySpec
<1>2. CASE Keyed
  <2>1. SortKeys = <<Ascending(1), Ascending(2)>>
    BY <1>2 DEF SortKeys
  <2>. QED BY <1>1, <1>2, <2>1
<1>3. CASE ~Keyed
  <2>1. SortKeys = <<Ascending(2)>>
    BY <1>3 DEF SortKeys
  <2>. QED BY <1>1, <1>3, <2>1
<1>. QED BY <1>2, <1>3

\* Times are numbers.
LEMMA TimesAre == /\ Word \in Int /\ TimeSet \subseteq Int /\ NULL \notin TimeSet
                  /\ \A row \in RowSet : Time(row) # NULL => Time(row) \in TimeSet /\ Time(row) \in Int
<1>1. Word \in Int
  BY AsofAssumption DEF Word
<1>2. TimeSet \subseteq Int
  BY <1>1 DEF TimeSet
<1>. QED BY <1>1, <1>2, AsofAssumption DEF RowSet, Time

\* What a Sort hands out: its child's rows, in the order of the times.
LEMMA SortedTable ==
    ASSUME NEW rows \in Seq(RowSet)
    PROVE  /\ Sorted(rows) \in Seq(RowSet) /\ Len(Sorted(rows)) = Len(rows)
           /\ Permuted(Sorted(rows), rows)
           /\ Timely(Sorted(rows))
<1> DEFINE t == Sorted(rows)
<1>1. Apart
  BY AsofAssumption DEF Apart
<1>2. \A row \in RowSet : row[1] \in KeyCell /\ row[2] \in KeyCell
  BY TimesAre DEF RowSet, KeyCell
<1>3. \A i \in DOMAIN SortKeys : SortKeys[i].col \in {1, 2}
  BY SortKeysAre
<1>4. Sortable(RowSet, SortKeys)
  BY <1>1, <1>2, <1>3 DEF Sortable
<1>5. Ordered(t, rows, SortKeys, RowSet)
  BY <1>4, SortKeysAre, OrderBySorts DEF Sorted
<1> HIDE DEF t
<1>6. t \in Seq(RowSet) /\ Len(t) = Len(rows) /\ Permuted(t, rows)
  BY <1>5 DEF Ordered
<1>7. ASSUME NEW i \in DOMAIN t, NEW j \in DOMAIN t, i < j, Keyed => t[i][1] = t[j][1],
             Time(t[i]) # NULL, Time(t[j]) # NULL, ~(Time(t[i]) <= Time(t[j]))
      PROVE  FALSE
  <2>1. t[i] \in RowSet /\ t[j] \in RowSet
    BY <1>6
  <2>2. t[i][2] \in Int /\ t[j][2] \in Int /\ t[j][2] < t[i][2]
    BY <1>7, <2>1, TimesAre DEF Time
  <2>3. \A key \in KeySpec : key.dir = "Asc" => CellBefore(t[j][2], t[i][2], key)
    BY <1>1, <2>2 DEF CellBefore, CmpLess, Apart
  <2>4. \E k \in DOMAIN SortKeys : FirstDiffers(t[j], t[i], SortKeys, k)
    <3>1. CASE Keyed
      <4>1. 2 \in DOMAIN SortKeys /\ SortKeys[2] \in KeySpec
        BY <3>1, SortKeysAre
      <4>2. CellBefore(t[j][SortKeys[2].col], t[i][SortKeys[2].col], SortKeys[2])
        <5>1. SortKeys[2].col = 2 /\ SortKeys[2].dir = "Asc"
          BY <3>1, SortKeysAre
        <5>. QED BY <2>3, <4>1, <5>1
      <4>3. \A m \in 1 .. 2 - 1 : t[j][SortKeys[m].col] = t[i][SortKeys[m].col]
        BY <1>7, <3>1, SortKeysAre
      <4>. QED BY <4>1, <4>2, <4>3 DEF FirstDiffers
    <3>2. CASE ~Keyed
      <4>1. 1 \in DOMAIN SortKeys /\ SortKeys[1] \in KeySpec
        BY <3>2, SortKeysAre
      <4>2. CellBefore(t[j][SortKeys[1].col], t[i][SortKeys[1].col], SortKeys[1])
        <5>1. SortKeys[1].col = 2 /\ SortKeys[1].dir = "Asc"
          BY <3>2, SortKeysAre
        <5>. QED BY <2>3, <4>1, <5>1
      <4>3. \A m \in 1 .. 1 - 1 : t[j][SortKeys[m].col] = t[i][SortKeys[m].col]
        OBVIOUS
      <4>. QED BY <4>1, <4>2, <4>3 DEF FirstDiffers
    <3>. QED BY <3>1, <3>2
  <2>5. RowBefore(t[j], t[i], SortKeys)
    BY <1>4, <2>1, <2>4, SortKeysAre, RowBeforeIs
  <2>. QED BY <1>5, <1>7, <2>5 DEF Ordered
<1>8. Timely(t)
  BY <1>7 DEF Timely
<1>. QED BY <1>6, <1>8 DEF t

-----------------------------------------------------------------------------
(***************************************************************************)
(* Key words.                                                              *)
(***************************************************************************)
\* The dictionary of a Sort has every string of its column.
LEMMA DictHolds ==
    ASSUME NEW rows \in Seq(RowSet), NEW r \in DOMAIN rows, rows[r][1] # NULL
    PROVE  DictOf(rows) \in Seq(Int) /\ rows[r][1] \in Strings(DictOf(rows))
<1> DEFINE n == Len(rows)
           D == DOMAIN rows
           A == Seq(Int)
           Add(d, row) == IF row[1] = NULL THEN d ELSE Intern(d, row[1])
           step == [k \in 1 .. n |-> [d \in A |-> Add(d, rows[k])]]
           body(f) == [s \in SUBSET D |-> IF s = {} THEN <<>> ELSE Add(f[s \ {Max(s)}], rows[Max(s)])]
           it == CHOOSE f : f = body(f)
<1>1. n \in Nat /\ D = 1 .. n /\ \A k \in 1 .. n : rows[k] \in RowSet
  OBVIOUS
<1>2. \A k \in 1 .. n, d \in A : Add(d, rows[k]) \in A
  <2>1. \A k \in 1 .. n : rows[k][1] # NULL => rows[k][1] \in Int
    BY <1>1 DEF RowSet
  <2>. QED BY <2>1 DEF Intern
<1>3. ASSUME NEW k \in 1 .. n, NEW d \in A, NEW s, s \in Strings(d)
      PROVE  s \in Strings(Add(d, rows[k]))
  <2>1. PICK i \in DOMAIN d : d[i] = s
    BY <1>3 DEF Strings
  <2>2. \A x \in Int : i \in DOMAIN Append(d, x) /\ Append(d, x)[i] = s
    BY <2>1
  <2>3. rows[k][1] # NULL => rows[k][1] \in Int
    BY <1>1 DEF RowSet
  <2>4. \A x \in Int : s \in Strings(Append(d, x))
    BY <2>2 DEF Strings
  <2>. QED BY <1>3, <2>3, <2>4 DEF Intern
<1>4. ASSUME NEW k \in 1 .. n, NEW d \in A, rows[k][1] # NULL
      PROVE  rows[k][1] \in Strings(Add(d, rows[k]))
  <2>1. rows[k][1] \in Int
    BY <1>1, <1>4 DEF RowSet
  <2>2. Len(d) + 1 \in DOMAIN Append(d, rows[k][1]) /\ Append(d, rows[k][1])[Len(d) + 1] = rows[k][1]
    BY <2>1
  <2>3. rows[k][1] \in Strings(Append(d, rows[k][1]))
    BY <2>2 DEF Strings
  <2>. QED BY <1>4, <2>3 DEF Intern
<1> HIDE DEF A
<1>5. <<>> \in A
  BY DEF A
<1>6. DictOf(rows) = it[D]
  BY Zenon DEF DictOf, FoldLeft, MapThenFoldSet
<1> HIDE DEF n, Add
<1>7. \A k \in 1 .. n, d \in A : step[k][d] = Add(d, rows[k])
  OBVIOUS
<1>8. Steps(step, n, A)
  BY <1>2, <1>7 DEF Steps
<1> HIDE DEF step
<1>9. PICK g : SetTable(g, n, A, <<>>, step)
  BY <1>1, <1>5, <1>8, SeqFoldExists
<1>10. g = body(g)
  <2>1. ASSUME NEW s \in SUBSET (1 .. n), s # {}
        PROVE g[s] = Add(g[s \ {Max(s)}], rows[Max(s)])
    <3>1. g[s] = step[Max(s)][g[s \ {Max(s)}]] /\ g[s \ {Max(s)}] \in A
      BY <1>9, <2>1 DEF SetTable
    <3>2. Max(s) \in 1 .. n
      BY <1>1, <2>1, MaxOf
    <3>. QED BY <1>7, <3>1, <3>2
  <2>. QED BY <1>1, <1>9, <2>1 DEF SetTable
<1>11. it = body(it)
  <2> HIDE DEF body
  <2>. QED BY <1>10
<1> DEFINE h == [k \in 0 .. n |-> it[1 .. k]]
<1> HIDE DEF it
<1>12. h[0] = <<>>
  BY <1>1, <1>11
<1>13. ASSUME NEW k \in 1 .. n PROVE h[k] = Add(h[k - 1], rows[k])
  <2>1. 1 .. k \in SUBSET (1 .. n) /\ 1 .. k # {} /\ Max(1 .. k) = k /\ (1 .. k) \ {k} = 1 .. k - 1
    BY <1>1, Initial
  <2>2. it[1 .. k] = Add(it[1 .. k - 1], rows[k])
    <3>1. \A s \in SUBSET (1 .. n) : s # {} => it[s] = Add(it[s \ {Max(s)}], rows[Max(s)])
      BY <1>1, <1>11
    <3>. QED BY <2>1, <3>1
  <2>3. k \in 0 .. n /\ k - 1 \in 0 .. n
    BY <1>1
  <2>. QED BY <2>2, <2>3
<1>14. h[n] = DictOf(rows)
  BY <1>1, <1>6
<1> HIDE DEF h
<1> DEFINE S == {k \in Nat : k <= n => /\ h[k] \in A
                                       /\ r <= k => rows[r][1] \in Strings(h[k])}
<1>15. 0 \in S
  BY <1>1, <1>5, <1>12
<1>16. ASSUME NEW k \in Nat, k \in S PROVE k + 1 \in S
  <2>1. SUFFICES ASSUME k + 1 <= n
                 PROVE  h[k + 1] \in A /\ (r <= k + 1 => rows[r][1] \in Strings(h[k + 1]))
    OBVIOUS
  <2>2. k + 1 \in 1 .. n /\ (k + 1) - 1 = k /\ k <= n /\ r \in Nat
    BY <1>1, <2>1
  <2>3. h[k] \in A /\ h[k + 1] = Add(h[k], rows[k + 1])
    BY <1>13, <1>16, <2>2
  <2>4. CASE r <= k
    BY <1>2, <1>3, <1>16, <2>2, <2>3, <2>4
  <2>5. CASE r = k + 1
    BY <1>2, <1>4, <2>2, <2>3, <2>5
  <2>6. CASE r > k + 1
    BY <1>2, <2>2, <2>3, <2>6
  <2>. QED BY <2>2, <2>4, <2>5, <2>6
<1> HIDE DEF S
<1>17. n \in S
  BY <1>1, <1>15, <1>16, SetInduction
<1>. QED BY <1>1, <1>14, <1>17 DEF S, A

\* Equal words are words of equal keys.
LEMMA WordsApart ==
    ASSUME NEW rows \in Seq(RowSet), NEW i \in DOMAIN rows, NEW j \in DOMAIN rows,
           rows[i][1] # NULL, rows[j][1] # NULL, KeyWord(rows[i], rows) = KeyWord(rows[j], rows)
    PROVE  rows[i][1] = rows[j][1]
<1>1. CASE keyType = "STR"
  <2> DEFINE d == DictOf(rows)
             c(s) == CHOOSE x \in DOMAIN d : d[x] = s
  <2>1. d \in Seq(Int) /\ rows[i][1] \in Strings(d) /\ rows[j][1] \in Strings(d)
    BY DictHolds
  <2>2. CodeOf(d, rows[i][1]) = CodeOf(d, rows[j][1])
    BY <1>1 DEF KeyWord
  <2> HIDE DEF d
  <2>3. c(rows[i][1]) - 1 = c(rows[j][1]) - 1
    BY <2>2, Zenon DEF CodeOf
  <2>4. /\ c(rows[i][1]) \in DOMAIN d /\ d[c(rows[i][1])] = rows[i][1]
        /\ c(rows[j][1]) \in DOMAIN d /\ d[c(rows[j][1])] = rows[j][1]
    BY <2>1 DEF Strings
  <2> HIDE DEF c
  <2>5. c(rows[i][1]) \in Nat /\ c(rows[j][1]) \in Nat
    BY <2>1, <2>4
  <2>. QED BY <2>3, <2>4, <2>5
<1>2. CASE keyType # "STR"
  BY <1>2 DEF KeyWord
<1>. QED BY <1>1, <1>2

\* A Sort's rows are those of its child: their words tell their keys apart.
LEMMA SortedWords ==
    ASSUME NEW rows \in Seq(RowSet), NEW t \in Seq(RowSet), Permuted(t, rows),
           NEW i \in DOMAIN t, NEW j \in DOMAIN t,
           t[i][1] # NULL, t[j][1] # NULL, KeyWord(t[i], rows) = KeyWord(t[j], rows)
    PROVE  t[i][1] = t[j][1]
<1>1. PICK p : OneToOne(p, DOMAIN t, DOMAIN rows) /\ \A k \in DOMAIN t : rows[p[k]] = t[k]
  BY DEF Permuted
<1>2. p[i] \in DOMAIN rows /\ p[j] \in DOMAIN rows /\ rows[p[i]] = t[i] /\ rows[p[j]] = t[j]
  BY <1>1 DEF OneToOne
<1>. QED BY <1>2, WordsApart

-----------------------------------------------------------------------------
(***************************************************************************)
(* The build side.                                                         *)
(***************************************************************************)
Increasing(s) == \A m, n \in DOMAIN s : m < n => s[m] < s[n]

BuildWords == {KeyWord(row, build) : row \in RowSet}

BuildAcc == [ht : Seq(BuildWords), store : Seq(RowSet), groupRows : Seq(Seq(Nat))]

\* The store rows that group g stands for.
Members(acc, g) ==
    {r \in DOMAIN acc.store :
       /\ Time(acc.store[r]) # NULL
       /\ Keyed => acc.store[r][1] # NULL /\ KeyWord(acc.store[r], build) = acc.ht[g]}

\* Every word has one group, every group the increasing list of its rows.
Grouped(acc) ==
    /\ acc \in BuildAcc
    /\ \A i, j \in DOMAIN acc.ht : acc.ht[i] = acc.ht[j] => i = j
    /\ ~Keyed => acc.ht = <<>>
    /\ Len(acc.groupRows) = IF Keyed THEN Len(acc.ht) ELSE 1
    /\ \A r \in DOMAIN acc.store : Keyed /\ acc.store[r][1] # NULL
                                   => KeyWord(acc.store[r], build) \in ToSet(acc.ht)
    /\ \A g \in DOMAIN acc.groupRows : ToSet(acc.groupRows[g]) = Members(acc, g)
                                       /\ Increasing(acc.groupRows[g])

\* A row at the end of an increasing list.
LEMMA ListAppend ==
    ASSUME NEW list \in Seq(Nat), Increasing(list), NEW r \in Nat, \A x \in ToSet(list) : x < r
    PROVE  /\ Append(list, r) \in Seq(Nat) /\ Increasing(Append(list, r))
           /\ ToSet(Append(list, r)) = ToSet(list) \union {r}
<1> DEFINE new == Append(list, r)
           k == Len(list)
<1>1. /\ new \in Seq(Nat) /\ k \in Nat
      /\ new[k + 1] = r /\ \A i \in 1 .. k : new[i] = list[i]
      /\ DOMAIN new = 1 .. k + 1 /\ DOMAIN list = 1 .. k
  OBVIOUS
<1> HIDE DEF new, k
<1>2. \A i \in DOMAIN list : list[i] < r
  BY DEF ToSet
<1>3. Increasing(new)
  <2>1. ASSUME NEW m \in DOMAIN new, NEW n \in DOMAIN new, m < n PROVE new[m] < new[n]
    <3>1. m \in DOMAIN list /\ new[m] = list[m]
      BY <1>1, <2>1
    <3>2. CASE n \in DOMAIN list
      BY <1>1, <2>1, <3>1, <3>2 DEF Increasing
    <3>3. CASE n \notin DOMAIN list
      <4>1. new[n] = r
        BY <1>1, <3>3
      <4>. QED BY <1>2, <3>1, <4>1
    <3>. QED BY <3>2, <3>3
  <2>. QED BY <2>1 DEF Increasing
<1>4. ToSet(new) = ToSet(list) \union {r}
  BY <1>1 DEF ToSet
<1>. QED BY <1>1, <1>3, <1>4 DEF new

\* One row of the build side.
LEMMA AddRowGrouped ==
    ASSUME NEW acc, Grouped(acc), NEW row \in RowSet
    PROVE  Grouped(AddRow(acc, row)) /\ AddRow(acc, row).store = Append(acc.store, row)
<1> DEFINE word  == KeyWord(row, build)
           known == row[1] = NULL \/ word \in ToSet(acc.ht)
           table == IF ~Keyed \/ known THEN acc.ht ELSE Append(acc.ht, word)
           gid   == IF ~Keyed THEN 1 ELSE CHOOSE g \in 0 .. Len(table) :
                        IF row[1] = NULL THEN g = 0 ELSE g > 0 /\ table[g] = word
           lists == IF Len(table) > Len(acc.groupRows) THEN Append(acc.groupRows, <<>>)
                    ELSE acc.groupRows
           r     == Len(acc.store) + 1
           st    == Append(acc.store, row)
           gr    == IF gid > 0 /\ Time(row) # NULL THEN [lists EXCEPT ![gid] = Append(@, r)]
                    ELSE lists
           new   == AddRow(acc, row)
<1>1. new = [ht |-> table, store |-> st, groupRows |-> gr]
  BY Zenon DEF AddRow
<1>2. /\ acc.ht \in Seq(BuildWords) /\ acc.store \in Seq(RowSet) /\ acc.groupRows \in Seq(Seq(Nat))
      /\ Len(acc.ht) \in Nat /\ Len(acc.store) \in Nat /\ Len(acc.groupRows) \in Nat
  BY DEF Grouped, BuildAcc
<1>3. word \in BuildWords
  BY DEF BuildWords
<1>4. /\ \A i, j \in DOMAIN acc.ht : acc.ht[i] = acc.ht[j] => i = j
      /\ ~Keyed => acc.ht = <<>>
      /\ Len(acc.groupRows) = IF Keyed THEN Len(acc.ht) ELSE 1
      /\ \A q \in DOMAIN acc.store : Keyed /\ acc.store[q][1] # NULL
                                   => KeyWord(acc.store[q], build) \in ToSet(acc.ht)
      /\ \A g \in DOMAIN acc.groupRows : ToSet(acc.groupRows[g]) = Members(acc, g)
                                         /\ Increasing(acc.groupRows[g])
  BY DEF Grouped
<1>5. /\ st \in Seq(RowSet) /\ Len(st) = r /\ DOMAIN st = 1 .. r /\ r \in Nat \ {0} /\ st[r] = row
      /\ DOMAIN acc.store = 1 .. r - 1 /\ \A q \in 1 .. r - 1 : st[q] = acc.store[q]
  BY <1>2
<1> HIDE DEF word, new, st, r
\* The table.
<1>6. /\ table \in Seq(BuildWords) /\ Len(table) \in Nat
      /\ \A i, j \in DOMAIN table : table[i] = table[j] => i = j
      /\ ~Keyed => table = <<>>
      /\ \A i \in DOMAIN acc.ht : i \in DOMAIN table /\ table[i] = acc.ht[i]
      /\ ToSet(acc.ht) \subseteq ToSet(table)
      /\ Keyed /\ row[1] # NULL => word \in ToSet(table)
  <2>1. CASE ~Keyed \/ known
    BY <1>2, <1>4, <2>1
  <2>2. CASE ~(~Keyed \/ known)
    <3>1. table = Append(acc.ht, word) /\ word \notin ToSet(acc.ht) /\ Keyed
      BY <2>2
    <3> DEFINE m == Len(acc.ht)
    <3>2. /\ DOMAIN acc.ht = 1 .. m /\ m \in Nat /\ table \in Seq(BuildWords) /\ Len(table) = m + 1
          /\ DOMAIN table = 1 .. m + 1 /\ table[m + 1] = word
          /\ \A i \in 1 .. m : table[i] = acc.ht[i]
      BY <1>2, <1>3, <3>1
    <3> HIDE DEF table, m, known
    <3>3. \A i \in 1 .. m : acc.ht[i] # word
      BY <3>1, <3>2 DEF ToSet
    <3>4. word \in ToSet(table) /\ ToSet(acc.ht) \subseteq ToSet(table)
      BY <3>2 DEF ToSet
    <3>5. \A i, j \in DOMAIN table : table[i] = table[j] => i = j
      BY <1>4, <3>2, <3>3
    <3>. QED BY <3>1, <3>2, <3>4, <3>5
  <2>. QED BY <2>1, <2>2
\* The new row's group.
<1>7. /\ gid \in Nat /\ (~Keyed => gid = 1)
      /\ Keyed /\ row[1] = NULL => gid = 0
      /\ Keyed /\ row[1] # NULL => gid \in DOMAIN table /\ table[gid] = word
  <2>1. CASE ~Keyed
    BY <2>1
  <2>2. CASE Keyed /\ row[1] = NULL
    <3>1. 0 \in 0 .. Len(table)
      BY <1>6
    <3>2. gid = CHOOSE g \in 0 .. Len(table) : g = 0
      BY <2>2
    <3>. QED BY <2>2, <3>1, <3>2
  <2>3. CASE Keyed /\ row[1] # NULL
    <3> HIDE DEF table
    <3>1. gid = CHOOSE g \in 0 .. Len(table) : g > 0 /\ table[g] = word
      BY <2>3
    <3>2. PICK i \in DOMAIN table : table[i] = word
      BY <1>6, <2>3 DEF ToSet
    <3>3. i \in 0 .. Len(table) /\ i > 0
      BY <1>6
    <3>4. gid \in 0 .. Len(table) /\ gid > 0 /\ table[gid] = word
      BY <3>1, <3>2, <3>3
    <3>. QED BY <1>6, <2>3, <3>4
  <2>. QED BY <2>1, <2>2, <2>3
\* The lists before the row is added.
<1>8. /\ lists \in Seq(Seq(Nat)) /\ Len(lists) = IF Keyed THEN Len(table) ELSE 1
      /\ \A g \in DOMAIN lists : /\ lists[g] \in Seq(Nat) /\ Increasing(lists[g])
                                 /\ ToSet(lists[g]) = {q \in 1 .. r - 1 :
                                      /\ Time(acc.store[q]) # NULL
                                      /\ Keyed => acc.store[q][1] # NULL
                                                  /\ KeyWord(acc.store[q], build) = table[g]}
  <2>1. CASE ~Keyed \/ known
    <3>1. lists = acc.groupRows /\ table = acc.ht
      BY <1>2, <1>4, <2>1
    <3> HIDE DEF lists, table
    <3>2. \A g \in DOMAIN acc.groupRows : acc.groupRows[g] \in Seq(Nat)
      BY <1>2
    <3>. QED BY <1>2, <1>4, <1>5, <3>1, <3>2 DEF Members
  <2>2. CASE ~(~Keyed \/ known)
    <3> DEFINE m == Len(acc.ht)
    <3>1. /\ lists = Append(acc.groupRows, <<>>) /\ Keyed /\ Len(acc.groupRows) = m /\ m \in Nat
          /\ Len(table) = m + 1 /\ table[m + 1] = word /\ word \notin ToSet(acc.ht)
      BY <1>2, <1>4, <2>2
    <3>2. /\ lists \in Seq(Seq(Nat)) /\ Len(lists) = m + 1 /\ lists[m + 1] = <<>>
          /\ DOMAIN lists = 1 .. m + 1
          /\ \A g \in 1 .. m : g \in DOMAIN acc.groupRows /\ lists[g] = acc.groupRows[g]
      <4>1. <<>> \in Seq(Nat)
        OBVIOUS
      <4>. QED BY <1>2, <3>1, <4>1
    <3> HIDE DEF lists, table, m, known
    <3>3. ASSUME NEW g \in 1 .. m
          PROVE  /\ lists[g] \in Seq(Nat) /\ Increasing(lists[g])
                 /\ ToSet(lists[g]) = {q \in 1 .. r - 1 :
                                      /\ Time(acc.store[q]) # NULL
                                      /\ Keyed => acc.store[q][1] # NULL
                                                  /\ KeyWord(acc.store[q], build) = table[g]}
      <4>1. table[g] = acc.ht[g]
        BY <1>2, <1>6, <3>1 DEF m
      <4>. QED BY <1>2, <1>4, <1>5, <3>2, <4>1 DEF Members
    <3>4. ToSet(<<>>) = {} /\ Increasing(<<>>) /\ <<>> \in Seq(Nat)
      BY DEF ToSet, Increasing
    <3>5. \A q \in 1 .. r - 1 : ~(acc.store[q][1] # NULL /\ KeyWord(acc.store[q], build) = table[m + 1])
      BY <1>4, <1>5, <3>1
    <3>6. /\ lists[m + 1] \in Seq(Nat) /\ Increasing(lists[m + 1])
          /\ ToSet(lists[m + 1]) = {q \in 1 .. r - 1 :
                                      /\ Time(acc.store[q]) # NULL
                                      /\ Keyed => acc.store[q][1] # NULL
                                                  /\ KeyWord(acc.store[q], build) = table[m + 1]}
      BY <3>1, <3>2, <3>4, <3>5
    <3>7. \A g \in DOMAIN lists : g \in 1 .. m \/ g = m + 1
      BY <3>1, <3>2
    <3>. QED BY <3>1, <3>2, <3>3, <3>6, <3>7
  <2>. QED BY <2>1, <2>2
<1> HIDE DEF table, gid, lists, known
<1>9. \A g : Members(new, g) = {q \in 1 .. r : /\ Time(st[q]) # NULL
                                               /\ Keyed => st[q][1] # NULL
                                                           /\ KeyWord(st[q], build) = table[g]}
  BY <1>1, <1>5 DEF Members
<1>10. /\ gr \in Seq(Seq(Nat)) /\ Len(gr) = Len(lists)
       /\ \A g \in DOMAIN gr : ToSet(gr[g]) = Members(new, g) /\ Increasing(gr[g])
  <2> DEFINE Old(g) == {q \in 1 .. r - 1 : /\ Time(acc.store[q]) # NULL
                                           /\ Keyed => acc.store[q][1] # NULL
                                                       /\ KeyWord(acc.store[q], build) = table[g]}
  <2>1. \A g : Members(new, g) = IF Time(row) # NULL /\ (Keyed => row[1] # NULL /\ word = table[g])
                                 THEN Old(g) \union {r} ELSE Old(g)
    <3>1. KeyWord(row, build) = word
      BY DEF word
    <3>2. \A q \in 1 .. r : q \in 1 .. r - 1 \/ q = r
      BY <1>5
    <3>3. ASSUME NEW g
          PROVE Members(new, g) = IF Time(row) # NULL /\ (Keyed => row[1] # NULL /\ word = table[g])
                                  THEN Old(g) \union {r} ELSE Old(g)
      <4> DEFINE In(x) == /\ Time(x) # NULL
                          /\ Keyed => x[1] # NULL /\ KeyWord(x, build) = table[g]
      <4>1. Members(new, g) = {q \in 1 .. r : In(st[q])}
        BY <1>9
      <4>2. Old(g) = {q \in 1 .. r - 1 : In(acc.store[q])}
        OBVIOUS
      <4>3. In(row) <=> Time(row) # NULL /\ (Keyed => row[1] # NULL /\ word = table[g])
        BY <3>1
      <4> HIDE DEF In, Old
      <4>4. \A q \in 1 .. r : In(st[q]) <=> (q \in 1 .. r - 1 /\ In(acc.store[q])) \/ (q = r /\ In(row))
        BY <1>5, <3>2
      <4>5. r \in 1 .. r /\ 1 .. r - 1 \subseteq 1 .. r
        BY <1>5
      <4>6. CASE In(row)
        BY <4>1, <4>2, <4>3, <4>4, <4>5, <4>6
      <4>7. CASE ~In(row)
        BY <4>1, <4>2, <4>3, <4>4, <4>5, <4>7
      <4>. QED BY <4>6, <4>7
    <3>. QED BY <3>3
  <2>2. \A g \in DOMAIN lists : g \in 1 .. Len(lists) /\ ToSet(lists[g]) = Old(g)
                                /\ lists[g] \in Seq(Nat) /\ Increasing(lists[g])
    BY <1>8
  <2>3. \A g : \A x \in Old(g) : x < r
    BY <1>5
  <2> HIDE DEF Old
  <2>4. CASE ~(gid > 0 /\ Time(row) # NULL)
    <3>1. gr = lists
      BY <2>4
    <3>2. Time(row) = NULL \/ (Keyed /\ row[1] = NULL)
      BY <1>6, <1>7, <2>4
    <3>3. \A g : Members(new, g) = Old(g)
      BY <2>1, <3>2
    <3> HIDE DEF gr
    <3>. QED BY <1>8, <2>2, <3>1, <3>3
  <2>5. CASE gid > 0 /\ Time(row) # NULL
    <3>1. gr = [lists EXCEPT ![gid] = Append(lists[gid], r)]
      BY <2>5
    <3>2. gid \in DOMAIN lists
      BY <1>6, <1>7, <1>8, <2>5
    <3>3. /\ Append(lists[gid], r) \in Seq(Nat) /\ Increasing(Append(lists[gid], r))
          /\ ToSet(Append(lists[gid], r)) = Old(gid) \union {r}
      BY <1>5, <2>2, <2>3, <3>2, ListAppend
    <3> DEFINE longer == Append(lists[gid], r)
    <3> HIDE DEF longer, gr
    <3>4. /\ gr \in Seq(Seq(Nat)) /\ Len(gr) = Len(lists) /\ DOMAIN gr = DOMAIN lists
          /\ gr[gid] = longer /\ \A g \in DOMAIN lists : g # gid => gr[g] = lists[g]
      BY <1>8, <3>1, <3>2, <3>3 DEF longer
    <3>5. Members(new, gid) = Old(gid) \union {r}
      BY <1>7, <2>1, <2>5
    <3>6. \A g \in DOMAIN lists : g # gid => Members(new, g) = Old(g)
      <4>1. \A g \in DOMAIN lists : g # gid => Keyed /\ table[g] # word
        BY <1>6, <1>7, <1>8, <2>5
      <4>. QED BY <2>1, <4>1
    <3>7. \A g \in DOMAIN gr : ToSet(gr[g]) = Members(new, g) /\ Increasing(gr[g])
      <4>1. ASSUME NEW g \in DOMAIN gr PROVE ToSet(gr[g]) = Members(new, g) /\ Increasing(gr[g])
        <5>1. CASE g = gid
          BY <3>3, <3>4, <3>5, <5>1 DEF longer
        <5>2. CASE g # gid
          BY <2>2, <3>4, <3>6, <5>2
        <5>. QED BY <5>1, <5>2
      <4>. QED BY <4>1
    <3>. QED BY <3>4, <3>7
  <2>. QED BY <2>4, <2>5
<1> HIDE DEF gr
<1>11. new \in BuildAcc /\ new.ht = table /\ new.store = st /\ new.groupRows = gr
  BY <1>1, <1>5, <1>6, <1>10 DEF BuildAcc
<1>12. \A q \in DOMAIN st : Keyed /\ st[q][1] # NULL => KeyWord(st[q], build) \in ToSet(table)
  <2>1. ASSUME NEW q \in DOMAIN st, Keyed, st[q][1] # NULL PROVE KeyWord(st[q], build) \in ToSet(table)
    <3>1. CASE q = r
      BY <1>5, <1>6, <2>1, <3>1 DEF word
    <3>2. CASE q # r
      <4>1. q \in DOMAIN acc.store /\ st[q] = acc.store[q]
        BY <1>5, <3>2
      <4>. QED BY <1>4, <1>6, <2>1, <4>1
    <3>. QED BY <3>1, <3>2
  <2>. QED BY <2>1
<1>13. Grouped(new)
  BY <1>6, <1>8, <1>10, <1>11, <1>12 DEF Grouped
<1>. QED BY <1>11, <1>13 DEF new, st

\* A batch of the build side: its rows come behind those of the store.
LEMMA AddBatchGrouped ==
    ASSUME NEW acc, Grouped(acc), NEW rows \in Seq(RowSet)
    PROVE  /\ Grouped(AddBatch(acc, rows))
           /\ AddBatch(acc, rows).store = acc.store \o rows
<1> DEFINE n == Len(rows)
           D == DOMAIN rows
           A == {x \in BuildAcc : Grouped(x)}
           step == [k \in 1 .. n |-> [x \in A |-> AddRow(x, rows[k])]]
           body(f) == [s \in SUBSET D |-> IF s = {} THEN acc ELSE AddRow(f[s \ {Max(s)}], rows[Max(s)])]
           it == CHOOSE f : f = body(f)
<1>1. n \in Nat /\ D = 1 .. n /\ \A k \in 1 .. n : rows[k] \in RowSet
  OBVIOUS
<1>2. acc \in A
  BY DEF Grouped
<1>3. \A k \in 1 .. n, x \in A : AddRow(x, rows[k]) \in A /\ AddRow(x, rows[k]).store = Append(x.store, rows[k])
  <2>1. ASSUME NEW k \in 1 .. n, NEW x \in A
        PROVE  AddRow(x, rows[k]) \in A /\ AddRow(x, rows[k]).store = Append(x.store, rows[k])
    <3>1. Grouped(x) /\ rows[k] \in RowSet
      BY <1>1, <2>1
    <3>2. Grouped(AddRow(x, rows[k])) /\ AddRow(x, rows[k]).store = Append(x.store, rows[k])
      BY <3>1, AddRowGrouped
    <3>3. AddRow(x, rows[k]) \in BuildAcc
      BY <3>2, Zenon DEF Grouped
    <3>. QED BY <3>2, <3>3
  <2>. QED BY <2>1
<1>4. AddBatch(acc, rows) = it[D]
  BY Zenon DEF AddBatch, FoldLeft, MapThenFoldSet
<1>a. \A x \in A : Grouped(x) /\ x \in BuildAcc
  OBVIOUS
<1> HIDE DEF n, A
<1>5. \A k \in 1 .. n, x \in A : step[k][x] = AddRow(x, rows[k])
  OBVIOUS
<1>6. Steps(step, n, A)
  BY <1>3, <1>5 DEF Steps
<1> HIDE DEF step
<1>7. PICK g : SetTable(g, n, A, acc, step)
  BY <1>1, <1>2, <1>6, SeqFoldExists
<1>8. g = body(g)
  <2>1. ASSUME NEW s \in SUBSET (1 .. n), s # {}
        PROVE g[s] = AddRow(g[s \ {Max(s)}], rows[Max(s)])
    <3>1. g[s] = step[Max(s)][g[s \ {Max(s)}]] /\ g[s \ {Max(s)}] \in A
      BY <1>7, <2>1 DEF SetTable
    <3>2. Max(s) \in 1 .. n
      BY <1>1, <2>1, MaxOf
    <3>. QED BY <1>5, <3>1, <3>2
  <2>. QED BY <1>1, <1>7, <2>1 DEF SetTable
<1>9. it = body(it)
  <2> HIDE DEF body
  <2>. QED BY <1>8
<1> DEFINE h == [k \in 0 .. n |-> it[1 .. k]]
<1> HIDE DEF it
<1>10. h[0] = acc
  BY <1>1, <1>9
<1>11. ASSUME NEW k \in 1 .. n PROVE h[k] = AddRow(h[k - 1], rows[k])
  <2>1. 1 .. k \in SUBSET (1 .. n) /\ 1 .. k # {} /\ Max(1 .. k) = k /\ (1 .. k) \ {k} = 1 .. k - 1
    BY <1>1, Initial
  <2>2. it[1 .. k] = AddRow(it[1 .. k - 1], rows[k])
    <3>1. \A s \in SUBSET (1 .. n) : s # {} => it[s] = AddRow(it[s \ {Max(s)}], rows[Max(s)])
      BY <1>1, <1>9
    <3>. QED BY <2>1, <3>1
  <2>3. k \in 0 .. n /\ k - 1 \in 0 .. n
    BY <1>1
  <2>. QED BY <2>2, <2>3
<1>12. h[n] = AddBatch(acc, rows)
  BY <1>1, <1>4
<1> HIDE DEF h
<1> DEFINE W(k) == acc.store \o SubSeq(rows, 1, k)
           S == {k \in Nat : k <= n => h[k] \in A /\ h[k].store = W(k)}
<1>b. acc.store \in Seq(RowSet) /\ rows \in Seq(RowSet)
  BY DEF Grouped, BuildAcc
<1>13. 0 \in S
  <2>1. SubSeq(rows, 1, 0) = <<>>
    BY <1>b
  <2>2. W(0) = acc.store
    BY <1>b, <2>1
  <2> HIDE DEF W
  <2>. QED BY <1>1, <1>2, <1>10, <2>2
<1>14. ASSUME NEW k \in Nat, k \in S PROVE k + 1 \in S
  <2>1. SUFFICES ASSUME k + 1 <= n
                 PROVE  h[k + 1] \in A /\ h[k + 1].store = W(k + 1)
    <3> HIDE DEF W
    <3>. QED OBVIOUS
  <2>2. k + 1 \in 1 .. n /\ (k + 1) - 1 = k /\ k <= n
    BY <1>1, <2>1
  <2>3. h[k] \in A /\ h[k + 1] = AddRow(h[k], rows[k + 1]) /\ h[k].store = W(k)
    <3> HIDE DEF W
    <3>. QED BY <1>11, <1>14, <2>2
  <2>4. h[k + 1] \in A /\ h[k + 1].store = Append(h[k].store, rows[k + 1])
    BY <1>3, <2>2, <2>3
  <2>5. Append(W(k), rows[k + 1]) = W(k + 1)
    <3> DEFINE t == SubSeq(rows, 1, k)
    <3>1. t \in Seq(RowSet) /\ rows[k + 1] \in RowSet
      BY <1>1, <1>b, <2>2 DEF n
    <3>2. SubSeq(rows, 1, k + 1) = Append(t, rows[k + 1])
      BY <1>1, <1>b, <2>2 DEF n
    <3> HIDE DEF t
    <3>3. \A s \in Seq(RowSet), x \in RowSet : Append(s \o t, x) = s \o Append(t, x)
      <4>1. ASSUME NEW s \in Seq(RowSet), NEW x \in RowSet PROVE Append(s \o t, x) = s \o Append(t, x)
        <5>1. <<x>> \in Seq(RowSet) /\ s \o t \in Seq(RowSet)
          BY <3>1
        <5>2. (s \o t) \o <<x>> = s \o (t \o <<x>>)
          BY <3>1, <5>1, ConcatAssociative
        <5>3. Append(s \o t, x) = (s \o t) \o <<x>> /\ Append(t, x) = t \o <<x>>
          BY <3>1, <5>1, AppendIsConcat
        <5>. QED BY <5>2, <5>3
      <4>. QED BY <4>1
    <3>. QED BY <1>b, <3>1, <3>2, <3>3 DEF t
  <2> HIDE DEF W
  <2>. QED BY <2>3, <2>4, <2>5
<1> HIDE DEF S
<1>15. n \in S
  BY <1>1, <1>13, <1>14, SetInduction
<1>16. SubSeq(rows, 1, n) = rows
  BY <1>b DEF n
<1>17. h[n] \in A /\ h[n].store = W(n)
  <2> HIDE DEF W
  <2>1. n \in Nat /\ n <= n
    BY <1>1
  <2>. QED BY <1>15, <2>1 DEF S
<1>. QED BY <1>a, <1>12, <1>16, <1>17

-----------------------------------------------------------------------------
(***************************************************************************)
(* The merge.                                                              *)
(***************************************************************************)
Tables == [ht |-> ht, store |-> store, groupRows |-> groupRows]

\* A group that is found has a list.
LEMMA FindGroup ==
    ASSUME Grouped(Tables), NEW word
    PROVE  /\ Find(word) # kNoGroup => /\ Find(word) \in Nat /\ Find(word) + 1 \in DOMAIN groupRows
                                       /\ Keyed => ht[Find(word) + 1] = word
           /\ Find(word) \in Int
<1>1. /\ ht \in Seq(BuildWords) /\ groupRows \in Seq(Seq(Nat))
      /\ Len(groupRows) = IF Keyed THEN Len(ht) ELSE 1
  BY DEF Grouped, Tables, BuildAcc
<1>2. CASE ~Keyed
  BY <1>1, <1>2 DEF Find
<1>3. CASE Keyed /\ word \notin ToSet(ht)
  BY <1>3 DEF Find, kNoGroup
<1>4. CASE Keyed /\ word \in ToSet(ht)
  <2> DEFINE g == CHOOSE g \in DOMAIN ht : ht[g] = word
  <2>1. g \in DOMAIN ht /\ ht[g] = word
    BY <1>4 DEF ToSet
  <2>2. Find(word) = g - 1
    BY <1>4 DEF Find
  <2> HIDE DEF g
  <2>3. g \in Nat \ {0} /\ (g - 1) + 1 = g /\ g \in DOMAIN groupRows
    BY <1>1, <1>4, <2>1
  <2>. QED BY <2>1, <2>2, <2>3
<1>. QED BY <1>2, <1>3, <1>4

\* The rows of a list are rows of the store with a time.
LEMMA ListRows ==
    ASSUME Grouped(Tables), NEW g \in DOMAIN groupRows, NEW i \in DOMAIN groupRows[g]
    PROVE  /\ groupRows[g] \in Seq(Nat) /\ groupRows[g][i] \in DOMAIN store
           /\ Time(store[groupRows[g][i]]) \in Int
           /\ Keyed => /\ store[groupRows[g][i]][1] # NULL
                       /\ KeyWord(store[groupRows[g][i]], build) = ht[g]
<1>1. /\ groupRows \in Seq(Seq(Nat)) /\ ToSet(groupRows[g]) = Members(Tables, g)
      /\ store \in Seq(RowSet)
  BY DEF Grouped, Tables, BuildAcc
<1>2. groupRows[g][i] \in Members(Tables, g)
  BY <1>1 DEF ToSet
<1>3. groupRows[g][i] \in DOMAIN store
  BY <1>2 DEF Members, Tables
<1>4. store[groupRows[g][i]] \in RowSet
  BY <1>1, <1>3
<1>. QED BY <1>1, <1>2, <1>3, <1>4, TimesAre DEF Members, Tables

\* MergeRow's cursor moves over the rows that are not after, and stops.
Stops(list, start, t, c) ==
    /\ \A i \in start + 1 .. c : i <= Len(list) /\ NotAfter(Time(store[list[i]]), t)
    /\ c < Len(list) => ~NotAfter(Time(store[list[c + 1]]), t)

\* A cursor that starts at or before the end of a list has a place where it stops.
LEMMA StopExists ==
    ASSUME NEW list, Len(list) \in Nat, NEW start \in Nat, NEW t
    PROVE  \E c \in start .. Len(list) + start : Stops(list, start, t, c)
<1> DEFINE n == Len(list)
           Stop(c) == c >= n \/ ~NotAfter(Time(store[list[c + 1]]), t)
           Q == {d \in 1 .. n + 1 : Stop(start + d - 1)}
<1>1. n + 1 \in Nat /\ n + 1 \in Q /\ Q \in SUBSET (1 .. n + 1)
  OBVIOUS
<1>2. PICK d \in Q : \A e \in Q : d <= e
  <2> HIDE DEF Q
  <2>. QED BY <1>1, LeastOf
<1> DEFINE c == start + d - 1
<1>3. d \in 1 .. n + 1 /\ c \in start .. n + start /\ Stop(c)
  BY <1>2
<1>4. ASSUME NEW i \in start + 1 .. c PROVE i <= n /\ NotAfter(Time(store[list[i]]), t)
  <2>1. i - start \in 1 .. n + 1 /\ i - start < d /\ start + (i - start) - 1 = i - 1 /\ (i - 1) + 1 = i
    BY <1>3, <1>4
  <2>2. ~(d <= i - start)
    BY <1>3, <2>1
  <2>3. i - start \notin Q
    BY <1>2, <2>2
  <2>4. ~Stop(i - 1)
    <3> HIDE DEF Stop
    <3>. QED BY <2>1, <2>3
  <2>. QED BY <1>3, <2>1, <2>4
<1>5. c < n => ~NotAfter(Time(store[list[c + 1]]), t)
  BY <1>3
<1> HIDE DEF c
<1>. QED BY <1>3, <1>4, <1>5 DEF Stops

\* A probe row that reaches the merge, and its group's list.
LiveRow(row) == Find(KeyWord(row, probe)) # kNoGroup /\ Time(row) # NULL /\ ~KeyNull(row)

ListOf(row) == groupRows[Find(KeyWord(row, probe)) + 1]

\* The build row before a cursor, if it is near enough.
CandAt(row, c) ==
    IF LiveRow(row) /\ c > 0 /\ Within(Time(row), Time(store[ListOf(row)[c]]))
      THEN ListOf(row)[c] ELSE kNullBuildRow

\* What is carried through a probe batch of n rows.
MergeSet(n) ==
    {x \in [gid : Int, cursor : Nat, pairs : Seq((1 .. n) \X (0 .. Len(store)))] :
       IF x.gid = kNoGroup THEN x.cursor = 0
       ELSE x.gid + 1 \in DOMAIN groupRows /\ x.cursor <= Len(groupRows[x.gid + 1])}

\* One probe row.
LEMMA MergeRowIs ==
    ASSUME Grouped(Tables), NEW n \in Nat, NEW k \in 1 .. n, NEW row \in RowSet, NEW acc \in MergeSet(n)
    PROVE  /\ MergeRow(acc, k, row) \in MergeSet(n)
           /\ ~LiveRow(row) => MergeRow(acc, k, row).gid = acc.gid /\ MergeRow(acc, k, row).cursor = acc.cursor
           /\ LiveRow(row) =>
                /\ MergeRow(acc, k, row).gid = Find(KeyWord(row, probe))
                /\ LET start == IF MergeRow(acc, k, row).gid # acc.gid THEN 0 ELSE acc.cursor
                   IN  /\ start <= MergeRow(acc, k, row).cursor
                       /\ Stops(ListOf(row), start, Time(row), MergeRow(acc, k, row).cursor)
           /\ LET cand == CandAt(row, MergeRow(acc, k, row).cursor)
              IN  MergeRow(acc, k, row).pairs =
                    IF cand = kNullBuildRow /\ type = "Inner" THEN acc.pairs
                    ELSE Append(acc.pairs, <<k, cand>>)
<1> DEFINE gid   == Find(KeyWord(row, probe))
           live  == gid # kNoGroup /\ Time(row) # NULL /\ ~KeyNull(row)
           list  == IF live THEN groupRows[gid + 1] ELSE <<>>
           start == IF live /\ gid # acc.gid THEN 0 ELSE acc.cursor
           t     == Time(row)
           stop  == CHOOSE c \in start .. Len(list) + start :
                      /\ \A i \in start + 1 .. c : i <= Len(list) /\ NotAfter(Time(store[list[i]]), Time(row))
                      /\ c < Len(list) => ~NotAfter(Time(store[list[c + 1]]), Time(row))
           cand  == IF live /\ stop > 0 /\ Within(Time(row), Time(store[list[stop]]))
                      THEN list[stop] ELSE kNullBuildRow
           new   == MergeRow(acc, k, row)
           ps    == IF cand = kNullBuildRow /\ type = "Inner" THEN acc.pairs ELSE Append(acc.pairs, <<k, cand>>)
<1>1. new = [gid |-> IF live THEN gid ELSE acc.gid, cursor |-> IF live THEN stop ELSE acc.cursor, pairs |-> ps]
  BY Zenon DEF MergeRow
<1>2. live <=> LiveRow(row)
  BY DEF LiveRow
<1>3. live => list = ListOf(row)
  BY DEF ListOf
<1>4. gid \in Int /\ (gid # kNoGroup => gid \in Nat /\ gid + 1 \in DOMAIN groupRows)
  BY FindGroup
<1>5. /\ acc.gid \in Int /\ acc.cursor \in Nat /\ acc.pairs \in Seq((1 .. n) \X (0 .. Len(store)))
      /\ IF acc.gid = kNoGroup THEN acc.cursor = 0
         ELSE acc.gid + 1 \in DOMAIN groupRows /\ acc.cursor <= Len(groupRows[acc.gid + 1])
  BY DEF MergeSet
<1>6. groupRows \in Seq(Seq(Nat)) /\ store \in Seq(RowSet) /\ Len(store) \in Nat
  BY DEF Grouped, Tables, BuildAcc
<1>7. list \in Seq(Nat) /\ Len(list) \in Nat
  BY <1>4, <1>6
<1>8. start \in Nat /\ (live => start <= Len(list))
  BY <1>4, <1>5, <1>7
<1>a. live => list = groupRows[gid + 1] /\ gid + 1 \in DOMAIN groupRows /\ gid # kNoGroup
  BY <1>4
<1> HIDE DEF gid, live, list, start
<1>9. stop = CHOOSE c \in start .. Len(list) + start : Stops(list, start, t, c)
  BY Zenon DEF Stops
<1>10. stop \in start .. Len(list) + start /\ Stops(list, start, t, stop)
  <2>1. \E c \in start .. Len(list) + start : Stops(list, start, t, c)
    BY <1>7, <1>8, StopExists
  <2> HIDE DEF stop, t
  <2>. QED BY <1>9, <2>1
<1> HIDE DEF stop
<1>11. live => stop <= Len(list) /\ stop \in Nat
  <2>1. CASE stop = start
    BY <1>8, <2>1
  <2>2. CASE stop # start
    <3>1. stop \in start + 1 .. stop
      BY <1>7, <1>8, <1>10, <2>2
    <3>. QED BY <1>8, <1>10, <3>1 DEF Stops
  <2>. QED BY <2>1, <2>2
<1>12. live /\ stop > 0 => list[stop] \in 1 .. Len(store)
  <2>1. SUFFICES ASSUME live, stop > 0 PROVE list[stop] \in 1 .. Len(store)
    OBVIOUS
  <2>2. stop \in DOMAIN list
    BY <1>7, <1>11, <2>1
  <2>. QED BY <1>6, <1>a, <2>1, <2>2, ListRows
<1>13. cand \in 0 .. Len(store)
  BY <1>6, <1>12 DEF kNullBuildRow
<1>14. cand = CandAt(row, stop) \/ ~live
  BY <1>2, <1>3 DEF CandAt
<1>15. ~live => cand = kNullBuildRow /\ \A c : CandAt(row, c) = kNullBuildRow
  BY <1>2 DEF CandAt
<1> HIDE DEF cand
<1>16. ps \in Seq((1 .. n) \X (0 .. Len(store)))
  BY <1>5, <1>13
<1> HIDE DEF ps
<1>17. new.gid = (IF live THEN gid ELSE acc.gid) /\ new.cursor = (IF live THEN stop ELSE acc.cursor) /\ new.pairs = ps
  BY <1>1
<1>18. new \in MergeSet(n)
  <2>1. new \in [gid : Int, cursor : Nat, pairs : Seq((1 .. n) \X (0 .. Len(store)))]
    <3>1. gid \in Int
      BY <1>4 DEF gid
    <3>. QED BY <1>1, <1>5, <1>11, <1>16, <3>1
  <2>2. IF new.gid = kNoGroup THEN new.cursor = 0
        ELSE new.gid + 1 \in DOMAIN groupRows /\ new.cursor <= Len(groupRows[new.gid + 1])
    BY <1>5, <1>11, <1>17, <1>a
  <2> HIDE DEF new
  <2>. QED BY <2>1, <2>2 DEF MergeSet
<1>19. ~live => new.gid = acc.gid /\ new.cursor = acc.cursor
  BY <1>17
<1>20. live => new.gid = gid /\ new.cursor = stop
              /\ start = IF new.gid # acc.gid THEN 0 ELSE acc.cursor
  BY <1>17 DEF start
<1>21. ps = IF CandAt(row, new.cursor) = kNullBuildRow /\ type = "Inner" THEN acc.pairs
            ELSE Append(acc.pairs, <<k, CandAt(row, new.cursor)>>)
  <2>1. cand = CandAt(row, new.cursor)
    BY <1>14, <1>15, <1>20
  <2> HIDE DEF new
  <2>. QED BY <2>1 DEF ps
<1>22. live => /\ (IF new.gid # acc.gid THEN 0 ELSE acc.cursor) <= new.cursor
               /\ Stops(ListOf(row), IF new.gid # acc.gid THEN 0 ELSE acc.cursor, Time(row), new.cursor)
  <2>1. start <= stop
    BY <1>7, <1>8, <1>10
  <2> HIDE DEF new
  <2>. QED BY <1>3, <1>10, <1>20, <2>1 DEF t
<1> HIDE DEF new
<1>. QED BY <1>2, <1>17, <1>18, <1>19, <1>20, <1>21, <1>22 DEF gid, new

\* The store is the beginning of the sorted build side.
StorePrefix == /\ Len(store) <= Len(Sorted(build))
               /\ \A r \in DOMAIN store : store[r] = Sorted(build)[r]

\* A list is in the order of the times.
LEMMA ListTimely ==
    ASSUME Grouped(Tables), build \in Seq(RowSet), StorePrefix, NEW g \in DOMAIN groupRows,
           NEW i \in DOMAIN groupRows[g], NEW j \in DOMAIN groupRows[g], i < j
    PROVE  Time(store[groupRows[g][i]]) <= Time(store[groupRows[g][j]])
<1> DEFINE q == groupRows[g][i]
           r == groupRows[g][j]
           t == Sorted(build)
<1>1. /\ q \in DOMAIN store /\ r \in DOMAIN store
      /\ Time(store[q]) # NULL /\ Time(store[r]) # NULL
      /\ Keyed => /\ store[q][1] # NULL /\ store[r][1] # NULL
                  /\ KeyWord(store[q], build) = KeyWord(store[r], build)
  BY ListRows, AsofAssumption
<1>2. q < r
  <2>1. Increasing(groupRows[g])
    BY DEF Grouped, Tables
  <2>. QED BY <2>1 DEF Increasing
<1>3. t \in Seq(RowSet) /\ Permuted(t, build) /\ Timely(t)
  BY SortedTable
<1>4. store \in Seq(RowSet) /\ Len(store) \in Nat
  BY DEF Grouped, Tables, BuildAcc
<1>5. q \in DOMAIN t /\ r \in DOMAIN t /\ store[q] = t[q] /\ store[r] = t[r]
  BY <1>1, <1>3, <1>4 DEF StorePrefix
<1> HIDE DEF q, r, t
<1>6. Keyed => t[q][1] = t[r][1]
  BY <1>1, <1>3, <1>5, SortedWords
<1>7. Time(t[q]) <= Time(t[r])
  BY <1>1, <1>2, <1>3, <1>5, <1>6 DEF Timely
<1>. QED BY <1>5, <1>7 DEF q, r

\* A cursor splits a list: before it the rows that are not later than t.
Split(list, c, t) ==
    /\ c \in 0 .. Len(list)
    /\ \A i \in DOMAIN list : (i <= c) = (Time(store[list[i]]) <= t)

\* Where the cursor stops, it splits the list.
LEMMA StopSplits ==
    ASSUME Grouped(Tables), build \in Seq(RowSet), StorePrefix, NEW g \in DOMAIN groupRows,
           NEW start \in 0 .. Len(groupRows[g]), NEW t \in Int, NEW c \in Nat, start <= c,
           \A i \in 1 .. start : Time(store[groupRows[g][i]]) <= t,
           Stops(groupRows[g], start, t, c)
    PROVE  Split(groupRows[g], c, t)
<1> DEFINE list == groupRows[g]
           n == Len(list)
           T(i) == Time(store[list[i]])
<1>1. n \in Nat /\ DOMAIN list = 1 .. n
  BY DEF Grouped, Tables, BuildAcc
<1>2. \A i \in 1 .. n : T(i) \in Int
  BY <1>1, ListRows
<1>3. \A i, j \in 1 .. n : i < j => T(i) <= T(j)
  BY <1>1, ListTimely
<1>4. /\ \A i \in start + 1 .. c : i <= n /\ T(i) <= t
      /\ c < n => ~(T(c + 1) <= t)
  BY DEF Stops, NotAfter
<1>5. \A i \in 1 .. start : T(i) <= t
  OBVIOUS
<1>s. start \in 0 .. n
  OBVIOUS
<1> HIDE DEF list, n, T
<1>6. c <= n
  <2>1. CASE c = start
    BY <1>1, <1>s, <2>1
  <2>2. CASE c # start
    <3>1. c \in start + 1 .. c
      BY <1>1, <1>s, <2>2
    <3>. QED BY <1>4, <3>1
  <2>. QED BY <2>1, <2>2
<1>7. ASSUME NEW i \in 1 .. n PROVE (i <= c) = (T(i) <= t)
  <2>1. CASE i <= c
    <3>1. i \in 1 .. start \/ i \in start + 1 .. c
      BY <1>1, <1>s, <2>1
    <3>. QED BY <1>4, <1>5, <2>1, <3>1
  <2>2. CASE i > c
    <3>1. c + 1 \in 1 .. n /\ (c + 1 = i \/ c + 1 < i) /\ c < n
      BY <1>1, <2>2
    <3>2. T(c + 1) <= T(i) /\ T(c + 1) \in Int /\ T(i) \in Int /\ ~(T(c + 1) <= t)
      BY <1>2, <1>3, <1>4, <3>1
    <3>3. ~(T(i) <= t) /\ ~(i <= c)
      BY <2>2, <3>2
    <3>. QED BY <3>3
  <2>. QED BY <1>1, <2>1, <2>2
<1>. QED BY <1>1, <1>6, <1>7 DEF Split, list, n, T

\* The sorted probe side, and the last of its first p rows that is live.
Probes == Sorted(probe)

LastLive(m, p) == /\ m \in 1 .. p /\ LiveRow(Probes[m])
                  /\ \A j \in 1 .. p : LiveRow(Probes[j]) => j <= m

\* The merge's state after p probe rows.
MergedTo(gid, c, p) ==
    IF gid = kNoGroup THEN c = 0 /\ \A j \in 1 .. p : ~LiveRow(Probes[j])
    ELSE \E m \in 1 .. p : /\ LastLive(m, p)
                           /\ gid = Find(KeyWord(Probes[m], probe))
                           /\ Split(groupRows[gid + 1], c, Time(Probes[m]))

\* What the merge of one more probe row makes of it.
LEMMA MergeRowSplits ==
    ASSUME Grouped(Tables), build \in Seq(RowSet), probe \in Seq(RowSet), StorePrefix,
           NEW n \in Nat, NEW k \in 1 .. n, NEW acc \in MergeSet(n),
           NEW p \in Nat, p + 1 <= Len(Probes), MergedTo(acc.gid, acc.cursor, p)
    PROVE  LET x == MergeRow(acc, k, Probes[p + 1])
           IN  /\ MergedTo(x.gid, x.cursor, p + 1)
               /\ LiveRow(Probes[p + 1]) => Split(ListOf(Probes[p + 1]), x.cursor, Time(Probes[p + 1]))
<1> DEFINE row == Probes[p + 1]
           x == MergeRow(acc, k, row)
           gid == Find(KeyWord(row, probe))
           start == IF x.gid # acc.gid THEN 0 ELSE acc.cursor
<1>1. /\ Probes \in Seq(RowSet) /\ Permuted(Probes, probe) /\ Timely(Probes) /\ Len(Probes) \in Nat
      /\ DOMAIN Probes = 1 .. Len(Probes)
  BY SortedTable DEF Probes
<1>2. row \in RowSet /\ p + 1 \in 1 .. p + 1 /\ \A j \in 1 .. p + 1 : j \in 1 .. p \/ j = p + 1
  BY <1>1
<1>3. x \in MergeSet(n)
  BY <1>2, MergeRowIs
<1>4. x.cursor \in Nat /\ acc.cursor \in Nat
  BY <1>3 DEF MergeSet
<1>5. CASE ~LiveRow(row)
  <2>1. x.gid = acc.gid /\ x.cursor = acc.cursor
    BY <1>2, <1>5, MergeRowIs
  <2>n. ~LiveRow(Probes[p + 1])
    BY <1>5
  <2> HIDE DEF x, row
  <2>2. CASE acc.gid = kNoGroup
    <3>1. acc.cursor = 0 /\ \A j \in 1 .. p : ~LiveRow(Probes[j])
      BY <2>2 DEF MergedTo
    <3>2. \A j \in 1 .. p + 1 : ~LiveRow(Probes[j])
      BY <1>2, <2>n, <3>1
    <3>3. MergedTo(acc.gid, acc.cursor, p + 1)
      BY <2>2, <3>1, <3>2 DEF MergedTo
    <3>. QED BY <1>5, <2>1, <3>3 DEF x, row
  <2>3. CASE acc.gid # kNoGroup
    <3>1. PICK m \in 1 .. p : /\ LastLive(m, p) /\ acc.gid = Find(KeyWord(Probes[m], probe))
                              /\ Split(groupRows[acc.gid + 1], acc.cursor, Time(Probes[m]))
      BY <2>3 DEF MergedTo
    <3>2. LastLive(m, p + 1) /\ m \in 1 .. p + 1
      BY <1>2, <2>n, <3>1 DEF LastLive
    <3>3. MergedTo(acc.gid, acc.cursor, p + 1)
      BY <2>3, <3>1, <3>2 DEF MergedTo
    <3>. QED BY <1>5, <2>1, <3>3 DEF x, row
  <2>. QED BY <2>2, <2>3
<1>6. CASE LiveRow(row)
  <2>1. x.gid = gid /\ start <= x.cursor /\ Stops(ListOf(row), start, Time(row), x.cursor)
    BY <1>2, <1>6, MergeRowIs
  <2>2. gid # kNoGroup /\ gid \in Nat /\ gid + 1 \in DOMAIN groupRows
    BY <1>6, FindGroup DEF LiveRow
  <2>3. ListOf(row) = groupRows[gid + 1]
    BY DEF ListOf
  <2>4. Time(row) \in Int /\ Time(row) # NULL
    BY <1>2, <1>6, TimesAre DEF LiveRow
  <2> HIDE DEF x, gid, row
  <2>5. /\ start \in 0 .. Len(groupRows[gid + 1])
        /\ \A i \in 1 .. start : Time(store[groupRows[gid + 1][i]]) <= Time(row)
    <3>0. Len(groupRows[gid + 1]) \in Nat /\ DOMAIN groupRows[gid + 1] = 1 .. Len(groupRows[gid + 1])
      BY <2>2 DEF Grouped, Tables, BuildAcc
    <3>1. CASE gid # acc.gid
      BY <2>1, <3>0, <3>1
    <3>2. CASE gid = acc.gid
      <4>1. PICK m \in 1 .. p : /\ LastLive(m, p) /\ gid = Find(KeyWord(Probes[m], probe))
                                /\ Split(groupRows[gid + 1], acc.cursor, Time(Probes[m]))
        BY <2>2, <3>2 DEF MergedTo
      <4>2. m \in DOMAIN Probes /\ p + 1 \in DOMAIN Probes /\ m < p + 1 /\ Probes[m] \in RowSet
        BY <1>1
      <4>3. LiveRow(Probes[m])
        BY <4>1 DEF LastLive
      <4>4. Keyed => Probes[m][1] = row[1]
        <5>1. SUFFICES ASSUME Keyed PROVE Probes[m][1] = row[1]
          OBVIOUS
        <5>2. ht[gid + 1] = KeyWord(Probes[m], probe) /\ ht[gid + 1] = KeyWord(row, probe)
          BY <2>2, <4>1, <5>1, FindGroup DEF gid
        <5>3. Probes[m][1] # NULL /\ row[1] # NULL
          BY <1>6, <4>3, <5>1 DEF LiveRow, KeyNull
        <5>. QED BY <1>1, <4>2, <5>2, <5>3, SortedWords DEF row
      <4>5. Time(Probes[m]) # NULL /\ Time(Probes[m]) \in Int
        BY <4>2, <4>3, TimesAre DEF LiveRow
      <4>6. Time(Probes[m]) <= Time(row)
        BY <1>1, <2>4, <4>2, <4>4, <4>5 DEF Timely, row
      <4>7. start = acc.cursor /\ acc.cursor \in 0 .. Len(groupRows[gid + 1])
        BY <2>1, <3>2, <4>1 DEF Split
      <4>8. ASSUME NEW i \in 1 .. start PROVE Time(store[groupRows[gid + 1][i]]) <= Time(row)
        <5>1. i \in DOMAIN groupRows[gid + 1] /\ i <= acc.cursor
          BY <3>0, <4>7
        <5>2. Time(store[groupRows[gid + 1][i]]) <= Time(Probes[m])
          BY <4>1, <5>1 DEF Split
        <5>3. Time(store[groupRows[gid + 1][i]]) \in Int
          BY <2>2, <5>1, ListRows
        <5>. QED BY <2>4, <4>5, <4>6, <5>2, <5>3
      <4>. QED BY <4>7, <4>8
    <3>. QED BY <3>1, <3>2
  <2>6. Split(groupRows[gid + 1], x.cursor, Time(row))
    <3> HIDE DEF start
    <3>. QED BY <1>4, <2>1, <2>2, <2>3, <2>4, <2>5, StopSplits
  <2>7. LastLive(p + 1, p + 1)
    BY <1>2, <1>6 DEF LastLive, row
  <2>8. MergedTo(x.gid, x.cursor, p + 1)
    BY <1>2, <2>1, <2>2, <2>6, <2>7 DEF MergedTo, gid, row
  <2>. QED BY <2>3, <2>6, <2>8 DEF row, x
<1>. QED BY <1>5, <1>6

\* h[k] is what is carried past the first k rows of a batch, whose first row
\* is row p + 1 of the side.
MergeChain(h, acc, rows, p) ==
    /\ h[0] = acc /\ h[Len(rows)] = MergeBatch(acc, rows)
    /\ \A k \in 0 .. Len(rows) : h[k] \in MergeSet(Len(rows)) /\ MergedTo(h[k].gid, h[k].cursor, p + k)
    /\ \A k \in 1 .. Len(rows) : h[k] = MergeRow(h[k - 1], k, rows[k])

\* A batch of the probe side, the rows after the first p.
LEMMA MergeBatchSplits ==
    ASSUME Grouped(Tables), build \in Seq(RowSet), probe \in Seq(RowSet), StorePrefix,
           NEW rows \in Seq(RowSet), NEW p \in Nat, p + Len(rows) <= Len(Probes),
           \A k \in DOMAIN rows : rows[k] = Probes[p + k],
           NEW acc \in MergeSet(Len(rows)), MergedTo(acc.gid, acc.cursor, p)
    PROVE  \E h : MergeChain(h, acc, rows, p)
<1> DEFINE n == Len(rows)
           D == DOMAIN rows
           A == MergeSet(n)
           at == [k \in D |-> k]
           step == [k \in 1 .. n |-> [x \in A |-> MergeRow(x, k, rows[k])]]
           body(f) == [s \in SUBSET DOMAIN at |->
                         IF s = {} THEN acc ELSE MergeRow(f[s \ {Max(s)}], at[Max(s)], rows[at[Max(s)]])]
           it == CHOOSE f : f = body(f)
<1>1. n \in Nat /\ D = 1 .. n /\ \A k \in 1 .. n : rows[k] \in RowSet
  OBVIOUS
<1>2. acc \in A
  OBVIOUS
<1>3. \A k \in 1 .. n, x \in A : MergeRow(x, k, rows[k]) \in A
  BY <1>1, MergeRowIs
<1>4. MergeBatch(acc, rows) = it[D]
  BY Zenon DEF MergeBatch, FoldLeft, MapThenFoldSet
<1>5. DOMAIN at = 1 .. n /\ \A k \in 1 .. n : at[k] = k
  BY <1>1
<1> HIDE DEF n, A, at
<1>6. \A k \in 1 .. n, x \in A : step[k][x] = MergeRow(x, k, rows[k])
  OBVIOUS
<1>7. Steps(step, n, A)
  BY <1>3, <1>6 DEF Steps
<1> HIDE DEF step
<1>8. PICK g : SetTable(g, n, A, acc, step)
  BY <1>1, <1>2, <1>7, SeqFoldExists
<1>9. g = body(g)
  <2>1. ASSUME NEW s \in SUBSET (1 .. n), s # {}
        PROVE g[s] = MergeRow(g[s \ {Max(s)}], at[Max(s)], rows[at[Max(s)]])
    <3>1. g[s] = step[Max(s)][g[s \ {Max(s)}]] /\ g[s \ {Max(s)}] \in A
      BY <1>8, <2>1 DEF SetTable
    <3>2. Max(s) \in 1 .. n
      BY <1>1, <2>1, MaxOf
    <3>3. at[Max(s)] = Max(s)
      BY <1>5, <3>2
    <3>. QED BY <1>6, <3>1, <3>2, <3>3
  <2>. QED BY <1>5, <1>8, <2>1 DEF SetTable
<1>10. it = body(it)
  <2> HIDE DEF body
  <2>. QED BY <1>9
<1> DEFINE h == [k \in 0 .. n |-> it[1 .. k]]
<1> HIDE DEF it
<1>11. h[0] = acc
  BY <1>1, <1>5, <1>10
<1>12. ASSUME NEW k \in 1 .. n PROVE h[k] = MergeRow(h[k - 1], k, rows[k])
  <2>1. 1 .. k \in SUBSET (1 .. n) /\ 1 .. k # {} /\ Max(1 .. k) = k /\ (1 .. k) \ {k} = 1 .. k - 1
    BY <1>1, Initial
  <2>2. it[1 .. k] = MergeRow(it[1 .. k - 1], k, rows[k])
    <3>1. \A s \in SUBSET (1 .. n) :
            s # {} => it[s] = MergeRow(it[s \ {Max(s)}], at[Max(s)], rows[at[Max(s)]])
      BY <1>5, <1>10
    <3>2. at[Max(1 .. k)] = k
      BY <1>5, <2>1
    <3>. QED BY <2>1, <3>1, <3>2
  <2>3. k \in 0 .. n /\ k - 1 \in 0 .. n
    BY <1>1
  <2>. QED BY <2>2, <2>3
<1>13. h[n] = MergeBatch(acc, rows)
  BY <1>1, <1>4
<1> HIDE DEF h
<1> DEFINE S == {k \in Nat : k <= n => h[k] \in A /\ MergedTo(h[k].gid, h[k].cursor, p + k)}
<1>14. 0 \in S
  BY <1>1, <1>2, <1>11
<1>15. ASSUME NEW k \in Nat, k \in S PROVE k + 1 \in S
  <2>1. SUFFICES ASSUME k + 1 <= n
                 PROVE  h[k + 1] \in A /\ MergedTo(h[k + 1].gid, h[k + 1].cursor, p + (k + 1))
    OBVIOUS
  <2>2. k + 1 \in 1 .. n /\ (k + 1) - 1 = k /\ k <= n /\ p + k \in Nat
        /\ p + (k + 1) = (p + k) + 1 /\ p + n <= Len(Probes)
    BY <1>1, <2>1 DEF n
  <2>3. h[k] \in A /\ MergedTo(h[k].gid, h[k].cursor, p + k)
        /\ h[k + 1] = MergeRow(h[k], k + 1, rows[k + 1])
    BY <1>12, <1>15, <2>2
  <2>4. rows[k + 1] = Probes[(p + k) + 1]
    BY <1>1, <2>2
  <2>5. Len(Probes) \in Nat
    BY SortedTable DEF Probes
  <2>6. (p + k) + 1 <= Len(Probes)
    BY <1>1, <2>1, <2>2, <2>5
  <2>7. h[k + 1] \in A
    BY <1>3, <2>2, <2>3
  <2>8. MergedTo(h[k + 1].gid, h[k + 1].cursor, (p + k) + 1)
    <3>1. h[k] \in MergeSet(n)
      BY <2>3 DEF A
    <3>. QED BY <1>1, <2>2, <2>3, <2>4, <2>6, <3>1, MergeRowSplits
  <2>. QED BY <2>2, <2>7, <2>8
<1> HIDE DEF S
<1>16. \A k \in Nat : k \in S
  BY <1>14, <1>15, SetInduction
<1>17. \A k \in 0 .. n : h[k] \in A /\ MergedTo(h[k].gid, h[k].cursor, p + k)
  BY <1>1, <1>16 DEF S
<1>18. MergeChain(h, acc, rows, p)
  BY <1>1, <1>11, <1>12, <1>13, <1>17 DEF MergeChain, A, n
<1>. QED BY <1>18

-----------------------------------------------------------------------------
(***************************************************************************)
(* The invariant.                                                          *)
(***************************************************************************)
InputsOK ==
    /\ keyType \in {"none", "I32", "STR"} /\ build \in Seq(RowSet) /\ probe \in Seq(RowSet)
    /\ type \in {"Inner", "Left"} /\ tolerance \in TimeSet \union {NULL}

Control ==
    /\ buildPos \in 0 .. Len(build) /\ probePos \in 0 .. Len(probe)
    /\ phase \in {"closed", "building", "ready"}
    /\ phase = "ready" => buildPos = Len(build)
    /\ phase # "ready" => /\ lastGid = kNoGroup /\ mergeCursor = 0 /\ probeDone = FALSE
                          /\ chunk = <<>> /\ pairs = <<>> /\ cursor = 0

\* The build rows drained so far and their lists.
BuildSide ==
    IF phase = "closed" THEN groupRows \in {<<>>, << <<>> >>} /\ ht = <<>> /\ store = <<>>
    ELSE Grouped(Tables) /\ StorePrefix /\ Len(store) = buildPos

\* The cursor of the merge after the probe rows pulled so far.
Merge ==
    phase = "ready" => /\ lastGid \in Int /\ mergeCursor \in Nat
                       /\ lastGid = kNoGroup \/ lastGid + 1 \in DOMAIN groupRows
                       /\ MergedTo(lastGid, mergeCursor, probePos)

\* The pairs of the current probe batch.
Batch ==
    /\ chunk \in Seq(RowSet) /\ pairs \in Seq((1 .. Len(chunk)) \X (0 .. Len(store)))
    /\ cursor \in Nat /\ (~probeDone => cursor <= Len(pairs))

AsofInv == InputsOK /\ Control /\ BuildSide /\ Merge /\ Batch

\* A batch of a Sort.
LEMMA ChunkIs ==
    ASSUME NEW rows \in Seq(RowSet), NEW pos \in 0 .. Len(rows), pos < Len(rows)
    PROVE  /\ NextChunk(rows, pos) \in Seq(RowSet) /\ Len(NextChunk(rows, pos)) \in Nat \ {0}
           /\ pos + Len(NextChunk(rows, pos)) <= Len(rows)
           /\ \A k \in DOMAIN NextChunk(rows, pos) : NextChunk(rows, pos)[k] = rows[pos + k]
<1> DEFINE e == IF pos + SortBatch < Len(rows) THEN pos + SortBatch ELSE Len(rows)
<1>1. SortBatch \in Nat \ {0} /\ Len(rows) \in Nat
  BY AsofAssumption
<1>2. pos \in Nat /\ e \in Nat /\ pos < e /\ e <= Len(rows)
  BY <1>1
<1>3. NextChunk(rows, pos) = SubSeq(rows, pos + 1, e)
  BY DEF NextChunk
<1> HIDE DEF e
<1>. QED BY <1>1, <1>2, <1>3

\* The tables of the build side mean the same while the input does not change.
LEMMA TablesStay ==
    ASSUME NEW acc, Grouped(acc), keyType' = keyType, build' = build,
           ht' = acc.ht, store' = acc.store, groupRows' = acc.groupRows
    PROVE  Grouped(Tables)'
<1>1. Keyed' = Keyed /\ BuildWords' = BuildWords /\ BuildAcc' = BuildAcc
  BY DEF Keyed, BuildWords, BuildAcc, KeyWord
<1>2. acc \in BuildAcc /\ acc = Tables'
  BY DEF Grouped, BuildAcc, Tables
<1>. QED BY <1>1, <1>2 DEF Grouped, Tables, Members, Keyed, KeyWord, BuildWords, BuildAcc

\* So does the state of the merge.
LEMMA MergeStays ==
    ASSUME NEW gid, NEW c, NEW p, MergedTo(gid, c, p), keyType' = keyType, probe' = probe,
           ht' = ht, store' = store, groupRows' = groupRows,
           lastGid' = gid, mergeCursor' = c, probePos' = p
    PROVE  MergedTo(lastGid, mergeCursor, probePos)'
<1>. QED BY DEF MergedTo, LastLive, LiveRow, Probes, Sorted, SortKeys, Find, KeyWord, KeyNull, Keyed, Split

\* So do the sorted tables.
LEMMA SortsStay ==
    ASSUME keyType' = keyType, build' = build
    PROVE  Sorted(build)' = Sorted(build)
<1>. QED BY DEF Sorted, SortKeys, Keyed

\* The initial states.
LEMMA AsofInit == Init => AsofInv
<1> SUFFICES ASSUME Init PROVE AsofInv
  OBVIOUS
<1>1. InputsOK
  BY AsofAssumption DEF Init, InputsOK
<1>2. Len(build) \in Nat /\ Len(probe) \in Nat
  BY <1>1 DEF InputsOK
<1>3. Control
  BY <1>2 DEF Init, Control
<1>4. BuildSide /\ Merge
  BY DEF Init, BuildSide, Merge
<1>5. Batch
  BY DEF Init, Batch
<1>. QED BY <1>1, <1>3, <1>4, <1>5 DEF AsofInv

\* A step that does not touch the build side.
LEMMA BuildSideStays ==
    ASSUME BuildSide, InputsOK, UNCHANGED <<input, ht, store, groupRows, buildPos>>,
           (phase = "closed") <=> (phase' = "closed")
    PROVE  BuildSide'
<1>1. CASE phase = "closed"
  BY <1>1 DEF BuildSide
<1>2. CASE phase # "closed"
  <2>1. Grouped(Tables) /\ StorePrefix /\ Len(store) = buildPos
    BY <1>2 DEF BuildSide
  <2>2. Grouped(Tables)'
    <3>1. ht' = Tables.ht /\ store' = Tables.store /\ groupRows' = Tables.groupRows
      BY DEF Tables
    <3>. QED BY <2>1, <3>1, TablesStay DEF input
  <2>3. StorePrefix'
    BY <2>1, SortsStay DEF StorePrefix, input
  <2>. QED BY <1>2, <2>1, <2>2, <2>3 DEF BuildSide
<1>. QED BY <1>1, <1>2

\* The empty tables.
LEMMA EmptyTables ==
    ASSUME InputsOK
    PROVE  Grouped([ht |-> <<>>, store |-> <<>>, groupRows |-> IF Keyed THEN <<>> ELSE << <<>> >>])
<1> DEFINE gr == IF Keyed THEN <<>> ELSE << <<>> >>
           acc == [ht |-> <<>>, store |-> <<>>, groupRows |-> gr]
<1>1. gr \in Seq(Seq(Nat)) /\ Len(gr) = (IF Keyed THEN 0 ELSE 1) /\ \A g \in DOMAIN gr : gr[g] = <<>>
  <2>1. << <<>> >> \in Seq(Seq(Nat)) /\ <<>> \in Seq(Seq(Nat))
    OBVIOUS
  <2>. QED BY <2>1
<1> HIDE DEF gr
<1>2. acc \in BuildAcc /\ acc.ht = <<>> /\ acc.store = <<>> /\ acc.groupRows = gr
  BY <1>1 DEF BuildAcc
<1> HIDE DEF acc
<1>3. \A g : Members(acc, g) = {}
  BY <1>2 DEF Members
<1>4. ToSet(<<>>) = {} /\ Increasing(<<>>)
  BY DEF ToSet, Increasing
<1>5. DOMAIN <<>> = {} /\ Len(<<>>) = 0
  OBVIOUS
<1>6. \A g \in DOMAIN gr : ToSet(gr[g]) = Members(acc, g) /\ Increasing(gr[g])
  BY <1>1, <1>3, <1>4
<1>7. Len(gr) = IF Keyed THEN Len(acc.ht) ELSE 1
  BY <1>1, <1>2, <1>5
<1>8. /\ DOMAIN acc.ht = {} /\ DOMAIN acc.store = {} /\ acc.ht = <<>>
  BY <1>2, <1>5
<1>9. Grouped(acc)
  BY <1>2, <1>6, <1>7, <1>8 DEF Grouped
<1>. QED BY <1>9 DEF acc, gr

\* open().
LEMMA OpenStep == ASSUME AsofInv, Open PROVE AsofInv'
<1>1. InputsOK'
  BY DEF AsofInv, InputsOK, Open, input
<1>2. Control'
  <2>1. Len(build) \in Nat
    BY DEF AsofInv, InputsOK
  <2>. QED BY <2>1 DEF AsofInv, Control, Open, FreshState, input
<1>3. BuildSide'
  <2> DEFINE acc == [ht |-> <<>>, store |-> <<>>, groupRows |-> IF Keyed THEN <<>> ELSE << <<>> >>]
  <2>1. Grouped(acc)
    BY EmptyTables DEF AsofInv
  <2>2. ht' = acc.ht /\ store' = acc.store /\ groupRows' = acc.groupRows
    BY DEF Open, FreshState
  <2> HIDE DEF acc
  <2>3. Grouped(Tables)'
    BY <2>1, <2>2, TablesStay DEF Open, input
  <2>4. store' = <<>> /\ buildPos' = 0 /\ phase' = "building"
    BY DEF Open, FreshState
  <2>5. Sorted(build)' = Sorted(build) /\ Len(Sorted(build)) \in Nat
    BY SortsStay, SortedTable DEF Open, input, AsofInv, InputsOK
  <2>6. StorePrefix'
    BY <2>4, <2>5 DEF StorePrefix
  <2>. QED BY <2>3, <2>4, <2>6 DEF BuildSide
<1>4. Merge'
  BY DEF Merge, Open
<1>5. Batch'
  BY DEF Batch, Open, FreshState
<1>. QED BY <1>1, <1>2, <1>3, <1>4, <1>5 DEF AsofInv

\* One batch of the build side.
LEMMA BuildBatchStep == ASSUME AsofInv, BuildBatch PROVE AsofInv'
<1> DEFINE rows == NextChunk(Sorted(build), buildPos)
           acc  == AddBatch([ht |-> ht, store |-> store, groupRows |-> groupRows], rows)
           t    == Sorted(build)
           n    == Len(rows)
<1>1. /\ phase = "building" /\ phase' = "building" /\ buildPos < Len(build)
      /\ buildPos' = buildPos + n
      /\ ht' = acc.ht /\ store' = acc.store /\ groupRows' = acc.groupRows
      /\ UNCHANGED <<input, probePos, phase, lastGid, mergeCursor, chunk, pairs, cursor, probeDone>>
  BY DEF BuildBatch
<1>2. /\ Grouped(Tables) /\ StorePrefix /\ Len(store) = buildPos /\ buildPos \in 0 .. Len(build)
      /\ build \in Seq(RowSet) /\ store \in Seq(RowSet)
  BY <1>1 DEF AsofInv, BuildSide, Control, InputsOK, Grouped, BuildAcc, Tables
<1>3. t \in Seq(RowSet) /\ Len(t) = Len(build) /\ Len(build) \in Nat
  BY <1>2, SortedTable
<1>4. /\ rows \in Seq(RowSet) /\ n \in Nat \ {0} /\ buildPos + n <= Len(t)
      /\ \A k \in DOMAIN rows : rows[k] = t[buildPos + k]
  <2> HIDE DEF t
  <2>1. buildPos \in 0 .. Len(t) /\ buildPos < Len(t)
    BY <1>1, <1>2, <1>3
  <2>. QED BY <1>3, <2>1, ChunkIs DEF t
<1>5. acc = AddBatch(Tables, rows)
  BY DEF Tables
<1> HIDE DEF rows, n, acc, t
<1>6. Grouped(acc) /\ acc.store = store \o rows
  BY <1>2, <1>4, <1>5, AddBatchGrouped DEF Tables
<1>7. Grouped(Tables)'
  BY <1>1, <1>6, TablesStay DEF input
<1>8. /\ store' \in Seq(RowSet) /\ Len(store') = buildPos + n
      /\ \A r \in DOMAIN store' : store'[r] = t[r]
  <2>1. store' = store \o rows
    BY <1>1, <1>6
  <2>2. DOMAIN store = 1 .. buildPos /\ DOMAIN rows = 1 .. n /\ Len(rows) = n /\ buildPos \in Nat
    BY <1>2, <1>3, <1>4 DEF n
  <2>3. store \o rows \in Seq(RowSet) /\ Len(store \o rows) = buildPos + n
    <3>1. Len(store) = buildPos /\ Len(rows) = n
      BY <1>2, <2>2
    <3>2. store \in Seq(RowSet) /\ rows \in Seq(RowSet)
      BY <1>2, <1>4
    <3>3. store \o rows \in Seq(RowSet) /\ Len(store \o rows) = Len(store) + Len(rows)
      BY <3>2
    <3>. QED BY <3>1, <3>3
  <2>4. ASSUME NEW r \in 1 .. buildPos + n PROVE (store \o rows)[r] = t[r]
    <3>1. CASE r <= buildPos
      BY <1>2, <1>4, <2>2, <3>1 DEF StorePrefix, t
    <3>2. CASE r > buildPos
      <4>1. r - buildPos \in 1 .. n /\ buildPos + (r - buildPos) = r
        BY <1>4, <2>2, <3>2
      <4>2. (store \o rows)[r] = rows[r - buildPos]
        BY <1>2, <1>4, <2>2, <3>2, <4>1
      <4>. QED BY <1>4, <2>2, <4>1, <4>2
    <3>. QED BY <2>2, <1>4, <3>1, <3>2
  <2>. QED BY <1>4, <2>1, <2>2, <2>3, <2>4
<1>9. StorePrefix'
  <2>1. Sorted(build)' = t
    BY <1>1, SortsStay DEF input, t
  <2>. QED BY <1>4, <1>8, <2>1 DEF StorePrefix
<1>10. BuildSide'
  BY <1>1, <1>7, <1>8, <1>9 DEF BuildSide
<1>11. InputsOK'
  BY <1>1 DEF AsofInv, InputsOK, input
<1>12. Control'
  <2>1. buildPos + n \in 0 .. Len(build)
    BY <1>2, <1>3, <1>4
  <2>. QED BY <1>1, <2>1 DEF AsofInv, Control, input
<1>13. Merge'
  BY <1>1 DEF Merge
<1>14. Batch'
  <2>1. chunk' = <<>> /\ pairs' = <<>> /\ cursor' = 0
    BY <1>1 DEF AsofInv, Control
  <2>. QED BY <2>1 DEF Batch
<1>. QED BY <1>10, <1>11, <1>12, <1>13, <1>14 DEF AsofInv

\* The end of the build side.
LEMMA BuildDoneStep == ASSUME AsofInv, BuildDone PROVE AsofInv'
<1>1. InputsOK'
  BY DEF AsofInv, InputsOK, BuildDone, input
<1>2. Control'
  <2>1. Len(probe) \in Nat
    BY DEF AsofInv, InputsOK
  <2>. QED BY <2>1 DEF AsofInv, Control, BuildDone, input
<1>3. BuildSide'
  BY BuildSideStays DEF AsofInv, BuildDone, input
<1>4. Merge'
  <2>1. lastGid = kNoGroup /\ mergeCursor = 0
    BY DEF AsofInv, Control, BuildDone
  <2>2. MergedTo(kNoGroup, 0, 0)
    BY DEF MergedTo
  <2>3. MergedTo(lastGid, mergeCursor, probePos)'
    BY <2>1, <2>2, MergeStays DEF BuildDone, input
  <2>. QED BY <2>1, <2>3 DEF Merge, BuildDone, kNoGroup
<1>5. Batch'
  BY DEF AsofInv, Batch, BuildDone
<1>. QED BY <1>1, <1>2, <1>3, <1>4, <1>5 DEF AsofInv

\* The merge of a probe batch.
LEMMA MergeBatchIs ==
    ASSUME AsofInv, ProbeBatch
    PROVE  LET rows == NextChunk(Sorted(probe), probePos)
               acc0 == [gid |-> lastGid, cursor |-> mergeCursor, pairs |-> <<>>]
           IN  /\ rows \in Seq(RowSet) /\ Len(rows) \in Nat \ {0} /\ probePos \in Nat
               /\ probePos + Len(rows) <= Len(Probes) /\ Len(Probes) = Len(probe)
               /\ \A k \in DOMAIN rows : rows[k] = Probes[probePos + k]
               /\ acc0 \in MergeSet(Len(rows)) /\ acc0.pairs = <<>>
               /\ \E h : MergeChain(h, acc0, rows, probePos)
<1> DEFINE rows == NextChunk(Sorted(probe), probePos)
           acc0 == [gid |-> lastGid, cursor |-> mergeCursor, pairs |-> <<>>]
           n    == Len(rows)
<1>1. phase = "ready" /\ probePos < Len(probe)
  BY DEF ProbeBatch
<1>2. /\ Grouped(Tables) /\ StorePrefix /\ build \in Seq(RowSet) /\ probe \in Seq(RowSet)
      /\ probePos \in 0 .. Len(probe) /\ Len(probe) \in Nat
  BY <1>1 DEF AsofInv, BuildSide, InputsOK, Control
<1>3. Probes \in Seq(RowSet) /\ Len(Probes) = Len(probe)
  BY <1>2, SortedTable DEF Probes
<1>4. /\ rows \in Seq(RowSet) /\ n \in Nat \ {0} /\ probePos + n <= Len(Probes)
      /\ \A k \in DOMAIN rows : rows[k] = Probes[probePos + k]
  <2>1. probePos \in 0 .. Len(Probes) /\ probePos < Len(Probes)
    BY <1>1, <1>2, <1>3
  <2>. QED BY <1>3, <2>1, ChunkIs DEF Probes
<1>5. /\ lastGid \in Int /\ mergeCursor \in Nat
      /\ lastGid = kNoGroup \/ lastGid + 1 \in DOMAIN groupRows
      /\ MergedTo(lastGid, mergeCursor, probePos)
  BY <1>1 DEF AsofInv, Merge
<1> HIDE DEF rows, n
<1>6. acc0 \in MergeSet(n) /\ acc0.gid = lastGid /\ acc0.cursor = mergeCursor
  <2>1. lastGid = kNoGroup => mergeCursor = 0
    BY <1>5 DEF MergedTo
  <2>2. lastGid # kNoGroup => mergeCursor <= Len(groupRows[lastGid + 1])
    <3>1. SUFFICES ASSUME lastGid # kNoGroup PROVE mergeCursor <= Len(groupRows[lastGid + 1])
      OBVIOUS
    <3>2. PICK m \in 1 .. probePos : Split(groupRows[lastGid + 1], mergeCursor, Time(Probes[m]))
      BY <1>5, <3>1 DEF MergedTo
    <3>. QED BY <3>2 DEF Split
  <2>3. <<>> \in Seq((1 .. n) \X (0 .. Len(store)))
    OBVIOUS
  <2>. QED BY <1>5, <2>1, <2>2, <2>3 DEF MergeSet
<1> HIDE DEF acc0
<1>7. PICK h : MergeChain(h, acc0, rows, probePos)
  <2>1. probePos \in Nat /\ probePos + Len(rows) <= Len(Probes) /\ acc0 \in MergeSet(Len(rows))
        /\ MergedTo(acc0.gid, acc0.cursor, probePos)
    BY <1>2, <1>4, <1>5, <1>6 DEF n
  <2>. QED BY <1>2, <1>4, <2>1, MergeBatchSplits
<1>8. acc0.pairs = <<>>
  BY DEF acc0
<1>. QED BY <1>2, <1>3, <1>4, <1>6, <1>7, <1>8 DEF rows, acc0, n

\* One batch of the probe side.
LEMMA ProbeBatchStep == ASSUME AsofInv, ProbeBatch PROVE AsofInv'
<1> DEFINE rows == NextChunk(Sorted(probe), probePos)
           acc0 == [gid |-> lastGid, cursor |-> mergeCursor, pairs |-> <<>>]
           acc  == MergeBatch(acc0, rows)
           n    == Len(rows)
<1>1. /\ phase = "ready" /\ phase' = "ready" /\ probePos < Len(probe) /\ ~probeDone
      /\ chunk' = rows /\ probePos' = probePos + n /\ cursor' = 0
      /\ lastGid' = acc.gid /\ mergeCursor' = acc.cursor /\ pairs' = acc.pairs
      /\ UNCHANGED <<input, buildPos, phase, ht, groupRows, store, probeDone>>
  BY DEF ProbeBatch
<1>2. probePos \in 0 .. Len(probe) /\ Len(probe) \in Nat
  BY DEF AsofInv, InputsOK, Control
<1>4. rows \in Seq(RowSet) /\ n \in Nat \ {0} /\ probePos + n <= Len(Probes) /\ Len(Probes) = Len(probe)
  BY MergeBatchIs
<1>5. \E h : MergeChain(h, acc0, rows, probePos)
  BY MergeBatchIs
<1> HIDE DEF rows, n, acc, acc0
<1>7. acc \in MergeSet(n) /\ MergedTo(acc.gid, acc.cursor, probePos + n)
  <2>1. PICK h : MergeChain(h, acc0, rows, probePos)
    BY <1>5
  <2>. QED BY <1>4, <2>1 DEF MergeChain, acc, n
<1>8. /\ acc.gid \in Int /\ acc.cursor \in Nat /\ acc.pairs \in Seq((1 .. n) \X (0 .. Len(store)))
      /\ acc.gid = kNoGroup \/ acc.gid + 1 \in DOMAIN groupRows
  BY <1>7 DEF MergeSet
<1>9. InputsOK'
  BY <1>1 DEF AsofInv, InputsOK, input
<1>10. Control'
  <2>1. probePos + n \in 0 .. Len(probe)
    BY <1>2, <1>4
  <2>. QED BY <1>1, <2>1 DEF AsofInv, Control, input
<1>11. BuildSide'
  BY <1>1, BuildSideStays DEF AsofInv, input
<1>12. Merge'
  <2>1. MergedTo(lastGid, mergeCursor, probePos)'
    BY <1>1, <1>7, MergeStays DEF input
  <2>. QED BY <1>1, <1>8, <2>1 DEF Merge
<1>13. Batch'
  <2>1. Len(pairs') \in Nat
    BY <1>1, <1>8
  <2>. QED BY <1>1, <1>4, <1>8, <2>1 DEF Batch, n
<1>. QED BY <1>9, <1>10, <1>11, <1>12, <1>13 DEF AsofInv

\* The merge does not move.
LEMMA MergeRests ==
    ASSUME Merge, UNCHANGED <<input, ht, store, groupRows, lastGid, mergeCursor, probePos, phase>>
    PROVE  Merge'
<1>1. CASE phase = "ready"
  <2>1. MergedTo(lastGid, mergeCursor, probePos)
    BY <1>1 DEF Merge
  <2>2. MergedTo(lastGid, mergeCursor, probePos)'
    BY <2>1, MergeStays DEF input
  <2>. QED BY <1>1, <2>2 DEF Merge
<1>2. CASE phase # "ready"
  BY <1>2 DEF Merge
<1>. QED BY <1>1, <1>2

\* The end of the probe side.
LEMMA ProbeEndsStep == ASSUME AsofInv, ProbeEnds PROVE AsofInv'
<1>1. InputsOK'
  BY DEF AsofInv, InputsOK, ProbeEnds, input
<1>2. Control'
  BY DEF AsofInv, Control, ProbeEnds, input
<1>3. BuildSide'
  BY BuildSideStays DEF AsofInv, ProbeEnds, input
<1>4. Merge'
  BY MergeRests DEF AsofInv, ProbeEnds
<1>5. Batch'
  BY DEF AsofInv, Batch, ProbeEnds
<1>. QED BY <1>1, <1>2, <1>3, <1>4, <1>5 DEF AsofInv

\* One batch of the answer.
LEMMA EmitStep == ASSUME AsofInv, Emit PROVE AsofInv'
<1>1. InputsOK'
  BY DEF AsofInv, InputsOK, Emit, input
<1>2. Control'
  BY DEF AsofInv, Control, Emit, input
<1>3. BuildSide'
  BY BuildSideStays DEF AsofInv, Emit, input
<1>4. Merge'
  BY MergeRests DEF AsofInv, Emit
<1>5. Batch'
  <2>1. cursor \in Nat /\ Len(pairs) \in Nat /\ cursor < Len(pairs) /\ kOutBatch \in Nat \ {0}
    BY AsofAssumption DEF AsofInv, Batch, Emit, Drained
  <2>2. ChunkLength(Len(pairs) - cursor) \in 1 .. Len(pairs) - cursor
    BY <2>1 DEF ChunkLength
  <2>3. cursor' = cursor + ChunkLength(Len(pairs) - cursor)
    BY DEF Emit
  <2>4. cursor' \in Nat /\ cursor' <= Len(pairs)
    BY <2>1, <2>2, <2>3
  <2>. QED BY <2>4 DEF AsofInv, Batch, Emit
<1>. QED BY <1>1, <1>2, <1>3, <1>4, <1>5 DEF AsofInv

\* close().
LEMMA CloseStep == ASSUME AsofInv, Close PROVE AsofInv'
<1>1. InputsOK'
  BY DEF AsofInv, InputsOK, Close, input
<1>2. Control'
  <2>1. Len(probe) \in Nat
    BY DEF AsofInv, InputsOK
  <2>. QED BY <2>1 DEF AsofInv, Control, Close, FreshState, input
<1>3. BuildSide'
  BY DEF BuildSide, Close, FreshState
<1>4. Merge'
  BY DEF Merge, Close
<1>5. Batch'
  BY DEF Batch, Close, FreshState
<1>. QED BY <1>1, <1>2, <1>3, <1>4, <1>5 DEF AsofInv

\* AsofInv is inductive.
LEMMA AsofStep == AsofInv /\ [Next]_vars => AsofInv'
<1> SUFFICES ASSUME AsofInv, [Next]_vars PROVE AsofInv'
  OBVIOUS
<1>1. CASE Open
  BY <1>1, OpenStep
<1>2. CASE BuildBatch
  BY <1>2, BuildBatchStep
<1>3. CASE BuildDone
  BY <1>3, BuildDoneStep
<1>4. CASE ProbeBatch
  BY <1>4, ProbeBatchStep
<1>5. CASE ProbeEnds
  BY <1>5, ProbeEndsStep
<1>6. CASE Emit
  BY <1>6, EmitStep
<1>7. CASE Close
  BY <1>7, CloseStep
<1>8. CASE UNCHANGED vars
  <2>1. InputsOK' /\ Control' /\ Batch'
    BY <1>8 DEF AsofInv, InputsOK, Control, Batch, vars
  <2>2. BuildSide'
    BY <1>8, BuildSideStays DEF AsofInv, vars, input
  <2>3. Merge'
    BY <1>8, MergeRests DEF AsofInv, vars, input
  <2>. QED BY <2>1, <2>2, <2>3 DEF AsofInv
<1>. QED BY <1>1, <1>2, <1>3, <1>4, <1>5, <1>6, <1>7, <1>8 DEF Next

-----------------------------------------------------------------------------
(***************************************************************************)
(* The cursor.                                                             *)
(***************************************************************************)
\* AsofInv has the type invariant in it.
LEMMA AsofTyped == AsofInv => TypeOK
<1> SUFFICES ASSUME AsofInv PROVE TypeOK
  OBVIOUS
<1>1. /\ buildPos \in 0 .. Len(build) /\ probePos \in 0 .. Len(probe)
      /\ phase \in {"closed", "building", "ready"} /\ (~probeDone => cursor <= Len(pairs))
  BY DEF AsofInv, Control, Batch
<1>2. phase # "closed" => Len(groupRows) = (IF Keyed THEN Len(ht) ELSE 1)
  BY DEF AsofInv, BuildSide, Grouped, Tables
<1>3. ASSUME NEW g \in DOMAIN groupRows PROVE ToSet(groupRows[g]) \subseteq DOMAIN store
  <2>1. CASE phase = "closed"
    <3>1. groupRows[g] = <<>>
      BY <1>3, <2>1 DEF AsofInv, BuildSide
    <3>. QED BY <3>1 DEF ToSet
  <2>2. CASE phase # "closed"
    BY <1>3, <2>2 DEF AsofInv, BuildSide, Grouped, Tables, Members
  <2>. QED BY <2>1, <2>2
<1>4. /\ lastGid = kNoGroup \/ lastGid + 1 \in DOMAIN groupRows
      /\ IF lastGid = kNoGroup THEN mergeCursor = 0
         ELSE mergeCursor \in 0 .. Len(groupRows[lastGid + 1])
  <2>1. CASE phase # "ready"
    BY <2>1 DEF AsofInv, Control
  <2>2. CASE phase = "ready"
    BY <2>2 DEF AsofInv, Merge, MergedTo, Split
  <2>. QED BY <2>1, <2>2
<1>5. ASSUME NEW i \in DOMAIN pairs
      PROVE  pairs[i][1] \in DOMAIN chunk /\ pairs[i][2] \in {kNullBuildRow} \union DOMAIN store
  <2>1. chunk \in Seq(RowSet) /\ pairs \in Seq((1 .. Len(chunk)) \X (0 .. Len(store)))
    BY DEF AsofInv, Batch
  <2>2. store \in Seq(RowSet)
    <3>1. CASE phase = "closed"
      BY <3>1 DEF AsofInv, BuildSide
    <3>2. CASE phase # "closed"
      BY <3>2 DEF AsofInv, BuildSide, Grouped, BuildAcc, Tables
    <3>. QED BY <3>1, <3>2
  <2>. QED BY <1>5, <2>1, <2>2 DEF kNullBuildRow
<1>. QED BY <1>1, <1>2, <1>3, <1>4, <1>5 DEF TypeOK

\* And the place of the cursor.
LEMMA AsofSplits == AsofInv => CursorSplits
<1> SUFFICES ASSUME AsofInv, phase = "ready", lastGid # kNoGroup
             PROVE  LET list == groupRows[lastGid + 1]
                    IN  /\ lastGid = Find(KeyWord(LastMerged, probe))
                        /\ \A i \in DOMAIN list :
                              (i <= mergeCursor) = (Time(store[list[i]]) <= Time(LastMerged))
  BY DEF CursorSplits
<1>1. PICK m \in 1 .. probePos : /\ LastLive(m, probePos)
                                 /\ lastGid = Find(KeyWord(Probes[m], probe))
                                 /\ Split(groupRows[lastGid + 1], mergeCursor, Time(Probes[m]))
  BY DEF AsofInv, Merge, MergedTo
<1>2. LastMerged = Probes[m]
  <2> DEFINE live == {i \in 1 .. probePos : LiveRow(Probes[i])}
             last == CHOOSE i \in live : \A j \in live : j <= i
  <2>1. LastMerged = Probes[last]
    BY Zenon DEF LastMerged, LiveRow, Probes
  <2>2. m \in live /\ \A j \in live : j <= m
    BY <1>1 DEF LastLive
  <2>3. probePos \in Nat /\ live \subseteq 1 .. probePos
    BY DEF AsofInv, Control
  <2> HIDE DEF live
  <2>4. last \in live /\ \A j \in live : j <= last
    BY <2>2
  <2> HIDE DEF last
  <2>5. last = m
    BY <2>2, <2>3, <2>4
  <2>. QED BY <2>1, <2>5
<1>. QED BY <1>1, <1>2 DEF Split

\* THE CURSOR: for every pair of tables with NULLs anywhere, every batch size
\* and any number of openings, the cursor that AsofJoin carries from batch to
\* batch and from group to group stands after exactly the build rows of its
\* group that are not later than the last probe row merged, and every pair
\* handed out points into the current batch and the store.
THEOREM AsofCursor == Spec => [](TypeOK /\ CursorSplits)
<1>1. AsofInv => TypeOK /\ CursorSplits
  BY AsofTyped, AsofSplits
<1>. QED BY <1>1, AsofInit, AsofStep, PTL DEF Spec
-----------------------------------------------------------------------------
(***************************************************************************)
(* The answer to one probe row.                                            *)
(***************************************************************************)
\* The hash table gets equal words for equal keys of the two sides, and only
\* for these.
WordsAgree ==
    \A i \in DOMAIN build, j \in DOMAIN probe :
       build[i][1] # NULL /\ probe[j][1] # NULL =>
         ((KeyWord(build[i], build) = KeyWord(probe[j], probe)) <=> build[i][1] = probe[j][1])

\* Without a key column a row has cells that its time does not determine.
Untied ==
    ~Keyed => \A i, j \in DOMAIN build : Time(build[i]) # NULL /\ Time(build[i]) = Time(build[j])
                                         => build[i] = build[j]

Comparable == WordsAgree /\ Untied /\ (tolerance # NULL => tolerance >= 0)

\* The build side is in the store.
Whole == /\ Grouped(Tables) /\ StorePrefix /\ Len(store) = Len(build)
         /\ build \in Seq(RowSet) /\ probe \in Seq(RowSet)

Ref(row) == AsofRow(row, build, Cols, Cols, 2, 2, type, tolerance, 2)

\* The build rows a probe row may be given.
Matches(row, b) == /\ ~KeyNull(row) /\ Time(row) # NULL /\ (Keyed => b[1] = row[1])
                   /\ Time(b) # NULL /\ Time(b) <= Time(row)

EarlierRows(row) == {s \in DOMAIN build : Matches(row, build[s])}

\* The reference's keys.
LEMMA KeysAre ==
    /\ \A a, b : KeyTuple(a, Cols) = KeyTuple(b, Cols) <=> (Keyed => a[1] = b[1])
    /\ \A a : NullKey(KeyTuple(a, Cols)) <=> KeyNull(a)
<1>1. CASE Keyed
  <2>1. \A a : KeyTuple(a, Cols) = <<a[1]>>
    <3>1. DOMAIN <<1>> = 1 .. 1 /\ \A j \in 1 .. 1 : <<1>>[j] = 1
      OBVIOUS
    <3>2. ASSUME NEW a PROVE KeyTuple(a, Cols) = <<a[1]>>
      <4>1. KeyTuple(a, Cols) = [j \in 1 .. 1 |-> a[1]]
        BY <1>1, <3>1 DEF KeyTuple, Cols
      <4>2. [j \in 1 .. 1 |-> a[1]] = <<a[1]>>
        OBVIOUS
      <4>. QED BY <4>1, <4>2
    <3>. QED BY <3>2
  <2>2. \A a, b : <<a[1]>> = <<b[1]>> <=> a[1] = b[1]
    OBVIOUS
  <2>3. \A a : NullKey(<<a[1]>>) <=> a[1] = NULL
    BY DEF NullKey
  <2>. QED BY <1>1, <2>1, <2>2, <2>3 DEF KeyNull
<1>2. CASE ~Keyed
  <2>1. \A a : KeyTuple(a, Cols) = [j \in {} |-> a[1]]
    <3>1. DOMAIN <<>> = {}
      OBVIOUS
    <3>2. ASSUME NEW a PROVE KeyTuple(a, Cols) = [j \in {} |-> a[1]]
      BY <1>2, <3>1 DEF KeyTuple, Cols
    <3>. QED BY <3>2
  <2>2. \A a, b : [j \in {} |-> a[1]] = [j \in {} |-> b[1]]
    OBVIOUS
  <2>3. \A a : ~NullKey([j \in {} |-> a[1]])
    BY DEF NullKey
  <2>. QED BY <1>2, <2>1, <2>2, <2>3 DEF KeyNull
<1>. QED BY <1>1, <1>2

\* The reference's nearest rows.
LEMMA PrecedingIs ==
    ASSUME NEW row
    PROVE  Preceding(row, build, Cols, Cols, 2, 2)
             = {s \in EarlierRows(row) : \A r \in EarlierRows(row) : Time(build[r]) <= Time(build[s])}
<1> DEFINE key == KeyTuple(row, Cols)
           cand == {s \in DOMAIN build : /\ ~NullKey(key) /\ row[2] # NULL
                                         /\ KeyTuple(build[s], Cols) = key
                                         /\ build[s][2] # NULL /\ build[s][2] <= row[2]}
<1>1. Preceding(row, build, Cols, Cols, 2, 2) = {s \in cand : \A r \in cand : build[r][2] <= build[s][2]}
  BY Zenon DEF Preceding
<1>2. cand = EarlierRows(row)
  BY KeysAre DEF EarlierRows, Matches, Time
<1> HIDE DEF cand
<1>. QED BY <1>1, <1>2 DEF Time

\* The store holds the build rows.
LEMMA StoreHolds ==
    ASSUME Whole
    PROVE  /\ \A s \in DOMAIN build : \E r \in DOMAIN store : store[r] = build[s]
           /\ \A r \in DOMAIN store : \E s \in DOMAIN build : store[r] = build[s]
           /\ store \in Seq(RowSet)
<1> DEFINE t == Sorted(build)
<1>1. t \in Seq(RowSet) /\ Len(t) = Len(build) /\ Permuted(t, build)
  BY SortedTable DEF Whole
<1>2. store \in Seq(RowSet) /\ Len(store) = Len(t)
  BY <1>1 DEF Whole, Grouped, BuildAcc, Tables
<1>3. DOMAIN store = DOMAIN t /\ \A r \in DOMAIN store : store[r] = t[r]
  <2> HIDE DEF t
  <2>. QED BY <1>1, <1>2 DEF Whole, StorePrefix, t
<1> HIDE DEF t
<1>4. PICK p : OneToOne(p, DOMAIN t, DOMAIN build) /\ \A r \in DOMAIN t : build[p[r]] = t[r]
  BY <1>1 DEF Permuted
<1>5. ASSUME NEW s \in DOMAIN build PROVE \E r \in DOMAIN store : store[r] = build[s]
  BY <1>3, <1>4, <1>5 DEF OneToOne
<1>6. ASSUME NEW r \in DOMAIN store PROVE \E s \in DOMAIN build : store[r] = build[s]
  BY <1>3, <1>4, <1>6 DEF OneToOne
<1>. QED BY <1>2, <1>5, <1>6

\* A probe row of the sorted side is a row of its table.
LEMMA ProbeRow ==
    ASSUME probe \in Seq(RowSet), NEW q \in DOMAIN Probes
    PROVE  Probes[q] \in RowSet /\ \E j \in DOMAIN probe : Probes[q] = probe[j]
<1>1. Probes \in Seq(RowSet) /\ Permuted(Probes, probe)
  BY SortedTable DEF Probes
<1>2. PICK p : OneToOne(p, DOMAIN Probes, DOMAIN probe) /\ \A r \in DOMAIN Probes : probe[p[r]] = Probes[r]
  BY <1>1 DEF Permuted
<1>. QED BY <1>1, <1>2 DEF OneToOne

\* The words of a stored row and a probe row.
LEMMA WordsMeet ==
    ASSUME Whole, WordsAgree, NEW q \in DOMAIN Probes, NEW r \in DOMAIN store,
           store[r][1] # NULL, Probes[q][1] # NULL
    PROVE  (KeyWord(store[r], build) = KeyWord(Probes[q], probe)) <=> store[r][1] = Probes[q][1]
<1>1. PICK j \in DOMAIN probe : Probes[q] = probe[j]
  BY ProbeRow DEF Whole
<1>2. PICK s \in DOMAIN build : store[r] = build[s]
  BY StoreHolds
<1>. QED BY <1>1, <1>2 DEF WordsAgree

\* A stored row that matches is in the list of the probe row's group.
LEMMA MatchListed ==
    ASSUME Whole, WordsAgree, NEW q \in DOMAIN Probes, NEW r \in DOMAIN store, Matches(Probes[q], store[r])
    PROVE  LiveRow(Probes[q]) /\ \E i \in DOMAIN ListOf(Probes[q]) : ListOf(Probes[q])[i] = r
<1> DEFINE row == Probes[q]
           word == KeyWord(row, probe)
<1>1. ~KeyNull(row) /\ Time(row) # NULL /\ (Keyed => store[r][1] = row[1]) /\ Time(store[r]) # NULL
  BY DEF Matches
<1>2. Keyed => row[1] # NULL /\ KeyWord(store[r], build) = word
  BY <1>1, WordsMeet DEF KeyNull
<1>3. /\ ht \in Seq(BuildWords) /\ Len(groupRows) = (IF Keyed THEN Len(ht) ELSE 1) /\ groupRows \in Seq(Seq(Nat))
      /\ Keyed => word \in ToSet(ht)
      /\ \A i, j \in DOMAIN ht : ht[i] = ht[j] => i = j
  BY <1>1, <1>2 DEF Whole, Grouped, Tables, BuildAcc
<1> HIDE DEF row, word
<1>4. Find(word) # kNoGroup
  <2>1. CASE Keyed
    <3>1. PICK k \in DOMAIN ht : ht[k] = word
      BY <1>3, <2>1 DEF ToSet
    <3> DEFINE h == CHOOSE g \in DOMAIN ht : ht[g] = word
    <3>2. h \in DOMAIN ht
      BY <3>1
    <3>3. Find(word) = h - 1
      BY <1>3, <2>1 DEF Find
    <3> HIDE DEF h
    <3>. QED BY <1>3, <3>2, <3>3 DEF kNoGroup
  <2>2. CASE ~Keyed
    BY <2>2 DEF Find, kNoGroup
  <2>. QED BY <2>1, <2>2
<1>5. LiveRow(row)
  BY <1>1, <1>4 DEF LiveRow, word
<1>6. Find(word) + 1 \in DOMAIN groupRows /\ (Keyed => ht[Find(word) + 1] = word)
  BY <1>4, FindGroup DEF Whole
<1>7. r \in Members(Tables, Find(word) + 1)
  BY <1>1, <1>2, <1>6 DEF Members, Tables
<1>8. ToSet(groupRows[Find(word) + 1]) = Members(Tables, Find(word) + 1)
  BY <1>6 DEF Whole, Grouped, Tables
<1>9. ListOf(row) = groupRows[Find(word) + 1]
  BY DEF ListOf, word
<1>. QED BY <1>5, <1>7, <1>8, <1>9 DEF ToSet, row

\* A listed row that is not later matches.
LEMMA ListedMatches ==
    ASSUME Whole, WordsAgree, NEW q \in DOMAIN Probes, LiveRow(Probes[q]),
           NEW i \in DOMAIN ListOf(Probes[q])
    PROVE  /\ ListOf(Probes[q])[i] \in DOMAIN store
           /\ Time(store[ListOf(Probes[q])[i]]) \in Int
           /\ Time(store[ListOf(Probes[q])[i]]) <= Time(Probes[q])
                => Matches(Probes[q], store[ListOf(Probes[q])[i]])
<1> DEFINE row == Probes[q]
           g == Find(KeyWord(row, probe)) + 1
           r == ListOf(row)[i]
<1>1. g \in DOMAIN groupRows /\ (Keyed => ht[g] = KeyWord(row, probe)) /\ ListOf(row) = groupRows[g]
  BY FindGroup DEF Whole, LiveRow, ListOf
<1>2. /\ r \in DOMAIN store /\ Time(store[r]) \in Int
      /\ Keyed => store[r][1] # NULL /\ KeyWord(store[r], build) = ht[g]
  <2> HIDE DEF g
  <2>. QED BY <1>1, ListRows DEF Whole
<1>3. Keyed => row[1] # NULL
  BY DEF LiveRow, KeyNull
<1>4. Keyed => store[r][1] = row[1]
  <2> HIDE DEF g, r
  <2>. QED BY <1>1, <1>2, <1>3, WordsMeet
<1>5. ~KeyNull(row) /\ Time(row) # NULL /\ Time(store[r]) # NULL
  BY <1>2, AsofAssumption DEF LiveRow
<1> HIDE DEF g, r, row
<1>6. Time(store[r]) <= Time(row) => Matches(row, store[r])
  BY <1>4, <1>5 DEF Matches
<1>. QED BY <1>2, <1>6 DEF r, row

\* The build row before a cursor that splits the list is the nearest one.
LEMMA EarlierIs ==
    ASSUME Whole, WordsAgree, NEW q \in DOMAIN Probes, NEW c,
           LiveRow(Probes[q]) => Split(ListOf(Probes[q]), c, Time(Probes[q]))
    PROVE  IF LiveRow(Probes[q]) /\ c > 0
             THEN /\ c \in DOMAIN ListOf(Probes[q]) /\ ListOf(Probes[q])[c] \in DOMAIN store
                  /\ \E s \in EarlierRows(Probes[q]) :
                        /\ build[s] = store[ListOf(Probes[q])[c]]
                        /\ \A r \in EarlierRows(Probes[q]) : Time(build[r]) <= Time(build[s])
             ELSE EarlierRows(Probes[q]) = {}
<1> DEFINE row == Probes[q]
           list == ListOf(row)
           t == Time(row)
<1>1. ASSUME NEW s \in EarlierRows(row)
      PROVE  LiveRow(row) /\ \E i \in DOMAIN list : i <= c /\ store[list[i]] = build[s]
  <2>1. s \in DOMAIN build /\ Matches(row, build[s])
    BY <1>1 DEF EarlierRows
  <2>2. PICK r \in DOMAIN store : store[r] = build[s]
    BY <2>1, StoreHolds
  <2>3. LiveRow(row) /\ \E i \in DOMAIN list : list[i] = r
    BY <2>1, <2>2, MatchListed
  <2>4. PICK i \in DOMAIN list : list[i] = r
    BY <2>3
  <2>5. Split(list, c, t)
    BY <2>3
  <2>6. Time(store[list[i]]) <= t
    BY <2>1, <2>2, <2>4 DEF Matches
  <2> HIDE DEF row, list, t
  <2>7. i <= c
    BY <2>5, <2>6 DEF Split
  <2>. QED BY <2>2, <2>3, <2>4, <2>7
<1>2. CASE ~LiveRow(row)
  BY <1>1, <1>2
<1>3. CASE LiveRow(row)
  <2> DEFINE g == Find(KeyWord(row, probe)) + 1
  <2>1. g \in DOMAIN groupRows /\ list = groupRows[g] /\ list \in Seq(Nat)
    BY <1>3, FindGroup DEF LiveRow, ListOf, Whole, Grouped, Tables, BuildAcc
  <2>2. Split(list, c, t)
    BY <1>3
  <2>3. \A i \in DOMAIN list : list[i] \in DOMAIN store /\ Time(store[list[i]]) \in Int
    BY <1>3, ListedMatches
  <2>l. \A i \in DOMAIN list : Time(store[list[i]]) <= t => Matches(row, store[list[i]])
    BY <1>3, ListedMatches
  <2>4. \A i, j \in DOMAIN list : i < j => Time(store[list[i]]) <= Time(store[list[j]])
    <3> HIDE DEF list, g
    <3>. QED BY <2>1, ListTimely DEF Whole
  <2> HIDE DEF list, row, t, g
  <2>5. DOMAIN list = 1 .. Len(list) /\ Len(list) \in Nat /\ c \in 0 .. Len(list)
    BY <2>1, <2>2 DEF Split
  <2>6. CASE c = 0
    <3>1. \A i \in DOMAIN list : ~(i <= c)
      BY <2>5, <2>6
    <3>. QED BY <1>1, <2>6, <3>1 DEF row
  <2>7. CASE c > 0
    <3>1. c \in DOMAIN list
      BY <2>5, <2>7
    <3>2. Time(store[list[c]]) <= t /\ list[c] \in DOMAIN store
      BY <2>2, <2>3, <2>5, <3>1 DEF Split
    <3>3. Matches(row, store[list[c]])
      BY <2>l, <3>1, <3>2
    <3>4. PICK s \in DOMAIN build : store[list[c]] = build[s]
      BY <3>2, StoreHolds
    <3>5. s \in EarlierRows(row)
      BY <3>3, <3>4 DEF EarlierRows
    <3>6. ASSUME NEW r \in EarlierRows(row) PROVE Time(build[r]) <= Time(build[s])
      <4>1. PICK i \in DOMAIN list : i <= c /\ store[list[i]] = build[r]
        BY <1>1, <3>6
      <4>2. CASE i = c
        BY <2>3, <3>1, <3>4, <4>1, <4>2
      <4>3. CASE i < c
        BY <2>4, <3>1, <3>4, <4>1, <4>3
      <4>. QED BY <2>5, <4>1, <4>2, <4>3
    <3>. QED BY <1>3, <2>7, <3>1, <3>2, <3>4, <3>5, <3>6 DEF row, list
  <2>. QED BY <2>5, <2>6, <2>7
<1>. QED BY <1>2, <1>3

\* The span as an unsigned word is the span.
LEMMA WithinIs ==
    ASSUME NEW t \in TimeSet, NEW tb \in TimeSet, tb <= t,
           tolerance \in TimeSet \union {NULL}, tolerance # NULL => tolerance >= 0
    PROVE  Within(t, tb) <=> (tolerance # NULL => t - tb <= tolerance)
<1>1. CASE tolerance = NULL
  BY <1>1 DEF Within
<1>2. CASE tolerance # NULL
  <2>1. Word \in Int /\ tolerance \in TimeSet
    BY <1>2, TimesAre
  <2> DEFINE H == Word \div 2
  <2>2. H \in Int /\ 2 * H <= Word
    BY <2>1
  <2>3. /\ t \in Int /\ tb \in Int /\ tolerance \in Int /\ -H <= tb /\ t <= H - 1
        /\ tolerance <= H - 1 /\ 0 <= tolerance
    BY <1>2, <2>1 DEF TimeSet
  <2> HIDE DEF H
  <2>4. t - tb \in 0 .. Word - 1 /\ tolerance \in 0 .. Word - 1 /\ Word > 0
    BY <2>1, <2>2, <2>3
  <2>5. (t - tb) % Word = t - tb /\ tolerance % Word = tolerance
    BY <2>1, <2>4
  <2>. QED BY <1>2, <2>5 DEF Within
<1>. QED BY <1>1, <1>2

\* Equal rows of the build side, as far as the answer is concerned.
LEMMA TiesEqual ==
    ASSUME build \in Seq(RowSet), Untied, NEW row, NEW r \in EarlierRows(row), NEW s \in EarlierRows(row),
           Time(build[r]) = Time(build[s])
    PROVE  build[r] = build[s]
<1>1. r \in DOMAIN build /\ s \in DOMAIN build /\ Time(build[r]) # NULL
      /\ (Keyed => build[r][1] = build[s][1])
  BY DEF EarlierRows, Matches
<1>2. CASE Keyed
  <2>1. build[r] \in RowSet /\ build[s] \in RowSet
    BY <1>1
  <2>. QED BY <1>1, <1>2, <2>1 DEF RowSet, Time
<1>3. CASE ~Keyed
  BY <1>1, <1>3 DEF Untied
<1>. QED BY <1>2, <1>3

\* The reference's answer to a probe row is the pair of the merge.
LEMMA RefIs ==
    ASSUME Whole, Comparable, tolerance \in TimeSet \union {NULL},
           NEW q \in DOMAIN Probes, NEW c,
           LiveRow(Probes[q]) => Split(ListOf(Probes[q]), c, Time(Probes[q]))
    PROVE  /\ Ref(Probes[q]) = IF CandAt(Probes[q], c) = kNullBuildRow /\ type # "Left" THEN <<>>
                               ELSE <<Probes[q] \o BuildCells(CandAt(Probes[q], c))>>
           /\ CandAt(Probes[q], c) = kNullBuildRow \/ CandAt(Probes[q], c) \in DOMAIN store
<1> DEFINE row == Probes[q]
           E == EarlierRows(row)
           P == {s \in E : \A r \in E : Time(build[r]) <= Time(build[s])}
           best == {s \in P : tolerance # NULL => Time(row) - Time(build[s]) <= tolerance}
           cand == CandAt(row, c)
           list == ListOf(row)
<1>1. Ref(row) = IF best # {} THEN <<row \o build[CHOOSE s \in best : TRUE]>>
                 ELSE IF type = "Left" THEN <<row \o Nulls(2)>> ELSE <<>>
  <2>1. Preceding(row, build, Cols, Cols, 2, 2) = P
    BY PrecedingIs
  <2> DEFINE near == {s \in Preceding(row, build, Cols, Cols, 2, 2) :
                        tolerance # NULL => row[2] - build[s][2] <= tolerance}
  <2>2. Ref(row) = IF near # {} THEN <<row \o build[CHOOSE s \in near : TRUE]>>
                   ELSE IF type = "Left" THEN <<row \o Nulls(2)>> ELSE <<>>
    BY Zenon DEF Ref, AsofRow
  <2> HIDE DEF P, row
  <2>3. near = best
    BY <2>1 DEF Time
  <2>. QED BY <2>2, <2>3
<1>2. build \in Seq(RowSet) /\ WordsAgree /\ Untied /\ (tolerance # NULL => tolerance >= 0)
  BY DEF Whole, Comparable
<1>3. BuildCells(kNullBuildRow) = Nulls(2)
  BY DEF BuildCells
<1>4. CASE ~(LiveRow(row) /\ c > 0)
  <2>1. E = {}
    BY <1>2, <1>4, EarlierIs
  <2>2. cand = kNullBuildRow
    BY <1>4 DEF CandAt
  <2> HIDE DEF E, cand, row
  <2>. QED BY <1>1, <1>3, <2>1, <2>2 DEF row, cand
<1>5. CASE LiveRow(row) /\ c > 0
  <2>1. PICK s \in E : build[s] = store[list[c]] /\ \A r \in E : Time(build[r]) <= Time(build[s])
    BY <1>2, <1>5, EarlierIs
  <2>2. list[c] \in DOMAIN store
    BY <1>2, <1>5, EarlierIs
  <2>3. store \in Seq(RowSet)
    BY StoreHolds
  <2>4. list[c] # kNullBuildRow /\ list[c] \in Nat
    BY <2>2, <2>3 DEF kNullBuildRow
  <2>5. BuildCells(list[c]) = store[list[c]]
    BY <2>4 DEF BuildCells
  <2>6. cand = IF Within(Time(row), Time(store[list[c]])) THEN list[c] ELSE kNullBuildRow
    BY <1>5 DEF CandAt
  <2>7. \A r \in E : /\ r \in DOMAIN build /\ Time(build[r]) # NULL /\ Time(row) # NULL
                     /\ Time(build[r]) <= Time(row)
    BY DEF EarlierRows, Matches
  <2>8. row \in RowSet
    BY ProbeRow DEF Whole
  <2> HIDE DEF E, cand, list, row
  <2>9. \A r \in E : Time(build[r]) \in TimeSet /\ Time(build[r]) \in Int
    <3>1. \A r \in E : build[r] \in RowSet
      BY <1>2, <2>7
    <3>. QED BY <2>7, <3>1, TimesAre
  <2>10. Time(row) \in TimeSet
    BY <2>1, <2>7, <2>8, TimesAre
  <2>11. s \in P
    BY <2>1
  <2>12. \A r \in P : r \in E /\ Time(build[r]) = Time(build[s])
    BY <2>1, <2>9
  <2>13. \A r \in P : build[r] = build[s]
    <3>1. ASSUME NEW r \in P PROVE build[r] = build[s]
      <4>1. r \in EarlierRows(row) /\ s \in EarlierRows(row) /\ Time(build[r]) = Time(build[s])
        BY <2>1, <2>12, <3>1 DEF E
      <4>. QED BY <1>2, <4>1, TiesEqual
    <3>. QED BY <3>1
  <2>14. Within(Time(row), Time(build[s])) <=> (tolerance # NULL => Time(row) - Time(build[s]) <= tolerance)
    BY <1>2, <2>1, <2>7, <2>9, <2>10, WithinIs
  <2> HIDE DEF P
  <2>15. CASE Within(Time(row), Time(build[s]))
    <3>1. s \in best
      BY <2>11, <2>14, <2>15
    <3>2. best # {} /\ (CHOOSE r \in best : TRUE) \in P
      BY <3>1
    <3> HIDE DEF best
    <3>3. Ref(row) = <<row \o build[s]>>
      BY <1>1, <2>13, <3>2
    <3>4. cand = list[c]
      BY <2>1, <2>6, <2>15
    <3>. QED BY <2>1, <2>2, <2>4, <2>5, <3>3, <3>4 DEF row, cand
  <2>16. CASE ~Within(Time(row), Time(build[s]))
    <3>1. best = {}
      BY <2>12, <2>14, <2>16
    <3> HIDE DEF best
    <3>2. cand = kNullBuildRow
      BY <2>1, <2>6, <2>16
    <3>. QED BY <1>1, <1>3, <3>1, <3>2 DEF row, cand
  <2>. QED BY <2>15, <2>16
<1>. QED BY <1>4, <1>5

-----------------------------------------------------------------------------
(***************************************************************************)
(* The answer to the first probe rows.                                     *)
(***************************************************************************)
OutRow == Seq(Int \union {NULL})

AnswerTo(p) == FlattenSeq([r \in 1 .. p |-> Ref(Probes[r])])

\* The rows that pairs stand for.
Shown(ps, rows) == [i \in DOMAIN ps |-> rows[ps[i][1]] \o BuildCells(ps[i][2])]

\* Rows of the tables, and what they are put together to.
LEMMA CellsAre ==
    /\ RowSet \subseteq OutRow /\ Nulls(2) \in OutRow
    /\ \A a, b \in OutRow : a \o b \in OutRow
<1>1. ASSUME NEW row \in RowSet PROVE row \in OutRow
  <2>1. row = <<row[1], row[2]>> /\ row[1] \in Int \union {NULL} /\ row[2] \in TimeSet \union {NULL}
    BY DEF RowSet
  <2>2. row[2] \in Int \union {NULL}
    BY <2>1, TimesAre
  <2>3. \A x, y \in Int \union {NULL} : <<x, y>> \in Seq(Int \union {NULL})
    OBVIOUS
  <2>4. <<row[1], row[2]>> \in OutRow
    BY <2>1, <2>2, <2>3 DEF OutRow
  <2>. QED BY <2>1, <2>4
<1>2. Nulls(2) \in OutRow
  <2>1. Nulls(2) = <<NULL, NULL>>
    BY DEF Nulls
  <2>2. <<NULL, NULL>> \in Seq(Int \union {NULL})
    OBVIOUS
  <2>. QED BY <2>1, <2>2 DEF OutRow
<1>3. \A a, b \in OutRow : a \o b \in OutRow
  BY ConcatProperties DEF OutRow
<1>. QED BY <1>1, <1>2, <1>3

\* The reference's answer to one row is a sequence of rows.
LEMMA RefTyped ==
    ASSUME build \in Seq(RowSet), NEW row \in RowSet
    PROVE  Ref(row) \in Seq(OutRow)
<1> DEFINE near == {s \in Preceding(row, build, Cols, Cols, 2, 2) :
                      tolerance # NULL => row[2] - build[s][2] <= tolerance}
           best == CHOOSE s \in near : TRUE
<1>1. Ref(row) = IF near # {} THEN <<row \o build[best]>>
                 ELSE IF type = "Left" THEN <<row \o Nulls(2)>> ELSE <<>>
  BY Zenon DEF Ref, AsofRow
<1>2. near \subseteq DOMAIN build
  BY PrecedingIs DEF EarlierRows
<1>3. near # {} => best \in DOMAIN build
  BY <1>2
<1> HIDE DEF near, best
<1>4. near # {} => build[best] \in OutRow
  BY <1>3, CellsAre
<1>5. row \in OutRow /\ row \o Nulls(2) \in OutRow /\ (near # {} => row \o build[best] \in OutRow)
  BY <1>4, CellsAre
<1>6. \A x \in OutRow : <<x>> \in Seq(OutRow)
  OBVIOUS
<1>7. <<>> \in Seq(OutRow)
  OBVIOUS
<1>. QED BY <1>1, <1>5, <1>6, <1>7

\* Row by row.
LEMMA AnswersJoin ==
    ASSUME build \in Seq(RowSet), probe \in Seq(RowSet)
    PROVE  /\ Len(Probes) \in Nat /\ AnswerTo(0) = <<>>
           /\ \A p \in 0 .. Len(Probes) : AnswerTo(p) \in Seq(OutRow)
           /\ \A p \in 0 .. Len(Probes) - 1 :
                 /\ Ref(Probes[p + 1]) \in Seq(OutRow)
                 /\ AnswerTo(p + 1) = Cat(AnswerTo(p), Ref(Probes[p + 1]))
           /\ Answer = AnswerTo(Len(Probes))
<1> DEFINE n == Len(Probes)
           ss == [r \in 1 .. n |-> Ref(Probes[r])]
<1>1. Probes \in Seq(RowSet) /\ n \in Nat /\ DOMAIN Probes = 1 .. n
  BY SortedTable DEF Probes
<1>2. \A r \in 1 .. n : Ref(Probes[r]) \in Seq(OutRow)
  BY <1>1, RefTyped
<1>3. ss \in Seq(Seq(OutRow)) /\ Len(ss) = n
  <2> HIDE DEF n
  <2>. QED BY <1>1, <1>2
<1>4. \A r \in 1 .. n : ss[r] = Ref(Probes[r])
  OBVIOUS
<1>5. Answer = FlattenSeq(ss)
  BY <1>1, Zenon DEF Answer, AsofReference, Ref, Probes
<1> HIDE DEF ss, n
<1>6. PICK h : Joined(h, ss, OutRow)
  BY <1>3, FlattenJoins
<1>7. /\ h \in [0 .. n -> Seq(OutRow)] /\ h[0] = <<>> /\ \A k \in 1 .. n : h[k] = h[k - 1] \o ss[k]
      /\ FlattenSeq(ss) = h[n]
  BY <1>3, <1>6 DEF Joined
<1>8. ASSUME NEW p \in 0 .. n PROVE AnswerTo(p) = h[p]
  <2> DEFINE pp == [r \in 1 .. p |-> Ref(Probes[r])]
  <2>1. \A r \in 1 .. p : r \in 1 .. n /\ pp[r] = Ref(Probes[r])
    BY <1>1
  <2>2. pp \in Seq(Seq(OutRow)) /\ Len(pp) = p
    BY <1>1, <1>2, <2>1
  <2>3. AnswerTo(p) = FlattenSeq(pp)
    BY DEF AnswerTo
  <2> HIDE DEF pp
  <2>4. JoinTable(h, pp)
    BY <1>4, <1>7, <2>1, <2>2 DEF JoinTable
  <2>. QED BY <2>2, <2>3, <2>4, FlattenIs
<1>9. ASSUME NEW p \in 0 .. n - 1
      PROVE  /\ Ref(Probes[p + 1]) \in Seq(OutRow)
             /\ AnswerTo(p + 1) = Cat(AnswerTo(p), Ref(Probes[p + 1]))
  <2>1. p \in 0 .. n /\ p + 1 \in 0 .. n /\ p + 1 \in 1 .. n /\ (p + 1) - 1 = p
    BY <1>1
  <2>2. h[p + 1] = h[p] \o ss[p + 1] /\ ss[p + 1] = Ref(Probes[p + 1])
    BY <1>4, <1>7, <2>1
  <2>3. AnswerTo(p + 1) = h[p + 1] /\ AnswerTo(p) = h[p]
    BY <1>8, <2>1
  <2>. QED BY <1>2, <2>1, <2>2, <2>3 DEF Cat
<1>10. 0 \in 0 .. n /\ n \in 0 .. n
  BY <1>1
<1>11. \A p \in 0 .. n : AnswerTo(p) \in Seq(OutRow)
  BY <1>7, <1>8
<1>12. AnswerTo(0) = <<>> /\ Answer = AnswerTo(n)
  BY <1>5, <1>7, <1>8, <1>10
<1>. QED BY <1>1, <1>9, <1>11, <1>12 DEF n

\* The answer to the first rows is the beginning of the answer.
LEMMA AnswersPrefix ==
    ASSUME build \in Seq(RowSet), probe \in Seq(RowSet), NEW p \in 0 .. Len(Probes)
    PROVE  \E R \in Seq(OutRow) : Answer = Cat(AnswerTo(p), R)
<1> DEFINE n == Len(Probes)
           From(j) == \E R \in Seq(OutRow) : AnswerTo(p + j) = Cat(AnswerTo(p), R)
           N == {j \in Nat : p + j <= n => From(j)}
<1>1. /\ n \in Nat /\ p \in Nat /\ p <= n /\ Answer = AnswerTo(n) /\ AnswerTo(p) \in Seq(OutRow)
      /\ \A i \in 0 .. n - 1 : /\ Ref(Probes[i + 1]) \in Seq(OutRow)
                               /\ AnswerTo(i + 1) = Cat(AnswerTo(i), Ref(Probes[i + 1]))
  BY AnswersJoin
<1> HIDE DEF n
<1>2. 0 \in N
  <2>1. Cat(AnswerTo(p), <<>>) = AnswerTo(p) /\ <<>> \in Seq(OutRow)
    BY <1>1, CatEmpty
  <2>2. p + 0 = p
    BY <1>1
  <2>. QED BY <2>1, <2>2
<1>3. ASSUME NEW j \in Nat, j \in N PROVE j + 1 \in N
  <2>1. SUFFICES ASSUME p + (j + 1) <= n PROVE From(j + 1)
    OBVIOUS
  <2>2. p + j \in 0 .. n - 1 /\ p + j <= n /\ p + (j + 1) = (p + j) + 1
    BY <1>1, <2>1
  <2>3. PICK R \in Seq(OutRow) : AnswerTo(p + j) = Cat(AnswerTo(p), R)
    BY <1>3, <2>2
  <2> DEFINE e == Ref(Probes[(p + j) + 1])
  <2>4. AnswerTo((p + j) + 1) = Cat(AnswerTo(p + j), e) /\ e \in Seq(OutRow)
    BY <1>1, <2>2
  <2> HIDE DEF e
  <2>5. Cat(Cat(AnswerTo(p), R), e) = Cat(AnswerTo(p), Cat(R, e)) /\ Cat(R, e) \in Seq(OutRow)
    BY <1>1, <2>3, <2>4, CatAssociative, CatType
  <2>. QED BY <2>2, <2>3, <2>4, <2>5
<1> HIDE DEF N
<1>4. \A j \in Nat : j \in N
  BY <1>2, <1>3, SetInduction
<1> DEFINE m == n - p
<1>5. m \in Nat /\ p + m = n
  BY <1>1
<1> HIDE DEF m, From
<1>6. From(m)
  BY <1>1, <1>4, <1>5 DEF N
<1>. QED BY <1>1, <1>5, <1>6 DEF From

\* What one more pair shows.
LEMMA ShownIs ==
    ASSUME store \in Seq(RowSet), NEW rows \in Seq(RowSet),
           NEW ps \in Seq((1 .. Len(rows)) \X (0 .. Len(store)))
    PROVE  /\ Shown(ps, rows) \in Seq(OutRow) /\ Len(Shown(ps, rows)) = Len(ps)
           /\ \A k \in 1 .. Len(rows), r \in 0 .. Len(store) :
                /\ rows[k] \o BuildCells(r) \in OutRow
                /\ Shown(Append(ps, <<k, r>>), rows) = Append(Shown(ps, rows), rows[k] \o BuildCells(r))
<1> DEFINE n == Len(rows)
           show(x) == rows[x[1]] \o BuildCells(x[2])
           A == (1 .. n) \X (0 .. Len(store))
<1>1. ASSUME NEW r \in 0 .. Len(store) PROVE BuildCells(r) \in OutRow
  <2>1. CASE r = 0
    BY <2>1, CellsAre DEF BuildCells, kNullBuildRow
  <2>2. CASE r # 0
    <3>1. r \in DOMAIN store
      BY <2>2
    <3>2. store[r] \in OutRow
      BY <3>1, CellsAre
    <3>. QED BY <2>2, <3>2 DEF BuildCells, kNullBuildRow
  <2>. QED BY <2>1, <2>2
<1>2. \A k \in 1 .. n : rows[k] \in OutRow
  BY CellsAre
<1>3. \A k \in 1 .. n, r \in 0 .. Len(store) : rows[k] \o BuildCells(r) \in OutRow
  BY <1>1, <1>2, CellsAre
<1>4. \A x \in A : show(x) \in OutRow
  BY <1>3
<1>5. \A qs : Shown(qs, rows) = [i \in DOMAIN qs |-> show(qs[i])]
  BY DEF Shown
<1>6. \A k, r : show(<<k, r>>) = rows[k] \o BuildCells(r)
  OBVIOUS
<1>7. ps \in Seq(A) /\ \A k \in 1 .. n, r \in 0 .. Len(store) : <<k, r>> \in A
  OBVIOUS
<1> HIDE DEF A, show, n
<1>8. DOMAIN ps = 1 .. Len(ps) /\ Len(ps) \in Nat /\ \A i \in 1 .. Len(ps) : show(ps[i]) \in OutRow
  BY <1>4, <1>7
<1>9. Shown(ps, rows) \in Seq(OutRow) /\ Len(Shown(ps, rows)) = Len(ps)
  <2> DEFINE m == Len(ps)
             e == [i \in 1 .. m |-> show(ps[i])]
  <2>1. Shown(ps, rows) = e
    BY <1>5, <1>8
  <2>2. m \in Nat /\ \A i \in 1 .. m : show(ps[i]) \in OutRow
    BY <1>8
  <2> HIDE DEF m
  <2>3. e \in Seq(OutRow) /\ Len(e) = m
    BY <2>2
  <2>. QED BY <2>1, <2>3 DEF m
<1>10. ASSUME NEW x \in A PROVE Shown(Append(ps, x), rows) = Append(Shown(ps, rows), show(x))
  <2> DEFINE qs == Append(ps, x)
             m == Len(ps)
             s == Shown(ps, rows)
             l == Shown(qs, rows)
             z == Append(s, show(x))
  <2>1. /\ qs \in Seq(A) /\ DOMAIN qs = 1 .. m + 1 /\ m \in Nat /\ qs[m + 1] = x
        /\ \A i \in 1 .. m : qs[i] = ps[i]
    BY <1>7
  <2>2. l = [i \in DOMAIN qs |-> show(qs[i])] /\ s = [i \in DOMAIN ps |-> show(ps[i])]
    BY <1>5
  <2>3. s \in Seq(OutRow) /\ Len(s) = m /\ show(x) \in OutRow
    BY <1>4, <1>9
  <2> HIDE DEF qs, s, m
  <2>4. /\ z \in Seq(OutRow) /\ DOMAIN z = 1 .. m + 1 /\ z[m + 1] = show(x)
        /\ \A i \in 1 .. m : z[i] = s[i]
    BY <2>1, <2>3
  <2>5. DOMAIN ps = 1 .. m
    BY <1>8 DEF m
  <2>6. \A i \in 1 .. m : s[i] = show(ps[i])
    BY <2>2, <2>5
  <2> HIDE DEF z
  <2>7. \A i \in 1 .. m + 1 : z[i] = show(qs[i])
    BY <2>1, <2>4, <2>6
  <2>8. z = [i \in 1 .. m + 1 |-> z[i]]
    BY <2>4
  <2>9. l = z
    BY <2>1, <2>2, <2>7, <2>8
  <2>. QED BY <2>9 DEF z, s, qs
<1>. QED BY <1>3, <1>6, <1>7, <1>9, <1>10 DEF n

\* A batch of pairs shows the answer to the rows of the batch.
LEMMA MergeBatchAnswers ==
    ASSUME Whole, Comparable, tolerance \in TimeSet \union {NULL}, type \in {"Inner", "Left"},
           NEW rows \in Seq(RowSet), NEW p \in Nat, p + Len(rows) <= Len(Probes),
           \A k \in DOMAIN rows : rows[k] = Probes[p + k],
           NEW acc \in MergeSet(Len(rows)), acc.pairs = <<>>, NEW h, MergeChain(h, acc, rows, p)
    PROVE  /\ Shown(MergeBatch(acc, rows).pairs, rows) \in Seq(OutRow)
           /\ Cat(AnswerTo(p), Shown(MergeBatch(acc, rows).pairs, rows)) = AnswerTo(p + Len(rows))
<1> DEFINE n == Len(rows)
           Sh(k) == Shown(h[k].pairs, rows)
           S == {k \in Nat : k <= n => Cat(AnswerTo(p), Sh(k)) = AnswerTo(p + k)}
<1>1. n \in Nat /\ DOMAIN rows = 1 .. n /\ build \in Seq(RowSet) /\ probe \in Seq(RowSet)
  BY DEF Whole
<1>r. \A i \in 1 .. n : rows[i] = Probes[p + i]
  BY <1>1
<1>2. /\ Len(Probes) \in Nat /\ \A i \in 0 .. Len(Probes) : AnswerTo(i) \in Seq(OutRow)
      /\ \A i \in 0 .. Len(Probes) - 1 :
            /\ Ref(Probes[i + 1]) \in Seq(OutRow)
            /\ AnswerTo(i + 1) = Cat(AnswerTo(i), Ref(Probes[i + 1]))
  BY <1>1, AnswersJoin
<1>3. /\ h[0] = acc /\ h[n] = MergeBatch(acc, rows)
      /\ \A k \in 0 .. n : h[k] \in MergeSet(n) /\ MergedTo(h[k].gid, h[k].cursor, p + k)
      /\ \A k \in 1 .. n : h[k] = MergeRow(h[k - 1], k, rows[k])
  BY DEF MergeChain
<1>4. store \in Seq(RowSet) /\ Len(store) \in Nat
  BY StoreHolds
<1>5. \A k \in 0 .. n : h[k].pairs \in Seq((1 .. n) \X (0 .. Len(store)))
  BY <1>3 DEF MergeSet
<1>6. \A k \in 0 .. n : Sh(k) \in Seq(OutRow)
  BY <1>4, <1>5, ShownIs
<1>p. p \in 0 .. Len(Probes) /\ p + n <= Len(Probes)
  BY <1>1, <1>2
<1>d. DOMAIN Probes = 1 .. Len(Probes) /\ Probes \in Seq(RowSet)
  BY <1>1, SortedTable DEF Probes
<1> HIDE DEF n
<1>7. 0 \in S
  <2>1. Sh(0) = <<>>
    <3>1. h[0].pairs = <<>>
      BY <1>3
    <3>2. Shown(<<>>, rows) = <<>>
      BY DEF Shown
    <3>. QED BY <3>1, <3>2
  <2>2. Cat(AnswerTo(p), <<>>) = AnswerTo(p) /\ p + 0 = p
    BY <1>2, <1>p, CatEmpty
  <2>. QED BY <2>1, <2>2
<1>8. ASSUME NEW k \in Nat, k \in S PROVE k + 1 \in S
  <2>1. SUFFICES ASSUME k + 1 <= n PROVE Cat(AnswerTo(p), Sh(k + 1)) = AnswerTo(p + (k + 1))
    OBVIOUS
  <2>2. /\ k \in 0 .. n /\ k + 1 \in 1 .. n /\ k + 1 \in 0 .. n /\ (k + 1) - 1 = k /\ k <= n
        /\ p + (k + 1) = (p + k) + 1 /\ p + k \in 0 .. Len(Probes) - 1 /\ p + k \in Nat
        /\ (p + k) + 1 \in 1 .. Len(Probes)
    BY <1>1, <1>2, <1>p, <2>1
  <2> DEFINE row == Probes[(p + k) + 1]
             x == h[k + 1]
             cand == CandAt(row, x.cursor)
  <2>3. /\ h[k] \in MergeSet(n) /\ MergedTo(h[k].gid, h[k].cursor, p + k) /\ x \in MergeSet(n)
        /\ x = MergeRow(h[k], k + 1, row) /\ rows[k + 1] = row /\ row \in RowSet
    <3>1. rows[k + 1] = row
      <4>1. rows[k + 1] = Probes[p + (k + 1)]
        BY <1>r, <2>2
      <4>. QED BY <2>2, <4>1
    <3>2. row \in RowSet
      BY <1>d, <2>2
    <3>3. h[k + 1] = MergeRow(h[k], k + 1, rows[k + 1])
      BY <1>3, <2>2
    <3>4. h[k] \in MergeSet(n) /\ MergedTo(h[k].gid, h[k].cursor, p + k) /\ h[k + 1] \in MergeSet(n)
      BY <1>3, <2>2
    <3> HIDE DEF row
    <3>. QED BY <3>1, <3>2, <3>3, <3>4
  <2>4. LiveRow(row) => Split(ListOf(row), x.cursor, Time(row))
    <3>1. Grouped(Tables) /\ StorePrefix /\ (p + k) + 1 <= Len(Probes)
      BY <2>2 DEF Whole
    <3>2. LiveRow(row) => Split(ListOf(row), MergeRow(h[k], k + 1, row).cursor, Time(row))
      BY <1>1, <2>2, <2>3, <3>1, MergeRowSplits
    <3>. QED BY <2>3, <3>2
  <2>5. x.pairs = IF cand = kNullBuildRow /\ type = "Inner" THEN h[k].pairs
                  ELSE Append(h[k].pairs, <<k + 1, cand>>)
    <3> HIDE DEF x, row
    <3>1. LET c == CandAt(row, MergeRow(h[k], k + 1, row).cursor)
          IN  MergeRow(h[k], k + 1, row).pairs =
                IF c = kNullBuildRow /\ type = "Inner" THEN h[k].pairs ELSE Append(h[k].pairs, <<k + 1, c>>)
      BY <1>1, <2>2, <2>3, MergeRowIs DEF Whole
    <3>. QED BY <2>3, <3>1
  <2>6. /\ Ref(row) = IF cand = kNullBuildRow /\ type # "Left" THEN <<>> ELSE <<row \o BuildCells(cand)>>
        /\ cand = kNullBuildRow \/ cand \in DOMAIN store
    <3>1. (p + k) + 1 \in DOMAIN Probes
      BY <1>d, <2>2
    <3> HIDE DEF x
    <3>. QED BY <2>4, <3>1, RefIs
  <2>7. cand \in 0 .. Len(store)
    BY <1>4, <2>6 DEF kNullBuildRow
  <2> HIDE DEF cand, row
  <2>8. Sh(k + 1) = Cat(Sh(k), Ref(row))
    <3>1. CASE cand = kNullBuildRow /\ type = "Inner"
      <4>1. Sh(k + 1) = Sh(k) /\ Ref(row) = <<>>
        BY <2>5, <2>6, <3>1
      <4>. QED BY <1>6, <2>2, <4>1, CatEmpty
    <3>2. CASE ~(cand = kNullBuildRow /\ type = "Inner")
      <4>1. Ref(row) = <<row \o BuildCells(cand)>>
        BY <2>6, <3>2
      <4>2. x.pairs = Append(h[k].pairs, <<k + 1, cand>>)
        BY <2>5, <3>2
      <4>3. /\ Shown(Append(h[k].pairs, <<k + 1, cand>>), rows)
                 = Append(Sh(k), rows[k + 1] \o BuildCells(cand))
            /\ rows[k + 1] \o BuildCells(cand) \in OutRow
        <5>1. h[k].pairs \in Seq((1 .. Len(rows)) \X (0 .. Len(store))) /\ k + 1 \in 1 .. Len(rows)
          BY <1>5, <2>2 DEF n
        <5>. QED BY <1>4, <2>7, <5>1, ShownIs
      <4>4. Append(Sh(k), row \o BuildCells(cand)) = Sh(k) \o <<row \o BuildCells(cand)>>
        BY <1>6, <2>2, <2>3, <4>3, AppendIsConcat
      <4>. QED BY <2>3, <4>1, <4>2, <4>3, <4>4 DEF Cat
    <3>. QED BY <3>1, <3>2
  <2>9. Cat(AnswerTo(p), Sh(k)) = AnswerTo(p + k)
    BY <1>8, <2>2
  <2> HIDE DEF Sh
  <2>10. /\ AnswerTo((p + k) + 1) = Cat(AnswerTo(p + k), Ref(row)) /\ Ref(row) \in Seq(OutRow)
         /\ AnswerTo(p) \in Seq(OutRow) /\ Sh(k) \in Seq(OutRow)
    BY <1>2, <1>6, <1>p, <2>2 DEF row
  <2>11. Cat(Cat(AnswerTo(p), Sh(k)), Ref(row)) = Cat(AnswerTo(p), Cat(Sh(k), Ref(row)))
    BY <2>10, CatAssociative
  <2>. QED BY <2>2, <2>8, <2>9, <2>10, <2>11
<1> HIDE DEF S
<1>9. n \in S
  BY <1>1, <1>7, <1>8, SetInduction
<1>10. n \in 0 .. n /\ Sh(n) \in Seq(OutRow)
  BY <1>1, <1>6
<1>11. Cat(AnswerTo(p), Sh(n)) = AnswerTo(p + n)
  BY <1>1, <1>9 DEF S
<1>. QED BY <1>3, <1>10, <1>11 DEF n

-----------------------------------------------------------------------------
(***************************************************************************)
(* The answer of the join.                                                 *)
(***************************************************************************)
\* The rows that next() has not handed out yet.
Rest == SubSeq(Shown(pairs, chunk), cursor + 1, Len(Shown(pairs, chunk)))

\* What is handed out and what is left are the answer to the rows pulled.
OutOK ==
    IF phase = "ready"
      THEN /\ out \in Seq(OutRow) /\ Cat(out, Rest) = AnswerTo(probePos)
           /\ probeDone => pairs = <<>> /\ probePos = Len(probe)
      ELSE out = <<>>

AnswerInv == AsofInv /\ (Comparable => OutOK)

\* What the input determines.
LEMMA InputFixes ==
    ASSUME UNCHANGED input
    PROVE  /\ Comparable' <=> Comparable
           /\ \A p : AnswerTo(p)' = AnswerTo(p)
<1>1. Comparable' <=> Comparable
  BY DEF input, Comparable, WordsAgree, Untied, KeyWord, Keyed
<1>2. ASSUME NEW p PROVE AnswerTo(p)' = AnswerTo(p)
  <2>1. \A row : Ref(row)' = Ref(row)
    BY DEF input, Ref, Cols, Keyed
  <2>2. Probes' = Probes
    BY DEF input, Probes, Sorted, SortKeys, Keyed
  <2>. QED BY <2>1, <2>2 DEF AnswerTo, input, Ref, Cols, Keyed
<1>. QED BY <1>1, <1>2

\* The rows of pairs do not change with the store.
LEMMA ShownStays ==
    ASSUME UNCHANGED <<pairs, chunk, store>>
    PROVE  Shown(pairs, chunk)' = Shown(pairs, chunk)
BY DEF Shown, BuildCells

\* The ready join has its build side.
LEMMA ReadyWhole ==
    ASSUME AsofInv, phase = "ready"
    PROVE  Whole /\ store \in Seq(RowSet)
<1>1. Whole
  BY DEF AsofInv, InputsOK, Control, BuildSide, Whole
<1>. QED BY <1>1, StoreHolds

\* The rows of the pairs in hand.
LEMMA RestTyped ==
    ASSUME AsofInv, phase = "ready"
    PROVE  /\ Shown(pairs, chunk) \in Seq(OutRow) /\ Len(Shown(pairs, chunk)) = Len(pairs)
           /\ Len(pairs) \in Nat /\ cursor \in Nat /\ Rest \in Seq(OutRow)
           /\ Drained => Rest = <<>>
<1>1. /\ store \in Seq(RowSet) /\ chunk \in Seq(RowSet) /\ cursor \in Nat
      /\ pairs \in Seq((1 .. Len(chunk)) \X (0 .. Len(store)))
  BY ReadyWhole DEF AsofInv, Batch
<1>2. Shown(pairs, chunk) \in Seq(OutRow) /\ Len(Shown(pairs, chunk)) = Len(pairs) /\ Len(pairs) \in Nat
  <2>1. Shown(pairs, chunk) \in Seq(OutRow) /\ Len(Shown(pairs, chunk)) = Len(pairs)
    BY <1>1, ShownIs, Zenon
  <2>2. Len(pairs) \in Nat
    BY <1>1
  <2>. QED BY <2>1, <2>2
<1> DEFINE s == Shown(pairs, chunk)
<1> HIDE DEF s
<1>3. s \in Seq(OutRow) /\ Len(s) = Len(pairs) /\ Len(s) \in Nat
  BY <1>2 DEF s
<1>4. Rest = SubSeq(s, cursor + 1, Len(s))
  BY DEF Rest, s
<1>5. Rest \in Seq(OutRow)
  BY <1>1, <1>3, <1>4
<1>6. Drained => Rest = <<>>
  BY <1>1, <1>3, <1>4, SubSeqEmpty DEF Drained
<1>. QED BY <1>1, <1>2, <1>5, <1>6

\* No pairs show no rows.
LEMMA NothingShown ==
    ASSUME NEW rows, NEW c \in Nat
    PROVE  Shown(<<>>, rows) = <<>> /\ SubSeq(Shown(<<>>, rows), c + 1, Len(Shown(<<>>, rows))) = <<>>
<1>1. Shown(<<>>, rows) = <<>>
  BY DEF Shown
<1>2. Len(<<>>) = 0
  OBVIOUS
<1>. QED BY <1>1, <1>2, SubSeqEmpty

\* Until the join is ready there is no answer.
LEMMA NoAnswer == ASSUME out' = <<>>, phase' # "ready" PROVE OutOK'
BY DEF OutOK

\* The end of the build side.
LEMMA BuildDoneAnswers ==
    ASSUME AsofInv, OutOK, BuildDone PROVE OutOK'
<1>1. out = <<>> /\ out' = <<>> /\ phase' = "ready" /\ probePos' = 0 /\ UNCHANGED input
  BY DEF OutOK, BuildDone
<1>2. pairs' = <<>> /\ chunk' = <<>> /\ cursor' = 0 /\ ~probeDone'
  BY DEF AsofInv, Control, BuildDone
<1>3. AnswerTo(probePos)' = <<>>
  <2>1. AnswerTo(0) = <<>>
    BY AnswersJoin DEF AsofInv, InputsOK
  <2>2. AnswerTo(0)' = AnswerTo(0)
    BY <1>1, InputFixes
  <2>3. AnswerTo(probePos)' = AnswerTo(0)'
    BY <1>1 DEF AnswerTo
  <2>. QED BY <2>1, <2>2, <2>3
<1>4. Rest' = <<>>
  <2>1. Shown(pairs, chunk)' = <<>>
    BY <1>2 DEF Shown
  <2>2. Len(<<>>) = 0 /\ SubSeq(<<>>, 1, 0) = <<>>
    OBVIOUS
  <2>. QED BY <1>2, <2>1, <2>2 DEF Rest
<1>5. Cat(<<>>, <<>>) = <<>> /\ <<>> \in Seq(OutRow)
  BY DEF Cat
<1>. QED BY <1>1, <1>2, <1>3, <1>4, <1>5 DEF OutOK

\* One batch of the probe side.
LEMMA ProbeBatchAnswers ==
    ASSUME AsofInv, Comparable, OutOK, ProbeBatch PROVE OutOK'
<1> DEFINE rows == NextChunk(Sorted(probe), probePos)
           acc0 == [gid |-> lastGid, cursor |-> mergeCursor, pairs |-> <<>>]
           acc  == MergeBatch(acc0, rows)
           n    == Len(rows)
<1>1. /\ phase = "ready" /\ phase' = "ready" /\ probePos < Len(probe) /\ ~probeDone /\ Drained
      /\ chunk' = rows /\ probePos' = probePos + n /\ cursor' = 0
      /\ pairs' = acc.pairs
      /\ UNCHANGED <<input, phase, store, probeDone, out>>
  BY DEF ProbeBatch
<1>2. Whole /\ store \in Seq(RowSet)
  BY <1>1, ReadyWhole
<1>3. \E h : MergeChain(h, acc0, rows, probePos)
  BY MergeBatchIs
<1>4. /\ rows \in Seq(RowSet) /\ n \in Nat \ {0} /\ probePos + n <= Len(Probes) /\ probePos \in Nat
      /\ \A k \in DOMAIN rows : rows[k] = Probes[probePos + k]
      /\ acc0 \in MergeSet(n) /\ acc0.pairs = <<>>
  BY MergeBatchIs
<1>5. tolerance \in TimeSet \union {NULL} /\ type \in {"Inner", "Left"}
  BY DEF AsofInv, InputsOK
<1>6. out \in Seq(OutRow) /\ out = AnswerTo(probePos)
  <2>1. out \in Seq(OutRow) /\ Cat(out, Rest) = AnswerTo(probePos) /\ Rest = <<>>
    BY <1>1, RestTyped DEF OutOK
  <2>. QED BY <2>1, CatEmpty
<1> HIDE DEF rows, n, acc0
<1>7. /\ Shown(acc.pairs, rows) \in Seq(OutRow)
      /\ Cat(AnswerTo(probePos), Shown(acc.pairs, rows)) = AnswerTo(probePos + n)
  <2>1. PICK h : MergeChain(h, acc0, rows, probePos)
    BY <1>3
  <2>. QED BY <1>2, <1>4, <1>5, <2>1, MergeBatchAnswers DEF n
<1> HIDE DEF acc
<1>8. Shown(pairs, chunk)' = Shown(acc.pairs, rows)
  BY <1>1 DEF Shown, BuildCells
<1>9. Rest' = Shown(acc.pairs, rows)
  <2>1. Rest' = SubSeq(Shown(pairs, chunk)', cursor' + 1, Len(Shown(pairs, chunk)'))
    BY DEF Rest
  <2>2. cursor' + 1 = 1
    BY <1>1
  <2>. QED BY <1>7, <1>8, <2>1, <2>2, SubSeqFull
<1>10. AnswerTo(probePos)' = AnswerTo(probePos + n)
  <2>1. \A p : AnswerTo(p)' = AnswerTo(p)
    BY <1>1, InputFixes
  <2>. QED BY <1>1, <2>1 DEF AnswerTo
<1>. QED BY <1>1, <1>6, <1>7, <1>9, <1>10 DEF OutOK

\* The answer of the rows pulled does not change when no row is pulled.
LEMMA AnswerRests ==
    ASSUME UNCHANGED <<input, probePos>>
    PROVE  AnswerTo(probePos)' = AnswerTo(probePos)
<1>1. \A p : AnswerTo(p)' = AnswerTo(p)
  BY InputFixes
<1>. QED BY <1>1 DEF AnswerTo

\* The end of the probe side.
LEMMA ProbeEndsAnswers ==
    ASSUME AsofInv, OutOK, ProbeEnds PROVE OutOK'
<1>1. /\ phase = "ready" /\ phase' = "ready" /\ Drained /\ (~probeDone => probePos = Len(probe))
      /\ pairs' = (IF probeDone THEN pairs ELSE <<>>)
      /\ UNCHANGED <<input, probePos, store, chunk, cursor, out>>
  BY DEF ProbeEnds
<1>2. /\ out \in Seq(OutRow) /\ Cat(out, Rest) = AnswerTo(probePos) /\ Rest = <<>>
      /\ probeDone => pairs = <<>> /\ probePos = Len(probe)
  BY <1>1, RestTyped DEF OutOK
<1>3. pairs' = <<>> /\ probePos' = Len(probe')
  BY <1>1, <1>2 DEF input
<1>4. Rest' = <<>>
  <2>1. Shown(pairs, chunk)' = <<>>
    BY <1>3 DEF Shown
  <2>2. cursor' \in Nat /\ Len(<<>>) = 0
    BY <1>1, RestTyped
  <2>. QED BY <2>1, <2>2, SubSeqEmpty DEF Rest
<1>5. AnswerTo(probePos)' = AnswerTo(probePos)
  BY <1>1, AnswerRests
<1>. QED BY <1>1, <1>2, <1>3, <1>4, <1>5 DEF OutOK

\* One batch of the answer.
LEMMA EmitAnswers ==
    ASSUME AsofInv, OutOK, Emit PROVE OutOK'
<1> DEFINE m == ChunkLength(Len(pairs) - cursor)
           show(i) == chunk[pairs[i][1]] \o BuildCells(pairs[i][2])
           s == Shown(pairs, chunk)
           rows == [i \in 1 .. m |-> show(cursor + i)]
           cut == SubSeq(s, cursor + 1, cursor + m)
           left == SubSeq(s, cursor + m + 1, Len(s))
<1>1. /\ phase = "ready" /\ phase' = "ready" /\ ~Drained
      /\ out' = out \o [i \in 1 .. m |-> chunk[pairs[cursor + i][1]] \o BuildCells(pairs[cursor + i][2])]
      /\ cursor' = cursor + m
      /\ UNCHANGED <<input, probePos, store, chunk, pairs, probeDone>>
  BY DEF Emit
<1>2. out' = out \o rows
  BY <1>1
<1>3. /\ out \in Seq(OutRow) /\ Cat(out, Rest) = AnswerTo(probePos)
      /\ probeDone => pairs = <<>> /\ probePos = Len(probe)
  BY <1>1 DEF OutOK
<1>4. s \in Seq(OutRow) /\ Len(s) = Len(pairs) /\ Len(pairs) \in Nat /\ cursor \in Nat
  BY <1>1, RestTyped
<1>5. m \in 1 .. Len(pairs) - cursor
  <2>1. kOutBatch \in Nat \ {0} /\ cursor < Len(pairs)
    BY <1>1, <1>4, AsofAssumption DEF Drained
  <2>. QED BY <1>4, <2>1 DEF ChunkLength
<1>6. \A i \in DOMAIN pairs : s[i] = show(i)
  BY DEF Shown
<1>7. DOMAIN pairs = 1 .. Len(pairs)
  BY DEF AsofInv, Batch
<1>8. Rest = SubSeq(s, cursor + 1, Len(s)) /\ Rest' = SubSeq(s', cursor' + 1, Len(s'))
  BY DEF Rest
<1>9. s' = s
  BY <1>1, ShownStays
<1> HIDE DEF m, s, show
<1>10. rows = cut
  <2>1. \A i \in 1 .. m : cursor + i \in DOMAIN pairs
    BY <1>4, <1>5, <1>7
  <2>2. m \in Nat /\ cursor + m <= Len(s) /\ cursor + m \in Nat
    BY <1>4, <1>5
  <2>3. cut \in Seq(OutRow) /\ DOMAIN cut = 1 .. m /\ \A i \in 1 .. m : cut[i] = s[cursor + i]
    BY <1>4, <2>2
  <2> HIDE DEF cut
  <2>4. \A i \in 1 .. m : cut[i] = show(cursor + i)
    BY <1>6, <2>1, <2>3
  <2>5. cut = [i \in 1 .. m |-> cut[i]]
    BY <2>3
  <2>. QED BY <2>4, <2>5
<1>11. /\ Cat(Cat(out, cut), left) = Cat(out, Rest) /\ Cat(out, cut) \in Seq(OutRow)
  <2>1. m \in Nat /\ cursor + m <= Len(s)
    BY <1>4, <1>5
  <2>2. /\ Cat(Cat(out, cut), left) = Cat(out, SubSeq(s, cursor + 1, Len(s)))
        /\ Cat(out, cut) \in Seq(OutRow)
    BY <1>3, <1>4, <2>1, CutMoves
  <2>. QED BY <1>8, <2>2
<1>12. out' = Cat(out, cut)
  BY <1>2, <1>10 DEF Cat
<1>13. Rest' = left
  BY <1>1, <1>8, <1>9
<1>14. AnswerTo(probePos)' = AnswerTo(probePos)
  BY <1>1, AnswerRests
<1> HIDE DEF cut, left
<1>. QED BY <1>1, <1>3, <1>11, <1>12, <1>13, <1>14 DEF OutOK, input

\* Nothing happens.
LEMMA StutterAnswers ==
    ASSUME OutOK, UNCHANGED vars PROVE OutOK'
<1>1. AnswerTo(probePos)' = AnswerTo(probePos)
  BY AnswerRests DEF vars, input
<1>2. Shown(pairs, chunk)' = Shown(pairs, chunk)
  BY ShownStays DEF vars
<1>3. Rest' = Rest
  BY <1>2 DEF Rest, vars
<1>. QED BY <1>1, <1>3 DEF OutOK, vars

\* AnswerInv is inductive.
LEMMA AnswerStep == AnswerInv /\ [Next]_vars => AnswerInv'
<1> SUFFICES ASSUME AnswerInv, [Next]_vars PROVE AnswerInv'
  OBVIOUS
<1>1. AsofInv /\ AsofInv'
  BY AsofStep DEF AnswerInv
<1>2. SUFFICES ASSUME Comparable' PROVE OutOK'
  BY <1>1 DEF AnswerInv
<1>3. UNCHANGED input
  BY DEF Next, vars, Open, BuildBatch, BuildDone, ProbeBatch, ProbeEnds, Emit, Close, input
<1>4. Comparable /\ OutOK
  BY <1>2, <1>3, InputFixes DEF AnswerInv
<1>5. CASE Open
  BY <1>5, NoAnswer DEF Open
<1>6. CASE BuildBatch
  <2>1. out' = <<>> /\ phase' # "ready"
    BY <1>4, <1>6 DEF OutOK, BuildBatch
  <2>. QED BY <2>1, NoAnswer
<1>7. CASE BuildDone
  BY <1>1, <1>4, <1>7, BuildDoneAnswers
<1>8. CASE ProbeBatch
  BY <1>1, <1>4, <1>8, ProbeBatchAnswers
<1>9. CASE ProbeEnds
  BY <1>1, <1>4, <1>9, ProbeEndsAnswers
<1>10. CASE Emit
  BY <1>1, <1>4, <1>10, EmitAnswers
<1>11. CASE Close
  BY <1>11, NoAnswer DEF Close
<1>12. CASE UNCHANGED vars
  BY <1>4, <1>12, StutterAnswers
<1>. QED BY <1>5, <1>6, <1>7, <1>8, <1>9, <1>10, <1>11, <1>12 DEF Next

\* The initial states.
LEMMA AnswerInit == Init => AnswerInv
<1>1. Init => AsofInv
  BY AsofInit
<1>2. Init => OutOK
  BY DEF Init, OutOK
<1>. QED BY <1>1, <1>2 DEF AnswerInv

\* The answer from the invariant.
LEMMA AnswerHolds == AnswerInv /\ Comparable => AsofLikeReference
<1> SUFFICES ASSUME AnswerInv, Comparable PROVE AsofLikeReference
  OBVIOUS
<1>1. AsofInv /\ OutOK
  BY DEF AnswerInv
<1>2. build \in Seq(RowSet) /\ probe \in Seq(RowSet) /\ probePos \in 0 .. Len(probe) /\ Len(Probes) = Len(probe)
  BY <1>1, SortedTable DEF AsofInv, InputsOK, Control, Probes
<1>3. phase # "ready" => ~probeDone
  BY <1>1 DEF AsofInv, Control
<1>4. CASE phase = "ready"
  <2>1. /\ out \in Seq(OutRow) /\ Cat(out, Rest) = AnswerTo(probePos) /\ Rest \in Seq(OutRow)
        /\ probeDone => pairs = <<>> /\ probePos = Len(probe)
    BY <1>1, <1>4, RestTyped DEF OutOK
  <2>2. IsPrefix(out, Answer)
    <3>1. PICK R \in Seq(OutRow) : Answer = Cat(AnswerTo(probePos), R)
      BY <1>2, AnswersPrefix
    <3>2. Cat(Cat(out, Rest), R) = Cat(out, Cat(Rest, R)) /\ Cat(Rest, R) \in Seq(OutRow)
      BY <2>1, CatAssociative, CatType
    <3>. QED BY <2>1, <3>1, <3>2, PrefixOf
  <2>3. ASSUME probeDone PROVE out = Answer
    <3>1. Answer = AnswerTo(Len(Probes)) /\ probePos = Len(Probes)
      BY <1>2, <2>1, <2>3, AnswersJoin
    <3>2. Rest = <<>>
      <4>1. Drained
        <5>1. Len(<<>>) = 0 /\ cursor \in Nat
          BY <1>1 DEF AsofInv, Batch
        <5>. QED BY <2>1, <2>3, <5>1 DEF Drained
      <4>. QED BY <1>1, <1>4, <4>1, RestTyped
    <3>. QED BY <2>1, <3>1, <3>2, CatEmpty
  <2>. QED BY <2>2, <2>3 DEF AsofLikeReference
<1>5. CASE phase # "ready"
  <2>1. out = <<>> /\ ~probeDone
    BY <1>1, <1>3, <1>5 DEF OutOK
  <2>. QED BY <2>1 DEF AsofLikeReference
<1>. QED BY <1>4, <1>5

\* Keys that are no strings are their own words.
LEMMA OwnWords == keyType # "STR" => WordsAgree
BY DEF WordsAgree, KeyWord

\* THE AS-OF JOIN: what the caller has got since open() is the beginning of
\* the as-of join of the two tables, and all of it once next() answers
\* nullopt, for every pair of tables with NULLs anywhere, every word width,
\* batch size and tolerance, and any number of openings.  Comparable leaves
\* out exactly what the code does otherwise, or the reference leaves open:
\* string keys whose two dictionaries disagree (a run shows the wrong
\* answer), a negative tolerance, which compares as a huge one, and without
\* a key column two rows of the same time of which either may be joined.
THEOREM AsofExact == Spec => [](Comparable => AsofLikeReference)
<1>1. AnswerInv => (Comparable => AsofLikeReference)
  BY AnswerHolds
<1>. QED BY <1>1, AnswerInit, AnswerStep, PTL DEF Spec
===============================================================================
