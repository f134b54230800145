------------------------------ MODULE DataProofs ------------------------------
(***************************************************************************)
(* What the operators the models share return.                             *)
(*   - Induction over data, for the folds, flattenings and counts the      *)
(*     models are written with.  The library states induction for an       *)
(*     operator P(_), which the provers cannot instantiate; here it is     *)
(*     stated for a set, and a recursion for a step that is a function.  A *)
(*     lemma about a fold then takes the step it needs as that function.   *)
(*   - Columns of any length and words of any size: the padding of a       *)
(*     bitmap's last word never counts, a view that starts on a word       *)
(*     boundary shows the rows it should, and a compacted column holds the *)
(*     rows its index vector names.                                        *)
(*   - Tables of any rows: ORDER BY rearranges them into the order of its  *)
(*     keys.                                                               *)
(***************************************************************************)
EXTENDS Columns, ReferenceOracle, FiniteSetTheorems, SequenceTheorems, WellFoundedInduction,
        TLAPS

-----------------------------------------------------------------------------
(***************************************************************************)
(* A set that contains 0 and n + 1 with every n contains every n.          *)
(***************************************************************************)
LEMMA SetInduction ==
    ASSUME NEW S, 0 \in S, \A n \in Nat : n \in S => n + 1 \in S
    PROVE  \A n \in Nat : n \in S
<1> DEFINE T == Nat \ S
           R == {ss \in Nat \X Nat : ss[1] < ss[2]}
<1>1. SUFFICES ASSUME T # {} PROVE FALSE
  OBVIOUS
<1>2. PICK x \in T : \A y \in T : ~ (<<y, x>> \in R)
  <2> HIDE DEF R
  <2>1. IsWellFoundedOn(R, Nat)
    BY NatLessThanWellFounded DEF R, OpToRel
  <2>. QED BY <1>1, <2>1, WFMin
<1>3. x # 0 /\ x - 1 \in Nat /\ x - 1 < x
  OBVIOUS
<1>4. <<x - 1, x>> \in R
  BY <1>3
<1>5. x - 1 \in S
  BY <1>2, <1>3, <1>4
<1>. QED BY <1>3, <1>5

(***************************************************************************)
(* The same up to a bound.                                                 *)
(***************************************************************************)
LEMMA BoundedInduction ==
    ASSUME NEW n \in Nat, NEW S, 0 \in S, \A k \in 0 .. n - 1 : k \in S => k + 1 \in S
    PROVE  \A k \in 0 .. n : k \in S
<1> DEFINE T == {k \in Nat : k <= n => k \in S}
<1>1. 0 \in T
  OBVIOUS
<1>2. \A k \in Nat : k \in T => k + 1 \in T
  OBVIOUS
<1> HIDE DEF T
<1>3. \A k \in Nat : k \in T
  BY <1>1, <1>2, SetInduction
<1>. QED BY <1>3 DEF T

(***************************************************************************)
(* The greatest element of a set of positions.                             *)
(***************************************************************************)
LEMMA MaxOf ==
    ASSUME NEW n \in Nat, NEW s \in SUBSET (1 .. n), s # {}
    PROVE  Max(s) \in s /\ \A y \in s : y <= Max(s)
<1> DEFINE S == {m \in Nat : \A t \in SUBSET (1 .. m) : t # {} => \E x \in t : \A y \in t : x >= y}
<1>1. 0 \in S
  <2>1. 1 .. 0 = {}
    OBVIOUS
  <2>. QED BY <2>1
<1>2. ASSUME NEW m \in Nat, m \in S PROVE m + 1 \in S
  <2>1. SUFFICES ASSUME NEW t \in SUBSET (1 .. m + 1), t # {}
                 PROVE \E x \in t : \A y \in t : x >= y
    OBVIOUS
  <2>2. CASE m + 1 \in t
    BY <2>2
  <2>3. CASE m + 1 \notin t
    <3>1. t \in SUBSET (1 .. m)
      BY <2>3
    <3>. QED BY <1>2, <2>1, <3>1
  <2>. QED BY <2>2, <2>3
<1> HIDE DEF S
<1>3. n \in S
  BY <1>1, <1>2, SetInduction
<1>4. \E x \in s : \A y \in s : x >= y
  BY <1>3 DEF S
<1>5. Max(s) \in s /\ \A y \in s : Max(s) >= y
  BY <1>4 DEF Max
<1>. QED BY <1>5

\* A set of positions has a least element.
LEMMA LeastOf ==
    ASSUME NEW n \in Nat, NEW s \in SUBSET (1 .. n), s # {}
    PROVE  \E x \in s : \A y \in s : x <= y
<1> DEFINE S == {m \in Nat : \A t \in SUBSET (1 .. m) : t # {} => \E x \in t : \A y \in t : x <= y}
<1>1. 0 \in S
  <2>1. 1 .. 0 = {}
    OBVIOUS
  <2>. QED BY <2>1
<1>2. ASSUME NEW m \in Nat, m \in S PROVE m + 1 \in S
  <2>1. SUFFICES ASSUME NEW t \in SUBSET (1 .. m + 1), t # {}
                 PROVE \E x \in t : \A y \in t : x <= y
    OBVIOUS
  <2>2. CASE t \intersect (1 .. m) = {}
    <3>1. \A x \in t : x = m + 1
      BY <2>1, <2>2
    <3>2. PICK x \in t : x = m + 1
      BY <2>1, <3>1
    <3>3. \A y \in t : x <= y
      BY <3>1, <3>2
    <3>. QED BY <3>2, <3>3
  <2>3. CASE t \intersect (1 .. m) # {}
    <3>1. PICK x \in t \intersect (1 .. m) : \A y \in t \intersect (1 .. m) : x <= y
      BY <1>2, <2>3
    <3>. QED BY <2>1, <3>1
  <2>. QED BY <2>2, <2>3
<1> HIDE DEF S
<1>3. n \in S
  BY <1>1, <1>2, SetInduction
<1>. QED BY <1>3 DEF S

-----------------------------------------------------------------------------
(***************************************************************************)
(* Recursion over the subsets of a finite set, one element taken out at a  *)
(* time: the function MapThenFoldSet defines exists.  `pick` names the     *)
(* element taken out, `step` what it does to the value of the rest.        *)
(***************************************************************************)
Foldable(S, A, base, pick, step) ==
    /\ IsFiniteSet(S) /\ base \in A
    /\ \A T \in SUBSET S : T # {} => pick[T] \in T
    /\ \A x \in S, a \in A : step[x][a] \in A

FoldTable(g, S, A, base, pick, step) ==
    /\ g \in [SUBSET S -> A]
    /\ g[{}] = base
    /\ \A T \in SUBSET S : T # {} => g[T] = step[pick[T]][g[T \ {pick[T]}]]

\* The fold of a finite set has a table of its values.
LEMMA SetFoldExists ==
    ASSUME NEW S, NEW A, NEW base, NEW pick, NEW step, Foldable(S, A, base, pick, step)
    PROVE  \E g : FoldTable(g, S, A, base, pick, step)
<1> USE DEF Foldable
<1> DEFINE Small(k) == {T \in SUBSET S : Cardinality(T) <= k}
           Ok(g, k) == /\ g \in [Small(k) -> A]
                       /\ g[{}] = base
                       /\ \A T \in Small(k) : T # {} => g[T] = step[pick[T]][g[T \ {pick[T]}]]
           N == {k \in Nat : \E g : Ok(g, k)}
<1>0. \A T \in SUBSET S : /\ IsFiniteSet(T) /\ Cardinality(T) \in Nat
                          /\ Cardinality(T) = 0 <=> T = {}
                          /\ Cardinality(T) <= Cardinality(S)
  BY FS_Subset, FS_CardinalityType, FS_EmptySet
<1>1. ASSUME NEW T \in SUBSET S, T # {}
      PROVE  /\ pick[T] \in S /\ T \ {pick[T]} \in SUBSET S
             /\ Cardinality(T \ {pick[T]}) = Cardinality(T) - 1
  BY <1>0, <1>1, FS_RemoveElement
<1>2. 0 \in N
  <2> DEFINE g == [T \in Small(0) |-> base]
  <2>1. Small(0) = {{}}
    BY <1>0, FS_EmptySet
  <2>2. Ok(g, 0)
    BY <2>1
  <2> HIDE DEF g, Ok
  <2>. QED BY <2>2
<1>3. ASSUME NEW k \in Nat, k \in N PROVE k + 1 \in N
  <2> HIDE DEF Ok
  <2>1. PICK g : Ok(g, k)
    BY <1>3
  <2>2. /\ g \in [Small(k) -> A]
        /\ g[{}] = base
        /\ \A T \in Small(k) : T # {} => g[T] = step[pick[T]][g[T \ {pick[T]}]]
    BY <2>1 DEF Ok
  <2> DEFINE h == [T \in Small(k + 1) |->
                     IF T \in Small(k) THEN g[T] ELSE step[pick[T]][g[T \ {pick[T]}]]]
  <2>3. ASSUME NEW T \in Small(k + 1), T # {}
        PROVE  /\ pick[T] \in S /\ T \ {pick[T]} \in Small(k) /\ T \ {pick[T]} \in Small(k + 1)
    BY <1>0, <1>1, <2>3
  <2>4. {} \in Small(k) /\ {} \in Small(k + 1) /\ \A T \in Small(k + 1) : T \notin Small(k) => T # {}
    BY <1>0, FS_EmptySet
  <2>5. ASSUME NEW T \in Small(k + 1), T # {} PROVE h[T] = step[pick[T]][h[T \ {pick[T]}]]
    <3>1. h[T \ {pick[T]}] = g[T \ {pick[T]}]
      BY <2>3, <2>5
    <3>2. h[T] = step[pick[T]][g[T \ {pick[T]}]]
      BY <2>2, <2>5
    <3>. QED BY <3>1, <3>2
  <2>6. ASSUME NEW T \in Small(k + 1) PROVE h[T] \in A
    <3>1. CASE T \in Small(k)
      BY <3>1, <2>2
    <3>2. CASE T \notin Small(k)
      <4>1. g[T \ {pick[T]}] \in A /\ pick[T] \in S
        BY <2>2, <2>3, <2>4, <3>2
      <4>. QED BY <4>1, <3>2
    <3>. QED BY <3>1, <3>2
  <2>7. h \in [Small(k + 1) -> A] /\ h[{}] = base
    BY <2>2, <2>4, <2>6
  <2> HIDE DEF h, Small
  <2>8. Ok(h, k + 1)
    BY <2>5, <2>7 DEF Ok
  <2>. QED BY <2>8
<1> HIDE DEF N
<1>4. Cardinality(S) \in N
  BY <1>0, <1>2, <1>3, SetInduction
<1>5. Small(Cardinality(S)) = SUBSET S
  BY <1>0
<1> HIDE DEF Ok
<1>6. PICK g : Ok(g, Cardinality(S))
  BY <1>4 DEF N
<1> HIDE DEF Small
<1>. QED BY <1>5, <1>6 DEF Ok, FoldTable

(***************************************************************************)
(* Recursion over the positions of a sequence.                             *)
(***************************************************************************)
LEMMA Initial ==
    ASSUME NEW n \in Nat, NEW k \in 1 .. n
    PROVE  /\ 1 .. k \in SUBSET (1 .. n) /\ 1 .. k # {}
           /\ Max(1 .. k) = k
           /\ (1 .. k) \ {k} = 1 .. k - 1
<1>1. k \in Nat /\ 1 .. k \in SUBSET (1 .. k) /\ 1 .. k # {} /\ 1 .. k \in SUBSET (1 .. n)
  OBVIOUS
<1>2. Max(1 .. k) \in 1 .. k /\ \A y \in 1 .. k : y <= Max(1 .. k)
  BY <1>1, MaxOf
<1>3. Max(1 .. k) = k
  BY <1>2
<1>. QED BY <1>1, <1>3

\* step takes a value of A at every position to one of A.
Steps(step, n, A) == \A k \in 1 .. n, a \in A : step[k][a] \in A

\* The table MapThenFoldSet makes for a fold over the positions 1 .. n.
SetTable(g, n, A, base, step) ==
    /\ g \in [SUBSET (1 .. n) -> A]
    /\ g[{}] = base
    /\ \A s \in SUBSET (1 .. n) : s # {} => g[s] = step[Max(s)][g[s \ {Max(s)}]]

\* A fold over the positions of a sequence has its table.
LEMMA SeqFoldExists ==
    ASSUME NEW n \in Nat, NEW A, NEW base \in A, NEW step, Steps(step, n, A)
    PROVE  \E g : SetTable(g, n, A, base, step)
<1> DEFINE pick == [s \in SUBSET (1 .. n) |-> Max(s)]
<1>1. \A s \in SUBSET (1 .. n) : s # {} => pick[s] = Max(s) /\ pick[s] \in s
  BY MaxOf
<1>2. IsFiniteSet(1 .. n)
  BY FS_Interval
<1> HIDE DEF pick
<1>3. Foldable(1 .. n, A, base, pick, step)
  BY <1>1, <1>2 DEF Foldable, Steps
<1>4. PICK g : FoldTable(g, 1 .. n, A, base, pick, step)
  BY <1>3, SetFoldExists
<1>5. SetTable(g, n, A, base, step)
  BY <1>1, <1>4 DEF FoldTable, SetTable
<1>. QED BY <1>5

\* The same along the positions.
Chain(h, n, A, base, step) ==
    /\ h \in [0 .. n -> A]
    /\ h[0] = base
    /\ \A k \in 1 .. n : h[k] = step[k][h[k - 1]]

\* So has the fold taken position by position.
LEMMA ChainExists ==
    ASSUME NEW n \in Nat, NEW A, NEW base \in A, NEW step, Steps(step, n, A)
    PROVE  \E h : Chain(h, n, A, base, step)
<1>1. PICK g : SetTable(g, n, A, base, step)
  BY SeqFoldExists
<1> DEFINE h == [k \in 0 .. n |-> g[1 .. k]]
<1>2. \A k \in 0 .. n : 1 .. k \in SUBSET (1 .. n)
  OBVIOUS
<1>3. h \in [0 .. n -> A]
  BY <1>1, <1>2 DEF SetTable
<1>4. h[0] = base
  BY <1>1 DEF SetTable
<1>5. ASSUME NEW k \in 1 .. n PROVE h[k] = step[k][h[k - 1]]
  <2>1. 1 .. k \in SUBSET (1 .. n) /\ 1 .. k # {} /\ Max(1 .. k) = k /\ (1 .. k) \ {k} = 1 .. k - 1
    BY Initial
  <2>2. g[1 .. k] = step[k][g[1 .. k - 1]]
    BY <1>1, <2>1 DEF SetTable
  <2>. QED BY <2>2
<1> HIDE DEF h
<1>6. Chain(h, n, A, base, step)
  BY <1>3, <1>4, <1>5 DEF Chain
<1>. QED BY <1>6

(***************************************************************************)
(* FlattenSeq.                                                             *)
(***************************************************************************)
\* h[k] is the concatenation of the first k sequences.
Joined(h, ss, A) ==
    /\ h \in [0 .. Len(ss) -> Seq(A)]
    /\ h[0] = <<>>
    /\ \A k \in 1 .. Len(ss) : h[k] = h[k - 1] \o ss[k]
    /\ FlattenSeq(ss) = h[Len(ss)]

\* FlattenSeq is the last of the concatenations of its first sequences.
LEMMA FlattenJoins ==
    ASSUME NEW A, NEW ss \in Seq(Seq(A))
    PROVE  \E h : Joined(h, ss, A)
<1> DEFINE n == Len(ss)
           step == [k \in 1 .. n |-> [a \in Seq(A) |-> a \o ss[k]]]
<1>0. n \in Nat /\ \A k \in 1 .. n : ss[k] \in Seq(A)
  OBVIOUS
<1>1. \A k \in 1 .. n, a \in Seq(A) : step[k][a] = a \o ss[k] /\ step[k][a] \in Seq(A)
  BY <1>0
<1>2. PICK h : Chain(h, n, Seq(A), <<>>, step)
  <2> HIDE DEF n, step
  <2>1. Steps(step, n, Seq(A)) /\ <<>> \in Seq(A)
    BY <1>1 DEF Steps
  <2>. QED BY <1>0, <2>1, ChainExists
<1>3. /\ h \in [0 .. n -> Seq(A)] /\ h[0] = <<>>
      /\ \A k \in 1 .. n : h[k] = h[k - 1] \o ss[k]
  <2>1. h \in [0 .. n -> Seq(A)] /\ h[0] = <<>> /\ \A k \in 1 .. n : h[k] = step[k][h[k - 1]]
    BY <1>2 DEF Chain
  <2>2. ASSUME NEW k \in 1 .. n PROVE h[k] = h[k - 1] \o ss[k]
    <3>1. k - 1 \in 0 .. n
      BY <1>0
    <3>2. h[k - 1] \in Seq(A)
      BY <2>1, <3>1
    <3>. QED BY <1>1, <2>1, <3>2
  <2>. QED BY <2>1, <2>2
<1>5. n # 0 => 1 \in 1 .. n /\ h[1] = ss[1]
  <2>1. SUFFICES ASSUME n # 0 PROVE 1 \in 1 .. n /\ h[1] = ss[1]
    OBVIOUS
  <2>2. 1 \in 1 .. n /\ ss[1] \in Seq(A)
    BY <1>0, <2>1
  <2>3. h[1] = <<>> \o ss[1]
    <3> HIDE DEF n
    <3>1. h[1] = h[1 - 1] \o ss[1]
      BY <1>3, <2>2
    <3>2. 1 - 1 = 0
      OBVIOUS
    <3>. QED BY <1>3, <3>1, <3>2
  <2>. QED BY <2>2, <2>3, ConcatEmptySeq
<1>4. FlattenSeq(ss) = h[n]
  <2>1. CASE n = 0
    <3>1. ss = <<>>
      BY <2>1
    <3>. QED BY <1>3, <2>1, <3>1 DEF FlattenSeq
  <2>2. CASE n # 0
    <3> DEFINE body(f) == [i \in 1 .. Len(ss) |-> IF i = 1 THEN ss[i] ELSE f[i - 1] \o ss[i]]
               f0 == [i \in 1 .. n |-> h[i]]
               it == CHOOSE f : f = body(f)
    <3>1. f0 = body(f0)
      <4>1. ASSUME NEW i \in 1 .. n, i # 1 PROVE f0[i] = f0[i - 1] \o ss[i]
        <5>1. i - 1 \in 1 .. n
          BY <1>0, <4>1
        <5>. QED BY <1>3, <5>1
      <4>2. f0[1] = ss[1]
        BY <1>5, <2>2
      <4>. QED BY <1>0, <4>1, <4>2
    <3>2. it = body(it)
      <4> HIDE DEF body, f0
      <4>. QED BY <3>1
    <3>3. FlattenSeq(ss) = it[n]
      BY <2>2 DEF FlattenSeq
    <3> HIDE DEF it
    <3>4. \A i \in 1 .. n : it[i] = IF i = 1 THEN ss[i] ELSE it[i - 1] \o ss[i]
      BY <3>2
    <3> DEFINE S == {k \in Nat : k \in 1 .. n => it[k] = h[k]}
    <3>5. 0 \in S
      OBVIOUS
    <3>6. ASSUME NEW k \in Nat, k \in S PROVE k + 1 \in S
      <4>1. SUFFICES ASSUME k + 1 \in 1 .. n PROVE it[k + 1] = h[k + 1]
        OBVIOUS
      <4>2. CASE k = 0
        BY <1>5, <2>2, <3>4, <4>2
      <4>3. CASE k # 0
        <5>1. k \in 1 .. n /\ (k + 1) - 1 = k
          BY <4>1, <4>3
        <5>2. it[k] = h[k]
          BY <3>6, <5>1
        <5> HIDE DEF n
        <5>3. it[k + 1] = it[k] \o ss[k + 1]
          <6>1. it[k + 1] = IF k + 1 = 1 THEN ss[k + 1] ELSE it[(k + 1) - 1] \o ss[k + 1]
            BY <3>4, <4>1
          <6>2. k + 1 # 1
            BY <3>6, <4>3
          <6>. QED BY <5>1, <6>1, <6>2
        <5>4. h[k + 1] = h[k] \o ss[k + 1]
          BY <1>3, <4>1, <5>1
        <5>. QED BY <5>2, <5>3, <5>4
      <4>. QED BY <4>2, <4>3
    <3> HIDE DEF S
    <3>7. n \in S
      BY <1>0, <3>5, <3>6, SetInduction
    <3>. QED BY <1>0, <2>2, <3>3, <3>7 DEF S
  <2>. QED BY <2>1, <2>2
<1>. QED BY <1>3, <1>4 DEF Joined


\* The concatenation is the only such table.
JoinTable(g, ss) ==
    /\ g[0] = <<>>
    /\ \A k \in 1 .. Len(ss) : g[k] = g[k - 1] \o ss[k]

\* Whatever table joins the sequences one by one ends in FlattenSeq.
LEMMA FlattenIs ==
    ASSUME NEW A, NEW ss \in Seq(Seq(A)), NEW g, JoinTable(g, ss)
    PROVE  FlattenSeq(ss) = g[Len(ss)] /\ FlattenSeq(ss) \in Seq(A)
<1> DEFINE n == Len(ss)
<1>1. n \in Nat
  OBVIOUS
<1>2. PICK h : Joined(h, ss, A)
  BY FlattenJoins
<1> DEFINE S == {k \in Nat : k <= n => g[k] = h[k]}
<1>3. 0 \in S
  BY <1>2 DEF Joined, JoinTable
<1>4. ASSUME NEW k \in Nat, k \in S PROVE k + 1 \in S
  <2>1. SUFFICES ASSUME k + 1 <= n PROVE g[k + 1] = h[k + 1]
    OBVIOUS
  <2>2. k + 1 \in 1 .. Len(ss) /\ (k + 1) - 1 = k /\ k <= n
    BY <1>1, <2>1
  <2>3. g[k] = h[k]
    BY <1>4, <2>2
  <2> HIDE DEF n
  <2>4. g[k + 1] = g[k] \o ss[k + 1]
    BY <2>2 DEF JoinTable
  <2>5. h[k + 1] = h[k] \o ss[k + 1]
    BY <1>2, <2>2 DEF Joined
  <2>. QED BY <2>3, <2>4, <2>5
<1> HIDE DEF S
<1>5. n \in S
  BY <1>1, <1>3, <1>4, SetInduction
<1>6. g[n] = h[n]
  BY <1>1, <1>5 DEF S
<1>7. FlattenSeq(ss) = h[n] /\ h[n] \in Seq(A)
  BY <1>1, <1>2 DEF Joined
<1>. QED BY <1>6, <1>7

\* There is such a table.
LEMMA FlattenTable ==
    ASSUME NEW A, NEW ss \in Seq(Seq(A))
    PROVE  \E h : h \in [0 .. Len(ss) -> Seq(A)] /\ JoinTable(h, ss) /\ FlattenSeq(ss) = h[Len(ss)]
<1>1. PICK h : Joined(h, ss, A)
  BY FlattenJoins
<1>2. h \in [0 .. Len(ss) -> Seq(A)] /\ JoinTable(h, ss) /\ FlattenSeq(ss) = h[Len(ss)]
  BY <1>1 DEF Joined, JoinTable
<1>. QED BY <1>2

\* Nothing flattens to nothing.
LEMMA FlattenEmpty == FlattenSeq(<<>>) = <<>>
BY DEF FlattenSeq

\* Concatenation under a name: the provers take s \o t apart position by
\* position wherever they see it.
Cat(s, t) == s \o t

\* Hidden for the same reason.
SeqsOf(ss, A) == ss \in Seq(Seq(A))
Fn(r, A, B) == r \in [A -> B]

\* Cat joins two sequences over A into one, of both their lengths.
LEMMA CatType ==
    ASSUME NEW A, NEW s \in Seq(A), NEW t \in Seq(A)
    PROVE  Cat(s, t) \in Seq(A) /\ Len(Cat(s, t)) = Len(s) + Len(t)
BY DEF Cat

\* The empty sequence adds nothing on either side.
LEMMA CatEmpty ==
    ASSUME NEW A, NEW s \in Seq(A)
    PROVE  Cat(s, <<>>) = s /\ Cat(<<>>, s) = s
BY ConcatEmptySeq DEF Cat

\* Cat is associative.
LEMMA CatAssociative ==
    ASSUME NEW A, NEW s \in Seq(A), NEW t \in Seq(A), NEW u \in Seq(A)
    PROVE  Cat(Cat(s, t), u) = Cat(s, Cat(t, u))
BY ConcatAssociative DEF Cat

\* The sequences of ss and tt flatten to those of ss, then those of tt.
LEMMA FlattenConcat ==
    ASSUME NEW A, NEW ss \in Seq(Seq(A)), NEW tt \in Seq(Seq(A))
    PROVE  /\ FlattenSeq(Cat(ss, tt)) = Cat(FlattenSeq(ss), FlattenSeq(tt))
           /\ FlattenSeq(ss) \in Seq(A) /\ FlattenSeq(tt) \in Seq(A)
<1>r. \A a, b, c \in Seq(A) : (a \o b) \o c = a \o (b \o c)
  OBVIOUS
<1> DEFINE m == Len(ss)
           n == Len(tt)
<1>1. PICK g : g \in [0 .. m -> Seq(A)] /\ JoinTable(g, ss) /\ FlattenSeq(ss) = g[m]
  BY FlattenTable
<1>2. PICK h : h \in [0 .. n -> Seq(A)] /\ JoinTable(h, tt) /\ FlattenSeq(tt) = h[n]
  BY FlattenTable
<1>3. m \in Nat /\ n \in Nat /\ g[m] \in Seq(A) /\ h[n] \in Seq(A)
  <2>1. m \in Nat /\ n \in Nat
    OBVIOUS
  <2> HIDE DEF m, n
  <2>2. m \in 0 .. m /\ n \in 0 .. n
    BY <2>1
  <2>. QED BY <1>1, <1>2, <2>1, <2>2
<1> DEFINE f == [k \in 0 .. m + n |-> IF k <= m THEN g[k] ELSE g[m] \o h[k - m]]
<1>4. /\ ss \o tt \in Seq(Seq(A)) /\ Len(ss \o tt) = m + n
      /\ \A k \in 1 .. m : (ss \o tt)[k] = ss[k]
      /\ \A k \in 1 .. n : (ss \o tt)[m + k] = tt[k]
  BY ConcatProperties
<1>5. ASSUME NEW k \in 1 .. m + n PROVE f[k] = f[k - 1] \o (ss \o tt)[k]
  <2>0. k \in 0 .. m + n /\ k - 1 \in 0 .. m + n
    BY <1>3
  <2>1. CASE k <= m
    <3>1. k \in 1 .. m
      BY <1>3, <2>1
    <3>2. g[k] = g[k - 1] \o ss[k]
      BY <1>1, <3>1 DEF JoinTable
    <3>3. f[k] = g[k] /\ f[k - 1] = g[k - 1]
      BY <2>0, <2>1, <1>3
    <3>4. (ss \o tt)[k] = ss[k]
      BY <1>4, <3>1
    <3> HIDE DEF f, m, n
    <3>. QED BY <3>2, <3>3, <3>4
  <2>2. CASE k > m
    <3> DEFINE j == k - m
    <3>1. j \in 1 .. n /\ m + j = k /\ j - 1 = (k - 1) - m /\ j - 1 \in 0 .. n /\ j \in 0 .. n
      BY <1>3, <2>2
    <3>2. h[j] = h[j - 1] \o tt[j]
      BY <1>2, <3>1 DEF JoinTable
    <3>3. f[k] = g[m] \o h[j]
      BY <2>0, <2>2, <1>1, <1>2, <1>3
    <3>4. (ss \o tt)[k] = tt[j]
      BY <1>4, <3>1
    <3>5. f[k - 1] = g[m] \o h[j - 1]
      <4>1. CASE k - 1 = m
        <5>1. f[k - 1] = g[m] /\ j - 1 = 0
          BY <2>0, <4>1, <1>3
        <5>2. h[0] = <<>>
          BY <1>2 DEF JoinTable
        <5> HIDE DEF f, j, m
        <5>3. g[m] \o h[j - 1] = g[m]
          BY <5>1, <5>2, <1>3, ConcatEmptySeq
        <5>. QED BY <5>1, <5>3
      <4>2. CASE k - 1 # m
        <5>1. ~(k - 1 <= m) /\ j - 1 = (k - 1) - m
          <6> HIDE DEF f, m, n
          <6>. QED BY <2>2, <4>2, <1>3, <3>1
        <5>2. f[k - 1] = g[m] \o h[(k - 1) - m]
          BY <2>0, <5>1
        <5> HIDE DEF f, j, m, n
        <5>. QED BY <5>1, <5>2
      <4>. QED BY <4>1, <4>2
    <3>6. h[j - 1] \in Seq(A) /\ tt[j] \in Seq(A)
      <4>1. h[j - 1] \in Seq(A)
        BY <1>2, <3>1
      <4>2. j \in 1 .. Len(tt)
        BY <3>1
      <4> HIDE DEF j
      <4>3. tt[j] \in Seq(A)
        BY <4>2, ElementOfSeq
      <4>. QED BY <4>1, <4>3
    <3> HIDE DEF f, j, m, n
    <3>7. (g[m] \o h[j - 1]) \o tt[j] = g[m] \o (h[j - 1] \o tt[j])
      <4> DEFINE a == g[m]
                 b == h[j - 1]
                 c == tt[j]
      <4>1. a \in Seq(A) /\ b \in Seq(A) /\ c \in Seq(A)
        BY <1>3, <3>6
      <4> HIDE DEF a, b, c
      <4>2. (a \o b) \o c = a \o (b \o c)
        BY <4>1, <1>r
      <4>. QED BY <4>2 DEF a, b, c
    <3>. QED BY <3>2, <3>3, <3>4, <3>5, <3>7
  <2>3. k <= m \/ k > m
    BY <1>3
  <2> HIDE DEF f
  <2>. QED BY <2>1, <2>2, <2>3
<1>6. f[0] = <<>>
  BY <1>1, <1>3 DEF JoinTable
<1>7. f[m + n] = g[m] \o h[n]
  <2>1. CASE n = 0
    <3>1. h[n] = <<>> /\ f[m + n] = g[m]
      BY <1>2, <1>3, <2>1 DEF JoinTable
    <3> HIDE DEF f, m, n
    <3>. QED BY <1>3, <3>1, ConcatEmptySeq
  <2>2. CASE n # 0
    BY <1>1, <1>2, <1>3, <2>2
  <2>. QED BY <2>1, <2>2
<1> HIDE DEF f
<1>8. JoinTable(f, ss \o tt)
  BY <1>4, <1>5, <1>6 DEF JoinTable
<1>9. FlattenSeq(ss \o tt) = f[m + n]
  BY <1>4, <1>8, FlattenIs
<1>. QED BY <1>1, <1>2, <1>3, <1>7, <1>9 DEF Cat

\* A single sequence flattens to itself.
LEMMA FlattenOne ==
    ASSUME NEW A, NEW s \in Seq(A)
    PROVE  FlattenSeq(<<s>>) = s
<1> DEFINE g == [k \in 0 .. 1 |-> IF k = 0 THEN <<>> ELSE s]
<1>1. <<s>> \in Seq(Seq(A)) /\ Len(<<s>>) = 1 /\ <<s>>[1] = s
  OBVIOUS
<1>2. <<>> \o s = s
  BY ConcatEmptySeq
<1>3. g[0] = <<>> /\ g[1] = s
  OBVIOUS
<1> HIDE DEF g
<1>4. \A k \in 1 .. Len(<<s>>) : g[k] = g[k - 1] \o <<s>>[k]
  <2>1. SUFFICES g[1] = g[1 - 1] \o <<s>>[1]
    <3>1. 1 .. Len(<<s>>) = {1}
      BY <1>1
    <3>. QED BY <3>1
  <2>2. 1 - 1 = 0
    OBVIOUS
  <2>. QED BY <1>1, <1>2, <1>3, <2>2
<1>5. JoinTable(g, <<s>>)
  BY <1>3, <1>4 DEF JoinTable
<1>6. FlattenSeq(<<s>>) = g[Len(<<s>>)]
  BY <1>1, <1>5, FlattenIs
<1>. QED BY <1>1, <1>3, <1>6

\* One more sequence is joined at the end.
LEMMA FlattenAppend ==
    ASSUME NEW A, NEW ss \in Seq(Seq(A)), NEW s \in Seq(A)
    PROVE  FlattenSeq(Append(ss, s)) = Cat(FlattenSeq(ss), s)
<1>1. <<s>> \in Seq(Seq(A)) /\ Append(ss, s) = ss \o <<s>>
  BY AppendIsConcat
<1>2. FlattenSeq(Cat(ss, <<s>>)) = Cat(FlattenSeq(ss), FlattenSeq(<<s>>))
  BY <1>1, FlattenConcat
<1>3. FlattenSeq(<<s>>) = s
  BY FlattenOne
<1>. QED BY <1>1, <1>2, <1>3 DEF Cat

\* r applied to every element.
MapSeq(r, s) == [i \in DOMAIN s |-> r[s[i]]]

\* m is r applied to every element of s.
Mapped(m, r, s, B) ==
    /\ m \in Seq(B) /\ Len(m) = Len(s)
    /\ \A i \in 1 .. Len(s) : m[i] = r[s[i]]

\* What MapSeq makes, position by position.
LEMMA MapType ==
    ASSUME NEW A, NEW B, NEW r, Fn(r, A, B), NEW s \in Seq(A)
    PROVE  Mapped(MapSeq(r, s), r, s, B)
<1>1. Len(s) \in Nat /\ DOMAIN s = 1 .. Len(s) /\ \A i \in 1 .. Len(s) : s[i] \in A
  OBVIOUS
<1>2. \A i \in 1 .. Len(s) : r[s[i]] \in B
  BY <1>1 DEF Fn
<1>. QED BY <1>1, <1>2 DEF MapSeq, Mapped

\* MapSeq distributes over concatenation.
LEMMA MapConcat ==
    ASSUME NEW A, NEW B, NEW r, Fn(r, A, B), NEW s \in Seq(A), NEW t \in Seq(A)
    PROVE  MapSeq(r, Cat(s, t)) = Cat(MapSeq(r, s), MapSeq(r, t))
<1>1. s \o t \in Seq(A) /\ Len(s \o t) = Len(s) + Len(t) /\ Len(s) \in Nat /\ Len(t) \in Nat
  OBVIOUS
<1> DEFINE x == MapSeq(r, s \o t)
           y == MapSeq(r, s)
           z == MapSeq(r, t)
<1>a. Mapped(x, r, s \o t, B)
  BY <1>1, MapType
<1>b. Mapped(y, r, s, B)
  BY MapType
<1>c. Mapped(z, r, t, B)
  BY MapType
<1> HIDE DEF x, y, z
<1>2. /\ x \in Seq(B) /\ Len(x) = Len(s) + Len(t)
      /\ \A i \in 1 .. Len(s) + Len(t) : x[i] = r[(s \o t)[i]]
  BY <1>1, <1>a DEF Mapped
<1>3. /\ y \in Seq(B) /\ Len(y) = Len(s) /\ \A i \in 1 .. Len(s) : y[i] = r[s[i]]
  BY <1>b DEF Mapped
<1>4. /\ z \in Seq(B) /\ Len(z) = Len(t) /\ \A i \in 1 .. Len(t) : z[i] = r[t[i]]
  BY <1>c DEF Mapped
<1>5. y \o z \in Seq(B) /\ Len(y \o z) = Len(s) + Len(t)
  <2>1. Cat(y, z) \in Seq(B) /\ Len(Cat(y, z)) = Len(y) + Len(z)
    BY <1>3, <1>4, CatType
  <2>. QED BY <1>3, <1>4, <2>1 DEF Cat
<1>6. ASSUME NEW i \in 1 .. Len(s) + Len(t) PROVE x[i] = (y \o z)[i]
  <2>1. CASE i <= Len(s)
    <3>1. i \in 1 .. Len(s) /\ (s \o t)[i] = s[i] /\ (y \o z)[i] = y[i]
      BY <1>1, <1>3, <1>4, <2>1
    <3>. QED BY <1>2, <1>3, <3>1
  <2>2. CASE ~(i <= Len(s))
    <3>1. i - Len(s) \in 1 .. Len(t) /\ (s \o t)[i] = t[i - Len(s)] /\ (y \o z)[i] = z[i - Len(s)]
      BY <1>1, <1>3, <1>4, <2>2
    <3>. QED BY <1>2, <1>4, <3>1
  <2>. QED BY <2>1, <2>2
<1>7. x = y \o z
  BY <1>2, <1>5, <1>6, SeqEqual
<1>. QED BY <1>7 DEF x, y, z, Cat

\* r applied to every element of every sequence.
MapEach(r, ss) == [k \in DOMAIN ss |-> MapSeq(r, ss[k])]

\* MapSeq of a flattening is the flattening of the mapped sequences.
LEMMA MapFlatten ==
    ASSUME NEW A, NEW B, NEW r, Fn(r, A, B), NEW ss, SeqsOf(ss, A)
    PROVE  MapSeq(r, FlattenSeq(ss)) = FlattenSeq(MapEach(r, ss)) /\ SeqsOf(MapEach(r, ss), B)
<1> DEFINE tt == MapEach(r, ss)
           n == Len(ss)
<1>1. n \in Nat /\ DOMAIN ss = 1 .. n /\ \A k \in 1 .. n : ss[k] \in Seq(A)
  BY DEF SeqsOf
<1>2. \A k \in 1 .. n : MapSeq(r, ss[k]) \in Seq(B)
  BY <1>1, MapType DEF Mapped
<1>3. tt \in Seq(Seq(B)) /\ Len(tt) = n /\ \A k \in 1 .. n : tt[k] = MapSeq(r, ss[k])
  BY <1>1, <1>2 DEF MapEach
<1>4. PICK h : h \in [0 .. n -> Seq(A)] /\ JoinTable(h, ss) /\ FlattenSeq(ss) = h[n]
  BY FlattenTable DEF SeqsOf
<1> DEFINE g == [k \in 0 .. n |-> MapSeq(r, h[k])]
<1> HIDE DEF tt, n
<1>5. g[0] = <<>>
  <2>1. h[0] = <<>> /\ 0 \in 0 .. n
    BY <1>1, <1>4 DEF JoinTable
  <2>2. MapSeq(r, <<>>) = <<>>
    BY DEF MapSeq
  <2>. QED BY <2>1, <2>2
<1>6. ASSUME NEW k \in 1 .. n PROVE g[k] = g[k - 1] \o tt[k]
  <2>1. k \in 0 .. n /\ k - 1 \in 0 .. n /\ h[k - 1] \in Seq(A) /\ ss[k] \in Seq(A)
    BY <1>1, <1>4
  <2>2. h[k] = Cat(h[k - 1], ss[k])
    BY <1>4 DEF JoinTable, n, Cat
  <2>3. MapSeq(r, Cat(h[k - 1], ss[k])) = Cat(MapSeq(r, h[k - 1]), MapSeq(r, ss[k]))
    BY <2>1, MapConcat
  <2>4. g[k] = Cat(g[k - 1], tt[k])
    BY <1>3, <2>1, <2>2, <2>3
  <2>. QED BY <2>4 DEF Cat
<1>7. g[n] = MapSeq(r, h[n])
  BY <1>1
<1> HIDE DEF g
<1>8. JoinTable(g, tt)
  BY <1>3, <1>5, <1>6 DEF JoinTable
<1>9. FlattenSeq(tt) = g[n]
  BY <1>3, <1>8, FlattenIs
<1>. QED BY <1>3, <1>4, <1>7, <1>9 DEF tt, SeqsOf

-----------------------------------------------------------------------------
(***************************************************************************)
(* Rearrangements.                                                         *)
(***************************************************************************)
OneToOne(f, S, T) ==
    /\ f \in [S -> T]
    /\ \A x, y \in S : f[x] = f[y] => x = y
    /\ \A t \in T : \E x \in S : f[x] = t

\* A set in one-to-one correspondence with a finite one has its size.
LEMMA EqualSizes ==
    ASSUME NEW f, NEW S, NEW T, OneToOne(f, S, T), IsFiniteSet(S)
    PROVE  IsFiniteSet(T) /\ Cardinality(T) = Cardinality(S)
<1>1. f \in Bijection(S, T)
  <2>1. f \in Injection(S, T)
    BY DEF OneToOne, Injection, IsInjective
  <2>2. f \in Surjection(S, T)
    BY DEF OneToOne, Surjection
  <2>. QED BY <2>1, <2>2 DEF Bijection
<1>2. ExistsBijection(S, T)
  BY <1>1 DEF ExistsBijection
<1>. QED BY <1>2, FS_Bijection

\* An injection into a finite set of the same size hits every element of it.
LEMMA FullInjection ==
    ASSUME NEW S, NEW T, NEW f \in [S -> T], \A x, y \in S : f[x] = f[y] => x = y,
           IsFiniteSet(T), Cardinality(S) = Cardinality(T)
    PROVE  OneToOne(f, S, T)
<1>1. f \in Injection(S, T)
  BY DEF Injection, IsInjective
<1>2. f \in Surjection(S, T)
  BY <1>1, FS_Injection
<1>. QED BY <1>2 DEF OneToOne, Surjection

\* t has the elements of s, in some order.
Permuted(s, t) ==
    \E p : OneToOne(p, DOMAIN s, DOMAIN t) /\ \A i \in DOMAIN s : t[p[i]] = s[i]

\* The positions of s that hold an element of C.
Holders(s, C) == {i \in DOMAIN s : s[i] \in C}

\* A rearranged sequence holds the elements of any class as often.
LEMMA PermutedCount ==
    ASSUME NEW A, NEW s \in Seq(A), NEW t, Permuted(s, t), NEW C
    PROVE  Cardinality(Holders(s, C)) = Cardinality(Holders(t, C))
<1>1. PICK p : OneToOne(p, DOMAIN s, DOMAIN t) /\ \A i \in DOMAIN s : t[p[i]] = s[i]
  BY DEF Permuted
<1> DEFINE q == [i \in Holders(s, C) |-> p[i]]
<1>2. OneToOne(q, Holders(s, C), Holders(t, C))
  BY <1>1 DEF OneToOne, Holders
<1>3. IsFiniteSet(Holders(s, C))
  <2>1. DOMAIN s = 1 .. Len(s) /\ Len(s) \in Nat
    OBVIOUS
  <2>2. IsFiniteSet(DOMAIN s) /\ Holders(s, C) \in SUBSET (DOMAIN s)
    BY <2>1, FS_Interval DEF Holders
  <2>. QED BY <2>2, FS_Subset
<1>. QED BY <1>2, <1>3, EqualSizes

\* A rearranged sequence is the same bag.
LEMMA PermutedBag ==
    ASSUME NEW A, NEW s \in Seq(A), NEW t, Permuted(s, t)
    PROVE  ToBag(s) = ToBag(t)
<1>1. PICK p : OneToOne(p, DOMAIN s, DOMAIN t) /\ \A i \in DOMAIN s : t[p[i]] = s[i]
  BY DEF Permuted
<1>2. Range(s) = Range(t)
  BY <1>1 DEF OneToOne, Range
<1>3. ASSUME NEW x
      PROVE Cardinality({i \in DOMAIN s : s[i] = x}) = Cardinality({i \in DOMAIN t : t[i] = x})
  <2>1. \A u : Holders(u, {x}) = {i \in DOMAIN u : u[i] = x}
    BY DEF Holders
  <2>2. Cardinality(Holders(s, {x})) = Cardinality(Holders(t, {x}))
    BY PermutedCount
  <2>. QED BY <2>1, <2>2
<1>. QED BY <1>2, <1>3 DEF ToBag

(***************************************************************************)
(* Ranks: a strict total order on positions numbers them.                  *)
(***************************************************************************)
StrictTotal(R, S) ==
    /\ \A i \in S : <<i, i>> \notin R
    /\ \A i, j \in S : i # j => <<i, j>> \in R \/ <<j, i>> \in R
    /\ \A i, j, k \in S : <<i, j>> \in R /\ <<j, k>> \in R => <<i, k>> \in R

Earlier(R, S, i) == {j \in S : <<j, i>> \in R}

\* Ranks of a strict total order are its positions.
LEMMA RanksNumber ==
    ASSUME NEW n \in Nat, NEW R, StrictTotal(R, 1 .. n), NEW rank,
           rank = [i \in 1 .. n |-> Cardinality(Earlier(R, 1 .. n, i))]
    PROVE  /\ OneToOne(rank, 1 .. n, 0 .. n - 1)
           /\ \A i, j \in 1 .. n : <<i, j>> \in R => rank[i] < rank[j]
<1> DEFINE S == 1 .. n
           E(i) == Earlier(R, S, i)
<1>1. IsFiniteSet(S) /\ Cardinality(S) = n
  BY FS_Interval
<1>2. ASSUME NEW i \in S
      PROVE  /\ IsFiniteSet(E(i)) /\ Cardinality(E(i)) \in Nat /\ i \notin E(i)
             /\ rank[i] = Cardinality(E(i))
             /\ IsFiniteSet(E(i) \union {i})
             /\ Cardinality(E(i) \union {i}) = Cardinality(E(i)) + 1
  <2>1. E(i) \in SUBSET S /\ i \notin E(i)
    BY DEF Earlier, StrictTotal
  <2>2. IsFiniteSet(E(i)) /\ Cardinality(E(i)) \in Nat
    BY <1>1, <2>1, FS_Subset, FS_CardinalityType
  <2>. QED BY <2>1, <2>2, FS_AddElement
<1>3. ASSUME NEW i \in S PROVE rank[i] \in 0 .. n - 1
  <2>1. E(i) \union {i} \in SUBSET S
    BY DEF Earlier
  <2>2. Cardinality(E(i) \union {i}) <= n
    BY <1>1, <2>1, FS_Subset
  <2> DEFINE c == Cardinality(E(i))
  <2>3. c \in Nat /\ rank[i] = c /\ c + 1 <= n
    BY <1>2, <2>2, Zenon
  <2> HIDE DEF c
  <2>. QED BY <2>3
<1>4. ASSUME NEW i \in S, NEW j \in S, <<i, j>> \in R PROVE rank[i] < rank[j]
  <2>1. E(i) \union {i} \in SUBSET E(j)
    BY <1>4 DEF Earlier, StrictTotal
  <2>2. Cardinality(E(i) \union {i}) <= Cardinality(E(j))
    BY <1>2, <2>1, FS_Subset
  <2> DEFINE c == Cardinality(E(i))
             d == Cardinality(E(j))
  <2>3. c \in Nat /\ d \in Nat /\ rank[i] = c /\ rank[j] = d /\ c + 1 <= d
    BY <1>2, <2>2, Zenon
  <2> HIDE DEF c, d
  <2>. QED BY <2>3
<1>5. rank \in [S -> 0 .. n - 1]
  BY <1>3
<1>6. ASSUME NEW i \in S, NEW j \in S, rank[i] = rank[j] PROVE i = j
  <2>1. rank[i] \in Int /\ rank[j] \in Int
    BY <1>3
  <2>2. <<i, j>> \notin R /\ <<j, i>> \notin R
    BY <1>4, <1>6, <2>1
  <2>. QED BY <2>2 DEF StrictTotal
<1>7. IsFiniteSet(0 .. n - 1) /\ Cardinality(0 .. n - 1) = n
  BY FS_Interval
<1> HIDE DEF S, E
<1>8. OneToOne(rank, S, 0 .. n - 1)
  BY <1>1, <1>5, <1>6, <1>7, FullInjection
<1>. QED BY <1>4, <1>8 DEF S

(***************************************************************************)
(* The elements of a flattened sequence, by the sequence they come from.   *)
(***************************************************************************)
InRow(ss, k) == {<<k, i>> : i \in DOMAIN ss[k]}
Pairs(ss, K) == UNION {InRow(ss, k) : k \in K}

\* b takes each pair of P to the position of its element in s.
Locates(b, P, s, ss) == /\ OneToOne(b, P, DOMAIN s)
                       /\ \A x \in P : s[b[x]] = ss[x[1]][x[2]]

\* One more sequence at the end takes the next places.
LEMMA CatPlaces ==
    ASSUME NEW A, NEW s \in Seq(A), NEW ss, NEW k, ss[k] \in Seq(A),
           NEW P, P \intersect InRow(ss, k) = {}, NEW b, Locates(b, P, s, ss)
    PROVE  \E c : Locates(c, P \union InRow(ss, k), Cat(s, ss[k]), ss)
<1> DEFINE t == ss[k]
           Q == InRow(ss, k)
           c == [x \in P \union Q |-> IF x \in P THEN b[x] ELSE Len(s) + x[2]]
           m == Len(s)
           n == Len(t)
           u == Cat(s, t)
<1>1. /\ m \in Nat /\ n \in Nat /\ DOMAIN s = 1 .. m /\ DOMAIN t = 1 .. n
      /\ DOMAIN u = 1 .. m + n
      /\ \A i \in 1 .. m : u[i] = s[i]
      /\ \A i \in 1 .. n : u[m + i] = t[i]
  BY DEF Cat
<1>2. \A x \in Q : x \notin P /\ x[1] = k /\ x[2] \in 1 .. n /\ x = <<k, x[2]>>
  BY <1>1 DEF InRow
<1>3. \A i \in 1 .. n : <<k, i>> \in Q
  BY <1>1 DEF InRow
<1>4. /\ b \in [P -> 1 .. m]
      /\ \A x, y \in P : b[x] = b[y] => x = y
      /\ \A i \in 1 .. m : \E x \in P : b[x] = i
      /\ \A x \in P : s[b[x]] = ss[x[1]][x[2]]
  BY <1>1 DEF Locates, OneToOne
<1>5. /\ \A x \in P : c[x] = b[x] /\ c[x] \in 1 .. m
      /\ \A x \in Q : c[x] = m + x[2] /\ c[x] \in m + 1 .. m + n
  <2>1. \A x \in P : c[x] = b[x] /\ c[x] \in 1 .. m
    BY <1>4
  <2>2. ASSUME NEW x \in Q PROVE c[x] = m + x[2] /\ c[x] \in m + 1 .. m + n
    <3>1. c[x] = m + x[2] /\ x[2] \in 1 .. n
      BY <1>2
    <3> HIDE DEF c, m, n, Q
    <3>. QED BY <3>1, <1>1
  <2>. QED BY <2>1, <2>2
<1>d. c = [x \in P \union Q |-> c[x]]
  OBVIOUS
<1> HIDE DEF c, u, m, n, t, Q
<1>6. OneToOne(c, P \union Q, DOMAIN u)
  <2>1. c \in [P \union Q -> 1 .. m + n]
    <3>1. ASSUME NEW x \in P \union Q PROVE c[x] \in 1 .. m + n
      BY <1>1, <1>5
    <3>. QED BY <1>d, <3>1
  <2>2. ASSUME NEW x \in P \union Q, NEW y \in P \union Q, c[x] = c[y] PROVE x = y
    <3>1. CASE x \in P /\ y \in P
      BY <3>1, <2>2, <1>4, <1>5
    <3>2. CASE x \in Q /\ y \in Q
      <4>1. x[2] \in 1 .. n /\ y[2] \in 1 .. n /\ m + x[2] = m + y[2]
        BY <3>2, <2>2, <1>2, <1>5
      <4>2. x[2] = y[2]
        BY <4>1, <1>1
      <4>. QED BY <3>2, <4>2, <1>2
    <3>3. ASSUME NEW v \in P, NEW w \in Q, c[v] = c[w] PROVE FALSE
      <4>1. c[v] \in 1 .. m /\ c[v] \in m + 1 .. m + n
        BY <3>3, <1>5
      <4>. QED BY <4>1, <1>1
    <3>. QED BY <3>1, <3>2, <3>3, <2>2
  <2>3. ASSUME NEW i \in 1 .. m + n PROVE \E x \in P \union Q : c[x] = i
    <3>1. CASE i \in 1 .. m
      BY <3>1, <1>4, <1>5
    <3>2. CASE i \notin 1 .. m
      <4>1. i - m \in 1 .. n /\ m + (i - m) = i
        BY <3>2, <1>1
      <4>2. <<k, i - m>> \in Q /\ <<k, i - m>>[2] = i - m
        BY <4>1, <1>3
      <4>3. c[<<k, i - m>>] = m + (i - m)
        BY <4>2, <1>5
      <4>. QED BY <4>1, <4>2, <4>3
    <3>. QED BY <3>1, <3>2
  <2>. QED BY <1>1, <2>1, <2>2, <2>3 DEF OneToOne
<1>7. ASSUME NEW x \in P \union Q PROVE u[c[x]] = ss[x[1]][x[2]]
  <2>1. CASE x \in P
    BY <2>1, <1>1, <1>4, <1>5
  <2>2. CASE x \in Q
    <3>1. x[2] \in 1 .. n /\ x[1] = k /\ c[x] = m + x[2]
      BY <2>2, <1>2, <1>5
    <3>2. u[m + x[2]] = t[x[2]]
      BY <3>1, <1>1
    <3>. QED BY <3>1, <3>2 DEF t
  <2>. QED BY <2>1, <2>2
<1>8. Locates(c, P \union Q, u, ss)
  BY <1>6, <1>7 DEF Locates
<1>. QED BY <1>8 DEF Q, u, t

\* Every element of every sequence has its one place in the flattened sequence.
LEMMA FlattenPlaces ==
    ASSUME NEW A, NEW ss, SeqsOf(ss, A)
    PROVE  \E b : Locates(b, Pairs(ss, DOMAIN ss), FlattenSeq(ss), ss)
<1> DEFINE n == Len(ss)
<1>1. n \in Nat /\ DOMAIN ss = 1 .. n /\ \A k \in 1 .. n : ss[k] \in Seq(A)
  BY DEF SeqsOf
<1>2. PICK h : h \in [0 .. n -> Seq(A)] /\ JoinTable(h, ss) /\ FlattenSeq(ss) = h[n]
  BY FlattenTable DEF SeqsOf
<1>3. h[0] = <<>> /\ \A k \in 1 .. n : h[k] = Cat(h[k - 1], ss[k])
  BY <1>2 DEF JoinTable, Cat
<1>t. \A k \in 0 .. n : h[k] \in Seq(A)
  BY <1>2
<1> DEFINE S == {k \in 0 .. n : \E b : Locates(b, Pairs(ss, 1 .. k), h[k], ss)}
<1> HIDE DEF n
<1>4. 0 \in S
  <2>1. Pairs(ss, 1 .. 0) = {} /\ DOMAIN h[0] = {}
    BY <1>3 DEF Pairs
  <2>2. Locates([x \in {} |-> 1], Pairs(ss, 1 .. 0), h[0], ss)
    BY <2>1 DEF Locates, OneToOne
  <2>. QED BY <1>1, <2>2
<1>5. ASSUME NEW k \in 0 .. n - 1, k \in S PROVE k + 1 \in S
  <2>1. k + 1 \in 1 .. n /\ (k + 1) - 1 = k /\ k + 1 \in 0 .. n /\ k \in 0 .. n
    BY <1>1
  <2>2. PICK b : Locates(b, Pairs(ss, 1 .. k), h[k], ss)
    BY <1>5
  <2>3. Pairs(ss, 1 .. k + 1) = Pairs(ss, 1 .. k) \union InRow(ss, k + 1)
    <3>1. 1 .. k + 1 = (1 .. k) \union {k + 1}
      BY <2>1, <1>1
    <3>. QED BY <3>1 DEF Pairs
  <2>4. Pairs(ss, 1 .. k) \intersect InRow(ss, k + 1) = {}
    <3>1. k + 1 \notin 1 .. k
      BY <2>1, <1>1
    <3>. QED BY <3>1 DEF Pairs, InRow
  <2>5. h[k] \in Seq(A) /\ ss[k + 1] \in Seq(A) /\ h[k + 1] = Cat(h[k], ss[k + 1])
    BY <2>1, <1>1, <1>3, <1>t
  <2>6. \E c : Locates(c, Pairs(ss, 1 .. k) \union InRow(ss, k + 1), Cat(h[k], ss[k + 1]), ss)
    BY <2>2, <2>4, <2>5, CatPlaces
  <2>. QED BY <2>1, <2>3, <2>5, <2>6
<1>6. n \in S
  <2> HIDE DEF S
  <2>1. \A k \in 0 .. n : k \in S
    BY <1>1, <1>4, <1>5, BoundedInduction
  <2>. QED BY <1>1, <2>1
<1>. QED BY <1>1, <1>2, <1>6

\* The same sequences in another order flatten to the same elements in another order.
LEMMA FlattenPermuted ==
    ASSUME NEW A, NEW ss, SeqsOf(ss, A), NEW tt, SeqsOf(tt, A), Permuted(ss, tt)
    PROVE  Permuted(FlattenSeq(ss), FlattenSeq(tt))
<1> DEFINE P == Pairs(ss, DOMAIN ss)
           Q == Pairs(tt, DOMAIN tt)
           s == FlattenSeq(ss)
           t == FlattenSeq(tt)
<1>1. PICK f : OneToOne(f, DOMAIN ss, DOMAIN tt) /\ \A k \in DOMAIN ss : tt[f[k]] = ss[k]
  BY DEF Permuted
<1>2. PICK b : Locates(b, P, s, ss)
  BY FlattenPlaces
<1>3. PICK c : Locates(c, Q, t, tt)
  BY FlattenPlaces
<1> HIDE DEF s, t
<1>4. \A x \in P : x[1] \in DOMAIN ss /\ x[2] \in DOMAIN ss[x[1]] /\ x = <<x[1], x[2]>>
  BY DEF Pairs, InRow
<1>5. \A x \in Q : x[1] \in DOMAIN tt /\ x[2] \in DOMAIN tt[x[1]] /\ x = <<x[1], x[2]>>
  BY DEF Pairs, InRow
<1>6. \A k \in DOMAIN ss : \A i \in DOMAIN ss[k] : <<k, i>> \in P /\ <<f[k], i>> \in Q
  BY <1>1 DEF Pairs, InRow, OneToOne
<1> HIDE DEF P, Q
<1> DEFINE at == [i \in DOMAIN s |-> CHOOSE x \in P : b[x] = i]
           p == [i \in DOMAIN s |-> c[<<f[at[i][1]], at[i][2]>>]]
<1>7. \A i \in DOMAIN s : at[i] \in P /\ b[at[i]] = i
  BY <1>2 DEF Locates, OneToOne
<1>a. \A i \in DOMAIN s : p[i] = c[<<f[at[i][1]], at[i][2]>>] 
  OBVIOUS
<1>b. p = [i \in DOMAIN s |-> p[i]]
  OBVIOUS
<1> HIDE DEF at, p
<1>8. ASSUME NEW i \in DOMAIN s
      PROVE /\ p[i] \in DOMAIN t /\ t[p[i]] = s[i]
            /\ <<f[at[i][1]], at[i][2]>> \in Q
  <2> DEFINE x == at[i]
             y == <<f[x[1]], x[2]>>
  <2>1. x \in P /\ b[x] = i /\ x[1] \in DOMAIN ss /\ x[2] \in DOMAIN ss[x[1]]
    BY <1>4, <1>7
  <2>2. y \in Q /\ y[1] = f[x[1]] /\ y[2] = x[2] /\ p[i] = c[y]
    BY <2>1, <1>6, <1>a
  <2>3. s[i] = ss[x[1]][x[2]]
    BY <2>1, <1>2 DEF Locates
  <2>4. t[c[y]] = tt[y[1]][y[2]] /\ c[y] \in DOMAIN t
    BY <2>2, <1>3 DEF Locates, OneToOne
  <2>5. tt[f[x[1]]] = ss[x[1]]
    BY <2>1, <1>1
  <2>. QED BY <2>2, <2>3, <2>4, <2>5
<1>9. ASSUME NEW i \in DOMAIN s, NEW j \in DOMAIN s, p[i] = p[j] PROVE i = j
  <2> DEFINE x == at[i]
             y == at[j]
  <2>1. /\ x \in P /\ b[x] = i /\ x[1] \in DOMAIN ss /\ x = <<x[1], x[2]>>
        /\ y \in P /\ b[y] = j /\ y[1] \in DOMAIN ss /\ y = <<y[1], y[2]>>
    BY <1>4, <1>7
  <2>2. <<f[x[1]], x[2]>> = <<f[y[1]], y[2]>>
    <3> DEFINE v == <<f[x[1]], x[2]>>
               w == <<f[y[1]], y[2]>>
    <3>1. v \in Q /\ w \in Q /\ c[v] = c[w]
      BY <1>8, <1>9, <1>a
    <3>2. \A a, z \in Q : c[a] = c[z] => a = z
      BY <1>3 DEF Locates, OneToOne
    <3> HIDE DEF v, w
    <3>3. v = w
      BY <3>1, <3>2
    <3>. QED BY <3>3 DEF v, w
  <2>3. f[x[1]] = f[y[1]] /\ x[2] = y[2]
    BY <2>2
  <2>4. x[1] = y[1]
    BY <1>1, <2>1, <2>3 DEF OneToOne
  <2> HIDE DEF x, y
  <2>5. x = y
    BY <2>1, <2>3, <2>4
  <2>. QED BY <2>1, <2>5
<1>10. ASSUME NEW j \in DOMAIN t PROVE \E i \in DOMAIN s : p[i] = j
  <2>1. PICK y \in Q : c[y] = j
    BY <1>3 DEF Locates, OneToOne
  <2>2. y[1] \in DOMAIN tt /\ y[2] \in DOMAIN tt[y[1]] /\ y = <<y[1], y[2]>>
    BY <1>5
  <2>3. PICK k \in DOMAIN ss : f[k] = y[1]
    BY <1>1, <2>2 DEF OneToOne
  <2>4. y[2] \in DOMAIN ss[k]
    BY <1>1, <2>2, <2>3
  <2> DEFINE x == <<k, y[2]>>
  <2>5. x \in P /\ x[1] = k /\ x[2] = y[2]
    BY <1>6, <2>4
  <2>6. b[x] \in DOMAIN s
    BY <1>2, <2>5 DEF Locates, OneToOne
  <2>7. at[b[x]] = x
    <3>1. at[b[x]] \in P /\ b[at[b[x]]] = b[x]
      BY <1>7, <2>6
    <3>. QED BY <1>2, <2>5, <3>1 DEF Locates, OneToOne
  <2> HIDE DEF x
  <2>8. p[b[x]] = c[<<f[x[1]], x[2]>>]
    BY <1>a, <2>6, <2>7
  <2>9. <<f[x[1]], x[2]>> = y
    BY <2>2, <2>3, <2>5
  <2>. QED BY <2>1, <2>6, <2>8, <2>9
<1>11. OneToOne(p, DOMAIN s, DOMAIN t)
  <2>1. p \in [DOMAIN s -> DOMAIN t]
    BY <1>8, <1>b
  <2>. QED BY <2>1, <1>9, <1>10 DEF OneToOne
<1>12. Permuted(s, t)
  BY <1>8, <1>11 DEF Permuted
<1>. QED BY <1>12 DEF s, t

\* Handing out the next m rows moves the cut.
LEMMA CutMoves ==
    ASSUME NEW A, NEW o \in Seq(A), NEW R \in Seq(A), NEW c \in Nat, NEW m \in Nat, c + m <= Len(R)
    PROVE  /\ Cat(Cat(o, SubSeq(R, c + 1, c + m)), SubSeq(R, c + m + 1, Len(R)))
                = Cat(o, SubSeq(R, c + 1, Len(R)))
           /\ Cat(o, SubSeq(R, c + 1, c + m)) \in Seq(A)
<1> DEFINE u == SubSeq(R, c + 1, c + m)
           w == SubSeq(R, c + m + 1, Len(R))
<1>1. u \in Seq(A) /\ w \in Seq(A) /\ Len(R) \in Nat
  OBVIOUS
<1>2. SubSeq(R, c + 1, Len(R)) = u \o w
  <2>1. c + 1 \in 1 .. Len(R) + 1 /\ c + m \in (c + 1) - 1 .. Len(R) /\ Len(R) \in c + m .. Len(R)
    BY <1>1
  <2>. QED BY <2>1, ConcatAdjacentSubSeq
<1> HIDE DEF u, w
<1>3. Cat(Cat(o, u), w) = Cat(o, Cat(u, w))
  BY <1>1, CatAssociative
<1>4. Cat(o, u) \in Seq(A)
  BY <1>1, CatType
<1>. QED BY <1>2, <1>3, <1>4 DEF Cat, u, w

\* s is a prefix of s followed by t.
LEMMA PrefixOf ==
    ASSUME NEW A, NEW s \in Seq(A), NEW t \in Seq(A)
    PROVE  IsPrefix(s, Cat(s, t))
<1>1. Len(s \o t) = Len(s) + Len(t) /\ Len(s) \in Nat /\ Len(t) \in Nat
  OBVIOUS
<1>2. SubSeq(s \o t, 1, Len(s)) = SubSeq(s, 1, Len(s))
  OBVIOUS
<1>. QED BY <1>1, <1>2 DEF IsPrefix, Cat

-----------------------------------------------------------------------------
(***************************************************************************)
(* Division with remainder.                                                *)
(***************************************************************************)
LEMMA DivMod ==
    \A x \in Nat, d \in Nat \ {0} :
      /\ x \div d \in Nat /\ x % d \in 0 .. d - 1
      /\ x = d * (x \div d) + (x % d)
OBVIOUS

\* A bitmap of whole words has a bit for every lane.
LEMMA WordsCover ==
    ASSUME WordBits \in Nat \ {0}, NEW n \in Nat
    PROVE  Words(n) \in Nat /\ n <= Words(n) * WordBits /\ n = (n \div WordBits) * WordBits + (n % WordBits)
           /\ Words(n) * WordBits <= n + WordBits - 1
<1> DEFINE x == n + WordBits - 1
           q == x \div WordBits
<1>1. x \in Nat
  OBVIOUS
<1>2. q \in Nat /\ x = WordBits * q + (x % WordBits) /\ x % WordBits \in 0 .. WordBits - 1
  BY <1>1, DivMod
<1>3. Words(n) = q
  BY DEF Words
<1>4. n \div WordBits \in Nat /\ n = WordBits * (n \div WordBits) + (n % WordBits)
      /\ n % WordBits \in 0 .. WordBits - 1
  BY DivMod
<1> HIDE DEF q
<1>5. WordBits * q = q * WordBits /\ q * WordBits \in Nat
  BY <1>2
<1>. QED BY <1>2, <1>3, <1>4, <1>5

(***************************************************************************)
(* AllValidImpl: the loop over whole words and the masked remainder accept *)
(* a bitmap exactly when the bit of every lane is set; bits past the last  *)
(* lane do not count.                                                      *)
(***************************************************************************)
THEOREM AllValidExact ==
    ASSUME WordBits \in Nat \ {0}, NEW bits, NEW n \in Nat
    PROVE  AllValidImpl(bits, n) <=> \A i \in 1 .. n : bits[i]
<1> DEFINE full == n \div WordBits
           rest == n % WordBits
<1>1. full \in Nat /\ rest \in 0 .. WordBits - 1 /\ n = full * WordBits + rest
  <2>1. full \in Nat /\ rest \in 0 .. WordBits - 1 /\ n = WordBits * full + rest
    BY DivMod
  <2> HIDE DEF full, rest
  <2>. QED BY <2>1
<1>2. AllValidImpl(bits, n) <=>
        /\ \A w \in 0 .. full - 1 : \A k \in 1 .. WordBits : bits[w * WordBits + k]
        /\ \A k \in 1 .. rest : bits[full * WordBits + k]
  BY DEF AllValidImpl
<1> HIDE DEF full, rest
<1>3. ASSUME AllValidImpl(bits, n), NEW i \in 1 .. n PROVE bits[i]
  <2> DEFINE w == (i - 1) \div WordBits
             k == ((i - 1) % WordBits) + 1
  <2>1. w \in Nat /\ k \in 1 .. WordBits /\ i = w * WordBits + k
    <3>1. i - 1 \in Nat
      OBVIOUS
    <3>2. w \in Nat /\ (i - 1) % WordBits \in 0 .. WordBits - 1
          /\ i - 1 = WordBits * w + ((i - 1) % WordBits)
      BY <3>1, DivMod
    <3> DEFINE r == (i - 1) % WordBits
    <3>3. k = r + 1 /\ r \in 0 .. WordBits - 1 /\ i - 1 = WordBits * w + r /\ w \in Nat
      BY <3>2
    <3> HIDE DEF w, r
    <3>4. WordBits * w = w * WordBits /\ w * WordBits \in Nat
      BY <3>3
    <3> HIDE DEF k
    <3>5. k \in 1 .. WordBits
      BY <3>3
    <3>6. i \in Int /\ r \in Int
      BY <3>3
    <3>7. i = w * WordBits + k
      BY <3>3, <3>4, <3>6
    <3>. QED BY <3>3, <3>5, <3>7
  <2> HIDE DEF w, k
  <2>2. CASE w < full
    <3>1. w \in 0 .. full - 1
      BY <1>1, <2>1, <2>2
    <3>2. bits[w * WordBits + k]
      BY <1>2, <1>3, <2>1, <3>1, Zenon
    <3>. QED BY <2>1, <3>2, Zenon
  <2>3. CASE w >= full
    <3>1. w * WordBits >= full * WordBits
      BY <1>1, <2>1, <2>3
    <3>2. ~(w >= full + 1)
      <4> SUFFICES ASSUME w >= full + 1 PROVE FALSE
        OBVIOUS
      <4>1. w * WordBits >= (full + 1) * WordBits
        BY <1>1, <2>1
      <4>2. (full + 1) * WordBits = full * WordBits + WordBits
        BY <1>1
      <4>. QED BY <1>1, <2>1, <4>1, <4>2
    <3>3. w = full
      BY <1>1, <2>1, <2>3, <3>2
    <3>4. k \in 1 .. rest
      BY <1>1, <2>1, <3>3
    <3>5. bits[full * WordBits + k]
      BY <1>2, <1>3, <3>4, Zenon
    <3>. QED BY <2>1, <3>3, <3>5, Zenon
  <2>. QED BY <1>1, <2>1, <2>2, <2>3
<1>4. ASSUME \A i \in 1 .. n : bits[i] PROVE AllValidImpl(bits, n)
  <2>1. ASSUME NEW w \in 0 .. full - 1, NEW k \in 1 .. WordBits PROVE w * WordBits + k \in 1 .. n
    <3>1. (w + 1) * WordBits <= full * WordBits
      BY <1>1
    <3>2. (w + 1) * WordBits = w * WordBits + WordBits /\ w * WordBits \in Nat
      OBVIOUS
    <3>. QED BY <1>1, <3>1, <3>2
  <2>2. ASSUME NEW k \in 1 .. rest PROVE full * WordBits + k \in 1 .. n
    BY <1>1
  <2>. QED BY <1>2, <1>4, <2>1, <2>2
<1>. QED BY <1>3, <1>4

-----------------------------------------------------------------------------
(***************************************************************************)
(* Columns over cells S: a bitmap is absent or has a bit for every lane,   *)
(* and the flag is off only where there is a bitmap.                       *)
(***************************************************************************)
ColumnOver(S) ==
    {c \in [type : Types, data : Seq(S), bits : Seq(BOOLEAN), av : BOOLEAN, dict : Seq(S)] :
        /\ ~c.av => c.bits # <<>>
        /\ c.bits # <<>> => Len(c.bits) = Words(Len(c.data)) * WordBits}

(***************************************************************************)
(* Nulling the lanes L of a fresh column nulls those lanes and no other,   *)
(* whatever the flag then says.                                            *)
(***************************************************************************)
LEMMA NullWhereExact ==
    ASSUME WordBits \in Nat \ {0}, NEW t, NEW data, NEW dict, NEW L,
           Len(data) \in Nat \ {0}
    PROVE  LET o == NullWhere(Make(t, data, dict), L)
           IN  /\ o.type = t /\ o.data = data /\ o.dict = dict
               /\ \A i \in 1 .. Len(data) : Valid(o, i) <=> i \notin L
<1> DEFINE n == Len(data)
           m == Words(n) * WordBits
           b == [i \in 1 .. m |-> i \notin L]
           o == NullWhere(Make(t, data, dict), L)
<1>1. n \in Nat \ {0} /\ m \in Nat /\ n <= m
  <2>1. n \in Nat
    OBVIOUS
  <2>2. Words(n) \in Nat /\ n <= Words(n) * WordBits
    BY <2>1, WordsCover
  <2> HIDE DEF n
  <2>3. Words(n) * WordBits \in Nat
    BY <2>2
  <2>. QED BY <2>2, <2>3 DEF n
<1>2. EnsureValidity(Make(t, data, dict)) =
        [type |-> t, data |-> data, bits |-> FillAllValid(n), av |-> TRUE, dict |-> dict]
  BY DEF EnsureValidity, Make
<1>3. FillAllValid(n) = [i \in 1 .. m |-> TRUE]
  BY DEF FillAllValid
<1>4. o = RefreshAllValid([type |-> t, data |-> data, bits |-> b, av |-> TRUE, dict |-> dict])
  <2> DEFINE e == EnsureValidity(Make(t, data, dict))
  <2>1. [i \in DOMAIN e.bits |-> e.bits[i] /\ i \notin L] = b
    <3>1. e.bits = [i \in 1 .. m |-> TRUE]
      BY <1>2, <1>3
    <3> HIDE DEF e, m
    <3>2. DOMAIN e.bits = 1 .. m /\ \A i \in 1 .. m : e.bits[i]
      BY <3>1, Zenon
    <3>. QED BY <3>2, Zenon
  <2>2. o = RefreshAllValid([e EXCEPT !.bits = [i \in DOMAIN e.bits |-> e.bits[i] /\ i \notin L]])
    BY DEF NullWhere
  <2>3. e = [type |-> t, data |-> data, bits |-> FillAllValid(n), av |-> TRUE, dict |-> dict]
    BY <1>2
  <2> DEFINE f == FillAllValid(n)
  <2>4. e = [type |-> t, data |-> data, bits |-> f, av |-> TRUE, dict |-> dict]
    BY <2>3
  <2> DEFINE C == [type : {t}, data : {data}, bits : {f, b}, av : {TRUE}, dict : {dict}]
             g == [type |-> t, data |-> data, bits |-> b, av |-> TRUE, dict |-> dict]
             h == [e EXCEPT !.bits = b]
  <2> HIDE DEF e, o, b, f
  <2>5. e \in C /\ g \in C /\ g.bits = b
    BY <2>4
  <2>6. h \in C /\ h.bits = b
    BY <2>5
  <2>7. h = g
    <3> HIDE DEF h, g
    <3>1. ASSUME NEW x \in C, NEW y \in C
          PROVE  x.type = y.type /\ x.data = y.data /\ x.av = y.av /\ x.dict = y.dict
      OBVIOUS
    <3>2. ASSUME NEW x \in C, NEW y \in C, x.type = y.type, x.data = y.data, x.av = y.av,
                 x.dict = y.dict, x.bits = y.bits
          PROVE  x = y
      BY <3>2
    <3> HIDE DEF C
    <3>. QED BY <2>5, <2>6, <3>1, <3>2, Zenon
  <2>8. o = RefreshAllValid(h)
    BY <2>1, <2>2, Zenon
  <2>. QED BY <2>7, <2>8, Zenon
<1>5. o = [type |-> t, data |-> data, bits |-> b, dict |-> dict,
           av |-> b = <<>> \/ AllValidImpl(b, n)]
  BY <1>4 DEF RefreshAllValid
<1> HIDE DEF o, m
<1>6. \A i \in 1 .. n : b[i] <=> i \notin L
  <2>1. \A i \in 1 .. n : i \in 1 .. m
    BY <1>1
  <2>. QED BY <2>1, Zenon
<1>7. b # <<>>
  BY <1>1
<1> HIDE DEF b
<1>8. AllValidImpl(b, n) <=> \A i \in 1 .. n : b[i]
  BY <1>1, AllValidExact
<1>9. /\ o.type = t /\ o.data = data /\ o.dict = dict /\ o.bits = b
      /\ o.av <=> \A i \in 1 .. n : b[i]
  BY <1>5, <1>7, <1>8
<1>10. \A i \in 1 .. n : Valid(o, i) <=> i \notin L
  BY <1>6, <1>9 DEF Valid
<1>. QED BY <1>9, <1>10 DEF o

(***************************************************************************)
(* compact_column: lane k of the compacted column is lane idx[k] of the    *)
(* old one, NULLs included, with or without a bitmap, for any selection.   *)
(***************************************************************************)
THEOREM CompactExact ==
    ASSUME WordBits \in Nat \ {0}, NEW S, NEW c \in ColumnOver(S),
           NEW idx \in Seq(1 .. Len(c.data)), NEW k \in 1 .. Len(idx)
    PROVE  CellAt(Compact(c, idx), k) = CellAt(c, idx[k])
<1> DEFINE data == Gather(c.data, idx)
           out  == Compact(c, idx)
           L    == {x \in DOMAIN idx : ~c.bits[idx[x]]}
<1>1. idx[k] \in 1 .. Len(c.data) /\ DOMAIN idx = 1 .. Len(idx) /\ Len(idx) \in Nat \ {0}
  OBVIOUS
<1>2. data = [x \in 1 .. Len(idx) |-> c.data[idx[x]]]
  BY <1>1 DEF Gather
<1>3. Len(data) = Len(idx) /\ data[k] = c.data[idx[k]]
  BY <1>1, <1>2
<1> HIDE DEF data
<1>4. CASE c.av
  <2>1. out = [type |-> c.type, data |-> data, bits |-> <<>>, av |-> TRUE, dict |-> c.dict]
    BY <1>4 DEF Compact, Make, data
  <2> HIDE DEF out
  <2>. QED BY <1>3, <1>4, <2>1 DEF CellAt, Valid, out
<1>5. CASE ~c.av
  <2>1. idx # <<>>
    BY <1>1
  <2>2. out = NullWhere(Make(c.type, data, c.dict), L)
    BY <1>5, <2>1 DEF Compact, data
  <2>3. /\ out.type = c.type /\ out.data = data /\ out.dict = c.dict
        /\ \A i \in 1 .. Len(data) : Valid(out, i) <=> i \notin L
    BY <1>1, <1>3, <2>2, NullWhereExact
  <2> HIDE DEF out
  <2>4. Valid(out, k) <=> Valid(c, idx[k])
    BY <1>1, <1>3, <1>5, <2>3 DEF Valid
  <2>. QED BY <1>3, <2>3, <2>4 DEF CellAt, out
<1>. QED BY <1>4, <1>5

(***************************************************************************)
(* A scan's view that starts on a word boundary: lane r is the table's row *)
(* start + r, NULLs included, and the bitmap words it reads are there.     *)
(***************************************************************************)
THEOREM SliceExact ==
    ASSUME WordBits \in Nat \ {0}, NEW S, NEW cols, NEW j \in DOMAIN cols,
           cols[j] \in ColumnOver(S), NEW start \in Nat, NEW n \in Nat,
           start % WordBits = 0, start + n <= Len(cols[j].data)
    PROVE  /\ ~cols[j].av => start + Words(n) * WordBits <= Len(cols[j].bits)
           /\ \A r \in 1 .. n : CellAt(Slice(cols, start, n).cols[j], r) = CellAt(cols[j], start + r)
<1> DEFINE c == cols[j]
           m == Words(n) * WordBits
           total == Len(c.data)
           q == start \div WordBits
           base == q * WordBits
           v == Slice(cols, start, n).cols[j]
<1>1. /\ c \in [type : Types, data : Seq(S), bits : Seq(BOOLEAN), av : BOOLEAN, dict : Seq(S)]
      /\ total \in Nat /\ Len(c.bits) \in Nat
      /\ ~c.av => Len(c.bits) = Words(total) * WordBits
  BY DEF ColumnOver
<1>2. q \in Nat /\ base = start
  <2>1. q \in Nat /\ start = WordBits * q + 0
    BY DivMod
  <2> HIDE DEF q
  <2>. QED BY <2>1
<1>3. m \in Nat /\ n <= m /\ m <= n + WordBits - 1 /\ Words(n) \in Nat
  <2> HIDE DEF c, total, q, base, v
  <2>1. Words(n) \in Nat /\ n <= Words(n) * WordBits /\ Words(n) * WordBits <= n + WordBits - 1
    BY WordsCover
  <2>2. Words(n) * WordBits \in Nat
    BY <2>1
  <2>. QED BY <2>1, <2>2
<1>4. start + m <= Words(total) * WordBits
  <2> DEFINE a == Words(n)
             w == Words(total)
  <2>1. w \in Nat /\ total <= w * WordBits /\ a \in Nat
    BY <1>1, WordsCover
  <2> HIDE DEF a, w, q
  <2>2. a * WordBits <= n + WordBits - 1 /\ q * WordBits + n <= w * WordBits
    BY <1>1, <1>2, <1>3, <2>1 DEF a
  <2>3. ~(a + q >= w + 1)
    <3> SUFFICES ASSUME a + q >= w + 1 PROVE FALSE
      OBVIOUS
    <3>1. (a + q) * WordBits >= (w + 1) * WordBits
      BY <1>2, <2>1
    <3>2. (a + q) * WordBits = a * WordBits + q * WordBits
      BY <1>2, <2>1
    <3>3. (w + 1) * WordBits = w * WordBits + WordBits
      BY <2>1
    <3>4. a * WordBits \in Nat /\ q * WordBits \in Nat /\ w * WordBits \in Nat
      BY <1>2, <2>1
    <3>. QED BY <2>2, <3>1, <3>2, <3>3, <3>4
  <2>4. (a + q) * WordBits <= w * WordBits
    BY <1>2, <2>1, <2>3
  <2>5. (a + q) * WordBits = a * WordBits + q * WordBits
    BY <1>2, <2>1
  <2>6. q * WordBits = start
    BY <1>2
  <2>7. a * WordBits \in Nat /\ w * WordBits \in Nat
    BY <2>1
  <2>. QED BY <2>4, <2>5, <2>6, <2>7 DEF a, w
<1>5. /\ v.type = c.type /\ v.dict = c.dict /\ v.av = c.av
      /\ v.data = SubSeq(c.data, start + 1, start + n)
      /\ ~c.av => v.bits = SubSeq(c.bits, base + 1, base + m)
  BY <1>1 DEF Slice, View
<1> HIDE DEF v, m, base, total, c
<1>6. ASSUME NEW r \in 1 .. n PROVE v.data[r] = c.data[start + r]
  BY <1>1, <1>5, <1>6, SubSeqProperties DEF total, c
<1>7. ASSUME NEW r \in 1 .. n, ~c.av PROVE v.bits[r] = c.bits[start + r]
  <2>1. v.bits = SubSeq(c.bits, start + 1, start + m)
    BY <1>2, <1>5, <1>7
  <2>2. start + m <= Len(c.bits) /\ r \in 1 .. m
    BY <1>1, <1>3, <1>4, <1>7
  <2>. QED BY <1>1, <1>3, <2>1, <2>2, SubSeqProperties
<1>8. \A r \in 1 .. n : CellAt(v, r) = CellAt(c, start + r)
  <2> SUFFICES ASSUME NEW r \in 1 .. n PROVE CellAt(v, r) = CellAt(c, start + r)
    OBVIOUS
  <2>1. Valid(v, r) <=> Valid(c, start + r)
    BY <1>1, <1>5, <1>7 DEF Valid
  <2>. QED BY <1>5, <1>6, <2>1 DEF CellAt
<1>. QED BY <1>1, <1>4, <1>8 DEF v, c, m, total

-----------------------------------------------------------------------------
(***************************************************************************)
(* ORDER BY (ReferenceOracle).                                             *)
(***************************************************************************)
\* The cells a key can be, and the keys there are.
KeyCell == Int \union {NULL, NaN}
KeySpec == [col : Nat, dir : {"Asc", "Desc"}, nulls : {"First", "Last"}]

\* NULL and NaN are no numbers, and different.
Apart == NULL \notin Int /\ NaN \notin Int /\ NULL # NaN

\* The rows of R have a key cell in every key column.
Sortable(R, keys) == Apart /\ \A row \in R : \A i \in DOMAIN keys : row[keys[i].col] \in KeyCell

\* CellBefore is a strict total order on the cells of a key.
LEMMA CellOrder ==
    ASSUME Apart, NEW key \in KeySpec, NEW a \in KeyCell, NEW b \in KeyCell, NEW c \in KeyCell
    PROVE  /\ ~CellBefore(a, a, key)
           /\ a # b => CellBefore(a, b, key) \/ CellBefore(b, a, key)
           /\ CellBefore(a, b, key) /\ CellBefore(b, c, key) => CellBefore(a, c, key)
<1>1. /\ NULL \notin Int /\ NaN \notin Int /\ NULL # NaN
      /\ key.dir \in {"Asc", "Desc"} /\ key.nulls \in {"First", "Last"}
  BY DEF Apart, KeySpec
<1>2. CASE key.nulls = "First"
  <2>1. \A x, y : CellBefore(x, y, key) <=>
          IF x = NULL \/ y = NULL THEN x # y /\ x = NULL
          ELSE IF key.dir = "Asc" THEN CmpLess(x, y) ELSE CmpLess(y, x)
    BY <1>2 DEF CellBefore
  <2>. QED BY <1>1, <2>1 DEF KeyCell, CmpLess
<1>3. CASE key.nulls = "Last"
  <2>1. \A x, y : CellBefore(x, y, key) <=>
          IF x = NULL \/ y = NULL THEN x # y /\ x # NULL
          ELSE IF key.dir = "Asc" THEN CmpLess(x, y) ELSE CmpLess(y, x)
    BY <1>3 DEF CellBefore
  <2>. QED BY <1>1, <2>1 DEF KeyCell, CmpLess
<1>. QED BY <1>1, <1>2, <1>3

\* Cell i of row a is before that of b, and the cells before it are the same.
FirstDiffers(a, b, keys, i) ==
    /\ CellBefore(a[keys[i].col], b[keys[i].col], keys[i])
    /\ \A j \in 1 .. i - 1 : a[keys[j].col] = b[keys[j].col]

\* RowBefore is lexicographic.
LEMMA RowBeforeIs ==
    ASSUME NEW keys \in Seq(KeySpec), NEW R, Sortable(R, keys), NEW a \in R, NEW b \in R
    PROVE  RowBefore(a, b, keys) <=> \E i \in DOMAIN keys : FirstDiffers(a, b, keys, i)
<1>1. ASSUME NEW i \in DOMAIN keys, NEW j \in 1 .. i - 1
      PROVE  /\ ~CellBefore(b[keys[j].col], a[keys[j].col], keys[j])
             /\ ~CellBefore(a[keys[j].col], b[keys[j].col], keys[j])
             <=> a[keys[j].col] = b[keys[j].col]
  <2>1. j \in DOMAIN keys /\ keys[j] \in KeySpec
    OBVIOUS
  <2>2. a[keys[j].col] \in KeyCell /\ b[keys[j].col] \in KeyCell
    BY <2>1 DEF Sortable
  <2>. QED BY <2>1, <2>2, CellOrder DEF Sortable
<1>. QED BY <1>1 DEF RowBefore, FirstDiffers

\* The rows tie in every key.
SameKeys(a, b, keys) == \A i \in DOMAIN keys : a[keys[i].col] = b[keys[i].col]

\* Of two rows one is before the other, or they tie.
LEMMA RowsCompare ==
    ASSUME NEW keys \in Seq(KeySpec), NEW R, Sortable(R, keys), NEW a \in R, NEW b \in R
    PROVE  RowBefore(a, b, keys) \/ RowBefore(b, a, keys) \/ SameKeys(a, b, keys)
<1> DEFINE D == {i \in DOMAIN keys : a[keys[i].col] # b[keys[i].col]}
<1>1. SUFFICES ASSUME D # {} PROVE RowBefore(a, b, keys) \/ RowBefore(b, a, keys)
  BY DEF SameKeys
<1>2. D \in SUBSET (1 .. Len(keys)) /\ Len(keys) \in Nat
  OBVIOUS
<1>3. PICK i \in D : \A j \in D : i <= j
  <2> HIDE DEF D
  <2>. QED BY <1>1, <1>2, LeastOf
<1>4. \A j \in 1 .. i - 1 : a[keys[j].col] = b[keys[j].col] /\ b[keys[j].col] = a[keys[j].col]
  BY <1>3
<1>5. i \in DOMAIN keys /\ keys[i] \in KeySpec /\ a[keys[i].col] # b[keys[i].col]
  BY <1>3
<1>6. a[keys[i].col] \in KeyCell /\ b[keys[i].col] \in KeyCell
  BY <1>5 DEF Sortable
<1>7. FirstDiffers(a, b, keys, i) \/ FirstDiffers(b, a, keys, i)
  BY <1>4, <1>5, <1>6, CellOrder DEF FirstDiffers, Sortable
<1>. QED BY <1>5, <1>7, RowBeforeIs

\* RowBefore is a strict order.
LEMMA RowOrder ==
    ASSUME NEW keys \in Seq(KeySpec), NEW R, Sortable(R, keys),
           NEW a \in R, NEW b \in R, NEW c \in R
    PROVE  /\ ~RowBefore(a, a, keys)
           /\ RowBefore(a, b, keys) /\ RowBefore(b, c, keys) => RowBefore(a, c, keys)
<1>1. ASSUME NEW i \in DOMAIN keys
      PROVE  /\ keys[i] \in KeySpec /\ a[keys[i].col] \in KeyCell
             /\ b[keys[i].col] \in KeyCell /\ c[keys[i].col] \in KeyCell
  BY DEF Sortable
<1>2. ~RowBefore(a, a, keys)
  <2>1. Apart
    BY DEF Sortable
  <2>2. \A i \in DOMAIN keys : ~CellBefore(a[keys[i].col], a[keys[i].col], keys[i])
    BY <1>1, <2>1, CellOrder
  <2>. QED BY <2>2, RowBeforeIs DEF FirstDiffers
<1>3. ASSUME NEW i \in DOMAIN keys, NEW j \in DOMAIN keys,
             FirstDiffers(a, b, keys, i), FirstDiffers(b, c, keys, j)
      PROVE  \E m \in DOMAIN keys : FirstDiffers(a, c, keys, m)
  <2>1. i \in Nat /\ j \in Nat /\ i >= 1 /\ j >= 1
    OBVIOUS
  <2>2. CASE i < j
    <3>1. b[keys[i].col] = c[keys[i].col]
      BY <1>3, <2>1, <2>2 DEF FirstDiffers
    <3>2. \A k \in 1 .. i - 1 : a[keys[k].col] = c[keys[k].col]
      BY <1>3, <2>1, <2>2 DEF FirstDiffers
    <3>. QED BY <1>3, <3>1, <3>2 DEF FirstDiffers
  <2>3. CASE j < i
    <3>1. a[keys[j].col] = b[keys[j].col]
      BY <1>3, <2>1, <2>3 DEF FirstDiffers
    <3>2. \A k \in 1 .. j - 1 : a[keys[k].col] = c[keys[k].col]
      BY <1>3, <2>1, <2>3 DEF FirstDiffers
    <3>. QED BY <1>3, <3>1, <3>2 DEF FirstDiffers
  <2>4. CASE i = j
    <3>1. CellBefore(a[keys[i].col], c[keys[i].col], keys[i])
      BY <1>1, <1>3, <2>4, CellOrder DEF FirstDiffers, Sortable
    <3>2. \A k \in 1 .. i - 1 : a[keys[k].col] = c[keys[k].col]
      BY <1>3, <2>4 DEF FirstDiffers
    <3>. QED BY <3>1, <3>2 DEF FirstDiffers
  <2>. QED BY <2>1, <2>2, <2>3, <2>4
<1>. QED BY <1>2, <1>3, RowBeforeIs

\* A row that ties with another is before the same rows.
LEMMA TiesAlike ==
    ASSUME NEW keys \in Seq(KeySpec), NEW a, NEW b, NEW c, SameKeys(a, b, keys)
    PROVE  /\ RowBefore(a, c, keys) <=> RowBefore(b, c, keys)
           /\ RowBefore(c, a, keys) <=> RowBefore(c, b, keys)
<1> DEFINE Less(x, y, i) == CellBefore(x[keys[i].col], y[keys[i].col], keys[i])
           First(x, y, i) == /\ Less(x, y, i)
                             /\ \A j \in 1 .. i - 1 : ~Less(y, x, j) /\ ~Less(x, y, j)
<1>1. \A i \in DOMAIN keys : \A j \in 1 .. i - 1 : j \in DOMAIN keys
  OBVIOUS
<1>2. \A x, y : RowBefore(x, y, keys) <=> \E i \in DOMAIN keys : First(x, y, i)
  BY Zenon DEF RowBefore
<1>3. \A i \in DOMAIN keys : (Less(a, c, i) <=> Less(b, c, i)) /\ (Less(c, a, i) <=> Less(c, b, i))
  <2>1. \A i \in DOMAIN keys : a[keys[i].col] = b[keys[i].col]
    BY DEF SameKeys
  <2>. QED BY <2>1, Zenon
<1> HIDE DEF Less
<1>4. \A i \in DOMAIN keys : (First(a, c, i) <=> First(b, c, i)) /\ (First(c, a, i) <=> First(c, b, i))
  BY <1>1, <1>3, Zenon
<1> HIDE DEF First
<1>. QED BY <1>2, <1>4

\* The order std::stable_sort puts the positions of the rows in.
Ahead(rows, keys, i, j) == \/ RowBefore(rows[i], rows[j], keys)
                           \/ i < j /\ ~RowBefore(rows[j], rows[i], keys)

\* It is a strict total order.
LEMMA AheadTotal ==
    ASSUME NEW keys \in Seq(KeySpec), NEW R, Sortable(R, keys), NEW rows \in Seq(R),
           NEW i \in DOMAIN rows, NEW j \in DOMAIN rows, NEW k \in DOMAIN rows
    PROVE  /\ ~Ahead(rows, keys, i, i)
           /\ i # j => Ahead(rows, keys, i, j) \/ Ahead(rows, keys, j, i)
           /\ Ahead(rows, keys, i, j) /\ Ahead(rows, keys, j, k) => Ahead(rows, keys, i, k)
<1> DEFINE a == rows[i]
           b == rows[j]
           c == rows[k]
<1>1. a \in R /\ b \in R /\ c \in R /\ i \in Nat /\ j \in Nat /\ k \in Nat
  OBVIOUS
<1>2. Ahead(rows, keys, i, j) <=> (RowBefore(a, b, keys) \/ (i < j /\ ~RowBefore(b, a, keys)))
  BY Zenon DEF Ahead
<1>3. Ahead(rows, keys, j, k) <=> (RowBefore(b, c, keys) \/ (j < k /\ ~RowBefore(c, b, keys)))
  BY Zenon DEF Ahead
<1>4. Ahead(rows, keys, i, k) <=> (RowBefore(a, c, keys) \/ (i < k /\ ~RowBefore(c, a, keys)))
  BY Zenon DEF Ahead
<1>5. Ahead(rows, keys, j, i) <=> (RowBefore(b, a, keys) \/ (j < i /\ ~RowBefore(a, b, keys)))
  BY Zenon DEF Ahead
<1>6. Ahead(rows, keys, i, i) <=> (RowBefore(a, a, keys) \/ (i < i /\ ~RowBefore(a, a, keys)))
  BY Zenon DEF Ahead
<1> HIDE DEF a, b, c
<1>7. ~RowBefore(a, a, keys) /\ ~RowBefore(b, b, keys) /\ ~RowBefore(c, c, keys)
  BY <1>1, RowOrder
<1>8. \/ RowBefore(a, b, keys) /\ ~RowBefore(b, a, keys)
      \/ RowBefore(b, a, keys) /\ ~RowBefore(a, b, keys)
      \/ SameKeys(a, b, keys) /\ ~RowBefore(a, b, keys) /\ ~RowBefore(b, a, keys)
  BY <1>1, <1>7, RowsCompare, RowOrder, TiesAlike
<1>9. \/ RowBefore(b, c, keys) /\ ~RowBefore(c, b, keys)
      \/ RowBefore(c, b, keys) /\ ~RowBefore(b, c, keys)
      \/ SameKeys(b, c, keys) /\ ~RowBefore(b, c, keys) /\ ~RowBefore(c, b, keys)
  BY <1>1, <1>7, RowsCompare, RowOrder, TiesAlike
<1>10. ASSUME Ahead(rows, keys, i, j), Ahead(rows, keys, j, k) PROVE Ahead(rows, keys, i, k)
  <2>1. CASE RowBefore(a, b, keys) /\ RowBefore(b, c, keys)
    BY <2>1, <1>1, <1>4, RowOrder
  <2>2. CASE RowBefore(a, b, keys) /\ SameKeys(b, c, keys)
    BY <2>2, <1>4, TiesAlike
  <2>3. CASE SameKeys(a, b, keys) /\ RowBefore(b, c, keys)
    BY <2>3, <1>4, TiesAlike
  <2>4. CASE SameKeys(a, b, keys) /\ SameKeys(b, c, keys)
    <3>1. ~RowBefore(c, a, keys)
      BY <2>4, <1>7, TiesAlike
    <3>2. i < j /\ j < k
      BY <1>2, <1>3, <1>7, <1>10, <2>4, TiesAlike
    <3>. QED BY <1>1, <1>4, <3>1, <3>2
  <2>. QED BY <1>2, <1>3, <1>8, <1>9, <1>10, <2>1, <2>2, <2>3, <2>4
<1>11. i # j => Ahead(rows, keys, i, j) \/ Ahead(rows, keys, j, i)
  BY <1>1, <1>2, <1>5, <1>8
<1>12. ~Ahead(rows, keys, i, i)
  BY <1>1, <1>6, <1>7
<1>. QED BY <1>10, <1>11, <1>12

\* t is the rows in the order of the keys.
Ordered(t, rows, keys, R) ==
    /\ t \in Seq(R) /\ Len(t) = Len(rows)
    /\ Permuted(t, rows)
    /\ \A i, j \in DOMAIN t : i < j => ~RowBefore(t[j], t[i], keys)

\* OrderBy rearranges the rows into the order of the keys.
LEMMA OrderBySorts ==
    ASSUME NEW keys \in Seq(KeySpec), NEW R, Sortable(R, keys), NEW rows \in Seq(R)
    PROVE  Ordered(OrderBy(rows, keys), rows, keys, R)
<1> DEFINE n == Len(rows)
           D == 1 .. n
           E(i, j) == Ahead(rows, keys, i, j)
           T == {x \in D \X D : E(x[1], x[2])}
           rank == [i \in D |-> Cardinality(Earlier(T, D, i))]
           places == {<<i, Cardinality({j \in DOMAIN rows : E(j, i)}) + 1>> : i \in DOMAIN rows}
           at == [k \in D |-> (CHOOSE p \in places : p[2] = k)[1]]
           t == OrderBy(rows, keys)
<1>1. n \in Nat /\ DOMAIN rows = D /\ \A i \in D : rows[i] \in R
  OBVIOUS
<1>2. t = [k \in DOMAIN rows |-> rows[(CHOOSE p \in places : p[2] = k)[1]]]
  BY Zenon DEF OrderBy, Ahead
<1>3. t = [k \in D |-> rows[at[k]]]
  <2> HIDE DEF places, t
  <2>. QED BY <1>1, <1>2
<1> HIDE DEF t
<1>4. StrictTotal(T, D)
  <2> HIDE DEF D
  <2>1. \A i \in D : ~E(i, i)
    BY <1>1, AheadTotal
  <2>2. \A i, j \in D : i # j => E(i, j) \/ E(j, i)
    BY <1>1, AheadTotal
  <2>3. \A i, j, k \in D : E(i, j) /\ E(j, k) => E(i, k)
    BY <1>1, AheadTotal
  <2> HIDE DEF E
  <2>4. \A i, j \in D : <<i, j>> \in T <=> E(i, j)
    OBVIOUS
  <2> HIDE DEF T
  <2>. QED BY <2>1, <2>2, <2>3, <2>4 DEF StrictTotal
<1>a. \A i, j \in D : <<i, j>> \in T <=> E(i, j)
  OBVIOUS
<1>5. OneToOne(rank, D, 0 .. n - 1) /\ \A i, j \in D : <<i, j>> \in T => rank[i] < rank[j]
  <2> HIDE DEF T, n
  <2>. QED BY <1>1, <1>4, RanksNumber
<1>6. places = {<<i, rank[i] + 1>> : i \in D}
  <2> HIDE DEF E, T
  <2>1. \A i \in D : Earlier(T, D, i) = {j \in D : E(j, i)}
    BY <1>a DEF Earlier
  <2>. QED BY <1>1, <2>1
<1>7. \A i \in D : rank[i] \in 0 .. n - 1
  BY <1>5 DEF OneToOne
<1> HIDE DEF rank, T
<1>8. ASSUME NEW k \in D PROVE at[k] \in D /\ rank[at[k]] = k - 1
  <2>1. k - 1 \in 0 .. n - 1
    BY <1>1
  <2>2. PICK i \in D : rank[i] = k - 1
    BY <1>5, <2>1 DEF OneToOne
  <2>3. <<i, k>> \in places /\ <<i, k>>[2] = k
    <3>1. rank[i] + 1 = k
      BY <2>2, <1>1
    <3> HIDE DEF places
    <3>. QED BY <1>6, <2>2, <3>1
  <2> HIDE DEF places
  <2> DEFINE p == CHOOSE p \in places : p[2] = k
  <2>4. p \in places /\ p[2] = k /\ at[k] = p[1]
    BY <2>3
  <2> HIDE DEF p, at
  <2>5. PICK j \in D : p = <<j, rank[j] + 1>>
    BY <1>6, <2>4
  <2>6. at[k] = j /\ rank[j] + 1 = k
    BY <2>4, <2>5
  <2>. QED BY <2>5, <2>6, <1>7
<1> HIDE DEF places
<1>d. at = [k \in D |-> at[k]]
  OBVIOUS
<1> HIDE DEF at
<1>9. OneToOne(at, D, D)
  <2>1. at \in [D -> D]
    BY <1>8, <1>d
  <2>2. ASSUME NEW k \in D, NEW m \in D, at[k] = at[m] PROVE k = m
    <3>1. k - 1 = m - 1
      BY <1>8, <2>2
    <3>. QED BY <3>1
  <2>3. ASSUME NEW i \in D PROVE \E k \in D : at[k] = i
    <3>1. rank[i] \in 0 .. n - 1
      BY <1>7
    <3>2. rank[i] + 1 \in D /\ (rank[i] + 1) - 1 = rank[i]
      BY <3>1, <1>1
    <3>3. at[rank[i] + 1] \in D /\ rank[at[rank[i] + 1]] = rank[i]
      BY <1>8, <3>2
    <3>. QED BY <1>5, <3>2, <3>3 DEF OneToOne
  <2>. QED BY <2>1, <2>2, <2>3 DEF OneToOne
<1>10. t \in Seq(R) /\ Len(t) = n /\ DOMAIN t = D /\ \A k \in D : t[k] = rows[at[k]]
  BY <1>1, <1>3, <1>8
<1>11. Permuted(t, rows)
  BY <1>1, <1>9, <1>10 DEF Permuted
<1>12. ASSUME NEW i \in D, NEW j \in D, i < j PROVE ~RowBefore(t[j], t[i], keys)
  <2> DEFINE x == at[i]
             y == at[j]
  <2>1. x \in D /\ y \in D /\ rank[x] = i - 1 /\ rank[y] = j - 1
    BY <1>8
  <2>2. t[i] = rows[x] /\ t[j] = rows[y]
    BY <1>10
  <2> HIDE DEF x, y, E
  <2>3. ~E(y, x)
    <3>1. <<y, x>> \in T => j - 1 < i - 1
      BY <1>5, <2>1
    <3>. QED BY <1>12, <1>a, <2>1, <3>1
  <2>. QED BY <2>2, <2>3 DEF E, Ahead
<1>13. \A i, j \in DOMAIN t : i < j => ~RowBefore(t[j], t[i], keys)
  BY <1>10, <1>12
<1>. QED BY <1>10, <1>11, <1>13, Zenon DEF Ordered, t
-----------------------------------------------------------------------------
(****************************************************************************)
(* Subsequences.                                                           *)
(****************************************************************************)
\* The places of a finite set are numbered from 1 without a gap, in order.
LEMMA PlacesNumber ==
    ASSUME NEW n \in Nat, NEW F \in SUBSET (1 .. n)
    PROVE  /\ IsFiniteSet(F) /\ Cardinality(F) \in 0 .. n
           /\ \A i \in F : PlaceIn(F, i) \in 1 .. Cardinality(F)
           /\ \A i, j \in F : i < j => PlaceIn(F, i) < PlaceIn(F, j)
           /\ \A k \in 1 .. Cardinality(F) : \E i \in F : PlaceIn(F, i) = k
<1>1. IsFiniteSet(F) /\ Cardinality(F) \in 0 .. n
  <2>1. IsFiniteSet(1 .. n) /\ Cardinality(1 .. n) = n
    BY FS_Interval
  <2>2. F \subseteq 1 .. n
    OBVIOUS
  <2>3. IsFiniteSet(F) /\ Cardinality(F) <= n
    BY <2>1, <2>2, FS_Subset
  <2>. QED BY <2>3, FS_CardinalityType
<1>. F \subseteq Int
  OBVIOUS
<1> DEFINE c == Cardinality(F)
           upto(i) == {j \in F : j <= i}
           f == [i \in F |-> PlaceIn(F, i)]
<1>2. ASSUME NEW i \in F
      PROVE  IsFiniteSet(upto(i)) /\ PlaceIn(F, i) = Cardinality(upto(i)) /\ PlaceIn(F, i) \in 1 .. c
  <2>1. upto(i) \subseteq F /\ i \in upto(i)
    OBVIOUS
  <2>2. IsFiniteSet(upto(i)) /\ Cardinality(upto(i)) <= c /\ Cardinality(upto(i)) \in Nat
    BY <1>1, <2>1, FS_Subset, FS_CardinalityType
  <2>3. Cardinality(upto(i)) # 0
    <3> HIDE DEF upto
    <3>. QED BY <2>1, <2>2, FS_EmptySet
  <2> HIDE DEF upto
  <2>4. PlaceIn(F, i) = Cardinality(upto(i))
    BY DEF PlaceIn, upto
  <2>. QED BY <1>1, <2>2, <2>3, <2>4
<1>3. ASSUME NEW i \in F, NEW j \in F, i < j PROVE PlaceIn(F, i) < PlaceIn(F, j)
  <2>1. upto(i) \subseteq upto(j) /\ j \in upto(j) /\ j \notin upto(i)
    <3>1. i \in Int /\ j \in Int /\ \A k \in F : k \in Int
      OBVIOUS
    <3>2. \A k \in F : k <= i => k <= j
      BY <1>3, <3>1
    <3>3. j <= j /\ ~(j <= i)
      BY <1>3, <3>1
    <3>. QED BY <3>2, <3>3
  <2> HIDE DEF upto
  <2>2. Cardinality(upto(i)) <= Cardinality(upto(j)) /\ Cardinality(upto(i)) # Cardinality(upto(j))
    BY <1>2, <2>1, FS_Subset
  <2>. QED BY <1>1, <1>2, <2>2
<1>4. f \in [F -> 1 .. c] /\ \A i, j \in F : f[i] = f[j] => i = j
  <2>1. \A i \in F : f[i] = PlaceIn(F, i) /\ PlaceIn(F, i) \in 1 .. c
    BY <1>2
  <2>2. \A i, j \in F : i # j => i < j \/ j < i
    OBVIOUS
  <2>3. f \in [F -> 1 .. c]
    BY <2>1
  <2> HIDE DEF f
  <2>. QED BY <1>1, <1>3, <2>1, <2>2, <2>3
<1> HIDE DEF f
<1>5. IsFiniteSet(1 .. c) /\ Cardinality(1 .. c) = c
  BY <1>1, FS_Interval
<1>6. OneToOne(f, F, 1 .. c)
  BY <1>4, <1>5, FullInjection
<1>7. \A k \in 1 .. c : \E i \in F : PlaceIn(F, i) = k
  BY <1>6 DEF OneToOne, f
<1>. QED BY <1>1, <1>2, <1>3, <1>7

\* e holds the element of s at each place of F, where the place's number says.
Picks(e, s, F) ==
    /\ e = [k \in 1 .. Cardinality(F) |-> e[k]]
    /\ \A i \in F : e[PlaceIn(F, i)] = s[i]
    /\ \A k \in 1 .. Cardinality(F) : \E i \in F : PlaceIn(F, i) = k /\ e[k] = s[i]

\* Each place's element stands where the place's number says.
LEMMA ElementsPlaced ==
    ASSUME NEW n \in Nat, NEW F \in SUBSET (1 .. n), NEW s
    PROVE  Picks(ElementsAt(s, F), s, F)
<1> DEFINE at(k) == CHOOSE i \in F : PlaceIn(F, i) = k
<1>1. \A k \in 1 .. Cardinality(F) : ElementsAt(s, F)[k] = s[at(k)]
  BY DEF ElementsAt
<1>2. \A k \in 1 .. Cardinality(F) : at(k) \in F /\ PlaceIn(F, at(k)) = k
  BY PlacesNumber
<1>3. ASSUME NEW i \in F PROVE at(PlaceIn(F, i)) = i
  <2>1. PlaceIn(F, i) \in 1 .. Cardinality(F)
    BY PlacesNumber
  <2>2. at(PlaceIn(F, i)) \in F /\ PlaceIn(F, at(PlaceIn(F, i))) = PlaceIn(F, i)
    BY <1>2, <2>1
  <2> HIDE DEF at
  <2>3. PICK j \in F : j = at(PlaceIn(F, i)) /\ PlaceIn(F, j) = PlaceIn(F, i)
    BY <2>2
  <2>4. i < j => PlaceIn(F, i) < PlaceIn(F, j)
    BY PlacesNumber
  <2>5. j < i => PlaceIn(F, j) < PlaceIn(F, i)
    BY PlacesNumber
  <2>6. i \in Int /\ j \in Int
    OBVIOUS
  <2>7. PlaceIn(F, i) \in Int
    BY <2>1
  <2>. QED BY <2>3, <2>4, <2>5, <2>6, <2>7
<1> HIDE DEF at
<1>4. \A i \in F : ElementsAt(s, F)[PlaceIn(F, i)] = s[i]
  BY <1>1, <1>3, PlacesNumber
<1>5. \A k \in 1 .. Cardinality(F) : \E i \in F : PlaceIn(F, i) = k /\ ElementsAt(s, F)[k] = s[i]
  BY <1>1, <1>2
<1>6. ElementsAt(s, F) = [k \in 1 .. Cardinality(F) |-> ElementsAt(s, F)[k]]
  BY DEF ElementsAt
<1>. QED BY <1>4, <1>5, <1>6 DEF Picks

\* The elements of a sequence at some places are a sequence of such elements.
LEMMA ElementsType ==
    ASSUME NEW A, NEW s \in Seq(A), NEW F \in SUBSET (1 .. Len(s))
    PROVE  ElementsAt(s, F) \in Seq(A) /\ Len(ElementsAt(s, F)) = Cardinality(F)
<1> DEFINE e == ElementsAt(s, F)
           c == Cardinality(F)
<1>1. Len(s) \in Nat /\ \A i \in F : s[i] \in A
  OBVIOUS
<1>2. c \in Nat /\ e = [k \in 1 .. c |-> e[k]] /\ \A k \in 1 .. c : \E i \in F : e[k] = s[i]
  <2>1. Picks(e, s, F)
    BY <1>1, ElementsPlaced
  <2>. QED BY <1>1, <2>1, PlacesNumber DEF Picks
<1> HIDE DEF e, c
<1>3. \A k \in 1 .. c : e[k] \in A
  BY <1>1, <1>2
<1>4. e \in [1 .. c -> A]
  BY <1>2, <1>3
<1>5. e \in Seq(A) /\ Len(e) = c
  BY <1>2, <1>4
<1>. QED BY <1>5 DEF e, c

\* Only the elements at the places matter.
LEMMA ElementsAlike ==
    ASSUME NEW n \in Nat, NEW F \in SUBSET (1 .. n), NEW s, NEW t, \A i \in F : s[i] = t[i]
    PROVE  ElementsAt(s, F) = ElementsAt(t, F)
<1>1. \A k \in 1 .. Cardinality(F) : (CHOOSE i \in F : PlaceIn(F, i) = k) \in F
  BY PlacesNumber
<1>2. \A k \in 1 .. Cardinality(F) :
        s[CHOOSE i \in F : PlaceIn(F, i) = k] = t[CHOOSE i \in F : PlaceIn(F, i) = k]
  BY <1>1
<1>. QED BY <1>2 DEF ElementsAt

\* No places, no elements.
LEMMA ElementsNone == ASSUME NEW s PROVE ElementsAt(s, {}) = <<>>
<1>1. Cardinality({}) = 0
  BY FS_EmptySet
<1>2. 1 .. 0 = {}
  OBVIOUS
<1>. QED BY <1>1, <1>2 DEF ElementsAt

\* A place after the others adds its element at the end.
LEMMA ElementsGrow ==
    ASSUME NEW A, NEW s \in Seq(A), NEW F \in SUBSET (1 .. Len(s)), NEW m \in 1 .. Len(s),
           \A j \in F : j < m
    PROVE  ElementsAt(s, F \union {m}) = Append(ElementsAt(s, F), s[m])
<1> DEFINE G == F \union {m}
           c == Cardinality(F)
           e == ElementsAt(s, F)
           g == ElementsAt(s, G)
<1>1. Len(s) \in Nat /\ G \in SUBSET (1 .. Len(s)) /\ m \notin F
  OBVIOUS
<1>2. c \in Nat /\ Cardinality(G) = c + 1
  <2>1. IsFiniteSet(F) /\ c \in Nat
    BY <1>1, PlacesNumber
  <2>. QED BY <1>1, <2>1, FS_AddElement
<1> HIDE DEF c
<1>3. PlaceIn(G, m) = c + 1
  <2>1. {j \in G : j <= m} = G
    <3>1. \A j \in F : j \in Int /\ j <= m
      OBVIOUS
    <3>2. m <= m
      OBVIOUS
    <3>. QED BY <3>1, <3>2
  <2>. QED BY <1>2, <2>1 DEF PlaceIn
<1>4. \A i \in F : PlaceIn(G, i) = PlaceIn(F, i)
  <2>1. ASSUME NEW i \in F PROVE {j \in G : j <= i} = {j \in F : j <= i}
    OBVIOUS
  <2> HIDE DEF G
  <2>. QED BY <2>1 DEF PlaceIn
<1>. m \in G
  OBVIOUS
<1>. F \subseteq G
  OBVIOUS
<1> HIDE DEF G
<1>5. e \in Seq(A) /\ Len(e) = c /\ g \in Seq(A) /\ Len(g) = c + 1
  BY <1>1, <1>2, ElementsType DEF c
<1>a. /\ \A i \in G : ElementsAt(s, G)[PlaceIn(G, i)] = s[i]
      /\ \A k \in 1 .. c : \E i \in F : PlaceIn(F, i) = k /\ ElementsAt(s, F)[k] = s[i]
  <2>1. Picks(ElementsAt(s, G), s, G) /\ Picks(ElementsAt(s, F), s, F)
    BY <1>1, ElementsPlaced
  <2>. QED BY <2>1 DEF Picks, c
<1>6. g[c + 1] = s[m]
  BY <1>3, <1>a
<1>7. ASSUME NEW k \in 1 .. c PROVE g[k] = e[k]
  <2>1. PICK i \in F : PlaceIn(F, i) = k /\ e[k] = s[i]
    BY <1>a
  <2>2. g[PlaceIn(G, i)] = s[i]
    BY <1>a
  <2>. QED BY <1>4, <2>1, <2>2 DEF e, g
<1>8. s[m] \in A
  OBVIOUS
<1> HIDE DEF e, g
<1>9. Append(e, s[m]) \in Seq(A) /\ Len(Append(e, s[m])) = c + 1
  BY <1>5, <1>8
<1>10. \A k \in 1 .. c + 1 : g[k] = Append(e, s[m])[k]
  BY <1>2, <1>5, <1>6, <1>7, <1>8
<1>11. g = Append(e, s[m])
  BY <1>5, <1>9, <1>10
<1>. QED BY <1>11 DEF e, g, G
================================================================================
