------------------------ MODULE CompressedScanProofs ------------------------
(***************************************************************************)
(* A compressed column comes back bit by bit, for every width of the word, *)
(* type, column and batch size.                                            *)
(*                                                                         *)
(* The round trips first: a number is what its bits write, a word what its *)
(* varint groups write, the zigzag fold and a difference modulo the word   *)
(* size are undone, and a word XORed twice with another is itself, so that *)
(* the bits of the XOR between its leading and its trailing zeros restore  *)
(* it.  Then the streams: an encoder is a fold over the values, which has  *)
(* the table of its states after each prefix; the piece it writes for a    *)
(* value stays where it is written, whatever follows, and flush() adds     *)
(* bits behind the last piece only.                                        *)
(*                                                                         *)
(* The induction is over the values: a decoder that is InStep with the     *)
(* encoder after k values, at the same place in the stream with the same   *)
(* carried state, reads the piece of value k + 1 there, gives that value   *)
(* and is InStep after k + 1.  A NULL row takes nothing from the stream,   *)
(* so a row, and hence a batch, moves the decoder from the values before   *)
(* the cursor to those before the next one.  ScanInv, the invariant, says  *)
(* just that of an open scan: the cells handed out are the rows before the *)
(* cursor and the decoder is Behind them.                                  *)
(***************************************************************************)
EXTENDS CompressedScan, DataProofs

-----------------------------------------------------------------------------
(***************************************************************************)
(* Division.                                                               *)
(***************************************************************************)
\* A product grows with its factor.
LEMMA ProductGrows ==
    ASSUME NEW a \in Int, NEW b \in Int, NEW c \in Nat, a <= b
    PROVE  c * a <= c * b
OBVIOUS

\* q and r are quotient and remainder of a by b.
IsDivision(a, b, q, r) == q \in Nat /\ r \in 0 .. b - 1 /\ a = b * q + r

\* Division with remainder.
LEMMA Division ==
    ASSUME NEW a \in Nat, NEW b \in Nat \ {0}
    PROVE  IsDivision(a, b, a \div b, a % b)
BY DEF IsDivision

\* There is only one quotient and only one remainder.
LEMMA DivisionUnique ==
    ASSUME NEW a \in Nat, NEW b \in Nat \ {0}, NEW q, NEW r, IsDivision(a, b, q, r)
    PROVE  a \div b = q /\ a % b = r
BY DEF IsDivision

\* Dividing by b and by c is dividing by b * c.
LEMMA DivisionTwice ==
    ASSUME NEW a \in Nat, NEW b \in Nat \ {0}, NEW c \in Nat \ {0}
    PROVE  /\ (a \div b) \div c = a \div (b * c)
           /\ a % (b * c) = (a % b) + ((a \div b) % c) * b
OBVIOUS

-----------------------------------------------------------------------------
(***************************************************************************)
(* Powers of two.                                                          *)
(***************************************************************************)
\* f doubles from 1 up to place n.
Doubling(f, n) ==
    /\ f \in [0 .. n -> Nat \ {0}]
    /\ f[0] = 1
    /\ \A k \in 1 .. n : f[k] = 2 * f[k - 1]

\* The recursive definition has a solution, and Pow2 is it.
LEMMA PowersOfTwo ==
    /\ \A n \in Nat : Pow2[n] \in Nat \ {0}
    /\ Pow2[0] = 1
    /\ \A n \in Nat : Pow2[n + 1] = 2 * Pow2[n]
<1> DEFINE S == {n \in Nat : \E f : Doubling(f, n)}
           T(n) == CHOOSE f : Doubling(f, n)
           F == [n \in Nat |-> T(n)[n]]
           body(f) == [n \in Nat |-> IF n = 0 THEN 1 ELSE 2 * f[n - 1]]
<1>1. \A n \in Nat : n \in S
  <2>1. Doubling([k \in 0 .. 0 |-> 1], 0)
    BY DEF Doubling
  <2>2. ASSUME NEW n \in Nat, n \in S PROVE n + 1 \in S
    <3>1. PICK f : Doubling(f, n)
      BY <2>2
    <3> DEFINE g == [k \in 0 .. n + 1 |-> IF k = n + 1 THEN 2 * f[n] ELSE f[k]]
    <3>2. Doubling(g, n + 1)
      BY <3>1 DEF Doubling
    <3>. QED BY <3>2
  <2>3. 0 \in S
    BY <2>1
  <2> HIDE DEF S
  <2>. QED BY <2>2, <2>3, SetInduction
<1>2. \A n \in Nat : Doubling(T(n), n)
  BY <1>1
<1>3. ASSUME NEW n \in Nat, NEW f, NEW g, NEW m \in Nat, n <= m, Doubling(f, n), Doubling(g, m)
      PROVE  f[n] = g[n]
  <2> DEFINE E == {k \in Nat : k <= n => f[k] = g[k]}
  <2>1. 0 \in E
    BY <1>3 DEF Doubling
  <2>2. ASSUME NEW k \in Nat, k \in E PROVE k + 1 \in E
    <3>1. SUFFICES ASSUME k + 1 <= n PROVE f[k + 1] = g[k + 1]
      OBVIOUS
    <3>2. k + 1 \in 1 .. n /\ k + 1 \in 1 .. m /\ (k + 1) - 1 = k /\ f[k] = g[k]
      BY <1>3, <2>2, <3>1
    <3>. QED BY <1>3, <3>2 DEF Doubling
  <2> HIDE DEF E
  <2>3. n \in E
    BY <2>1, <2>2, SetInduction
  <2>. QED BY <2>3 DEF E
<1> HIDE DEF T
<1>4. F[0] = 1 /\ \A n \in Nat : F[n] \in Nat \ {0}
  BY <1>2 DEF Doubling
<1>5. ASSUME NEW n \in Nat PROVE F[n + 1] = 2 * F[n]
  <2>1. n + 1 \in Nat /\ n + 1 \in 1 .. n + 1 /\ (n + 1) - 1 = n /\ n <= n + 1
    OBVIOUS
  <2>2. T(n + 1)[n + 1] = 2 * T(n + 1)[n]
    BY <1>2, <2>1 DEF Doubling
  <2>3. T(n)[n] = T(n + 1)[n]
    BY <1>2, <1>3, <2>1
  <2>. QED BY <2>1, <2>2, <2>3
<1>6. F = body(F)
  <2>1. \A n \in Nat : F[n] = IF n = 0 THEN 1 ELSE 2 * F[n - 1]
    <3>1. ASSUME NEW n \in Nat, n # 0 PROVE F[n] = 2 * F[n - 1]
      <4>1. n - 1 \in Nat /\ (n - 1) + 1 = n
        BY <3>1
      <4> HIDE DEF F
      <4>. QED BY <1>5, <4>1
    <3> HIDE DEF F
    <3>. QED BY <1>4, <3>1
  <2>2. F = [n \in Nat |-> F[n]]
    OBVIOUS
  <2> HIDE DEF F
  <2>. QED BY <2>1, <2>2
<1>7. Pow2 = body(Pow2)
  <2>1. Pow2 = CHOOSE f : f = body(f)
    BY DEF Pow2
  <2> HIDE DEF body, F
  <2>. QED BY <1>6, <2>1
<1>8. \A n \in Nat : Pow2[n] = IF n = 0 THEN 1 ELSE 2 * Pow2[n - 1]
  BY <1>7
<1>9. Pow2[0] = 1 /\ \A n \in Nat : Pow2[n + 1] = 2 * Pow2[n]
  <2>1. \A n \in Nat : n + 1 # 0 /\ (n + 1) - 1 = n /\ n + 1 \in Nat
    OBVIOUS
  <2>. QED BY <1>8, <2>1
<1> DEFINE P == {n \in Nat : Pow2[n] \in Nat \ {0}}
<1>10. \A n \in Nat : n \in P
  <2>1. 0 \in P /\ \A n \in Nat : n \in P => n + 1 \in P
    BY <1>9
  <2> HIDE DEF P
  <2>. QED BY <2>1, SetInduction
<1>. QED BY <1>9, <1>10

\* Powers multiply, and grow.
LEMMA PowersMultiply ==
    ASSUME NEW m \in Nat, NEW n \in Nat
    PROVE  Pow2[m + n] = Pow2[m] * Pow2[n] /\ Pow2[m] <= Pow2[m + n]
<1> DEFINE S == {k \in Nat : Pow2[m + k] = Pow2[m] * Pow2[k] /\ Pow2[m] <= Pow2[m + k]}
<1>1. 0 \in S
  BY PowersOfTwo
<1>2. ASSUME NEW k \in Nat, k \in S PROVE k + 1 \in S
  <2>1. m + k \in Nat /\ m + (k + 1) = (m + k) + 1
    OBVIOUS
  <2>2. Pow2[(m + k) + 1] = 2 * Pow2[m + k] /\ Pow2[k + 1] = 2 * Pow2[k]
        /\ Pow2[m] \in Nat /\ Pow2[k] \in Nat /\ Pow2[m + k] \in Nat
    BY <2>1, PowersOfTwo
  <2> DEFINE a == Pow2[m]
             b == Pow2[k]
             c == Pow2[m + k]
  <2>3. c = a * b /\ a <= c
    BY <1>2
  <2> HIDE DEF a, b, c
  <2>4. 2 * c = a * (2 * b) /\ a <= 2 * c
    BY <2>2, <2>3 DEF a, b, c
  <2>. QED BY <2>1, <2>2, <2>4 DEF a, b, c
<1> HIDE DEF S
<1>3. n \in S
  BY <1>1, <1>2, SetInduction
<1>. QED BY <1>3 DEF S

-----------------------------------------------------------------------------
(***************************************************************************)
(* Bits.                                                                   *)
(***************************************************************************)
\* h[k] is the number that the first k bits write.
BitTable(h, bits) ==
    /\ h \in [0 .. Len(bits) -> Nat]
    /\ h[0] = 0
    /\ \A k \in 1 .. Len(bits) : h[k] = 2 * h[k - 1] + bits[k]

\* BitsValue is the last of the numbers that the first bits write.
LEMMA BitsValueTable ==
    ASSUME NEW bits \in Seq({0, 1})
    PROVE  \E h : BitTable(h, bits) /\ BitsValue(bits) = h[Len(bits)]
<1> DEFINE n == Len(bits)
           AA == Nat
           Op(s, v) == 2 * s + v
           step == [k \in 1 .. n |-> [a \in AA |-> Op(a, bits[k])]]
           body(f) == [s \in SUBSET DOMAIN bits |->
                         IF s = {} THEN 0 ELSE Op(f[s \ {Max(s)}], bits[Max(s)])]
           it == CHOOSE f : f = body(f)
<1>1. n \in Nat /\ DOMAIN bits = 1 .. n /\ \A k \in 1 .. n : bits[k] \in {0, 1}
  OBVIOUS
<1>2. \A k \in 1 .. n, a \in AA : step[k][a] = Op(a, bits[k]) /\ Op(a, bits[k]) \in AA
  <2>1. ASSUME NEW v \in {0, 1}, NEW a \in AA PROVE Op(a, v) \in AA
    OBVIOUS
  <2> HIDE DEF Op, AA
  <2>. QED BY <1>1, <2>1
<1>3. Steps(step, n, AA) /\ 0 \in AA
  <2>1. 0 \in AA
    OBVIOUS
  <2> HIDE DEF AA
  <2>. QED BY <1>2, <2>1 DEF Steps
<1> HIDE DEF step
<1>4. PICK g : SetTable(g, n, AA, 0, step)
  <2> HIDE DEF n, AA
  <2>. QED BY <1>1, <1>3, SeqFoldExists
<1>5. BitsValue(bits) = it[DOMAIN bits]
  BY Zenon DEF BitsValue, FoldLeft, MapThenFoldSet
<1> HIDE DEF n, AA
<1>6. g = body(g)
  <2>1. ASSUME NEW s \in SUBSET (1 .. n), s # {} PROVE g[s] = Op(g[s \ {Max(s)}], bits[Max(s)])
    <3>1. g[s] = step[Max(s)][g[s \ {Max(s)}]] /\ g[s \ {Max(s)}] \in AA
      BY <1>4, <2>1 DEF SetTable
    <3>2. Max(s) \in 1 .. n
      BY <1>1, <2>1, MaxOf
    <3> HIDE DEF Op
    <3>. QED BY <1>1, <1>2, <3>1, <3>2
  <2> HIDE DEF Op
  <2>. QED BY <1>1, <1>4, <2>1 DEF SetTable
<1>7. it = body(it)
  <2> HIDE DEF body
  <2>. QED BY <1>6
<1> DEFINE h == [k \in 0 .. n |-> it[1 .. k]]
<1> HIDE DEF it
<1>8. h[0] = 0
  BY <1>1, <1>7
<1>9. ASSUME NEW k \in 1 .. n PROVE h[k] = Op(h[k - 1], bits[k])
  <2>1. 1 .. k \in SUBSET (1 .. n) /\ 1 .. k # {} /\ Max(1 .. k) = k /\ (1 .. k) \ {k} = 1 .. k - 1
    BY <1>1, Initial
  <2>2. it[1 .. k] = Op(it[1 .. k - 1], bits[k])
    <3>1. \A s \in SUBSET (1 .. n) : s # {} => it[s] = Op(it[s \ {Max(s)}], bits[Max(s)])
      BY <1>1, <1>7
    <3> HIDE DEF Op, body
    <3>. QED BY <2>1, <3>1
  <2>3. k \in 0 .. n /\ k - 1 \in 0 .. n
    BY <1>1
  <2> HIDE DEF Op
  <2>. QED BY <2>2, <2>3
<1>10. h[n] = it[DOMAIN bits]
  BY <1>1
<1> DEFINE S == {k \in Nat : k <= n => h[k] \in AA}
<1> HIDE DEF h
<1>11. 0 \in S
  BY <1>3, <1>8
<1>12. ASSUME NEW k \in Nat, k \in S PROVE k + 1 \in S
  <2>1. SUFFICES ASSUME k + 1 <= n PROVE h[k + 1] \in AA
    OBVIOUS
  <2>2. k + 1 \in 1 .. n /\ (k + 1) - 1 = k /\ k <= n
    BY <1>1, <2>1
  <2>3. h[k] \in AA /\ h[k + 1] = Op(h[k], bits[k + 1])
    BY <1>9, <1>12, <2>2
  <2> HIDE DEF Op
  <2>. QED BY <1>2, <2>2, <2>3
<1> HIDE DEF S
<1>13. \A k \in Nat : k \in S
  BY <1>11, <1>12, SetInduction
<1>14. h \in [0 .. n -> AA]
  <2>1. \A k \in 0 .. n : h[k] \in AA
    BY <1>1, <1>13 DEF S
  <2>. QED BY <2>1 DEF h
<1>15. BitTable(h, bits)
  BY <1>8, <1>9, <1>14 DEF BitTable, n, AA
<1>. QED BY <1>5, <1>10, <1>15 DEF n

\* The bits that are written are n bits.
LEMMA BitsOfType ==
    ASSUME NEW v \in Nat, NEW n \in Nat
    PROVE  /\ BitsOf(v, n) \in Seq({0, 1}) /\ Len(BitsOf(v, n)) = n
           /\ \A i \in 1 .. n : BitsOf(v, n)[i] = (v \div Pow2[n - i]) % 2
<1>1. ASSUME NEW i \in 1 .. n PROVE (v \div Pow2[n - i]) % 2 \in {0, 1}
  <2>1. Pow2[n - i] \in Nat \ {0}
    BY PowersOfTwo
  <2>2. \A p \in Nat \ {0} : (v \div p) % 2 \in {0, 1}
    OBVIOUS
  <2>. QED BY <2>1, <2>2
<1>. QED BY <1>1 DEF BitsOf

\* put_bits and get_bits: a number is read back from its bits.
LEMMA BitsRead ==
    ASSUME NEW n \in Nat, NEW v \in 0 .. Pow2[n] - 1
    PROVE  BitsValue(BitsOf(v, n)) = v
<1> DEFINE b == BitsOf(v, n)
           S == {k \in Nat : k <= n => \A h : BitTable(h, b) => h[k] = v \div Pow2[n - k]}
<1>1. v \in Nat /\ Pow2[n] \in Nat \ {0} /\ Pow2[0] = 1
  BY PowersOfTwo
<1>2. b \in Seq({0, 1}) /\ Len(b) = n /\ \A i \in 1 .. n : b[i] = (v \div Pow2[n - i]) % 2
  BY <1>1, BitsOfType
<1>3. 0 \in S
  <2>1. v \div Pow2[n] = 0
    BY <1>1
  <2>. QED BY <2>1 DEF BitTable
<1>4. ASSUME NEW k \in Nat, k \in S PROVE k + 1 \in S
  <2>1. SUFFICES ASSUME k + 1 <= n, NEW h, BitTable(h, b) PROVE h[k + 1] = v \div Pow2[n - (k + 1)]
    OBVIOUS
  <2>2. k + 1 \in 1 .. n /\ (k + 1) - 1 = k /\ n - (k + 1) \in Nat /\ n - k = (n - (k + 1)) + 1
    BY <2>1
  <2> DEFINE p == Pow2[n - (k + 1)]
  <2>3. p \in Nat \ {0} /\ Pow2[n - k] = 2 * p
    BY <2>2, PowersOfTwo
  <2>4. h[k] = v \div Pow2[n - k]
    BY <1>4, <2>1
  <2>5. h[k + 1] = 2 * h[k] + ((v \div p) % 2)
    BY <1>2, <2>1, <2>2 DEF BitTable
  <2> HIDE DEF p
  <2>6. 2 * (v \div (2 * p)) + ((v \div p) % 2) = v \div p
    BY <1>1, <2>3
  <2>. QED BY <2>3, <2>4, <2>5, <2>6 DEF p
<1>5. n \in S
  <2> HIDE DEF S
  <2>. QED BY <1>3, <1>4, SetInduction
<1>6. PICK h : BitTable(h, b) /\ BitsValue(b) = h[n]
  BY <1>2, BitsValueTable
<1>7. v \div Pow2[n - n] = v
  <2>1. n - n = 0 /\ v \div 1 = v
    BY <1>1
  <2>. QED BY <1>1, <2>1
<1>. QED BY <1>5, <1>6, <1>7

\* The number that bits write has these bits.
LEMMA BitsWritten ==
    ASSUME NEW n \in Nat, NEW b \in Seq({0, 1}), Len(b) = n
    PROVE  BitsValue(b) \in 0 .. Pow2[n] - 1 /\ BitsOf(BitsValue(b), n) = b
<1>1. PICK h : BitTable(h, b) /\ BitsValue(b) = h[n]
  BY BitsValueTable
<1> DEFINE v == h[n]
           S == {k \in Nat : k <= n => h[k] < Pow2[k]}
           D == {k \in Nat : k <= n => v \div Pow2[k] = h[n - k]}
<1>2. /\ h \in [0 .. n -> Nat] /\ h[0] = 0 /\ v \in Nat
      /\ \A k \in 1 .. n : h[k] = 2 * h[k - 1] + b[k] /\ b[k] \in {0, 1}
  BY <1>1 DEF BitTable
<1>3. n \in S
  <2>1. 0 \in S
    <3>1. h[0] < Pow2[0]
      BY <1>2, PowersOfTwo
    <3>. QED BY <3>1
  <2>2. ASSUME NEW k \in Nat, k \in S PROVE k + 1 \in S
    <3>1. SUFFICES ASSUME k + 1 <= n PROVE h[k + 1] < Pow2[k + 1]
      OBVIOUS
    <3>2. k + 1 \in 1 .. n /\ (k + 1) - 1 = k /\ k \in 0 .. n
      BY <3>1
    <3>3. h[k + 1] = 2 * h[k] + b[k + 1] /\ b[k + 1] \in {0, 1} /\ h[k] \in Nat /\ h[k] < Pow2[k]
      BY <1>2, <2>2, <3>2
    <3>4. Pow2[k + 1] = 2 * Pow2[k] /\ Pow2[k] \in Nat
      BY PowersOfTwo
    <3>. QED BY <3>3, <3>4
  <2> HIDE DEF S
  <2>. QED BY <2>1, <2>2, SetInduction
<1>4. \A k \in Nat : k \in D
  <2>1. 0 \in D
    <3>1. v \div 1 = v /\ n - 0 = n
      BY <1>2
    <3>. QED BY <3>1, PowersOfTwo
  <2>2. ASSUME NEW k \in Nat, k \in D PROVE k + 1 \in D
    <3>1. SUFFICES ASSUME k + 1 <= n PROVE v \div Pow2[k + 1] = h[n - (k + 1)]
      OBVIOUS
    <3> DEFINE p == Pow2[k]
               j == n - k
    <3>2. j \in 1 .. n /\ n - (k + 1) = j - 1 /\ j - 1 \in 0 .. n
      BY <3>1
    <3>3. h[j] = 2 * h[j - 1] + b[j] /\ b[j] \in {0, 1} /\ h[j - 1] \in Nat
      BY <1>2, <3>2
    <3>4. v \div p = h[j]
      BY <2>2, <3>1
    <3>5. Pow2[k + 1] = 2 * p /\ p \in Nat \ {0}
      BY PowersOfTwo
    <3> HIDE DEF p, j, v
    <3>6. v \div (p * 2) = (v \div p) \div 2
      <4>1. \A x \in Nat, y \in Nat \ {0} : x \div (y * 2) = (x \div y) \div 2
        OBVIOUS
      <4>. QED BY <1>2, <3>5, <4>1
    <3>7. (v \div p) \div 2 = h[j - 1]
      BY <3>3, <3>4
    <3>. QED BY <3>2, <3>5, <3>6, <3>7
  <2> HIDE DEF D
  <2>. QED BY <2>1, <2>2, SetInduction
<1> HIDE DEF v
<1>5. ASSUME NEW i \in 1 .. n PROVE (v \div Pow2[n - i]) % 2 = b[i]
  <2>1. n - i \in Nat /\ n - i <= n /\ n - (n - i) = i /\ i - 1 \in 0 .. n
    OBVIOUS
  <2>2. v \div Pow2[n - i] = h[i]
    BY <1>4, <2>1
  <2>3. h[i] = 2 * h[i - 1] + b[i] /\ b[i] \in {0, 1} /\ h[i - 1] \in Nat
    BY <1>2, <2>1
  <2>. QED BY <2>2, <2>3
<1>6. BitsOf(v, n) = b
  <2> DEFINE c == BitsOf(v, n)
  <2>1. c \in Seq({0, 1}) /\ Len(c) = n /\ \A i \in 1 .. n : c[i] = b[i]
    BY <1>2, <1>5, BitsOfType
  <2> HIDE DEF c
  <2>2. c = b
    BY <2>1
  <2>. QED BY <2>2 DEF c
<1>7. v \in 0 .. Pow2[n] - 1
  <2>1. v < Pow2[n]
    BY <1>3 DEF v
  <2>2. Pow2[n] \in Nat
    BY PowersOfTwo
  <2>. QED BY <1>2, <2>1, <2>2
<1>. QED BY <1>1, <1>6, <1>7 DEF v

\* At position pos the stream goes on with the piece.
HoldsAt(stream, pos, piece) ==
    /\ pos \in Nat /\ pos + Len(piece) <= Len(stream)
    /\ \A i \in 1 .. Len(piece) : stream[pos + i] = piece[i]

\* A number is read from where its bits have been written.
LEMMA GetBitsReads ==
    ASSUME NEW A, NEW stream \in Seq(A), NEW pos, NEW n \in Nat, NEW v \in 0 .. Pow2[n] - 1,
           HoldsAt(stream, pos, BitsOf(v, n))
    PROVE  GetBits(stream, pos, n) = v
<1> DEFINE b == BitsOf(v, n)
           s == SubSeq(stream, pos + 1, pos + n)
<1>1. b \in Seq({0, 1}) /\ Len(b) = n
  BY BitsOfType, PowersOfTwo
<1>2. pos \in Nat /\ pos + n <= Len(stream) /\ \A i \in 1 .. n : stream[pos + i] = b[i]
  BY <1>1 DEF HoldsAt
<1> HIDE DEF b
<1>3. s \in Seq(A) /\ Len(s) = n /\ \A i \in 1 .. n : s[i] = b[i]
  BY <1>2
<1> HIDE DEF s
<1>4. s = b
  BY <1>1, <1>3
<1>. QED BY <1>4, BitsRead DEF GetBits, b, s

-----------------------------------------------------------------------------
(***************************************************************************)
(* Words and XOR.                                                          *)
(***************************************************************************)
WordSet == 0 .. Word - 1

\* The word size and its half.
LEMMA WordFacts ==
    /\ W \in Nat /\ W >= 2 /\ Word \in Nat \ {0} /\ Word = Pow2[W] /\ Word % 2 = 0
    /\ Half \in Nat \ {0} /\ Word = Half * Half /\ Half % 2 = 0 /\ Half >= 2 /\ 0 \in WordSet
<1>1. W \in Nat /\ W >= 2 /\ W \div 2 \in Nat /\ W = (W \div 2) + (W \div 2) /\ W - 1 \in Nat
      /\ (W \div 2) - 1 \in Nat
  BY CodecAssumption
<1>2. \A n \in Nat : n >= 1 => Pow2[n] = 2 * Pow2[n - 1] /\ Pow2[n] \in Nat \ {0} /\ Pow2[n - 1] \in Nat \ {0}
  <2>1. \A n \in Nat : n >= 1 => n - 1 \in Nat /\ (n - 1) + 1 = n
    OBVIOUS
  <2>. QED BY <2>1, PowersOfTwo
<1>3. \A x, y \in Nat \ {0} : x = 2 * y => x % 2 = 0 /\ x >= 2
  OBVIOUS
<1>4. Word \in Nat \ {0} /\ Word % 2 = 0 /\ Half \in Nat \ {0} /\ Half % 2 = 0 /\ Half >= 2
  BY <1>1, <1>2, <1>3 DEF Word, Half
<1>5. Word = Half * Half
  <2> DEFINE m == W \div 2
  <2>1. W = m + m /\ m \in Nat
    BY <1>1
  <2> HIDE DEF m
  <2>2. Pow2[m + m] = Pow2[m] * Pow2[m]
    BY <2>1, PowersMultiply
  <2>. QED BY <2>1, <2>2 DEF Word, Half, m
<1>. QED BY <1>1, <1>4, <1>5 DEF Word, WordSet

\* A word comes back when it is XORed twice with another; only equal words
\* have no bit in which they differ.
LEMMA XorTwice ==
    ASSUME NEW x \in WordSet, NEW y \in WordSet
    PROVE  Xor(x, y) \in WordSet /\ Xor(y, Xor(x, y)) = x /\ (Xor(x, y) = 0 => x = y)
<1> DEFINE bx == BitsOf(x, W)
           by == BitsOf(y, W)
           c  == [i \in 1 .. W |-> (bx[i] + by[i]) % 2]
           z  == Xor(x, y)
           d  == [i \in 1 .. W |-> (by[i] + BitsOf(z, W)[i]) % 2]
<1>1. /\ W \in Nat /\ x \in 0 .. Pow2[W] - 1 /\ y \in 0 .. Pow2[W] - 1 /\ x \in Nat /\ y \in Nat
      /\ Pow2[W] \in Nat \ {0}
  BY WordFacts DEF WordSet
<1>2. /\ bx \in Seq({0, 1}) /\ Len(bx) = W /\ by \in Seq({0, 1}) /\ Len(by) = W
      /\ BitsValue(bx) = x /\ BitsValue(by) = y
  BY <1>1, BitsOfType, BitsRead
<1> HIDE DEF bx, by
<1>3. c \in Seq({0, 1}) /\ Len(c) = W /\ \A i \in 1 .. W : c[i] = (bx[i] + by[i]) % 2
  <2>1. \A i \in 1 .. W : bx[i] \in {0, 1} /\ by[i] \in {0, 1}
    BY <1>2
  <2>2. \A i \in 1 .. W : (bx[i] + by[i]) % 2 \in {0, 1}
    BY <2>1
  <2>. QED BY <1>1, <2>2
<1>4. z = BitsValue(c)
  BY DEF Xor, bx, by
<1> HIDE DEF c, z
<1>5. z \in 0 .. Pow2[W] - 1 /\ BitsOf(z, W) = c
  BY <1>1, <1>3, <1>4, BitsWritten
<1>6. d = bx
  <2>1. \A i \in 1 .. W : bx[i] \in {0, 1} /\ by[i] \in {0, 1} /\ c[i] = (bx[i] + by[i]) % 2
    BY <1>2, <1>3
  <2>2. \A i \in 1 .. W : (by[i] + c[i]) % 2 = bx[i]
    BY <2>1
  <2>3. d = [i \in 1 .. W |-> bx[i]]
    BY <1>5, <2>2
  <2>4. bx = [i \in 1 .. W |-> bx[i]]
    BY <1>2
  <2>. QED BY <2>3, <2>4
<1>7. Xor(y, z) = x
  BY <1>2, <1>6 DEF Xor, by
<1>8. ASSUME z = 0 PROVE x = y
  <2>1. \A i \in 1 .. W : c[i] = 0
    <3>1. \A i \in 1 .. W : c[i] = (0 \div Pow2[W - i]) % 2
      BY <1>1, <1>5, <1>8, BitsOfType
    <3>2. \A i \in 1 .. W : Pow2[W - i] \in Nat \ {0}
      BY <1>1, PowersOfTwo
    <3>3. \A p \in Nat \ {0} : (0 \div p) % 2 = 0
      OBVIOUS
    <3>. QED BY <3>1, <3>2, <3>3
  <2>2. \A i \in 1 .. W : bx[i] \in {0, 1} /\ by[i] \in {0, 1} /\ (bx[i] + by[i]) % 2 = 0
    BY <1>2, <1>3, <2>1
  <2>3. \A i \in 1 .. W : bx[i] = by[i]
    BY <2>2
  <2>4. bx = by
    BY <1>2, <2>3
  <2>. QED BY <1>2, <2>4
<1>. QED BY <1>1, <1>5, <1>7, <1>8, WordFacts DEF z, WordSet

\* A word that is not 0 lies between the powers its leading zeros give, its
\* trailing zeros divide it, and there is a bit between them.
LEMMA ZerosOf ==
    ASSUME NEW x \in WordSet, x # 0
    PROVE  /\ LeadZeros(x) \in Nat /\ TrailZeros(x) \in Nat
           /\ LeadZeros(x) + TrailZeros(x) <= W - 1
           /\ x < Pow2[W - LeadZeros(x)] /\ x % Pow2[TrailZeros(x)] = 0
<1> DEFINE L == LeadZeros(x)
           T == TrailZeros(x)
<1>1. W \in Nat /\ W >= 2 /\ W - 1 \in Nat /\ x \in Nat /\ x < Pow2[W] /\ x > 0
  BY WordFacts DEF WordSet
<1>0. Pow2[0] = 1 /\ \A n \in Nat : Pow2[n] \in Nat \ {0}
  BY PowersOfTwo
<1>2. L \in 0 .. W - 1 /\ Pow2[W - 1 - L] <= x /\ x < Pow2[W - L]
  <2> DEFINE s == {n \in 1 .. W : x < Pow2[n]}
  <2>1. W \in s
    BY <1>1
  <2>2. PICK n \in s : \A m \in s : n <= m
    <3>1. s \in SUBSET (1 .. W) /\ s # {}
      BY <2>1
    <3> HIDE DEF s
    <3>. QED BY <1>1, <3>1, LeastOf
  <2>3. Pow2[n - 1] <= x
    <3>1. CASE n = 1
      BY <1>1, <1>0, <3>1
    <3>2. CASE n # 1
      <4>1. n - 1 \in 1 .. W /\ ~(n <= n - 1)
        BY <1>1, <2>2, <3>2
      <4>2. ~(x < Pow2[n - 1])
        BY <2>2, <4>1
      <4>. QED BY <1>1, <1>0, <4>1, <4>2
    <3>. QED BY <3>1, <3>2
  <2>4. W - n \in 0 .. W - 1 /\ W - 1 - (W - n) = n - 1 /\ W - (W - n) = n
    BY <1>1, <2>2
  <2>5. \E k \in 0 .. W - 1 : Pow2[W - 1 - k] <= x /\ x < Pow2[W - k]
    BY <2>2, <2>3, <2>4
  <2>. QED BY <2>5 DEF LeadZeros
<1>3. T \in 0 .. W - 1 /\ x % Pow2[T] = 0 /\ x % Pow2[T + 1] # 0
  <2> DEFINE s == {n \in 1 .. W : x % Pow2[n] # 0}
  <2>1. W \in s
    <3>1. \A p \in Nat \ {0} : x < p => x % p = x
      BY <1>1
    <3>2. x % Pow2[W] = x
      BY <1>1, <1>0, <3>1
    <3>. QED BY <1>1, <3>2
  <2>2. PICK n \in s : \A m \in s : n <= m
    <3>1. s \in SUBSET (1 .. W) /\ s # {}
      BY <2>1
    <3> HIDE DEF s
    <3>. QED BY <1>1, <3>1, LeastOf
  <2>3. x % Pow2[n - 1] = 0
    <3>1. CASE n = 1
      <4>1. x % 1 = 0
        BY <1>1
      <4>. QED BY <1>0, <3>1, <4>1
    <3>2. CASE n # 1
      <4>1. n - 1 \in 1 .. W /\ ~(n <= n - 1)
        BY <1>1, <2>2, <3>2
      <4>. QED BY <2>2, <4>1
    <3>. QED BY <3>1, <3>2
  <2>4. n - 1 \in 0 .. W - 1 /\ (n - 1) + 1 = n /\ x % Pow2[n] # 0
    BY <1>1, <2>2
  <2>5. \E k \in 0 .. W - 1 : x % Pow2[k] = 0 /\ x % Pow2[k + 1] # 0
    BY <2>3, <2>4
  <2>. QED BY <2>5 DEF TrailZeros
<1> HIDE DEF L, T
<1>4. T < W - L
  <2>1. SUFFICES ASSUME W - L <= T PROVE FALSE
    BY <1>1, <1>2, <1>3
  <2> DEFINE d == T - (W - L)
             p == Pow2[W - L]
             q == Pow2[T]
  <2>2. d \in Nat /\ W - L \in Nat /\ (W - L) + d = T
    BY <1>1, <1>2, <1>3, <2>1
  <2>3. p <= q /\ q \in Nat \ {0} /\ p \in Nat
    <3>1. Pow2[W - L] <= Pow2[(W - L) + d]
      BY <2>2, PowersMultiply
    <3>. QED BY <1>0, <1>3, <2>2, <3>1
  <2> HIDE DEF p, q
  <2>4. x < p /\ x % q = 0
    BY <1>2, <1>3 DEF p, q
  <2>5. x % q = x
    BY <1>1, <2>3, <2>4
  <2>. QED BY <1>1, <2>4, <2>5
<1>. QED BY <1>1, <1>2, <1>3, <1>4 DEF L, T

-----------------------------------------------------------------------------
(***************************************************************************)
(* Varints.                                                                *)
(***************************************************************************)
Byte == [more : BOOLEAN, bits : Nat]

\* v is written in n bytes of which the last one is not marked.
IsVarint(b, n, v) ==
    /\ b \in Seq(Byte) /\ Len(b) = n /\ n \in 1 .. W /\ v < Pow2[n * VarintBits]
    /\ \A i \in 1 .. n : /\ b[i].more <=> i < n
                         /\ b[i].bits = (v \div Pow2[(i - 1) * VarintBits]) % Pow2[VarintBits]

\* put_varint writes every word.
LEMMA VarintShape ==
    ASSUME NEW v \in WordSet
    PROVE  \E n : IsVarint(Varint(v), n, v)
<1> DEFINE P(k) == v < Pow2[k * VarintBits]
           s == {k \in 1 .. W : P(k)}
           n == CHOOSE k \in 1 .. W : P(k) /\ (k > 1 => v >= Pow2[(k - 1) * VarintBits])
           b == [i \in 1 .. n |-> [more |-> i < n,
                                   bits |-> (v \div Pow2[(i - 1) * VarintBits]) % Pow2[VarintBits]]]
<1>1. W \in Nat /\ W >= 2 /\ VarintBits \in Nat \ {0} /\ v \in Nat /\ v < Pow2[W]
  BY WordFacts, CodecAssumption DEF WordSet
<1>2. \A n1 \in Nat : Pow2[n1] \in Nat \ {0}
  BY PowersOfTwo
<1>3. \A k \in Nat : k * VarintBits \in Nat
  BY <1>1
<1>4. W \in s
  <2> DEFINE d == W * VarintBits - W
  <2>1. d \in Nat /\ W + d = W * VarintBits
    BY <1>1
  <2> HIDE DEF d
  <2>2. Pow2[W] <= Pow2[W * VarintBits]
    BY <1>1, <2>1, PowersMultiply
  <2>. QED BY <1>1, <1>2, <1>3, <2>2
<1>5. n \in 1 .. W /\ P(n)
  <2>1. PICK k \in s : \A m \in s : k <= m
    <3>1. s \in SUBSET (1 .. W) /\ s # {}
      BY <1>4
    <3> HIDE DEF s
    <3>. QED BY <1>1, <3>1, LeastOf
  <2>2. k > 1 => v >= Pow2[(k - 1) * VarintBits]
    <3>1. SUFFICES ASSUME k > 1 PROVE v >= Pow2[(k - 1) * VarintBits]
      OBVIOUS
    <3>2. k - 1 \in 1 .. W /\ ~(k <= k - 1) /\ k - 1 \in Nat
      BY <1>1, <3>1
    <3>3. ~P(k - 1)
      BY <2>1, <3>2
    <3>4. Pow2[(k - 1) * VarintBits] \in Nat
      BY <1>2, <1>3, <3>2
    <3>. QED BY <1>1, <3>3, <3>4
  <2>. QED BY <2>1, <2>2
<1>6. Varint(v) = b
  BY DEF Varint
<1> HIDE DEF n
<1>7. ASSUME NEW i \in 1 .. n PROVE b[i] \in Byte
  <2>1. (i - 1) * VarintBits \in Nat
    BY <1>1, <1>5
  <2>2. Pow2[(i - 1) * VarintBits] \in Nat \ {0} /\ Pow2[VarintBits] \in Nat \ {0}
    BY <1>1, <1>2, <2>1
  <2>3. \A p, q \in Nat \ {0} : (v \div p) % q \in Nat
    BY <1>1
  <2>4. (v \div Pow2[(i - 1) * VarintBits]) % Pow2[VarintBits] \in Nat
    BY <2>2, <2>3
  <2>. QED BY <2>4 DEF Byte
<1>8. b \in Seq(Byte) /\ Len(b) = n
  <2>1. b \in [1 .. n -> Byte]
    BY <1>7
  <2> HIDE DEF b
  <2>. QED BY <1>5, <2>1
<1>9. \A i \in 1 .. n : /\ b[i].more <=> i < n
                        /\ b[i].bits = (v \div Pow2[(i - 1) * VarintBits]) % Pow2[VarintBits]
  OBVIOUS
<1> HIDE DEF b
<1>. QED BY <1>5, <1>6, <1>8, <1>9 DEF IsVarint

\* h[k] is the number that the first k bytes at the places idx give.
ReadTable(h, idx, stream, pos) ==
    /\ h \in [0 .. Len(idx) -> Nat]
    /\ h[0] = 0
    /\ \A k \in 1 .. Len(idx) :
          h[k] = (h[k - 1] + stream[pos + idx[k]].bits * Pow2[(idx[k] - 1) * VarintBits]) % Word

ReadFold(idx, stream, pos) ==
    FoldLeft(LAMBDA v, i : (v + stream[pos + i].bits * Pow2[(i - 1) * VarintBits]) % Word, 0, idx)

\* The fold of GetVarint goes through such a table.
LEMMA ReadFoldTable ==
    ASSUME NEW stream, NEW pos, NEW m \in Nat, NEW idx \in Seq(1 .. m),
           \A i \in 1 .. m : stream[pos + i].bits \in Nat
    PROVE  \E h : ReadTable(h, idx, stream, pos) /\ ReadFold(idx, stream, pos) = h[Len(idx)]
<1> DEFINE n == Len(idx)
           AA == Nat
           Op(s, v) == (s + stream[pos + v].bits * Pow2[(v - 1) * VarintBits]) % Word
           step == [k \in 1 .. n |-> [a \in AA |-> Op(a, idx[k])]]
           body(f) == [s \in SUBSET DOMAIN idx |->
                         IF s = {} THEN 0 ELSE Op(f[s \ {Max(s)}], idx[Max(s)])]
           it == CHOOSE f : f = body(f)
<1>1. n \in Nat /\ DOMAIN idx = 1 .. n /\ \A k \in 1 .. n : idx[k] \in 1 .. m
  OBVIOUS
<1>2. \A k \in 1 .. n, a \in AA : step[k][a] = Op(a, idx[k]) /\ Op(a, idx[k]) \in AA
  <2>1. ASSUME NEW v \in 1 .. m, NEW a \in AA PROVE Op(a, v) \in AA
    <3>1. stream[pos + v].bits \in Nat /\ (v - 1) * VarintBits \in Nat
      BY CodecAssumption
    <3>2. Pow2[(v - 1) * VarintBits] \in Nat
      BY <3>1, PowersOfTwo
    <3>3. \A x, y, z \in Nat : (x + y * z) % Word \in Nat
      <4>1. ASSUME NEW x \in Nat, NEW y \in Nat, NEW z \in Nat PROVE x + y * z \in Nat
        <5> DEFINE t == y * z
        <5>1. y * 0 <= t
          BY ProductGrows
        <5>2. t \in Nat
          BY <5>1
        <5> HIDE DEF t
        <5>. QED BY <5>2
      <4>2. \A t \in Nat : t % Word \in Nat
        BY WordFacts
      <4>. QED BY <4>1, <4>2
    <3>. QED BY <3>1, <3>2, <3>3
  <2> HIDE DEF Op, AA
  <2>. QED BY <1>1, <2>1
<1>3. Steps(step, n, AA) /\ 0 \in AA
  <2>1. 0 \in AA
    OBVIOUS
  <2> HIDE DEF AA
  <2>. QED BY <1>2, <2>1 DEF Steps
<1> HIDE DEF step
<1>4. PICK g : SetTable(g, n, AA, 0, step)
  <2> HIDE DEF n, AA
  <2>. QED BY <1>1, <1>3, SeqFoldExists
<1>5. ReadFold(idx, stream, pos) = it[DOMAIN idx]
  BY Zenon DEF ReadFold, FoldLeft, MapThenFoldSet
<1> HIDE DEF n, AA
<1>6. g = body(g)
  <2>1. ASSUME NEW s \in SUBSET (1 .. n), s # {} PROVE g[s] = Op(g[s \ {Max(s)}], idx[Max(s)])
    <3>1. g[s] = step[Max(s)][g[s \ {Max(s)}]] /\ g[s \ {Max(s)}] \in AA
      BY <1>4, <2>1 DEF SetTable
    <3>2. Max(s) \in 1 .. n
      BY <1>1, <2>1, MaxOf
    <3> HIDE DEF Op
    <3>. QED BY <1>1, <1>2, <3>1, <3>2
  <2> HIDE DEF Op
  <2>. QED BY <1>1, <1>4, <2>1 DEF SetTable
<1>7. it = body(it)
  <2> HIDE DEF body
  <2>. QED BY <1>6
<1> DEFINE h == [k \in 0 .. n |-> it[1 .. k]]
<1> HIDE DEF it
<1>8. h[0] = 0
  BY <1>1, <1>7
<1>9. ASSUME NEW k \in 1 .. n PROVE h[k] = Op(h[k - 1], idx[k])
  <2>1. 1 .. k \in SUBSET (1 .. n) /\ 1 .. k # {} /\ Max(1 .. k) = k /\ (1 .. k) \ {k} = 1 .. k - 1
    BY <1>1, Initial
  <2>2. it[1 .. k] = Op(it[1 .. k - 1], idx[k])
    <3>1. \A s \in SUBSET (1 .. n) : s # {} => it[s] = Op(it[s \ {Max(s)}], idx[Max(s)])
      BY <1>1, <1>7
    <3> HIDE DEF Op, body
    <3>. QED BY <2>1, <3>1
  <2>3. k \in 0 .. n /\ k - 1 \in 0 .. n
    BY <1>1
  <2> HIDE DEF Op
  <2>. QED BY <2>2, <2>3
<1>10. h[n] = it[DOMAIN idx]
  BY <1>1
<1> DEFINE S == {k \in Nat : k <= n => h[k] \in AA}
<1> HIDE DEF h
<1>11. 0 \in S
  BY <1>3, <1>8
<1>12. ASSUME NEW k \in Nat, k \in S PROVE k + 1 \in S
  <2>1. SUFFICES ASSUME k + 1 <= n PROVE h[k + 1] \in AA
    OBVIOUS
  <2>2. k + 1 \in 1 .. n /\ (k + 1) - 1 = k /\ k <= n
    BY <1>1, <2>1
  <2>3. h[k] \in AA /\ h[k + 1] = Op(h[k], idx[k + 1])
    BY <1>9, <1>12, <2>2
  <2> HIDE DEF Op
  <2>. QED BY <1>2, <2>2, <2>3
<1> HIDE DEF S
<1>13. \A k \in Nat : k \in S
  BY <1>11, <1>12, SetInduction
<1>14. h \in [0 .. n -> AA]
  <2>1. \A k \in 0 .. n : h[k] \in AA
    BY <1>1, <1>13 DEF S
  <2>. QED BY <2>1 DEF h
<1>15. ReadTable(h, idx, stream, pos)
  BY <1>8, <1>9, <1>14 DEF ReadTable, n, AA
<1>. QED BY <1>5, <1>10, <1>15 DEF n

\* put_varint and get_varint: a word is read from where it has been written.
LEMMA GetVarintReads ==
    ASSUME NEW A, NEW stream \in Seq(A), NEW pos, NEW v \in WordSet, HoldsAt(stream, pos, Varint(v))
    PROVE  GetVarint(stream, pos) = [val |-> v, pos |-> pos + Len(Varint(v))]
<1> DEFINE b == Varint(v)
           q == Pow2[VarintBits]
<1>1. PICK n : IsVarint(b, n, v)
  BY VarintShape
<1>2. /\ b \in Seq(Byte) /\ Len(b) = n /\ n \in 1 .. W /\ v < Pow2[n * VarintBits]
      /\ \A i \in 1 .. n : /\ b[i].more <=> i < n
                           /\ b[i].bits = (v \div Pow2[(i - 1) * VarintBits]) % q
  BY <1>1 DEF IsVarint
<1>3. /\ pos \in Nat /\ pos + n <= Len(stream) /\ Len(stream) \in Nat
      /\ \A i \in 1 .. n : stream[pos + i] = b[i]
  BY <1>2 DEF HoldsAt
<1>4. v \in Nat /\ v < Word /\ Word \in Nat \ {0} /\ VarintBits \in Nat \ {0} /\ q \in Nat \ {0}
  <2>1. v \in Nat /\ v < Word /\ Word \in Nat \ {0}
    BY WordFacts DEF WordSet
  <2>2. VarintBits \in Nat \ {0}
    BY CodecAssumption
  <2>. QED BY <2>1, <2>2, PowersOfTwo
<1> DEFINE End(k) == ~stream[pos + k].more /\ \A j \in 1 .. k - 1 : stream[pos + j].more
           e == CHOOSE k \in 1 .. Len(stream) - pos : End(k)
<1> HIDE DEF b, q
<1>5. e = n
  <2>1. n \in 1 .. Len(stream) - pos /\ End(n)
    <3>1. n \in 1 .. n /\ n \in 1 .. Len(stream) - pos /\ \A j \in 1 .. n - 1 : j \in 1 .. n /\ j < n
      BY <1>2, <1>3
    <3>2. \A j \in 1 .. n : stream[pos + j].more <=> j < n
      BY <1>2, <1>3
    <3>. QED BY <3>1, <3>2
  <2>2. ASSUME NEW k \in 1 .. Len(stream) - pos, End(k) PROVE k = n
    <3>1. k < n => FALSE
      <4>1. k < n => k \in 1 .. n /\ stream[pos + k].more
        BY <1>2, <1>3
      <4>. QED BY <2>2, <4>1
    <3>2. n < k => FALSE
      <4>1. n < k => n \in 1 .. k - 1
        BY <1>2, <1>3
      <4>. QED BY <2>1, <2>2, <4>1
    <3>. QED BY <1>2, <1>3, <3>1, <3>2
  <2> HIDE DEF End
  <2>3. e \in 1 .. Len(stream) - pos /\ End(e)
    BY <2>1
  <2> HIDE DEF e
  <2>. QED BY <2>2, <2>3
<1> DEFINE idx == [i \in 1 .. n |-> i]
<1>6. idx \in Seq(1 .. n) /\ Len(idx) = n /\ \A k \in 1 .. n : idx[k] = k
  <2>1. n \in Nat /\ idx \in [1 .. n -> 1 .. n]
    BY <1>2
  <2>2. \A k \in 1 .. n : idx[k] = k
    OBVIOUS
  <2> HIDE DEF idx
  <2>. QED BY <2>1, <2>2
<1>7. GetVarint(stream, pos) = [val |-> ReadFold(idx, stream, pos), pos |-> pos + n]
  <2>1. GetVarint(stream, pos) = [val |-> ReadFold([i \in 1 .. e |-> i], stream, pos), pos |-> pos + e]
    BY Zenon DEF GetVarint, ReadFold
  <2> HIDE DEF e
  <2>. QED BY <1>5, <2>1
<1> HIDE DEF idx, e
<1>8. \A i \in 1 .. n : stream[pos + i].bits \in Nat
  <2>1. \A i \in 1 .. n : b[i] \in Byte
    BY <1>2
  <2>. QED BY <1>3, <2>1 DEF Byte
<1>9. PICK h : ReadTable(h, idx, stream, pos) /\ ReadFold(idx, stream, pos) = h[n]
  <2>1. n \in Nat
    BY <1>2
  <2>2. \E h : ReadTable(h, idx, stream, pos) /\ ReadFold(idx, stream, pos) = h[Len(idx)]
    BY <1>6, <1>8, <2>1, ReadFoldTable
  <2>. QED BY <1>6, <2>2
<1> DEFINE S == {k \in Nat : k <= n => h[k] = v % Pow2[k * VarintBits]}
<1>10. 0 \in S
  <2>1. v % 1 = 0 /\ 0 * VarintBits = 0
    BY <1>4
  <2>2. h[0] = v % Pow2[0 * VarintBits]
    BY <1>9, <2>1, PowersOfTwo DEF ReadTable
  <2>. QED BY <2>2
<1>11. ASSUME NEW k \in Nat, k \in S PROVE k + 1 \in S
  <2>1. SUFFICES ASSUME k + 1 <= n PROVE h[k + 1] = v % Pow2[(k + 1) * VarintBits]
    OBVIOUS
  <2>2. k + 1 \in 1 .. n /\ (k + 1) - 1 = k /\ k <= n
    BY <1>2, <2>1
  <2> DEFINE p == Pow2[k * VarintBits]
             u == (v \div p) % q
  <2>3. k * VarintBits \in Nat /\ (k + 1) * VarintBits = k * VarintBits + VarintBits
    BY <1>4
  <2>4. p \in Nat \ {0} /\ Pow2[(k + 1) * VarintBits] = p * q
    BY <1>4, <2>3, PowersOfTwo, PowersMultiply DEF q
  <2>5. stream[pos + idx[k + 1]].bits = u
    BY <1>2, <1>3, <1>6, <2>2
  <2>6. h[k + 1] = (h[k] + u * p) % Word
    BY <1>6, <1>9, <2>2, <2>5 DEF ReadTable
  <2>7. h[k] = v % p
    BY <1>11, <2>2
  <2> HIDE DEF p
  <2>8. v % (p * q) = (v % p) + u * p
    BY <1>4, <2>4, DivisionTwice
  <2>9. v % (p * q) \in Nat /\ v % (p * q) <= v
    <3>1. \A m \in Nat \ {0} : v % m \in Nat /\ v % m <= v
      BY <1>4
    <3>2. p * q \in Nat \ {0}
      BY <1>4, <2>4
    <3>. QED BY <3>1, <3>2
  <2> HIDE DEF u
  <2>10. \A m \in Nat : m <= v => m % Word = m
    BY <1>4
  <2>. QED BY <2>4, <2>6, <2>7, <2>8, <2>9, <2>10
<1>12. n \in S
  <2> HIDE DEF S
  <2>1. \A k \in Nat : k \in S
    BY <1>10, <1>11, SetInduction
  <2>. QED BY <1>2, <2>1
<1>13. v % Pow2[n * VarintBits] = v
  <2>1. n * VarintBits \in Nat
    BY <1>2, <1>4
  <2>2. Pow2[n * VarintBits] \in Nat \ {0}
    BY <2>1, PowersOfTwo
  <2>3. \A m \in Nat \ {0} : v < m => v % m = v
    BY <1>4
  <2>. QED BY <1>2, <2>2, <2>3
<1>14. h[n] = v
  BY <1>2, <1>12, <1>13
<1>. QED BY <1>2, <1>7, <1>9, <1>14 DEF b

\* (u << 1) ^ -(u >> (W - 1)) is undone.
LEMMA ZigZagBack ==
    ASSUME NEW u \in WordSet
    PROVE  ZigZag(u) \in WordSet /\ UnZigZag(ZigZag(u)) = u
<1> DEFINE M == Word
           H == Word \div 2
<1>1. M \in Nat \ {0} /\ M % 2 = 0 /\ u \in 0 .. M - 1
  BY WordFacts DEF WordSet
<1>2. H \in Nat /\ M = 2 * H
  BY <1>1
<1> HIDE DEF M, H
<1>3. CASE u < H
  <2>1. ZigZag(u) = 2 * u
    BY <1>3 DEF ZigZag, H
  <2>2. 2 * u \in 0 .. M - 1 /\ (2 * u) % 2 = 0 /\ (2 * u) \div 2 = u
    BY <1>1, <1>2, <1>3
  <2>. QED BY <2>1, <2>2 DEF UnZigZag, WordSet, M
<1>4. CASE ~(u < H)
  <2> DEFINE z == 2 * (M - u) - 1
  <2>1. ZigZag(u) = z
    BY <1>4 DEF ZigZag, H, M
  <2>2. z \in 0 .. M - 1 /\ z % 2 = 1 /\ z \div 2 = M - u - 1
    <3>1. M - u \in Nat /\ M - u >= 1
      BY <1>1
    <3>2. z = 2 * (M - u - 1) + 1 /\ M - u - 1 \in Nat
      BY <1>1, <3>1
    <3>. QED BY <1>1, <1>2, <1>4, <3>2
  <2> HIDE DEF z
  <2>3. UnZigZag(z) = M - 1 - (z \div 2)
    BY <2>2 DEF UnZigZag, M
  <2>4. UnZigZag(z) = u
    BY <1>1, <2>2, <2>3
  <2>. QED BY <2>1, <2>2, <2>4 DEF WordSet, M
<1>. QED BY <1>3, <1>4

\* A difference modulo the word size is undone.
LEMMA DifferenceBack ==
    ASSUME NEW x \in WordSet, NEW y \in WordSet
    PROVE  (x - y) % Word \in WordSet /\ (y + ((x - y) % Word)) % Word = x
<1> DEFINE M == Word
<1>1. M \in Nat \ {0} /\ x \in 0 .. M - 1 /\ y \in 0 .. M - 1
  BY WordFacts DEF WordSet
<1> HIDE DEF M
<1>2. (x - y) % M \in 0 .. M - 1 /\ (y + ((x - y) % M)) % M = x
  BY <1>1
<1>. QED BY <1>2 DEF WordSet, M

\* The low half of a sign-extended half word is that half word.
LEMMA SignBack ==
    ASSUME NEW v \in 0 .. Half - 1
    PROVE  SignExtend(v) \in WordSet /\ SignExtend(v) % Half = v
<1> DEFINE H == Half
           M == Word
<1>1. H \in Nat \ {0} /\ M = H * H /\ v \in 0 .. H - 1 /\ H >= 2 /\ M \in Nat
  BY WordFacts
<1> HIDE DEF H, M
<1>2. CASE v < H \div 2
  <2>1. v < M /\ v % H = v
    <3>1. H * 1 <= H * H
      BY <1>1
    <3>. QED BY <1>1, <3>1
  <2>. QED BY <1>1, <1>2, <2>1 DEF SignExtend, WordSet, H, M
<1>3. CASE ~(v < H \div 2)
  <2> DEFINE w == M - H + v
  <2>1. SignExtend(v) = w
    BY <1>3 DEF SignExtend, H, M
  <2>2. w = H * (H - 1) + v /\ H - 1 \in Nat
    BY <1>1
  <2>3. w % H = v
    BY <1>1, <2>2
  <2>4. w \in 0 .. M - 1
    <3>1. H * 1 <= H * H
      BY <1>1
    <3>. QED BY <1>1, <3>1
  <2>. QED BY <2>1, <2>3, <2>4 DEF WordSet, H, M
<1>. QED BY <1>2, <1>3

-----------------------------------------------------------------------------
(***************************************************************************)
(* Streams.                                                                *)
(***************************************************************************)
\* h[k] is the stream after k pieces.
Pieces(h, p, n, A) ==
    /\ \A k \in 0 .. n : h[k] \in Seq(A)
    /\ \A k \in 1 .. n : p[k] \in Seq(A) /\ h[k] = h[k - 1] \o p[k]

\* A piece takes its own length.
Follows(h, p, k) == Len(h[k]) = Len(h[k - 1]) + Len(p[k])

\* Each piece stands where the stream ended before it, whatever follows.
LEMMA PiecesStay ==
    ASSUME NEW A, NEW n \in Nat, NEW h, NEW p, Pieces(h, p, n, A), NEW k \in 1 .. n, NEW t \in Seq(A)
    PROVE  /\ HoldsAt(h[n] \o t, Len(h[k - 1]), p[k])
           /\ Follows(h, p, k)
<1> DEFINE S == {j \in Nat : k + j <= n => /\ Len(h[k]) <= Len(h[k + j])
                                           /\ \A i \in 1 .. Len(h[k]) : h[k + j][i] = h[k][i]}
<1>1. 0 \in S
  <2>1. Len(h[k]) \in Nat /\ k + 0 = k
    BY DEF Pieces
  <2>. QED BY <2>1
<1>2. ASSUME NEW j \in Nat, j \in S PROVE j + 1 \in S
  <2> DEFINE a == h[k + j]
             b == p[k + (j + 1)]
             c == h[k + (j + 1)]
             s == h[k]
  <2>1. SUFFICES ASSUME k + (j + 1) <= n
                 PROVE  Len(s) <= Len(c) /\ \A i \in 1 .. Len(s) : c[i] = s[i]
    OBVIOUS
  <2>2. k + (j + 1) \in 1 .. n /\ (k + (j + 1)) - 1 = k + j /\ k + j \in 0 .. n /\ k \in 0 .. n
    BY <2>1
  <2>3. a \in Seq(A) /\ b \in Seq(A) /\ c = a \o b /\ s \in Seq(A)
    BY <2>2 DEF Pieces
  <2>4. Len(s) <= Len(a) /\ \A i \in 1 .. Len(s) : a[i] = s[i]
    BY <1>2, <2>2
  <2> HIDE DEF a, b, c, s
  <2>. QED BY <2>3, <2>4
<1>3. n - k \in S
  <2>1. n - k \in Nat
    OBVIOUS
  <2> HIDE DEF S
  <2>. QED BY <1>1, <1>2, <2>1, SetInduction
<1>4. k + (n - k) = n
  OBVIOUS
<1> DEFINE a == h[k - 1]
           b == p[k]
           c == h[k]
           d == h[n]
<1>5. Len(c) <= Len(d) /\ \A i \in 1 .. Len(c) : d[i] = c[i]
  BY <1>3, <1>4
<1>6. a \in Seq(A) /\ b \in Seq(A) /\ c = a \o b /\ d \in Seq(A)
  <2>1. k - 1 \in 0 .. n /\ k \in 0 .. n /\ n \in 0 .. n
    OBVIOUS
  <2>. QED BY <2>1 DEF Pieces
<1> HIDE DEF a, b, c, d
<1>7. Len(c) = Len(a) + Len(b) /\ \A i \in 1 .. Len(b) : c[Len(a) + i] = b[i]
  BY <1>6
<1>8. Len(d \o t) = Len(d) + Len(t) /\ \A i \in 1 .. Len(c) : (d \o t)[i] = c[i]
  BY <1>5, <1>6
<1>9. \A i \in 1 .. Len(b) : (d \o t)[Len(a) + i] = b[i]
  <2>1. \A i \in 1 .. Len(b) : Len(a) + i \in 1 .. Len(c)
    BY <1>6, <1>7
  <2>. QED BY <1>7, <1>8, <2>1
<1>10. Len(a) \in Nat /\ Len(a) + Len(b) <= Len(d \o t)
  BY <1>5, <1>6, <1>7, <1>8
<1>11. HoldsAt(d \o t, Len(a), b)
  BY <1>9, <1>10 DEF HoldsAt
<1>. QED BY <1>7, <1>11 DEF a, b, c, d, Follows

\* So it does where nothing follows.
LEMMA PiecesAlone ==
    ASSUME NEW A, NEW n \in Nat, NEW h, NEW p, Pieces(h, p, n, A), NEW k \in 1 .. n
    PROVE  /\ HoldsAt(h[n], Len(h[k - 1]), p[k])
           /\ Follows(h, p, k)
<1> DEFINE e == <<>>
<1>1. e \in Seq(A)
  OBVIOUS
<1>2. h[n] \o e = h[n]
  <2>1. h[n] \in Seq(A)
    BY DEF Pieces
  <2> DEFINE d == h[n]
  <2> HIDE DEF d
  <2>2. d \in Seq(A)
    BY <2>1 DEF d
  <2>3. d \o e = d
    BY <2>2
  <2>. QED BY <2>3 DEF d
<1> HIDE DEF e
<1>3. HoldsAt(h[n] \o e, Len(h[k - 1]), p[k]) /\ Follows(h, p, k)
  BY <1>1, PiecesStay
<1>. QED BY <1>2, <1>3

\* The first values of a column.
LEMMA FirstOnes ==
    ASSUME NEW A, NEW V \in Seq(A), NEW m \in 0 .. Len(V)
    PROVE  /\ SubSeq(V, 1, m) \in Seq(A) /\ Len(SubSeq(V, 1, m)) = m
           /\ \A k \in 1 .. m : SubSeq(V, 1, m)[k] = V[k] /\ V[k] \in A
<1>1. m \in Nat /\ m <= Len(V)
  OBVIOUS
<1>. QED BY <1>1

CursorSet == [pos : Nat, prev : WordSet, delta : WordSet, trail : Nat, mean : Nat,
              started : BOOLEAN, val : Nat]

-----------------------------------------------------------------------------
(***************************************************************************)
(* Differences of differences.                                             *)
(***************************************************************************)
DodState == [prev : WordSet, delta : WordSet, out : Seq(Byte)]
DodFirst == [prev |-> 0, delta |-> 0, out |-> <<>>]
DodByte(a, cur) == Varint(ZigZag((((cur - a.prev) % Word) - a.delta) % Word))

\* h[k] is the encoder after k values.
DodTable(h, vals) ==
    /\ h \in [0 .. Len(vals) -> DodState]
    /\ h[0] = DodFirst
    /\ \A k \in 1 .. Len(vals) : h[k] = DodStep(h[k - 1], vals[k])

\* One value encoded.
LEMMA DodStepIs ==
    ASSUME NEW a \in DodState, NEW cur \in WordSet
    PROVE  /\ DodStep(a, cur) \in DodState /\ DodStep(a, cur).prev = cur
           /\ DodStep(a, cur).delta = (cur - a.prev) % Word
           /\ DodByte(a, cur) \in Seq(Byte) /\ DodStep(a, cur).out = a.out \o DodByte(a, cur)
<1> DEFINE delta == (cur - a.prev) % Word
           u == (delta - a.delta) % Word
<1>1. a.prev \in WordSet /\ a.delta \in WordSet /\ a.out \in Seq(Byte)
  BY DEF DodState
<1>2. delta \in WordSet
  BY <1>1, DifferenceBack
<1> HIDE DEF delta
<1>3. u \in WordSet
  BY <1>1, <1>2, DifferenceBack
<1>4. DodStep(a, cur) = [prev |-> cur, delta |-> delta, out |-> a.out \o Varint(ZigZag(u))]
      /\ DodByte(a, cur) = Varint(ZigZag(u))
  BY DEF DodStep, DodByte, delta
<1> HIDE DEF u
<1>5. Varint(ZigZag(u)) \in Seq(Byte)
  BY <1>3, ZigZagBack, VarintShape DEF IsVarint
<1>6. a.out \o Varint(ZigZag(u)) \in Seq(Byte)
  BY <1>1, <1>5
<1>. QED BY <1>2, <1>4, <1>5, <1>6 DEF DodState, delta

\* encode_dod goes through such a table.
LEMMA DodEncodes ==
    ASSUME NEW vals \in Seq(WordSet)
    PROVE  \E h : DodTable(h, vals) /\ EncodeDod(vals) = h[Len(vals)]
<1> DEFINE n == Len(vals)
           AA == DodState
           Op(s, v) == DodStep(s, v)
           step == [k \in 1 .. n |-> [a \in AA |-> Op(a, vals[k])]]
           body(f) == [s \in SUBSET DOMAIN vals |->
                         IF s = {} THEN DodFirst ELSE Op(f[s \ {Max(s)}], vals[Max(s)])]
           it == CHOOSE f : f = body(f)
<1>1. n \in Nat /\ DOMAIN vals = 1 .. n /\ \A k \in 1 .. n : vals[k] \in WordSet
  OBVIOUS
<1>2. \A k \in 1 .. n, a \in AA : step[k][a] = Op(a, vals[k]) /\ Op(a, vals[k]) \in AA
  <2>1. ASSUME NEW v \in WordSet, NEW a \in AA PROVE Op(a, v) \in AA
    BY DodStepIs
  <2> HIDE DEF Op, AA
  <2>. QED BY <1>1, <2>1
<1>3. Steps(step, n, AA) /\ DodFirst \in AA
  <2>1. DodFirst \in AA
    BY WordFacts DEF DodFirst, DodState
  <2> HIDE DEF AA
  <2>. QED BY <1>2, <2>1 DEF Steps
<1> HIDE DEF step
<1>4. PICK g : SetTable(g, n, AA, DodFirst, step)
  <2> HIDE DEF n, AA
  <2>. QED BY <1>1, <1>3, SeqFoldExists
<1>5. EncodeDod(vals) = it[DOMAIN vals]
  BY Zenon DEF EncodeDod, DodFirst, FoldLeft, MapThenFoldSet
<1> HIDE DEF n, AA
<1>6. g = body(g)
  <2>1. ASSUME NEW s \in SUBSET (1 .. n), s # {} PROVE g[s] = Op(g[s \ {Max(s)}], vals[Max(s)])
    <3>1. g[s] = step[Max(s)][g[s \ {Max(s)}]] /\ g[s \ {Max(s)}] \in AA
      BY <1>4, <2>1 DEF SetTable
    <3>2. Max(s) \in 1 .. n
      BY <1>1, <2>1, MaxOf
    <3> HIDE DEF Op
    <3>. QED BY <1>1, <1>2, <3>1, <3>2
  <2> HIDE DEF Op
  <2>. QED BY <1>1, <1>4, <2>1 DEF SetTable
<1>7. it = body(it)
  <2> HIDE DEF body
  <2>. QED BY <1>6
<1> DEFINE h == [k \in 0 .. n |-> it[1 .. k]]
<1> HIDE DEF it
<1>8. h[0] = DodFirst
  BY <1>1, <1>7
<1>9. ASSUME NEW k \in 1 .. n PROVE h[k] = Op(h[k - 1], vals[k])
  <2>1. 1 .. k \in SUBSET (1 .. n) /\ 1 .. k # {} /\ Max(1 .. k) = k /\ (1 .. k) \ {k} = 1 .. k - 1
    BY <1>1, Initial
  <2>2. it[1 .. k] = Op(it[1 .. k - 1], vals[k])
    <3>1. \A s \in SUBSET (1 .. n) : s # {} => it[s] = Op(it[s \ {Max(s)}], vals[Max(s)])
      BY <1>1, <1>7
    <3> HIDE DEF Op, body
    <3>. QED BY <2>1, <3>1
  <2>3. k \in 0 .. n /\ k - 1 \in 0 .. n
    BY <1>1
  <2> HIDE DEF Op
  <2>. QED BY <2>2, <2>3
<1>10. h[n] = it[DOMAIN vals]
  BY <1>1
<1> DEFINE S == {k \in Nat : k <= n => h[k] \in AA}
<1> HIDE DEF h
<1>11. 0 \in S
  BY <1>3, <1>8
<1>12. ASSUME NEW k \in Nat, k \in S PROVE k + 1 \in S
  <2>1. SUFFICES ASSUME k + 1 <= n PROVE h[k + 1] \in AA
    OBVIOUS
  <2>2. k + 1 \in 1 .. n /\ (k + 1) - 1 = k /\ k <= n
    BY <1>1, <2>1
  <2>3. h[k] \in AA /\ h[k + 1] = Op(h[k], vals[k + 1])
    BY <1>9, <1>12, <2>2
  <2> HIDE DEF Op
  <2>. QED BY <1>2, <2>2, <2>3
<1> HIDE DEF S
<1>13. \A k \in Nat : k \in S
  BY <1>11, <1>12, SetInduction
<1>14. h \in [0 .. n -> AA]
  <2>1. \A k \in 0 .. n : h[k] \in AA
    BY <1>1, <1>13 DEF S
  <2>. QED BY <2>1 DEF h
<1>15. DodTable(h, vals)
  BY <1>8, <1>9, <1>14 DEF DodTable, n, AA
<1>. QED BY <1>5, <1>10, <1>15 DEF n

\* The encoder of the first values is the one that encodes all of them, after
\* these.
LEMMA DodPrefix ==
    ASSUME NEW V \in Seq(WordSet), NEW h, DodTable(h, V), NEW m \in 0 .. Len(V)
    PROVE  EncodeDod(SubSeq(V, 1, m)) = h[m]
<1> DEFINE U == SubSeq(V, 1, m)
<1>1. U \in Seq(WordSet) /\ Len(U) = m /\ \A k \in 1 .. m : U[k] = V[k]
  BY FirstOnes
<1>2. m \in Nat /\ m <= Len(V) /\ Len(V) \in Nat
  OBVIOUS
<1> HIDE DEF U
<1>3. PICK g : DodTable(g, U) /\ EncodeDod(U) = g[m]
  BY <1>1, DodEncodes
<1> DEFINE S == {k \in Nat : k <= m => g[k] = h[k]}
<1>4. 0 \in S
  BY <1>3 DEF DodTable
<1>5. ASSUME NEW k \in Nat, k \in S PROVE k + 1 \in S
  <2>1. SUFFICES ASSUME k + 1 <= m PROVE g[k + 1] = h[k + 1]
    OBVIOUS
  <2>2. k + 1 \in 1 .. m /\ k + 1 \in 1 .. Len(V) /\ (k + 1) - 1 = k /\ g[k] = h[k]
    BY <1>2, <1>5, <2>1
  <2>3. g[k + 1] = DodStep(g[k], U[k + 1]) /\ h[k + 1] = DodStep(h[k], V[k + 1])
    BY <1>1, <1>3, <2>2 DEF DodTable
  <2>. QED BY <1>1, <2>2, <2>3
<1>6. m \in S
  <2> HIDE DEF S
  <2>. QED BY <1>2, <1>4, <1>5, SetInduction
<1>. QED BY <1>3, <1>6 DEF U

\* The decoder stands where the encoder stood after the values.
DodIn(c, vals) ==
    c.pos = Len(EncodeDod(vals).out) /\ c.prev = EncodeDod(vals).prev /\ c.delta = EncodeDod(vals).delta

\* decode_int_window gives the next value and stays in step.
LEMMA DodDecodes ==
    ASSUME NEW V \in Seq(WordSet), NEW m \in Nat, m + 1 <= Len(V), NEW c \in CursorSet,
           DodIn(c, SubSeq(V, 1, m)), NEW stream, stream = EncodeDod(V).out
    PROVE  LET d == DecodeDod(stream, c)
           IN  d \in CursorSet /\ DodIn(d, SubSeq(V, 1, m + 1)) /\ d.val = V[m + 1]
<1> DEFINE n == Len(V)
<1>1. PICK h : DodTable(h, V) /\ EncodeDod(V) = h[n]
  BY DodEncodes
<1>2. n \in Nat /\ m \in 0 .. n /\ m + 1 \in 0 .. n /\ m + 1 \in 1 .. n /\ (m + 1) - 1 = m
      /\ V[m + 1] \in WordSet
  OBVIOUS
<1> DEFINE a == h[m]
           b == h[m + 1]
           cur == V[m + 1]
           p == [k \in 1 .. n |-> DodByte(h[k - 1], V[k])]
           outs == [k \in 0 .. n |-> h[k].out]
<1>3. EncodeDod(SubSeq(V, 1, m)) = a /\ EncodeDod(SubSeq(V, 1, m + 1)) = b
  BY <1>1, <1>2, DodPrefix
<1>4. a \in DodState /\ b \in DodState /\ b = DodStep(a, cur)
  BY <1>1, <1>2 DEF DodTable
<1>5. Pieces(outs, p, n, Byte)
  <2>1. \A k \in 0 .. n : h[k] \in DodState
    BY <1>1 DEF DodTable
  <2>2. \A k \in 0 .. n : outs[k] = h[k].out /\ outs[k] \in Seq(Byte)
    BY <2>1 DEF DodState
  <2>3. ASSUME NEW k \in 1 .. n PROVE p[k] \in Seq(Byte) /\ outs[k] = outs[k - 1] \o p[k]
    <3>1. k - 1 \in 0 .. n /\ k \in 0 .. n /\ V[k] \in WordSet
      BY <1>2
    <3>2. h[k - 1] \in DodState /\ h[k] = DodStep(h[k - 1], V[k])
      BY <1>1, <2>1, <3>1 DEF DodTable
    <3>3. p[k] = DodByte(h[k - 1], V[k])
      OBVIOUS
    <3>4. outs[k] = h[k].out /\ outs[k - 1] = h[k - 1].out
      BY <2>2, <3>1
    <3> HIDE DEF p, outs
    <3>5. DodByte(h[k - 1], V[k]) \in Seq(Byte)
          /\ DodStep(h[k - 1], V[k]).out = h[k - 1].out \o DodByte(h[k - 1], V[k])
      BY <3>1, <3>2, DodStepIs
    <3>. QED BY <3>2, <3>3, <3>4, <3>5
  <2> HIDE DEF p, outs
  <2>. QED BY <2>2, <2>3 DEF Pieces
<1>6. outs[m] = a.out /\ outs[m + 1] = b.out /\ outs[n] = h[n].out /\ p[m + 1] = DodByte(a, cur)
  BY <1>2
<1> HIDE DEF a, b, cur, p, outs, n
<1>7. stream = outs[n] /\ stream \in Seq(Byte)
  <2>1. outs[n] \in Seq(Byte)
    BY <1>2, <1>5 DEF Pieces
  <2>2. stream = outs[n]
    BY <1>1, <1>6
  <2>. QED BY <2>1, <2>2
<1>8. HoldsAt(stream, Len(a.out), DodByte(a, cur)) /\ Len(b.out) = Len(a.out) + Len(DodByte(a, cur))
  <2>1. \A k \in 1 .. n : HoldsAt(outs[n], Len(outs[k - 1]), p[k])
                          /\ Follows(outs, p, k)
    <3>1. n \in Nat
      BY <1>2
    <3>. QED BY ONLY <1>5, <3>1, PiecesAlone
  <2>. QED BY <1>2, <1>6, <1>7, <2>1 DEF Follows
<1>9. c.pos = Len(a.out) /\ c.prev = a.prev /\ c.delta = a.delta
  BY <1>3 DEF DodIn
<1> DEFINE delta == (cur - a.prev) % Word
           u == (delta - a.delta) % Word
<1>10. a.prev \in WordSet /\ a.delta \in WordSet /\ cur \in WordSet /\ a.out \in Seq(Byte)
  BY <1>2, <1>4 DEF DodState, cur
<1>11. delta \in WordSet /\ (a.prev + delta) % Word = cur
  BY <1>10, DifferenceBack
<1>12. DodByte(a, cur) = Varint(ZigZag(u))
  BY DEF DodByte
<1>13. b.prev = cur /\ b.delta = delta
  BY <1>4, <1>10, DodStepIs
<1> HIDE DEF delta
<1>14. u \in WordSet /\ (a.delta + u) % Word = delta
  BY <1>10, <1>11, DifferenceBack
<1> HIDE DEF u
<1>15. ZigZag(u) \in WordSet /\ UnZigZag(ZigZag(u)) = u
  BY <1>14, ZigZagBack
<1>16. GetVarint(stream, c.pos) = [val |-> ZigZag(u), pos |-> Len(b.out)]
  BY <1>7, <1>8, <1>9, <1>12, <1>15, GetVarintReads
<1>17. DecodeDod(stream, c) = [c EXCEPT !.pos = Len(b.out), !.delta = delta, !.prev = cur, !.val = cur]
  <2> DEFINE w == GetVarint(stream, c.pos)
             D == (c.delta + UnZigZag(w.val)) % Word
             X == (c.prev + D) % Word
  <2>1. w.val = ZigZag(u) /\ w.pos = Len(b.out)
    BY <1>16
  <2>2. DecodeDod(stream, c) = [c EXCEPT !.pos = w.pos, !.delta = D, !.prev = X, !.val = X]
    BY Zenon DEF DecodeDod
  <2> HIDE DEF w
  <2>3. D = delta
    BY <1>9, <1>14, <1>15, <2>1
  <2>4. X = cur
    BY <1>9, <1>11, <2>3
  <2> HIDE DEF D, X
  <2>. QED BY <2>1, <2>2, <2>3, <2>4
<1>18. Len(b.out) \in Nat /\ cur \in Nat
  BY <1>4, <1>10, LenProperties DEF DodState, WordSet
<1>. QED BY <1>3, <1>10, <1>11, <1>13, <1>17, <1>18 DEF CursorSet, DodIn, cur

-----------------------------------------------------------------------------
(***************************************************************************)
(* Zigzag varints.                                                         *)
(***************************************************************************)
HalfSet == 0 .. Half - 1
ZigByte(v) == Varint(ZigZag(SignExtend(v)))
ZigPieces(vals) == [i \in DOMAIN vals |-> ZigByte(vals[i])]

\* The pieces that are written are sequences of bytes.
LEMMA ZigPiecesType ==
    ASSUME NEW V \in Seq(HalfSet)
    PROVE  /\ ZigPieces(V) \in Seq(Seq(Byte)) /\ Len(ZigPieces(V)) = Len(V)
           /\ \A i \in 1 .. Len(V) : ZigPieces(V)[i] = ZigByte(V[i])
           /\ EncodeZigZag(V) = FlattenSeq(ZigPieces(V))
<1> DEFINE n == Len(V)
           s == ZigPieces(V)
<1>1. n \in Nat /\ DOMAIN V = 1 .. n /\ \A i \in 1 .. n : V[i] \in HalfSet
  OBVIOUS
<1>2. ASSUME NEW i \in 1 .. n PROVE ZigByte(V[i]) \in Seq(Byte)
  <2>1. SignExtend(V[i]) \in WordSet
    BY <1>1, SignBack DEF HalfSet
  <2>2. ZigZag(SignExtend(V[i])) \in WordSet
    BY <2>1, ZigZagBack
  <2>. QED BY <2>2, VarintShape DEF IsVarint, ZigByte
<1>3. EncodeZigZag(V) = FlattenSeq(s)
  BY DEF EncodeZigZag, ZigPieces, ZigByte
<1>4. s \in [1 .. n -> Seq(Byte)] /\ \A i \in 1 .. n : s[i] = ZigByte(V[i])
  BY <1>1, <1>2 DEF ZigPieces
<1> HIDE DEF s
<1>5. \A m \in Nat : \A x : x \in [1 .. m -> Seq(Byte)] => x \in Seq(Seq(Byte)) /\ Len(x) = m
  OBVIOUS
<1>6. s \in Seq(Seq(Byte)) /\ Len(s) = n
  <2> HIDE DEF n
  <2>. QED BY Zenon, <1>1, <1>4, <1>5
<1>. QED BY <1>3, <1>4, <1>6 DEF s

\* One table of streams serves all the first values.
LEMMA ZigPrefix ==
    ASSUME NEW V \in Seq(HalfSet), NEW h, JoinTable(h, ZigPieces(V)), NEW m \in 0 .. Len(V)
    PROVE  EncodeZigZag(SubSeq(V, 1, m)) = h[m]
<1> DEFINE U == SubSeq(V, 1, m)
           s == ZigPieces(U)
<1>1. U \in Seq(HalfSet) /\ Len(U) = m /\ \A k \in 1 .. m : U[k] = V[k]
  BY FirstOnes
<1> HIDE DEF U
<1>2. s \in Seq(Seq(Byte)) /\ Len(s) = m /\ EncodeZigZag(U) = FlattenSeq(s)
      /\ \A i \in 1 .. m : s[i] = ZigByte(U[i])
  BY <1>1, ZigPiecesType
<1>3. Len(ZigPieces(V)) = Len(V) /\ \A i \in 1 .. Len(V) : ZigPieces(V)[i] = ZigByte(V[i])
  BY ZigPiecesType
<1> HIDE DEF s
<1>4. JoinTable(h, s)
  <2>1. ASSUME NEW k \in 1 .. m PROVE h[k] = h[k - 1] \o s[k]
    <3>1. k \in 1 .. Len(V)
      OBVIOUS
    <3>2. h[k] = h[k - 1] \o ZigPieces(V)[k] /\ ZigPieces(V)[k] = ZigByte(V[k])
      BY <1>3, <3>1 DEF JoinTable
    <3>3. s[k] = ZigByte(V[k])
      BY <1>1, <1>2
    <3>. QED BY <3>2, <3>3
  <2>2. h[0] = <<>>
    BY DEF JoinTable
  <2>. QED BY <1>2, <2>1, <2>2 DEF JoinTable
<1>5. FlattenSeq(s) = h[m]
  BY <1>2, <1>4, FlattenIs
<1>. QED BY <1>2, <1>5 DEF U

ZigIn(c, vals) == c.pos = Len(EncodeZigZag(vals))

\* decode_zigzag_window gives the next value and stays in step.
LEMMA ZigDecodes ==
    ASSUME NEW V \in Seq(HalfSet), NEW m \in Nat, m + 1 <= Len(V), NEW c \in CursorSet,
           ZigIn(c, SubSeq(V, 1, m)), NEW stream, stream = EncodeZigZag(V)
    PROVE  LET d == DecodeZigZag(stream, c)
           IN  d \in CursorSet /\ ZigIn(d, SubSeq(V, 1, m + 1)) /\ d.val = V[m + 1]
<1> DEFINE n == Len(V)
           p == ZigPieces(V)
           cur == V[m + 1]
<1>1. n \in Nat /\ m \in 0 .. n /\ m + 1 \in 0 .. n /\ m + 1 \in 1 .. n /\ (m + 1) - 1 = m
      /\ cur \in HalfSet
  OBVIOUS
<1>2. p \in Seq(Seq(Byte)) /\ Len(p) = n /\ p[m + 1] = ZigByte(cur) /\ EncodeZigZag(V) = FlattenSeq(p)
  BY <1>1, ZigPiecesType
<1>3. PICK h : h \in [0 .. n -> Seq(Byte)] /\ JoinTable(h, p) /\ FlattenSeq(p) = h[n]
  BY <1>2, FlattenTable
<1>4. EncodeZigZag(SubSeq(V, 1, m)) = h[m] /\ EncodeZigZag(SubSeq(V, 1, m + 1)) = h[m + 1]
  BY <1>1, <1>3, ZigPrefix
<1> HIDE DEF n, p, cur
<1>5. Pieces(h, p, n, Byte)
  <2>1. \A k \in 0 .. n : h[k] \in Seq(Byte)
    BY <1>3
  <2>2. \A k \in 1 .. n : p[k] \in Seq(Byte)
    BY <1>2
  <2>3. \A k \in 1 .. n : h[k] = h[k - 1] \o p[k]
    BY <1>2, <1>3 DEF JoinTable
  <2>. QED BY <2>1, <2>2, <2>3 DEF Pieces
<1>6. HoldsAt(stream, Len(h[m]), ZigByte(cur)) /\ Len(h[m + 1]) = Len(h[m]) + Len(ZigByte(cur))
  <2>1. \A k \in 1 .. n : HoldsAt(h[n], Len(h[k - 1]), p[k]) /\ Follows(h, p, k)
    <3>1. n \in Nat
      BY <1>1
    <3>. QED BY ONLY <1>5, <3>1, PiecesAlone
  <2>. QED BY <1>1, <1>2, <1>3, <2>1 DEF Follows
<1>7. stream \in Seq(Byte) /\ h[m + 1] \in Seq(Byte)
  BY <1>1, <1>2, <1>3
<1> DEFINE u == SignExtend(cur)
<1>8. u \in WordSet /\ u % Half = cur
  BY <1>1, SignBack DEF HalfSet
<1>9. ZigByte(cur) = Varint(ZigZag(u))
  BY DEF ZigByte
<1> HIDE DEF u
<1>10. ZigZag(u) \in WordSet /\ UnZigZag(ZigZag(u)) = u
  BY <1>8, ZigZagBack
<1>11. c.pos = Len(h[m])
  BY <1>4 DEF ZigIn
<1> DEFINE w == GetVarint(stream, c.pos)
<1>12. w.val = ZigZag(u) /\ w.pos = Len(h[m + 1])
  <2>1. w = [val |-> ZigZag(u), pos |-> c.pos + Len(ZigByte(cur))]
    BY <1>6, <1>7, <1>9, <1>10, <1>11, GetVarintReads
  <2> HIDE DEF w
  <2>. QED BY <1>6, <1>11, <2>1
<1>13. DecodeZigZag(stream, c) = [c EXCEPT !.pos = w.pos, !.val = UnZigZag(w.val) % Half]
  BY Zenon DEF DecodeZigZag
<1> HIDE DEF w
<1>14. UnZigZag(w.val) % Half = cur
  BY <1>8, <1>10, <1>12
<1>15. DecodeZigZag(stream, c) = [c EXCEPT !.pos = Len(h[m + 1]), !.val = cur]
  BY <1>12, <1>13, <1>14
<1>16. Len(h[m + 1]) \in Nat /\ cur \in Nat
  BY <1>1, <1>7, LenProperties DEF HalfSet
<1>. QED BY <1>4, <1>15, <1>16 DEF CursorSet, ZigIn, cur

-----------------------------------------------------------------------------
(***************************************************************************)
(* Gorilla.                                                                *)
(***************************************************************************)
Bit2 == {0, 1}

\* The bits of a word between zeros that are left out are enough to restore it.
LEMMA MeaningfulBits ==
    ASSUME NEW x \in WordSet, x # 0, NEW l \in Nat, NEW t \in Nat,
           l <= LeadZeros(x), t <= TrailZeros(x)
    PROVE  /\ W - l - t \in 1 .. W
           /\ x \div Pow2[t] \in 0 .. Pow2[W - l - t] - 1
           /\ (x \div Pow2[t]) * Pow2[t] = x
<1> DEFINE ll == LeadZeros(x)
           tt == TrailZeros(x)
           m == W - l - t
<1>1. /\ ll \in Nat /\ tt \in Nat /\ ll + tt <= W - 1 /\ x < Pow2[W - ll] /\ x % Pow2[tt] = 0
      /\ W \in Nat /\ x \in Nat
  BY ZerosOf, WordFacts DEF WordSet
<1> HIDE DEF ll, tt
<1>2. l <= ll /\ t <= tt
  BY DEF ll, tt
<1>3. m \in 1 .. W
  BY <1>1, <1>2
<1>4. W - ll \in Nat /\ ll - l \in Nat /\ tt - t \in Nat /\ W - l = (W - ll) + (ll - l)
      /\ W - l = m + t /\ tt = t + (tt - t)
  BY <1>1, <1>2
<1> DEFINE P == Pow2[t]
           M == Pow2[m]
           Q == Pow2[tt - t]
<1>5. P \in Nat \ {0} /\ M \in Nat \ {0} /\ Q \in Nat \ {0}
  BY <1>3, <1>4, PowersOfTwo
<1>6. x < M * P
  <2>1. Pow2[m + t] = M * P
    <3>1. m \in Nat
      BY <1>3
    <3> HIDE DEF m
    <3>. QED BY <3>1, PowersMultiply
  <2>2. Pow2[W - ll] <= Pow2[(W - ll) + (ll - l)]
    BY <1>4, PowersMultiply
  <2>3. Pow2[W - ll] \in Nat /\ Pow2[m + t] \in Nat
    BY <1>3, <1>4, PowersOfTwo
  <2> HIDE DEF M, P, m
  <2> DEFINE z == M * P
  <2> HIDE DEF z
  <2>4. x < z
    BY <1>1, <1>4, <2>1, <2>2, <2>3 DEF z
  <2>. QED BY <2>4 DEF z
<1>7. x % (P * Q) = 0
  <2>1. Pow2[t + (tt - t)] = P * Q
    BY <1>4, PowersMultiply
  <2>. QED BY <1>1, <1>4, <2>1
<1> HIDE DEF P, M, Q, m
<1>8. x % P = 0
  <2> DEFINE k == x \div (P * Q)
             z == Q * k
  <2>1. P * Q \in Nat \ {0}
    BY <1>5
  <2>2. k \in Nat /\ x = (P * Q) * k
    BY <1>1, <1>7, <2>1
  <2> HIDE DEF k
  <2>3. z \in Nat /\ x = P * z
    BY <1>5, <2>2
  <2> HIDE DEF z
  <2>. QED BY <1>5, <2>3
<1> DEFINE y == x \div P
<1>9. y \in Nat /\ y * P = x
  BY <1>1, <1>5, <1>8
<1>10. y < M
  BY <1>1, <1>5, <1>6, <1>8
<1>. QED BY <1>3, <1>5, <1>9, <1>10 DEF P, M, m

\* The encoder after some values: its window, if it has one, is a word wide.
GorillaState ==
    {a \in [prev : WordSet, lead : Nat, trail : Nat, mean : Nat, window : BOOLEAN, out : Seq(Bit2)] :
        a.window => a.lead + a.trail + a.mean = W /\ a.mean >= 1}

\* The encoder before the first value, and after it.
GorillaNone == [prev |-> 0, lead |-> 0, trail |-> 0, mean |-> 0, window |-> FALSE, out |-> <<>>]
GorillaFirst(v) == [prev |-> v, lead |-> 0, trail |-> 0, mean |-> 0, window |-> FALSE, out |-> BitsOf(v, W)]

\* The three ways to write a value.
Inside(a, x) == a.window /\ LeadZeros(x) >= a.lead /\ TrailZeros(x) >= a.trail
InsideBits(a, x) == <<1, 0>> \o BitsOf(x \div Pow2[a.trail], a.mean)
LeadField(x) == IF LeadZeros(x) > Pow2[LeadBits] - 1 THEN Pow2[LeadBits] - 1 ELSE LeadZeros(x)
MeanField(x) == W - LeadField(x) - TrailZeros(x)
WindowBits(x) == <<1, 1>> \o BitsOf(LeadField(x), LeadBits) \o BitsOf(MeanField(x) % Pow2[LengthBits], LengthBits)
                 \o BitsOf(x \div Pow2[TrailZeros(x)], MeanField(x))

GorillaBits(a, cur) ==
    IF Xor(cur, a.prev) = 0 THEN << 0 >>
    ELSE IF Inside(a, Xor(cur, a.prev)) THEN InsideBits(a, Xor(cur, a.prev))
    ELSE WindowBits(Xor(cur, a.prev))

\* The two fields of a new window, and the bits in it.
LEMMA FieldsOf ==
    ASSUME NEW x \in WordSet, x # 0
    PROVE  /\ LeadField(x) \in 0 .. Pow2[LeadBits] - 1 /\ MeanField(x) \in 1 .. W
           /\ LeadField(x) \in Nat /\ TrailZeros(x) \in Nat /\ MeanField(x) \in Nat
           /\ LeadField(x) + TrailZeros(x) + MeanField(x) = W
           /\ MeanField(x) % Pow2[LengthBits] \in 0 .. Pow2[LengthBits] - 1
           /\ LengthOf(MeanField(x) % Pow2[LengthBits]) = MeanField(x)
           /\ x \div Pow2[TrailZeros(x)] \in 0 .. Pow2[MeanField(x)] - 1
           /\ (x \div Pow2[TrailZeros(x)]) * Pow2[TrailZeros(x)] = x
<1> DEFINE l == LeadZeros(x)
           t == TrailZeros(x)
           L == LeadField(x)
           m == MeanField(x)
           q == Pow2[LeadBits]
<1>1. l \in Nat /\ t \in Nat /\ l + t <= W - 1 /\ W \in Nat /\ W >= 2
  BY ZerosOf, WordFacts
<1>2. q \in Nat \ {0} /\ Pow2[LengthBits] = W
  <2>1. LeadBits \in Nat /\ Pow2[LengthBits] = W
    BY CodecAssumption
  <2>. QED BY <2>1, PowersOfTwo
<1>3. L = IF l > q - 1 THEN q - 1 ELSE l
  BY DEF LeadField
<1>4. m = W - L - t
  BY DEF MeanField
<1> HIDE DEF l, q, L, m
<1>5. L \in 0 .. q - 1 /\ L \in Nat /\ L <= l
  BY <1>1, <1>2, <1>3
<1>6. W - L - t \in 1 .. W /\ x \div Pow2[t] \in 0 .. Pow2[W - L - t] - 1 /\ (x \div Pow2[t]) * Pow2[t] = x
  <2>1. L <= LeadZeros(x) /\ t <= TrailZeros(x)
    BY <1>1, <1>5 DEF l
  <2> HIDE DEF t
  <2>. QED BY <1>1, <1>5, <2>1, MeaningfulBits
<1>7. m \in 1 .. W /\ L + t + m = W /\ m \in Nat
  BY <1>1, <1>4, <1>5, <1>6
<1>8. m % W \in 0 .. W - 1 /\ LengthOf(m % W) = m
  <2>1. m % W \in 0 .. W - 1 /\ (m # W => m % W = m) /\ (m = W => m % W = 0)
    BY <1>1, <1>7
  <2>. QED BY <1>1, <1>7, <2>1 DEF LengthOf
<1>. QED BY <1>1, <1>2, <1>4, <1>5, <1>6, <1>7, <1>8 DEF L, m, q

\* A window the bits fall into restores them.
LEMMA InsideOf ==
    ASSUME NEW a \in GorillaState, NEW x \in WordSet, x # 0, Inside(a, x)
    PROVE  /\ x \div Pow2[a.trail] \in 0 .. Pow2[a.mean] - 1
           /\ (x \div Pow2[a.trail]) * Pow2[a.trail] = x
<1>1. a.lead \in Nat /\ a.trail \in Nat /\ a.mean \in Nat /\ a.lead + a.trail + a.mean = W /\ W \in Nat
  BY WordFacts DEF GorillaState, Inside
<1>2. a.lead <= LeadZeros(x) /\ a.trail <= TrailZeros(x)
  BY <1>1, ZerosOf DEF Inside
<1>3. W - a.lead - a.trail = a.mean
  BY <1>1
<1>. QED BY <1>1, <1>2, <1>3, MeaningfulBits

\* Five bit sequences joined one by one.
LEMMA JoinFour ==
    ASSUME NEW A, NEW s \in Seq(A), NEW p \in Seq(A), NEW q \in Seq(A), NEW r \in Seq(A), NEW t \in Seq(A)
    PROVE  Cat(Cat(Cat(Cat(s, p), q), r), t) = Cat(s, Cat(Cat(Cat(p, q), r), t))
<1>1. Cat(p, q) \in Seq(A) /\ Cat(s, p) \in Seq(A)
  BY CatType
<1>2. Cat(Cat(p, q), r) \in Seq(A)
  BY <1>1, CatType
<1>3. Cat(Cat(s, p), q) = Cat(s, Cat(p, q))
  BY CatAssociative
<1>4. Cat(Cat(s, Cat(p, q)), r) = Cat(s, Cat(Cat(p, q), r))
  BY <1>1, CatAssociative
<1>5. Cat(Cat(s, Cat(Cat(p, q), r)), t) = Cat(s, Cat(Cat(Cat(p, q), r), t))
  BY <1>2, CatAssociative
<1>. QED BY <1>3, <1>4, <1>5

\* What is written at a place starts with the first part, and goes on with
\* the second.
LEMMA HoldsParts ==
    ASSUME NEW A, NEW p \in Seq(A), NEW q \in Seq(A), NEW stream, NEW pos, HoldsAt(stream, pos, Cat(p, q))
    PROVE  HoldsAt(stream, pos, p) /\ HoldsAt(stream, pos + Len(p), q)
<1> DEFINE b == Cat(p, q)
<1>1. /\ Len(b) = Len(p) + Len(q) /\ Len(p) \in Nat /\ Len(q) \in Nat
      /\ \A i \in 1 .. Len(p) : b[i] = p[i]
      /\ \A i \in 1 .. Len(q) : b[Len(p) + i] = q[i]
  BY DEF Cat
<1> HIDE DEF b
<1>2. pos \in Nat /\ pos + Len(b) <= Len(stream) /\ \A i \in 1 .. Len(b) : stream[pos + i] = b[i]
  BY DEF HoldsAt, b
<1>3. HoldsAt(stream, pos, p)
  <2>1. \A i \in 1 .. Len(p) : i \in 1 .. Len(b)
    BY <1>1
  <2>2. \A i \in 1 .. Len(p) : stream[pos + i] = p[i]
    BY <1>1, <1>2, <2>1
  <2>3. pos + Len(p) <= pos + Len(b) /\ pos + Len(p) \in Nat /\ pos + Len(b) \in Nat
    BY <1>1, <1>2
  <2>4. pos + Len(p) <= Len(stream)
    BY <1>1, <1>2, <2>3
  <2>. QED BY <1>2, <2>2, <2>4 DEF HoldsAt
<1>4. HoldsAt(stream, pos + Len(p), q)
  <2>1. \A i \in 1 .. Len(q) : Len(p) + i \in 1 .. Len(b) /\ (pos + Len(p)) + i = pos + (Len(p) + i)
    BY <1>1, <1>2
  <2>2. \A i \in 1 .. Len(q) : stream[(pos + Len(p)) + i] = q[i]
    BY <1>1, <1>2, <2>1
  <2>3. pos + Len(p) \in Nat /\ (pos + Len(p)) + Len(q) = pos + Len(b)
    BY <1>1, <1>2
  <2>. QED BY <1>2, <2>2, <2>3 DEF HoldsAt
<1>. QED BY <1>3, <1>4

\* The pieces that a value can be written with are bits.
LEMMA GorillaBitsType ==
    ASSUME NEW a \in GorillaState, NEW x \in WordSet, x # 0
    PROVE  /\ Inside(a, x) => InsideBits(a, x) \in Seq(Bit2)
           /\ WindowBits(x) \in Seq(Bit2)
           /\ <<1, 1>> \in Seq(Bit2) /\ <<1, 0>> \in Seq(Bit2)
           /\ BitsOf(LeadField(x), LeadBits) \in Seq(Bit2)
           /\ BitsOf(MeanField(x) % Pow2[LengthBits], LengthBits) \in Seq(Bit2)
           /\ BitsOf(x \div Pow2[TrailZeros(x)], MeanField(x)) \in Seq(Bit2)
           /\ WindowBits(x) = Cat(Cat(Cat(<<1, 1>>, BitsOf(LeadField(x), LeadBits)),
                                      BitsOf(MeanField(x) % Pow2[LengthBits], LengthBits)),
                                  BitsOf(x \div Pow2[TrailZeros(x)], MeanField(x)))
<1> DEFINE i == <<1, 1>>
           j == <<1, 0>>
           p == BitsOf(LeadField(x), LeadBits)
           q == BitsOf(MeanField(x) % Pow2[LengthBits], LengthBits)
           r == BitsOf(x \div Pow2[TrailZeros(x)], MeanField(x))
           s == BitsOf(x \div Pow2[a.trail], a.mean)
<1>1. i \in Seq(Bit2) /\ j \in Seq(Bit2)
  BY DEF Bit2
<1>2. LeadBits \in Nat /\ LengthBits \in Nat
  BY CodecAssumption
<1>3. /\ LeadField(x) \in Nat /\ MeanField(x) \in Nat
      /\ MeanField(x) % Pow2[LengthBits] \in Nat
      /\ x \div Pow2[TrailZeros(x)] \in Nat
  <2>1. /\ MeanField(x) % Pow2[LengthBits] \in 0 .. Pow2[LengthBits] - 1
        /\ x \div Pow2[TrailZeros(x)] \in 0 .. Pow2[MeanField(x)] - 1
        /\ LeadField(x) \in Nat /\ MeanField(x) \in Nat
    BY FieldsOf
  <2>. QED BY <2>1
<1>4. p \in Seq(Bit2) /\ q \in Seq(Bit2) /\ r \in Seq(Bit2)
  BY <1>2, <1>3, BitsOfType DEF Bit2
<1>5. ASSUME Inside(a, x) PROVE s \in Seq(Bit2)
  <2>1. x \div Pow2[a.trail] \in Nat /\ a.mean \in Nat
    <3>1. x \div Pow2[a.trail] \in 0 .. Pow2[a.mean] - 1
      BY <1>5, InsideOf
    <3>. QED BY <3>1 DEF GorillaState
  <2>. QED BY <2>1, BitsOfType DEF Bit2
<1>6. WindowBits(x) = Cat(Cat(Cat(i, p), q), r)
  BY DEF WindowBits, Cat
<1>7. InsideBits(a, x) = Cat(j, s)
  BY DEF InsideBits, Cat
<1> HIDE DEF i, j, p, q, r, s
<1>8. Cat(Cat(Cat(i, p), q), r) \in Seq(Bit2)
  <2>1. Cat(i, p) \in Seq(Bit2)
    BY <1>1, <1>4, CatType
  <2>2. Cat(Cat(i, p), q) \in Seq(Bit2)
    BY <1>4, <2>1, CatType
  <2>. QED BY <1>4, <2>2, CatType
<1>9. Inside(a, x) => Cat(j, s) \in Seq(Bit2)
  BY <1>1, <1>5, CatType
<1>. QED BY <1>1, <1>4, <1>6, <1>7, <1>8, <1>9 DEF i, j, p, q, r

\* b is the state after one more value cur, whose piece has been written.
Wrote(b, a, cur) ==
    /\ b \in GorillaState /\ b.prev = cur
    /\ GorillaBits(a, cur) \in Seq(Bit2) /\ b.out = Cat(a.out, GorillaBits(a, cur))
    /\ LET x == Xor(cur, a.prev)
       IN  IF x = 0 \/ Inside(a, x) THEN b.trail = a.trail /\ b.mean = a.mean
           ELSE b.trail = TrailZeros(x) /\ b.mean = MeanField(x)

\* encode_gorilla writes one value's piece and keeps the last window it wrote.
LEMMA GorillaStepIs ==
    ASSUME NEW a \in GorillaState, NEW cur \in WordSet
    PROVE  Wrote(GorillaStep(a, cur), a, cur)
<1> DEFINE x == Xor(cur, a.prev)
           b == GorillaStep(a, cur)
<1>1. /\ a.prev \in WordSet /\ a.lead \in Nat /\ a.trail \in Nat /\ a.mean \in Nat
      /\ a.window \in BOOLEAN /\ a.out \in Seq(Bit2)
      /\ a = [prev |-> a.prev, lead |-> a.lead, trail |-> a.trail, mean |-> a.mean,
              window |-> a.window, out |-> a.out]
  BY DEF GorillaState
<1>2. x \in WordSet /\ (x = 0 => cur = a.prev)
  BY <1>1, XorTwice
<1>3. CASE x = 0
  <2>1. GorillaBits(a, cur) = << 0 >>
    BY <1>3 DEF GorillaBits
  <2>2. b = [a EXCEPT !.out = Append(@, 0)]
    BY <1>3 DEF GorillaStep
  <2> DEFINE o == Append(a.out, 0)
  <2>3. o \in Seq(Bit2) /\ o = Cat(a.out, << 0 >>) /\ << 0 >> \in Seq(Bit2)
    BY <1>1 DEF Bit2, Cat
  <2>4. b = [a EXCEPT !.out = o]
    BY <2>2
  <2> HIDE DEF o, x, b
  <2>5. b \in GorillaState /\ b.prev = a.prev /\ b.out = o /\ b.trail = a.trail /\ b.mean = a.mean
    BY <1>1, <2>3, <2>4 DEF GorillaState
  <2>. QED BY <1>2, <1>3, <2>1, <2>3, <2>5 DEF Wrote, x, b
<1>4. CASE x # 0 /\ Inside(a, x)
  <2> DEFINE s == BitsOf(x \div Pow2[a.trail], a.mean)
             o == Cat(a.out, InsideBits(a, x))
  <2>1. GorillaBits(a, cur) = InsideBits(a, x) /\ InsideBits(a, x) \in Seq(Bit2)
    BY <1>2, <1>4, GorillaBitsType DEF GorillaBits
  <2>2. b = [a EXCEPT !.prev = cur, !.out = @ \o <<1, 0>> \o s]
    BY <1>4 DEF GorillaStep, Inside
  <2>3. InsideBits(a, x) = Cat(<<1, 0>>, s) /\ b = [a EXCEPT !.prev = cur, !.out = Cat(Cat(a.out, <<1, 0>>), s)]
    BY <2>2 DEF InsideBits, Cat
  <2>4. Cat(Cat(a.out, <<1, 0>>), s) = o
    <3> DEFINE j == <<1, 0>>
    <3>1. j \in Seq(Bit2) /\ s \in Seq(Bit2)
      <4>1. <<1, 0>> \in Seq(Bit2)
        BY DEF Bit2
      <4>2. x \div Pow2[a.trail] \in Nat
        <5>1. x \div Pow2[a.trail] \in 0 .. Pow2[a.mean] - 1
          BY <1>2, <1>4, InsideOf
        <5>. QED BY <5>1
      <4>. QED BY <1>1, <4>1, <4>2, BitsOfType DEF Bit2
    <3> HIDE DEF s, j
    <3>2. Cat(Cat(a.out, j), s) = Cat(a.out, Cat(j, s))
      BY <1>1, <3>1, CatAssociative
    <3>. QED BY <2>3, <3>2 DEF j
  <2>5. o \in Seq(Bit2)
    BY <1>1, <2>1, CatType
  <2>6. b = [a EXCEPT !.prev = cur, !.out = o]
    BY <2>3, <2>4
  <2> HIDE DEF o, x, b, s
  <2>7. b \in GorillaState /\ b.prev = cur /\ b.out = o /\ b.trail = a.trail /\ b.mean = a.mean
    BY <1>1, <2>5, <2>6 DEF GorillaState
  <2>. QED BY <1>4, <2>1, <2>7 DEF Wrote, x, b, o
<1>5. CASE x # 0 /\ ~Inside(a, x)
  <2> DEFINE p == BitsOf(LeadField(x), LeadBits)
             q == BitsOf(MeanField(x) % Pow2[LengthBits], LengthBits)
             r == BitsOf(x \div Pow2[TrailZeros(x)], MeanField(x))
             i == <<1, 1>>
             o == Cat(a.out, WindowBits(x))
  <2>1. GorillaBits(a, cur) = WindowBits(x)
    BY <1>5 DEF GorillaBits
  <2>2. /\ WindowBits(x) \in Seq(Bit2) /\ i \in Seq(Bit2) /\ p \in Seq(Bit2) /\ q \in Seq(Bit2) /\ r \in Seq(Bit2)
        /\ WindowBits(x) = Cat(Cat(Cat(i, p), q), r)
    BY <1>2, <1>5, GorillaBitsType
  <2>3. b = [prev |-> cur, lead |-> LeadField(x), trail |-> TrailZeros(x), mean |-> MeanField(x), window |-> TRUE,
             out |-> a.out \o i \o p \o q \o r]
    BY Zenon, <1>5 DEF GorillaStep, Inside, LeadField, MeanField
  <2>4. a.out \o i \o p \o q \o r = Cat(Cat(Cat(Cat(a.out, i), p), q), r)
    BY DEF Cat
  <2>5. LeadField(x) \in Nat /\ TrailZeros(x) \in Nat /\ MeanField(x) \in Nat /\ MeanField(x) >= 1
        /\ LeadField(x) + TrailZeros(x) + MeanField(x) = W
    <3>1. MeanField(x) \in 1 .. W
      BY <1>2, <1>5, FieldsOf
    <3>2. LeadField(x) \in Nat /\ TrailZeros(x) \in Nat /\ LeadField(x) + TrailZeros(x) + MeanField(x) = W
      BY <1>2, <1>5, FieldsOf
    <3>. QED BY <3>1, <3>2
  <2> HIDE DEF i, p, q, r, b, x
  <2>6. Cat(Cat(Cat(Cat(a.out, i), p), q), r) = o
    BY <1>1, <2>2, JoinFour
  <2>7. o \in Seq(Bit2)
    BY <1>1, <2>2, CatType
  <2>8. b = [prev |-> cur, lead |-> LeadField(x), trail |-> TrailZeros(x), mean |-> MeanField(x), window |-> TRUE,
             out |-> o]
    BY <2>3, <2>4, <2>6
  <2> HIDE DEF o
  <2>9. b \in GorillaState /\ b.prev = cur /\ b.out = o /\ b.trail = TrailZeros(x) /\ b.mean = MeanField(x)
    BY <2>5, <2>7, <2>8 DEF GorillaState
  <2>. QED BY <1>5, <2>1, <2>2, <2>9 DEF Wrote, x, b, o
<1>. QED BY <1>3, <1>4, <1>5

\* The state after the first value.
LEMMA GorillaFirstType ==
    ASSUME NEW v \in WordSet
    PROVE  /\ GorillaFirst(v) \in GorillaState /\ GorillaFirst(v).prev = v
           /\ GorillaFirst(v).trail = 0 /\ GorillaFirst(v).mean = 0
           /\ GorillaFirst(v).out = BitsOf(v, W) /\ BitsOf(v, W) \in Seq(Bit2) /\ Len(BitsOf(v, W)) = W
<1>1. BitsOf(v, W) \in Seq(Bit2) /\ Len(BitsOf(v, W)) = W
  BY WordFacts, BitsOfType DEF WordSet, Bit2
<1>. QED BY <1>1 DEF GorillaFirst, GorillaState

\* h[k] is the encoder after k values past the first.
RestTable(h, v, rest) ==
    /\ h \in [0 .. Len(rest) -> GorillaState]
    /\ h[0] = GorillaFirst(v)
    /\ \A k \in 1 .. Len(rest) : h[k] = GorillaStep(h[k - 1], rest[k])

\* The fold of encode_gorilla goes through such a table.
LEMMA RestEncodes ==
    ASSUME NEW first \in WordSet, NEW rest \in Seq(WordSet)
    PROVE  \E h : RestTable(h, first, rest) /\ FoldLeft(GorillaStep, GorillaFirst(first), rest) = h[Len(rest)]
<1> DEFINE n == Len(rest)
           AA == GorillaState
           Op(s, v) == GorillaStep(s, v)
           step == [k \in 1 .. n |-> [a \in AA |-> Op(a, rest[k])]]
           body(f) == [s \in SUBSET DOMAIN rest |->
                         IF s = {} THEN GorillaFirst(first) ELSE Op(f[s \ {Max(s)}], rest[Max(s)])]
           it == CHOOSE f : f = body(f)
<1>1. n \in Nat /\ DOMAIN rest = 1 .. n /\ \A k \in 1 .. n : rest[k] \in WordSet
  OBVIOUS
<1>2. \A k \in 1 .. n, a \in AA : step[k][a] = Op(a, rest[k]) /\ Op(a, rest[k]) \in AA
  <2>1. ASSUME NEW v \in WordSet, NEW a \in AA PROVE Op(a, v) \in AA
    BY GorillaStepIs DEF Wrote
  <2> HIDE DEF Op, AA
  <2>. QED BY <1>1, <2>1
<1>3. Steps(step, n, AA) /\ GorillaFirst(first) \in AA
  <2>1. GorillaFirst(first) \in AA
    BY GorillaFirstType
  <2> HIDE DEF AA
  <2>. QED BY <1>2, <2>1 DEF Steps
<1> HIDE DEF step
<1>4. PICK g : SetTable(g, n, AA, GorillaFirst(first), step)
  <2> HIDE DEF n, AA
  <2>. QED BY <1>1, <1>3, SeqFoldExists
<1>5. FoldLeft(GorillaStep, GorillaFirst(first), rest) = it[DOMAIN rest]
  BY Zenon DEF FoldLeft, MapThenFoldSet
<1> HIDE DEF n, AA
<1>6. g = body(g)
  <2>1. ASSUME NEW s \in SUBSET (1 .. n), s # {} PROVE g[s] = Op(g[s \ {Max(s)}], rest[Max(s)])
    <3>1. g[s] = step[Max(s)][g[s \ {Max(s)}]] /\ g[s \ {Max(s)}] \in AA
      BY <1>4, <2>1 DEF SetTable
    <3>2. Max(s) \in 1 .. n
      BY <1>1, <2>1, MaxOf
    <3> HIDE DEF Op
    <3>. QED BY <1>1, <1>2, <3>1, <3>2
  <2> HIDE DEF Op
  <2>. QED BY <1>1, <1>4, <2>1 DEF SetTable
<1>7. it = body(it)
  <2> HIDE DEF body
  <2>. QED BY <1>6
<1> DEFINE h == [k \in 0 .. n |-> it[1 .. k]]
<1> HIDE DEF it
<1>8. h[0] = GorillaFirst(first)
  BY <1>1, <1>7
<1>9. ASSUME NEW k \in 1 .. n PROVE h[k] = Op(h[k - 1], rest[k])
  <2>1. 1 .. k \in SUBSET (1 .. n) /\ 1 .. k # {} /\ Max(1 .. k) = k /\ (1 .. k) \ {k} = 1 .. k - 1
    BY <1>1, Initial
  <2>2. it[1 .. k] = Op(it[1 .. k - 1], rest[k])
    <3>1. \A s \in SUBSET (1 .. n) : s # {} => it[s] = Op(it[s \ {Max(s)}], rest[Max(s)])
      BY <1>1, <1>7
    <3> HIDE DEF Op, body
    <3>. QED BY <2>1, <3>1
  <2>3. k \in 0 .. n /\ k - 1 \in 0 .. n
    BY <1>1
  <2> HIDE DEF Op
  <2>. QED BY <2>2, <2>3
<1>10. h[n] = it[DOMAIN rest]
  BY <1>1
<1> DEFINE S == {k \in Nat : k <= n => h[k] \in AA}
<1> HIDE DEF h
<1>11. 0 \in S
  BY <1>3, <1>8
<1>12. ASSUME NEW k \in Nat, k \in S PROVE k + 1 \in S
  <2>1. SUFFICES ASSUME k + 1 <= n PROVE h[k + 1] \in AA
    OBVIOUS
  <2>2. k + 1 \in 1 .. n /\ (k + 1) - 1 = k /\ k <= n
    BY <1>1, <2>1
  <2>3. h[k] \in AA /\ h[k + 1] = Op(h[k], rest[k + 1])
    BY <1>9, <1>12, <2>2
  <2> HIDE DEF Op
  <2>. QED BY <1>2, <2>2, <2>3
<1> HIDE DEF S
<1>13. \A k \in Nat : k \in S
  BY <1>11, <1>12, SetInduction
<1>14. h \in [0 .. n -> AA]
  <2>1. \A k \in 0 .. n : h[k] \in AA
    BY <1>1, <1>13 DEF S
  <2>. QED BY <2>1 DEF h
<1>15. RestTable(h, first, rest)
  BY <1>8, <1>9, <1>14 DEF RestTable, n, AA
<1>. QED BY <1>5, <1>10, <1>15 DEF n

\* One value encoded, the first as it is, and what is written for it.
GorillaNext(a, k, cur) == IF k = 1 THEN GorillaFirst(cur) ELSE GorillaStep(a, cur)
GorillaPiece(a, k, cur) == IF k = 1 THEN BitsOf(cur, W) ELSE GorillaBits(a, cur)

\* h[k] is the encoder after k values.
GorillaTable(h, vals) ==
    /\ h \in [0 .. Len(vals) -> GorillaState]
    /\ h[0] = GorillaNone
    /\ \A k \in 1 .. Len(vals) : h[k] = GorillaNext(h[k - 1], k, vals[k])

\* encode_gorilla goes through such a table.
LEMMA GorillaEncodes ==
    ASSUME NEW vals \in Seq(WordSet)
    PROVE  \E h : GorillaTable(h, vals) /\ EncodeGorilla(vals) = h[Len(vals)]
<1>1. GorillaNone \in GorillaState
  BY WordFacts DEF GorillaNone, GorillaState
<1>2. CASE vals = <<>>
  <2> DEFINE h == [k \in 0 .. 0 |-> GorillaNone]
  <2>1. Len(vals) = 0 /\ EncodeGorilla(vals) = h[0]
    BY <1>2 DEF EncodeGorilla, GorillaNone
  <2>2. GorillaTable(h, vals)
    BY <1>1, <2>1 DEF GorillaTable
  <2>. QED BY <2>1, <2>2
<1>3. CASE vals # <<>>
  <2> DEFINE n == Len(vals)
             v == vals[1]
             rest == Tail(vals)
  <2>1. n \in Nat /\ n >= 1 /\ v \in WordSet /\ rest \in Seq(WordSet) /\ Len(rest) = n - 1
        /\ \A k \in 1 .. n - 1 : rest[k] = vals[k + 1]
    BY <1>3
  <2>2. EncodeGorilla(vals) = FoldLeft(GorillaStep, GorillaFirst(v), rest)
    BY <1>3 DEF EncodeGorilla, GorillaFirst
  <2> HIDE DEF n, v, rest
  <2>3. PICK g : RestTable(g, v, rest) /\ EncodeGorilla(vals) = g[n - 1]
    BY <2>1, <2>2, RestEncodes
  <2> DEFINE h == [k \in 0 .. n |-> IF k = 0 THEN GorillaNone ELSE g[k - 1]]
  <2>4. /\ g \in [0 .. n - 1 -> GorillaState] /\ g[0] = GorillaFirst(v)
        /\ \A k \in 1 .. n - 1 : g[k] = GorillaStep(g[k - 1], rest[k])
    BY <2>1, <2>3 DEF RestTable
  <2>5. h \in [0 .. n -> GorillaState] /\ h[0] = GorillaNone /\ h[n] = g[n - 1]
    <3>1. \A k \in 0 .. n : k # 0 => k - 1 \in 0 .. n - 1
      BY <2>1
    <3>. QED BY <1>1, <2>1, <2>4, <3>1
  <2>6. ASSUME NEW k \in 1 .. n PROVE h[k] = GorillaNext(h[k - 1], k, vals[k])
    <3>1. k \in 0 .. n /\ k # 0 /\ k - 1 \in 0 .. n
      BY <2>1
    <3>2. CASE k = 1
      <4>1. h[k] = g[0]
        BY <3>1, <3>2
      <4>. QED BY <2>4, <3>2, <4>1 DEF GorillaNext, v
    <3>3. CASE k # 1
      <4>1. k - 1 \in 1 .. n - 1 /\ (k - 1) + 1 = k /\ k - 1 # 0
        BY <2>1, <3>3
      <4>2. h[k] = g[k - 1] /\ h[k - 1] = g[(k - 1) - 1]
        BY <3>1, <4>1
      <4>3. g[k - 1] = GorillaStep(g[(k - 1) - 1], rest[k - 1]) /\ rest[k - 1] = vals[k]
        BY <2>1, <2>4, <4>1
      <4> HIDE DEF h
      <4>. QED BY <3>3, <4>2, <4>3 DEF GorillaNext
    <3>. QED BY <3>2, <3>3
  <2> HIDE DEF h
  <2>7. GorillaTable(h, vals)
    BY <2>5, <2>6 DEF GorillaTable, n
  <2>. QED BY <2>3, <2>5, <2>7 DEF n
<1>. QED BY <1>2, <1>3

\* The encoder of the first values is the one that encodes all of them, after
\* these.
LEMMA GorillaPrefix ==
    ASSUME NEW V \in Seq(WordSet), NEW h, GorillaTable(h, V), NEW m \in 0 .. Len(V)
    PROVE  EncodeGorilla(SubSeq(V, 1, m)) = h[m]
<1> DEFINE U == SubSeq(V, 1, m)
<1>1. U \in Seq(WordSet) /\ Len(U) = m /\ \A k \in 1 .. m : U[k] = V[k]
  BY FirstOnes
<1>2. m \in Nat /\ m <= Len(V) /\ Len(V) \in Nat
  OBVIOUS
<1> HIDE DEF U
<1>3. PICK g : GorillaTable(g, U) /\ EncodeGorilla(U) = g[m]
  BY <1>1, GorillaEncodes
<1> DEFINE S == {k \in Nat : k <= m => g[k] = h[k]}
<1>4. 0 \in S
  BY <1>3 DEF GorillaTable
<1>5. ASSUME NEW k \in Nat, k \in S PROVE k + 1 \in S
  <2>1. SUFFICES ASSUME k + 1 <= m PROVE g[k + 1] = h[k + 1]
    OBVIOUS
  <2>2. k + 1 \in 1 .. m /\ k + 1 \in 1 .. Len(V) /\ (k + 1) - 1 = k /\ g[k] = h[k]
    BY <1>2, <1>5, <2>1
  <2>3. g[k + 1] = GorillaNext(g[k], k + 1, U[k + 1]) /\ h[k + 1] = GorillaNext(h[k], k + 1, V[k + 1])
    BY <1>1, <1>3, <2>2 DEF GorillaTable
  <2>. QED BY <1>1, <2>2, <2>3
<1>6. m \in S
  <2> HIDE DEF S
  <2>. QED BY <1>2, <1>4, <1>5, SetInduction
<1>. QED BY <1>3, <1>6 DEF U

\* The pieces of a table of encoders.
LEMMA GorillaPieces ==
    ASSUME NEW V \in Seq(WordSet), NEW h, GorillaTable(h, V)
    PROVE  Pieces([k \in 0 .. Len(V) |-> h[k].out],
                  [k \in 1 .. Len(V) |-> GorillaPiece(h[k - 1], k, V[k])], Len(V), Bit2)
<1> DEFINE n == Len(V)
           p == [k \in 1 .. n |-> GorillaPiece(h[k - 1], k, V[k])]
           outs == [k \in 0 .. n |-> h[k].out]
<1>1. \A k \in 0 .. n : h[k] \in GorillaState
  BY DEF GorillaTable
<1>2. \A k \in 0 .. n : outs[k] = h[k].out /\ outs[k] \in Seq(Bit2)
  BY <1>1 DEF GorillaState
<1>3. ASSUME NEW k \in 1 .. n PROVE p[k] \in Seq(Bit2) /\ outs[k] = outs[k - 1] \o p[k]
  <2>1. k - 1 \in 0 .. n /\ k \in 0 .. n /\ V[k] \in WordSet /\ n \in Nat
    OBVIOUS
  <2>2. h[k - 1] \in GorillaState /\ h[k] = GorillaNext(h[k - 1], k, V[k])
    BY <1>1, <2>1 DEF GorillaTable
  <2>3. p[k] = GorillaPiece(h[k - 1], k, V[k])
    OBVIOUS
  <2>4. outs[k] = h[k].out /\ outs[k - 1] = h[k - 1].out
    BY <1>2, <2>1
  <2> HIDE DEF p, outs
  <2>5. CASE k = 1
    <3>1. outs[k - 1] = <<>>
      <4>1. k - 1 = 0
        BY <2>5
      <4>2. h[0] = GorillaNone
        BY DEF GorillaTable
      <4>. QED BY <2>4, <4>1, <4>2 DEF GorillaNone
    <3>2. p[k] = BitsOf(V[k], W) /\ h[k] = GorillaFirst(V[k])
      BY <2>2, <2>3, <2>5 DEF GorillaNext, GorillaPiece
    <3>3. h[k].out = BitsOf(V[k], W) /\ BitsOf(V[k], W) \in Seq(Bit2)
      BY <2>1, <3>2, GorillaFirstType
    <3> DEFINE b == BitsOf(V[k], W)
    <3> HIDE DEF b
    <3>4. <<>> \o b = b
      BY <3>3 DEF b
    <3>. QED BY <2>4, <3>1, <3>2, <3>3, <3>4 DEF b
  <2>6. CASE k # 1
    <3>1. p[k] = GorillaBits(h[k - 1], V[k]) /\ h[k] = GorillaStep(h[k - 1], V[k])
      BY <2>2, <2>3, <2>6 DEF GorillaNext, GorillaPiece
    <3>2. GorillaBits(h[k - 1], V[k]) \in Seq(Bit2)
          /\ GorillaStep(h[k - 1], V[k]).out = Cat(h[k - 1].out, GorillaBits(h[k - 1], V[k]))
      BY <2>1, <2>2, GorillaStepIs DEF Wrote
    <3>. QED BY <2>4, <3>1, <3>2 DEF Cat
  <2>. QED BY <2>5, <2>6
<1> HIDE DEF p, outs
<1>4. Pieces(outs, p, n, Bit2)
  BY <1>2, <1>3 DEF Pieces
<1>. QED BY <1>4 DEF outs, p

\* flush() adds bits at the end.
LEMMA FlushAdds ==
    ASSUME NEW s \in Seq(Bit2)
    PROVE  \E t : t \in Seq(Bit2) /\ Flush(s) = s \o t
<1> DEFINE n == (-Len(s)) % 8
           t == [i \in 1 .. n |-> 0]
<1>1. n \in Nat
  OBVIOUS
<1> HIDE DEF n
<1>2. t \in Seq(Bit2)
  BY <1>1 DEF Bit2
<1>3. Flush(s) = s \o t
  BY DEF Flush, n
<1>. QED BY <1>2, <1>3

\* What decode_f64_window has made of the cursor after the value v.
Read(d, pos, trail, mean, v) ==
    /\ d \in CursorSet /\ d.pos = pos /\ d.trail = trail /\ d.mean = mean
    /\ d.prev = v /\ d.val = v /\ d.started

\* A cursor that has moved on to the value v.
LEMMA ReadIs ==
    ASSUME NEW c \in CursorSet, c.started, NEW p \in Nat, NEW t \in Nat, NEW m \in Nat, NEW v \in WordSet, NEW d,
           d = [c EXCEPT !.pos = p, !.trail = t, !.mean = m, !.prev = v, !.val = v]
    PROVE  Read(d, p, t, m, v)
<1>1. v \in Nat
  BY DEF WordSet
<1>2. d \in CursorSet
  BY <1>1 DEF CursorSet
<1>3. d.pos = p /\ d.trail = t /\ d.mean = m /\ d.prev = v /\ d.val = v
  BY DEF CursorSet
<1>4. d.started
  BY DEF CursorSet
<1>. QED BY <1>2, <1>3, <1>4 DEF Read

\* The first value is read raw.
LEMMA ReadRaw ==
    ASSUME NEW c \in CursorSet, ~c.started, NEW stream \in Seq(Bit2), NEW v \in WordSet,
           HoldsAt(stream, c.pos, BitsOf(v, W))
    PROVE  Read(DecodeGorilla(stream, c), c.pos + W, c.trail, c.mean, v)
<1>1. GetBits(stream, c.pos, W) = v /\ W \in Nat /\ v \in Nat
  <2>1. W \in Nat /\ v \in 0 .. Pow2[W] - 1 /\ v \in Nat
    BY WordFacts DEF WordSet
  <2>. QED BY <2>1, GetBitsReads
<1> DEFINE g == GetBits(stream, c.pos, W)
<1>2. DecodeGorilla(stream, c) = [c EXCEPT !.started = TRUE, !.pos = @ + W, !.prev = g, !.val = g]
  BY DEF DecodeGorilla
<1> HIDE DEF g
<1>3. g = v
  BY <1>1 DEF g
<1> DEFINE d == DecodeGorilla(stream, c)
<1>4. d = [c EXCEPT !.started = TRUE, !.pos = @ + W, !.prev = v, !.val = v]
  BY <1>2, <1>3
<1> HIDE DEF d
<1>5. d \in CursorSet
  <2>1. c.pos + W \in Nat
    BY <1>1 DEF CursorSet
  <2> DEFINE P == c.pos + W
  <2>2. d = [c EXCEPT !.started = TRUE, !.pos = P, !.prev = v, !.val = v]
    BY <1>4
  <2> HIDE DEF P
  <2>. QED BY <1>1, <2>1, <2>2 DEF CursorSet, P
<1>6. d.pos = c.pos + W /\ d.trail = c.trail /\ d.mean = c.mean /\ d.prev = v /\ d.val = v
  BY <1>4 DEF CursorSet
<1>7. d.started
  BY <1>4 DEF CursorSet
<1>. QED BY <1>5, <1>6, <1>7 DEF Read, d

\* A single 0 repeats the last value.
LEMMA ReadSame ==
    ASSUME NEW c \in CursorSet, c.started, NEW stream \in Seq(Bit2), HoldsAt(stream, c.pos, << 0 >>)
    PROVE  Read(DecodeGorilla(stream, c), c.pos + 1, c.trail, c.mean, c.prev)
<1>1. stream[c.pos + 1] = 0
  BY DEF HoldsAt
<1>2. DecodeGorilla(stream, c) = [c EXCEPT !.pos = @ + 1, !.val = c.prev]
  BY <1>1 DEF DecodeGorilla
<1> DEFINE d == DecodeGorilla(stream, c)
<1>3. d = [c EXCEPT !.pos = c.pos + 1, !.trail = c.trail, !.mean = c.mean, !.prev = c.prev, !.val = c.prev]
  BY <1>2 DEF CursorSet
<1>4. c.pos + 1 \in Nat /\ c.trail \in Nat /\ c.mean \in Nat /\ c.prev \in WordSet
  BY DEF CursorSet
<1> HIDE DEF d
<1>. QED BY <1>3, <1>4, ReadIs DEF d

\* 10 and the bits of the last window.
LEMMA ReadInside ==
    ASSUME NEW c \in CursorSet, c.started, NEW stream \in Seq(Bit2), NEW a \in GorillaState,
           NEW x \in WordSet, x # 0, Inside(a, x), c.mean = a.mean, c.trail = a.trail,
           HoldsAt(stream, c.pos, InsideBits(a, x)), Xor(c.prev, x) \in WordSet
    PROVE  Read(DecodeGorilla(stream, c), c.pos + Len(InsideBits(a, x)), c.trail, c.mean, Xor(c.prev, x))
<1> DEFINE y == x \div Pow2[a.trail]
           j == <<1, 0>>
           s == BitsOf(y, a.mean)
<1>1. y \in 0 .. Pow2[a.mean] - 1 /\ y * Pow2[a.trail] = x /\ a.mean \in Nat /\ y \in Nat
  <2>1. y \in 0 .. Pow2[a.mean] - 1 /\ y * Pow2[a.trail] = x
    BY InsideOf
  <2>2. a.mean \in Nat
    BY DEF GorillaState
  <2>. QED BY <2>1, <2>2
<1> HIDE DEF y
<1>2. s \in Seq(Bit2) /\ Len(s) = a.mean
  BY <1>1, BitsOfType DEF Bit2
<1>3. j \in Seq(Bit2)
  BY DEF Bit2
<1>30. Len(j) = 2 /\ j[1] = 1 /\ j[2] = 0
  OBVIOUS
<1>4. InsideBits(a, x) = Cat(j, s)
  BY DEF InsideBits, Cat, y
<1> HIDE DEF j, s
<1>5. Len(Cat(j, s)) = 2 + a.mean /\ HoldsAt(stream, c.pos, j) /\ HoldsAt(stream, c.pos + 2, s)
  <2>0. s \in Seq(Bit2)
    BY <1>2
  <2>1. Cat(j, s) \in Seq(Bit2) /\ Len(Cat(j, s)) = Len(j) + Len(s)
    BY ONLY <1>3, <2>0, CatType
  <2>2. HoldsAt(stream, c.pos, Cat(j, s))
    BY <1>4
  <2>3. HoldsAt(stream, c.pos, j) /\ HoldsAt(stream, c.pos + Len(j), s)
    BY <1>2, <1>3, <2>2, HoldsParts
  <2>. QED BY <1>2, <1>30, <2>1, <2>3
<1>6. stream[c.pos + 1] = 1 /\ stream[c.pos + 2] = 0
  BY <1>30, <1>5 DEF HoldsAt
<1>7. GetBits(stream, c.pos + 2, a.mean) = y
  BY <1>1, <1>5, GetBitsReads DEF s
<1> DEFINE z == GetBits(stream, c.pos + 2, c.mean) * Pow2[c.trail]
           X == Xor(c.prev, z)
<1>8. z = x
  BY <1>1, <1>7
<1>9. DecodeGorilla(stream, c) = [[c EXCEPT !.pos = @ + 2 + c.mean] EXCEPT !.prev = X, !.val = X]
  BY <1>6 DEF DecodeGorilla
<1> HIDE DEF z
<1>10. X = Xor(c.prev, x)
  BY <1>8
<1> HIDE DEF X
<1>11. c.pos + 2 + c.mean = c.pos + Len(InsideBits(a, x)) /\ c.pos \in Nat /\ c.mean \in Nat
  BY <1>1, <1>4, <1>5 DEF CursorSet
<1> DEFINE d == DecodeGorilla(stream, c)
           P == c.pos + Len(InsideBits(a, x))
<1>12. d = [c EXCEPT !.pos = P, !.trail = c.trail, !.mean = c.mean, !.prev = X, !.val = X]
  BY <1>9, <1>11 DEF CursorSet
<1>13. P \in Nat /\ c.trail \in Nat /\ c.mean \in Nat /\ X \in WordSet
  BY <1>10, <1>11 DEF CursorSet
<1> HIDE DEF d, P
<1>. QED BY <1>10, <1>12, <1>13, ReadIs DEF d, P

\* 11, a window and the bits in it.
LEMMA ReadWindow ==
    ASSUME NEW c \in CursorSet, c.started, NEW stream \in Seq(Bit2), NEW x \in WordSet, x # 0,
           HoldsAt(stream, c.pos, WindowBits(x)), Xor(c.prev, x) \in WordSet
    PROVE  Read(DecodeGorilla(stream, c), c.pos + Len(WindowBits(x)), TrailZeros(x), MeanField(x), Xor(c.prev, x))
<1> DEFINE L == LeadField(x)
           t == TrailZeros(x)
           m == MeanField(x)
           f == m % Pow2[LengthBits]
           y == x \div Pow2[t]
           i == <<1, 1>>
           p == BitsOf(L, LeadBits)
           q == BitsOf(f, LengthBits)
           r == BitsOf(y, m)
<1>1. /\ L \in 0 .. Pow2[LeadBits] - 1 /\ L \in Nat /\ t \in Nat /\ m \in Nat /\ L + t + m = W
      /\ f \in 0 .. Pow2[LengthBits] - 1 /\ LengthOf(f) = m
      /\ y \in 0 .. Pow2[m] - 1 /\ y * Pow2[t] = x
  BY FieldsOf
<1>2. LeadBits \in Nat /\ LengthBits \in Nat /\ W \in Nat /\ c.pos \in Nat
  BY CodecAssumption DEF CursorSet
<1>3. WindowBits(x) = Cat(Cat(Cat(i, p), q), r)
  BY DEF WindowBits, Cat
<1> HIDE DEF L, t, m, f, y
<1>4. f \in Nat /\ y \in Nat
  BY <1>1
<1>5. p \in Seq(Bit2) /\ Len(p) = LeadBits /\ q \in Seq(Bit2) /\ Len(q) = LengthBits
      /\ r \in Seq(Bit2) /\ Len(r) = m
  BY <1>1, <1>2, <1>4, BitsOfType DEF Bit2
<1>6. i \in Seq(Bit2)
  BY DEF Bit2
<1>60. Len(i) = 2 /\ i[1] = 1 /\ i[2] = 1
  OBVIOUS
<1> HIDE DEF i, p, q, r
<1>7. Cat(i, p) \in Seq(Bit2) /\ Len(Cat(i, p)) = 2 + LeadBits
  <2>1. Cat(i, p) \in Seq(Bit2) /\ Len(Cat(i, p)) = Len(i) + Len(p)
    BY <1>5, <1>6, CatType
  <2>. QED BY <1>5, <1>60, <2>1
<1>8. Cat(Cat(i, p), q) \in Seq(Bit2) /\ Len(Cat(Cat(i, p), q)) = 2 + LeadBits + LengthBits
  BY <1>5, <1>7, CatType
<1>9. Len(WindowBits(x)) = 2 + LeadBits + LengthBits + m
  BY <1>3, <1>5, <1>8, CatType
<1> DEFINE at == c.pos + 2 + LeadBits + LengthBits
<1>10. HoldsAt(stream, at, r) /\ HoldsAt(stream, c.pos, Cat(Cat(i, p), q))
  <2>1. HoldsAt(stream, c.pos, Cat(Cat(i, p), q))
        /\ HoldsAt(stream, c.pos + Len(Cat(Cat(i, p), q)), r)
    BY <1>3, <1>5, <1>8, HoldsParts
  <2>2. c.pos + Len(Cat(Cat(i, p), q)) = at
    BY <1>2, <1>8
  <2>. QED BY <2>1, <2>2
<1>11. HoldsAt(stream, c.pos + 2 + LeadBits, q) /\ HoldsAt(stream, c.pos, Cat(i, p))
  <2>1. HoldsAt(stream, c.pos, Cat(i, p)) /\ HoldsAt(stream, c.pos + Len(Cat(i, p)), q)
    BY <1>5, <1>7, <1>10, HoldsParts
  <2>2. c.pos + Len(Cat(i, p)) = c.pos + 2 + LeadBits
    BY <1>2, <1>7
  <2>. QED BY <2>1, <2>2
<1>12. HoldsAt(stream, c.pos + 2, p) /\ HoldsAt(stream, c.pos, i)
  BY <1>5, <1>6, <1>60, <1>11, HoldsParts
<1>13. stream[c.pos + 1] = 1 /\ stream[c.pos + 2] = 1
  BY <1>60, <1>12 DEF HoldsAt
<1>14. GetBits(stream, c.pos + 2, LeadBits) = L
  BY <1>1, <1>2, <1>12, GetBitsReads DEF p
<1>15. GetBits(stream, c.pos + 2 + LeadBits, LengthBits) = f
  BY <1>1, <1>2, <1>11, GetBitsReads DEF q
<1>16. GetBits(stream, at, m) = y
  BY <1>1, <1>10, GetBitsReads DEF r
<1> HIDE DEF at
<1> DEFINE M == LengthOf(GetBits(stream, c.pos + 2 + LeadBits, LengthBits))
           T == W - GetBits(stream, c.pos + 2, LeadBits) - M
           z == GetBits(stream, at, M) * Pow2[T]
           X == Xor(c.prev, z)
<1>17. DecodeGorilla(stream, c) = [[c EXCEPT !.pos = at + M, !.trail = T, !.mean = M] EXCEPT !.prev = X, !.val = X]
  BY <1>13 DEF DecodeGorilla, at
<1>18. M = m
  BY <1>1, <1>15
<1> HIDE DEF M
<1>19. T = t
  <2>1. L \in Nat /\ t \in Nat /\ m \in Nat /\ L + t + m = W
    BY <1>1
  <2>2. T = W - L - m
    BY <1>14, <1>18
  <2> HIDE DEF T
  <2>. QED BY <1>2, <2>1, <2>2
<1> HIDE DEF T
<1>20. z = x
  BY <1>1, <1>16, <1>18, <1>19
<1> HIDE DEF z
<1>21. X = Xor(c.prev, x)
  BY <1>20
<1> HIDE DEF X
<1>22. at + M = c.pos + Len(WindowBits(x)) /\ at + M \in Nat
  <2>1. m \in Nat
    BY <1>1
  <2>2. at = c.pos + 2 + LeadBits + LengthBits
    BY DEF at
  <2> DEFINE n == Len(WindowBits(x))
  <2>3. n = 2 + LeadBits + LengthBits + m
    BY <1>9
  <2> HIDE DEF n
  <2>4. at + M = c.pos + n /\ at + M \in Nat
    BY <1>2, <1>18, <2>1, <2>2, <2>3
  <2>. QED BY <2>4 DEF n
<1> DEFINE d == DecodeGorilla(stream, c)
           P == c.pos + Len(WindowBits(x))
<1>23. d = [c EXCEPT !.pos = P, !.trail = t, !.mean = m, !.prev = X, !.val = X]
  <2>1. d = [[c EXCEPT !.pos = at + M, !.trail = T, !.mean = M] EXCEPT !.prev = X, !.val = X]
    BY <1>17
  <2>2. at + M = P
    BY <1>22
  <2> HIDE DEF d, P, t, m
  <2>3. d = [[c EXCEPT !.pos = P, !.trail = t, !.mean = m] EXCEPT !.prev = X, !.val = X]
    BY ONLY <2>1, <2>2, <1>18, <1>19
  <2>. QED BY <2>3 DEF CursorSet
<1>24. P \in Nat /\ t \in Nat /\ m \in Nat /\ X \in WordSet
  BY <1>1, <1>21, <1>22
<1> HIDE DEF d, P
<1>25. Read(d, P, t, m, X)
  BY <1>23, <1>24, ReadIs
<1>. QED BY <1>21, <1>25 DEF d, P, t, m

GorillaIn(c, vals) ==
    /\ c.pos = Len(EncodeGorilla(vals).out) /\ c.prev = EncodeGorilla(vals).prev
    /\ c.mean = EncodeGorilla(vals).mean /\ c.trail = EncodeGorilla(vals).trail
    /\ c.started = (vals # <<>>)

\* The cursor after one more value stands where the encoder does.
LEMMA GorillaReads ==
    ASSUME NEW a \in GorillaState, NEW cur \in WordSet, NEW c \in CursorSet, c.started,
           c.pos = Len(a.out), c.prev = a.prev, c.mean = a.mean, c.trail = a.trail,
           NEW stream \in Seq(Bit2), HoldsAt(stream, c.pos, GorillaBits(a, cur))
    PROVE  Read(DecodeGorilla(stream, c), Len(a.out) + Len(GorillaBits(a, cur)),
                GorillaStep(a, cur).trail, GorillaStep(a, cur).mean, cur)
<1> DEFINE x == Xor(cur, a.prev)
           b == GorillaStep(a, cur)
<1>1. a.prev \in WordSet
  BY DEF GorillaState
<1>2. x \in WordSet /\ Xor(a.prev, x) = cur /\ (x = 0 => cur = a.prev)
  BY <1>1, XorTwice
<1>3. IF x = 0 \/ Inside(a, x) THEN b.trail = a.trail /\ b.mean = a.mean
      ELSE b.trail = TrailZeros(x) /\ b.mean = MeanField(x)
  BY GorillaStepIs DEF Wrote
<1>4. GorillaBits(a, cur) = IF x = 0 THEN << 0 >> ELSE IF Inside(a, x) THEN InsideBits(a, x) ELSE WindowBits(x)
  BY DEF GorillaBits
<1> HIDE DEF x, b
<1>5. CASE x = 0
  <2>1. GorillaBits(a, cur) = << 0 >> /\ cur = a.prev
    BY <1>2, <1>4, <1>5
  <2>2. HoldsAt(stream, c.pos, << 0 >>)
    BY <2>1
  <2>3. Read(DecodeGorilla(stream, c), c.pos + 1, c.trail, c.mean, c.prev)
    BY <2>2, ReadSame
  <2>4. Len(<< 0 >>) = 1
    OBVIOUS
  <2>. QED BY <1>3, <1>5, <2>1, <2>3, <2>4 DEF b
<1>6. CASE x # 0 /\ Inside(a, x)
  <2>1. GorillaBits(a, cur) = InsideBits(a, x)
    BY <1>4, <1>6
  <2>2. Read(DecodeGorilla(stream, c), c.pos + Len(InsideBits(a, x)), c.trail, c.mean, Xor(c.prev, x))
    <3>1. HoldsAt(stream, c.pos, InsideBits(a, x)) /\ Xor(c.prev, x) \in WordSet
      BY <1>2, <2>1
    <3>. QED BY <1>2, <1>6, <3>1, ReadInside
  <2>. QED BY <1>2, <1>3, <1>6, <2>1, <2>2 DEF b
<1>7. CASE x # 0 /\ ~Inside(a, x)
  <2>1. GorillaBits(a, cur) = WindowBits(x)
    BY <1>4, <1>7
  <2>2. Read(DecodeGorilla(stream, c), c.pos + Len(WindowBits(x)), TrailZeros(x), MeanField(x), Xor(c.prev, x))
    <3>1. HoldsAt(stream, c.pos, WindowBits(x)) /\ Xor(c.prev, x) \in WordSet
      BY <1>2, <2>1
    <3>. QED BY <1>2, <1>7, <3>1, ReadWindow
  <2>. QED BY <1>2, <1>3, <1>7, <2>1, <2>2 DEF b
<1>. QED BY <1>5, <1>6, <1>7

\* decode_f64_window gives the next value and stays in step.
LEMMA GorillaDecodes ==
    ASSUME NEW V \in Seq(WordSet), NEW m \in Nat, m + 1 <= Len(V), NEW c \in CursorSet,
           GorillaIn(c, SubSeq(V, 1, m)), NEW stream, stream = Flush(EncodeGorilla(V).out)
    PROVE  LET d == DecodeGorilla(stream, c)
           IN  d \in CursorSet /\ GorillaIn(d, SubSeq(V, 1, m + 1)) /\ d.val = V[m + 1]
<1> DEFINE n == Len(V)
           cur == V[m + 1]
           d == DecodeGorilla(stream, c)
<1>1. PICK h : GorillaTable(h, V) /\ EncodeGorilla(V) = h[n]
  BY GorillaEncodes
<1>2. n \in Nat /\ m \in 0 .. n /\ m + 1 \in 0 .. n /\ m + 1 \in 1 .. n /\ (m + 1) - 1 = m
      /\ cur \in WordSet
  OBVIOUS
<1> DEFINE a == h[m]
           b == h[m + 1]
           p == [k \in 1 .. n |-> GorillaPiece(h[k - 1], k, V[k])]
           outs == [k \in 0 .. n |-> h[k].out]
<1>3. EncodeGorilla(SubSeq(V, 1, m)) = a /\ EncodeGorilla(SubSeq(V, 1, m + 1)) = b
  BY <1>1, <1>2, GorillaPrefix
<1>4. a \in GorillaState /\ b \in GorillaState /\ b = GorillaNext(a, m + 1, cur) /\ h[n] \in GorillaState
      /\ h[0] = GorillaNone
  <2>1. h \in [0 .. n -> GorillaState] /\ h[0] = GorillaNone
        /\ \A k \in 1 .. n : h[k] = GorillaNext(h[k - 1], k, V[k])
    BY <1>1 DEF GorillaTable
  <2>2. n \in 0 .. n
    BY <1>2
  <2>. QED BY <1>2, <2>1, <2>2
<1>5. Pieces(outs, p, n, Bit2)
  BY <1>1, GorillaPieces
<1>6. outs[m] = a.out /\ outs[m + 1] = b.out /\ outs[n] = h[n].out /\ p[m + 1] = GorillaPiece(a, m + 1, cur)
  BY <1>2
<1>7. (SubSeq(V, 1, m) # <<>>) <=> m # 0
  BY <1>2
<1>8. SubSeq(V, 1, m + 1) # <<>>
  BY <1>2
<1>9. /\ c.pos = Len(a.out) /\ c.prev = a.prev /\ c.mean = a.mean /\ c.trail = a.trail
      /\ c.started <=> m # 0
  BY <1>3, <1>7 DEF GorillaIn
<1> HIDE DEF a, b, cur, p, outs, n
<1>10. PICK t : t \in Seq(Bit2) /\ stream = outs[n] \o t
  <2>1. h[n].out \in Seq(Bit2)
    BY <1>4 DEF GorillaState
  <2>2. stream = Flush(h[n].out)
    BY <1>1
  <2>. QED BY <1>6, <2>1, <2>2, FlushAdds
<1>11. stream \in Seq(Bit2)
  <2>1. outs[n] \in Seq(Bit2)
    BY <1>2, <1>5 DEF Pieces
  <2>. QED BY <1>10, <2>1
<1>12. HoldsAt(stream, c.pos, GorillaPiece(a, m + 1, cur))
       /\ Len(b.out) = Len(a.out) + Len(GorillaPiece(a, m + 1, cur))
  <2>1. \A k \in 1 .. n : HoldsAt(outs[n] \o t, Len(outs[k - 1]), p[k]) /\ Follows(outs, p, k)
    <3>1. n \in Nat
      BY <1>2
    <3>. QED BY ONLY <1>5, <1>10, <3>1, PiecesStay
  <2>2. HoldsAt(outs[n] \o t, Len(outs[m]), p[m + 1]) /\ Len(outs[m + 1]) = Len(outs[m]) + Len(p[m + 1])
    BY <1>2, <2>1 DEF Follows
  <2>. QED BY <1>6, <1>9, <1>10, <2>2
<1>13. Read(d, Len(b.out), b.trail, b.mean, cur) /\ b.prev = cur
  <2>1. CASE m = 0
    <3>1. GorillaPiece(a, m + 1, cur) = BitsOf(cur, W) /\ b = GorillaFirst(cur)
      BY <1>4, <2>1 DEF GorillaPiece, GorillaNext
    <3>2. /\ b.prev = cur /\ b.trail = 0 /\ b.mean = 0 /\ Len(BitsOf(cur, W)) = W
      BY <1>2, <3>1, GorillaFirstType
    <3>3. a.trail = 0 /\ a.mean = 0 /\ a.out = <<>>
      BY <1>4, <2>1 DEF GorillaNone, a
    <3>4. Read(d, c.pos + W, c.trail, c.mean, cur)
      BY <1>2, <1>9, <1>11, <1>12, <2>1, <3>1, ReadRaw
    <3>5. c.pos + W = Len(b.out)
      BY <1>9, <1>12, <3>1, <3>2
    <3> HIDE DEF d
    <3>. QED BY <1>9, <3>2, <3>3, <3>4, <3>5
  <2>2. CASE m # 0
    <3>1. GorillaPiece(a, m + 1, cur) = GorillaBits(a, cur) /\ b = GorillaStep(a, cur)
      <4>1. m + 1 # 1
        BY <1>2, <2>2
      <4>. QED BY <1>4, <4>1 DEF GorillaPiece, GorillaNext
    <3>2. b.prev = cur
      <4>1. Wrote(GorillaStep(a, cur), a, cur)
        BY <1>2, <1>4, GorillaStepIs
      <4>. QED BY <3>1, <4>1 DEF Wrote
    <3>3. Read(d, Len(a.out) + Len(GorillaBits(a, cur)), GorillaStep(a, cur).trail, GorillaStep(a, cur).mean, cur)
      <4>1. HoldsAt(stream, c.pos, GorillaBits(a, cur)) /\ c.started
        BY <1>9, <1>12, <2>2, <3>1
      <4>. QED BY <1>2, <1>4, <1>9, <1>11, <4>1, GorillaReads
    <3> HIDE DEF d
    <3>. QED BY <1>12, <3>1, <3>2, <3>3
  <2>. QED BY <2>1, <2>2
<1> HIDE DEF d
<1>14. d \in CursorSet /\ d.pos = Len(b.out) /\ d.prev = cur /\ d.mean = b.mean /\ d.trail = b.trail
       /\ d.val = cur /\ d.started = TRUE
  <2>1. d \in CursorSet /\ d.pos = Len(b.out) /\ d.prev = cur /\ d.mean = b.mean /\ d.trail = b.trail
       /\ d.val = cur
    BY <1>13 DEF Read
  <2>2. d.started
    BY <1>13 DEF Read
  <2>3. d.started \in BOOLEAN
    BY <2>1 DEF CursorSet
  <2>. QED BY <2>1, <2>2, <2>3
<1>15. GorillaIn(d, SubSeq(V, 1, m + 1))
  BY <1>3, <1>8, <1>13, <1>14 DEF GorillaIn
<1>. QED BY <1>14, <1>15 DEF d, cur

-----------------------------------------------------------------------------
(***************************************************************************)
(* The codecs of all types.                                                *)
(***************************************************************************)
BoolIn(c, vals) == c.pos = Len(vals)

\* A bit is read where it stands.
LEMMA BoolDecodes ==
    ASSUME NEW V \in Seq(Bit2), NEW m \in Nat, m + 1 <= Len(V), NEW c \in CursorSet,
           BoolIn(c, SubSeq(V, 1, m)), NEW stream, stream = EncodeBool(V)
    PROVE  LET d == DecodeBool(stream, c)
           IN  d \in CursorSet /\ BoolIn(d, SubSeq(V, 1, m + 1)) /\ d.val = V[m + 1]
<1>1. m \in 0 .. Len(V) /\ m + 1 \in 0 .. Len(V) /\ m + 1 \in 1 .. Len(V) /\ V[m + 1] \in Bit2
  OBVIOUS
<1>2. Len(SubSeq(V, 1, m)) = m /\ Len(SubSeq(V, 1, m + 1)) = m + 1
  BY <1>1, FirstOnes
<1>3. c.pos = m
  BY <1>2 DEF BoolIn
<1>4. PICK t : t \in Seq(Bit2) /\ stream = V \o t
  BY FlushAdds DEF EncodeBool
<1>5. stream[m + 1] = V[m + 1]
  BY <1>1, <1>4
<1> DEFINE v == V[m + 1]
<1>6. DecodeBool(stream, c) = [c EXCEPT !.pos = m + 1, !.val = v]
  BY <1>3, <1>5 DEF DecodeBool
<1>7. v \in Nat
  BY <1>1 DEF Bit2
<1> HIDE DEF v
<1> DEFINE d == DecodeBool(stream, c)
           P == m + 1
<1>8. d = [c EXCEPT !.pos = P, !.val = v] /\ P \in Nat
  BY <1>6
<1> HIDE DEF d, P
<1>9. d \in CursorSet /\ d.pos = P /\ d.val = v
  BY <1>7, <1>8 DEF CursorSet
<1>. QED BY <1>2, <1>9 DEF BoolIn, d, v, P

\* The decoder stands where the encoder stood after the values.
InStep(type, c, vals) ==
    CASE type \in {"I64", "TS"} -> DodIn(c, vals)
      [] type = "F64"           -> GorillaIn(c, vals)
      [] type = "I32"           -> ZigIn(c, vals)
      [] type = "BOOL"          -> BoolIn(c, vals)

\* A decoder in step gives the next value and stays in step.
LEMMA DecodesNext ==
    ASSUME NEW type \in ColumnTypes, NEW V \in Seq(WordsOf(type)), NEW m \in Nat, m + 1 <= Len(V),
           NEW c \in CursorSet, InStep(type, c, SubSeq(V, 1, m)), NEW stream, stream = Encode(type, V)
    PROVE  LET d == Decode(type, stream, c)
           IN  d \in CursorSet /\ InStep(type, d, SubSeq(V, 1, m + 1)) /\ d.val = V[m + 1]
<1>1. CASE type \in {"I64", "TS"}
  <2>1. V \in Seq(WordSet) /\ DodIn(c, SubSeq(V, 1, m)) /\ stream = EncodeDod(V).out
    BY <1>1 DEF WordsOf, WordSet, InStep, Encode
  <2>2. Decode(type, stream, c) = DecodeDod(stream, c)
    BY <1>1 DEF Decode
  <2>3. DecodeDod(stream, c) \in CursorSet /\ DodIn(DecodeDod(stream, c), SubSeq(V, 1, m + 1))
        /\ DecodeDod(stream, c).val = V[m + 1]
    BY <2>1, DodDecodes
  <2>. QED BY <1>1, <2>2, <2>3 DEF InStep
<1>2. CASE type = "F64"
  <2>1. V \in Seq(WordSet) /\ GorillaIn(c, SubSeq(V, 1, m)) /\ stream = Flush(EncodeGorilla(V).out)
    BY <1>2 DEF WordsOf, WordSet, InStep, Encode
  <2>2. Decode(type, stream, c) = DecodeGorilla(stream, c)
    BY <1>2 DEF Decode
  <2>3. DecodeGorilla(stream, c) \in CursorSet /\ GorillaIn(DecodeGorilla(stream, c), SubSeq(V, 1, m + 1))
        /\ DecodeGorilla(stream, c).val = V[m + 1]
    BY <2>1, GorillaDecodes
  <2>. QED BY <1>2, <2>2, <2>3 DEF InStep
<1>3. CASE type = "I32"
  <2>1. V \in Seq(HalfSet) /\ ZigIn(c, SubSeq(V, 1, m)) /\ stream = EncodeZigZag(V)
    BY <1>3 DEF WordsOf, HalfSet, InStep, Encode
  <2>2. Decode(type, stream, c) = DecodeZigZag(stream, c)
    BY <1>3 DEF Decode
  <2>3. DecodeZigZag(stream, c) \in CursorSet /\ ZigIn(DecodeZigZag(stream, c), SubSeq(V, 1, m + 1))
        /\ DecodeZigZag(stream, c).val = V[m + 1]
    BY <2>1, ZigDecodes
  <2>. QED BY <1>3, <2>2, <2>3 DEF InStep
<1>4. CASE type = "BOOL"
  <2>1. V \in Seq(Bit2) /\ BoolIn(c, SubSeq(V, 1, m)) /\ stream = EncodeBool(V)
    BY <1>4 DEF WordsOf, Bit2, InStep, Encode
  <2>2. Decode(type, stream, c) = DecodeBool(stream, c)
    BY <1>4 DEF Decode
  <2>3. DecodeBool(stream, c) \in CursorSet /\ BoolIn(DecodeBool(stream, c), SubSeq(V, 1, m + 1))
        /\ DecodeBool(stream, c).val = V[m + 1]
    BY <2>1, BoolDecodes
  <2>. QED BY <1>4, <2>2, <2>3 DEF InStep
<1>. QED BY <1>1, <1>2, <1>3, <1>4 DEF ColumnTypes

\* A new cursor is in step with no values.
LEMMA StartsInStep ==
    ASSUME NEW type \in ColumnTypes
    PROVE  NewCursor \in CursorSet /\ InStep(type, NewCursor, <<>>)
<1>1. NewCursor \in CursorSet
  BY WordFacts DEF NewCursor, CursorSet
<1> DEFINE e == <<>>
<1>2. e \in Seq(WordSet) /\ e \in Seq(HalfSet) /\ Len(e) = 0 /\ 0 \in 0 .. Len(e)
  OBVIOUS
<1>3. DodIn(NewCursor, <<>>)
  <2>1. PICK h : DodTable(h, e) /\ EncodeDod(e) = h[0]
    BY <1>2, DodEncodes
  <2>2. EncodeDod(e) = DodFirst
    BY <2>1 DEF DodTable
  <2>. QED BY <2>2 DEF DodIn, DodFirst, NewCursor
<1>4. ZigIn(NewCursor, <<>>)
  <2>1. ZigPieces(e) = <<>>
    BY DEF ZigPieces
  <2>2. EncodeZigZag(e) = <<>>
    BY <1>2, <2>1, ZigPiecesType, FlattenEmpty
  <2>. QED BY <2>2 DEF ZigIn, NewCursor
<1>5. GorillaIn(NewCursor, <<>>)
  BY DEF GorillaIn, EncodeGorilla, NewCursor
<1>6. BoolIn(NewCursor, <<>>)
  BY DEF BoolIn, NewCursor
<1>. QED BY <1>1, <1>3, <1>4, <1>5, <1>6 DEF InStep, ColumnTypes

-----------------------------------------------------------------------------
(***************************************************************************)
(* The values that are not NULL.                                           *)
(***************************************************************************)
Filled(vals, k) == {i \in 1 .. k : vals[i] # NULL}

\* The values that are not NULL among the first rows.
LEMMA NonNullIs ==
    ASSUME NEW S, NEW vals \in Seq(S \union {NULL}), NEW k \in 0 .. Len(vals)
    PROVE  NonNull(SubSeq(vals, 1, k)) = ElementsAt(vals, Filled(vals, k))
<1> DEFINE s == SubSeq(vals, 1, k)
           F == Filled(vals, k)
<1>1. s \in Seq(S \union {NULL}) /\ Len(s) = k /\ \A i \in 1 .. k : s[i] = vals[i]
  BY FirstOnes
<1>2. k \in Nat
  OBVIOUS
<1> HIDE DEF s
<1>3. {i \in DOMAIN s : s[i] # NULL} = F
  BY <1>1 DEF Filled
<1>4. F \in SUBSET (1 .. k)
  BY DEF Filled
<1>5. NonNull(s) = ElementsAt(s, F)
  BY <1>3 DEF NonNull, SelectedBy
<1> HIDE DEF F
<1>6. \A i \in F : s[i] = vals[i]
  BY <1>1, <1>4
<1>7. ElementsAt(s, F) = ElementsAt(vals, F)
  BY <1>2, <1>4, <1>6, ElementsAlike
<1>. QED BY <1>5, <1>7 DEF s, F

\* All rows are the first rows.
LEMMA NonNullAll ==
    ASSUME NEW S, NEW vals \in Seq(S \union {NULL})
    PROVE  NonNull(vals) = ElementsAt(vals, Filled(vals, Len(vals)))
<1>1. {i \in DOMAIN vals : vals[i] # NULL} = Filled(vals, Len(vals))
  BY DEF Filled
<1>. QED BY <1>1 DEF NonNull, SelectedBy

\* One row more adds its value, unless it is NULL.
LEMMA NonNullGrows ==
    ASSUME NEW S, NEW vals \in Seq(S \union {NULL}), NEW k \in Nat, k + 1 <= Len(vals)
    PROVE  NonNull(SubSeq(vals, 1, k + 1))
             = IF vals[k + 1] = NULL THEN NonNull(SubSeq(vals, 1, k))
               ELSE Append(NonNull(SubSeq(vals, 1, k)), vals[k + 1])
<1> DEFINE F == Filled(vals, k)
           G == Filled(vals, k + 1)
<1>1. k \in 0 .. Len(vals) /\ k + 1 \in 0 .. Len(vals) /\ k + 1 \in 1 .. Len(vals)
  OBVIOUS
<1>2. NonNull(SubSeq(vals, 1, k)) = ElementsAt(vals, F) /\ NonNull(SubSeq(vals, 1, k + 1)) = ElementsAt(vals, G)
  BY <1>1, NonNullIs
<1>3. CASE vals[k + 1] = NULL
  <2>1. G = F
    BY <1>3 DEF Filled
  <2>. QED BY <1>2, <1>3, <2>1
<1>4. CASE vals[k + 1] # NULL
  <2>1. G = F \union {k + 1}
    BY <1>4 DEF Filled
  <2>2. F \in SUBSET (1 .. Len(vals)) /\ \A j \in F : j < k + 1
    BY DEF Filled
  <2> HIDE DEF F, G
  <2>3. ElementsAt(vals, F \union {k + 1}) = Append(ElementsAt(vals, F), vals[k + 1])
    BY <1>1, <2>2, ElementsGrow
  <2>. QED BY <1>2, <1>4, <2>1, <2>3
<1>. QED BY <1>3, <1>4

\* The values of the first rows are the first of all values.
LEMMA NonNullFirst ==
    ASSUME NEW S, NULL \notin S, NEW vals \in Seq(S \union {NULL}), NEW k \in 0 .. Len(vals)
    PROVE  /\ NonNull(SubSeq(vals, 1, k)) \in Seq(S) /\ NonNull(vals) \in Seq(S)
           /\ Len(NonNull(SubSeq(vals, 1, k))) <= Len(NonNull(vals))
           /\ NonNull(SubSeq(vals, 1, k)) = SubSeq(NonNull(vals), 1, Len(NonNull(SubSeq(vals, 1, k))))
<1> DEFINE n == Len(vals)
           F == Filled(vals, k)
           G == Filled(vals, n)
           e == ElementsAt(vals, F)
           g == ElementsAt(vals, G)
<1>1. n \in Nat /\ k \in Nat /\ k <= n /\ n \in 0 .. n
  OBVIOUS
<1>2. NonNull(SubSeq(vals, 1, k)) = e /\ NonNull(vals) = g
  BY NonNullIs, NonNullAll
<1>3. F \in SUBSET (1 .. n) /\ G \in SUBSET (1 .. n) /\ F \subseteq G
      /\ \A i \in F : i <= k /\ \A j \in G : j <= i => j \in F
  BY <1>1 DEF Filled
<1> HIDE DEF F, G, e, g
<1>4. IsFiniteSet(F) /\ IsFiniteSet(G) /\ Cardinality(F) \in Nat /\ Cardinality(G) \in Nat
      /\ Cardinality(F) <= Cardinality(G)
  <2>1. IsFiniteSet(F) /\ IsFiniteSet(G) /\ Cardinality(F) \in 0 .. n /\ Cardinality(G) \in 0 .. n
    BY <1>1, <1>3, PlacesNumber
  <2>2. Cardinality(F) <= Cardinality(G)
    BY <1>3, <2>1, FS_Subset
  <2>. QED BY <2>1, <2>2
<1>5. \A i \in F : PlaceIn(F, i) = PlaceIn(G, i)
  <2>1. ASSUME NEW i \in F PROVE {j \in F : j <= i} = {j \in G : j <= i}
    BY <1>3
  <2>. QED BY <2>1 DEF PlaceIn
<1>6. Picks(e, vals, F) /\ Picks(g, vals, G)
  <2> HIDE DEF n
  <2>. QED BY <1>1, <1>3, ElementsPlaced DEF e, g
<1>7. ASSUME NEW q \in 1 .. Cardinality(F) PROVE e[q] = g[q] /\ e[q] \in S
  <2>1. PICK i \in F : PlaceIn(F, i) = q /\ e[q] = vals[i]
    BY <1>6 DEF Picks
  <2>2. g[PlaceIn(G, i)] = vals[i]
    BY <1>3, <1>6 DEF Picks
  <2>3. vals[i] \in S
    <3>1. vals[i] # NULL /\ i \in 1 .. n
      BY <1>3 DEF F, Filled
    <3>. QED BY <3>1
  <2>. QED BY <1>5, <2>1, <2>2, <2>3
<1>8. ASSUME NEW q \in 1 .. Cardinality(G) PROVE g[q] \in S
  <2>1. PICK i \in G : PlaceIn(G, i) = q /\ g[q] = vals[i]
    BY <1>6 DEF Picks
  <2>2. vals[i] # NULL /\ i \in 1 .. n
    BY <1>3 DEF G, Filled
  <2>. QED BY <2>1, <2>2
<1>9. e = [q \in 1 .. Cardinality(F) |-> e[q]] /\ g = [q \in 1 .. Cardinality(G) |-> g[q]]
  BY <1>6 DEF Picks
<1>10. \A m \in Nat : \A x : x \in [1 .. m -> S] => x \in Seq(S) /\ Len(x) = m
  OBVIOUS
<1>11. e \in [1 .. Cardinality(F) -> S] /\ g \in [1 .. Cardinality(G) -> S]
  BY <1>7, <1>8, <1>9
<1>12. e \in Seq(S) /\ Len(e) = Cardinality(F) /\ g \in Seq(S) /\ Len(g) = Cardinality(G)
  BY Zenon, <1>4, <1>10, <1>11
<1> DEFINE h == SubSeq(g, 1, Len(e))
<1>13. h \in Seq(S) /\ Len(h) = Len(e) /\ \A q \in 1 .. Len(e) : h[q] = g[q]
  <2>1. Len(e) \in 0 .. Len(g)
    BY <1>4, <1>12
  <2>. QED BY <1>12, <2>1, FirstOnes
<1> HIDE DEF h
<1>14. e = h
  BY <1>7, <1>12, <1>13
<1>. QED BY <1>2, <1>4, <1>12, <1>14 DEF h

-----------------------------------------------------------------------------
(***************************************************************************)
(* The scan.                                                               *)
(***************************************************************************)
\* h[k] is what the loop of a batch has after k rows.
RowTable(h, base, idx) ==
    /\ h[0] = base
    /\ \A k \in 1 .. Len(idx) : h[k] = DecodeRow(h[k - 1], idx[k])

\* g is what the fold has for each set of the first m rows.
RowSets(g, m, base, idx) ==
    g = [s \in SUBSET (1 .. m) |-> IF s = {} THEN base ELSE DecodeRow(g[s \ {Max(s)}], idx[Max(s)])]

\* The fold of a batch goes through such a table, whatever the cursor is.
LEMMA BatchTable ==
    ASSUME NEW A, NEW idx \in Seq(A), NEW base
    PROVE  \E h : RowTable(h, base, idx) /\ FoldLeft(DecodeRow, base, idx) = h[Len(idx)]
<1> DEFINE n == Len(idx)
           body(f) == [s \in SUBSET DOMAIN idx |->
                         IF s = {} THEN base ELSE DecodeRow(f[s \ {Max(s)}], idx[Max(s)])]
           it == CHOOSE f : f = body(f)
           S == {m \in Nat : \E g : RowSets(g, m, base, idx)}
<1>1. n \in Nat /\ DOMAIN idx = 1 .. n
  OBVIOUS
<1>2. 0 \in S
  <2> DEFINE g == [s \in SUBSET (1 .. 0) |-> base]
  <2>1. \A s \in SUBSET (1 .. 0) : s = {}
    OBVIOUS
  <2>2. RowSets(g, 0, base, idx)
    BY <2>1 DEF RowSets
  <2>. QED BY <2>2
<1>3. ASSUME NEW m \in Nat, m \in S PROVE m + 1 \in S
  <2>1. PICK g : RowSets(g, m, base, idx)
    BY <1>3
  <2> DEFINE r == m + 1
             f == [s \in SUBSET (1 .. r) |->
                     IF r \in s THEN DecodeRow(g[s \ {r}], idx[r]) ELSE g[s]]
  <2>2. \A s \in SUBSET (1 .. m) : g[s] = IF s = {} THEN base ELSE DecodeRow(g[s \ {Max(s)}], idx[Max(s)])
    BY <2>1 DEF RowSets
  <2>3. ASSUME NEW s \in SUBSET (1 .. r)
        PROVE  f[s] = IF s = {} THEN base ELSE DecodeRow(f[s \ {Max(s)}], idx[Max(s)])
    <3>1. CASE r \in s
      <4>1. Max(s) = r
        <5>1. Max(s) \in s /\ \A y \in s : y <= Max(s)
          <6>1. r \in Nat /\ s # {}
            BY <3>1
          <6> HIDE DEF r
          <6>. QED BY <6>1, MaxOf
        <5>2. Max(s) \in 1 .. r /\ r <= Max(s)
          BY <3>1, <5>1
        <5>. QED BY <5>2
      <4>2. s \ {r} \in SUBSET (1 .. r) /\ r \notin s \ {r}
        OBVIOUS
      <4>3. f[s \ {r}] = g[s \ {r}] /\ f[s] = DecodeRow(g[s \ {r}], idx[r])
        BY <3>1, <4>2
      <4> HIDE DEF f, r
      <4>. QED BY <3>1, <4>1, <4>3
    <3>2. CASE r \notin s
      <4>1. s \in SUBSET (1 .. m) /\ s \ {Max(s)} \in SUBSET (1 .. r) /\ r \notin s \ {Max(s)}
        <5>1. \A y \in 1 .. r : y # r => y \in 1 .. m
          OBVIOUS
        <5> HIDE DEF r
        <5>. QED BY <3>2, <5>1
      <4>2. f[s] = g[s] /\ f[s \ {Max(s)}] = g[s \ {Max(s)}]
        BY <3>2, <4>1
      <4> HIDE DEF f, r
      <4>. QED BY <2>2, <4>1, <4>2
    <3>. QED BY <3>1, <3>2
  <2>4. RowSets(f, r, base, idx)
    <3>1. f = [s \in SUBSET (1 .. r) |-> f[s]]
      OBVIOUS
    <3> HIDE DEF f, r
    <3>. QED BY <2>3, <3>1 DEF RowSets
  <2>. QED BY <2>4
<1> HIDE DEF S
<1>4. \A m \in Nat : m \in S
  BY <1>2, <1>3, SetInduction
<1>5. PICK g : RowSets(g, n, base, idx)
  BY <1>1, <1>4 DEF S
<1>6. g = body(g)
  BY <1>1, <1>5 DEF RowSets
<1>7. it = body(it)
  <2> HIDE DEF body
  <2>. QED BY <1>6
<1>8. FoldLeft(DecodeRow, base, idx) = it[DOMAIN idx]
  BY Zenon DEF FoldLeft, MapThenFoldSet
<1> HIDE DEF it, n
<1>9. \A s \in SUBSET (1 .. n) : it[s] = IF s = {} THEN base ELSE DecodeRow(it[s \ {Max(s)}], idx[Max(s)])
  BY <1>1, <1>7
<1> HIDE DEF body
<1> DEFINE h == [k \in 0 .. n |-> it[1 .. k]]
<1>10. h[0] = base
  <2>1. 1 .. 0 = {} /\ {} \in SUBSET (1 .. n) /\ h[0] = it[1 .. 0]
    BY <1>1
  <2>. QED BY <1>9, <2>1
<1>11. ASSUME NEW k \in 1 .. n PROVE h[k] = DecodeRow(h[k - 1], idx[k])
  <2>1. 1 .. k \in SUBSET (1 .. n) /\ 1 .. k # {} /\ Max(1 .. k) = k /\ (1 .. k) \ {k} = 1 .. k - 1
    BY <1>1, Initial
  <2>2. it[1 .. k] = DecodeRow(it[1 .. k - 1], idx[k])
    BY <1>9, <2>1
  <2>3. k \in 0 .. n /\ k - 1 \in 0 .. n
    BY <1>1
  <2>. QED BY <2>2, <2>3
<1>12. h[n] = it[DOMAIN idx]
  BY <1>1
<1> HIDE DEF h
<1>13. RowTable(h, base, idx)
  BY <1>10, <1>11 DEF RowTable, n
<1>. QED BY <1>8, <1>12, <1>13 DEF n

\* The encoded column.
EncodedOf(c) == [valid  |-> [r \in 1 .. Len(c.vals) |-> c.vals[r] # NULL],
                 stream |-> Encode(c.type, NonNull(c.vals))]

\* The cursor stands behind the first k rows.
Behind(c, k) == c \in CursorSet /\ InStep(column.type, c, NonNull(SubSeq(column.vals, 1, k)))

ScanInv ==
    /\ column \in Columns /\ batchSize \in Nat \ {0}
    /\ encoded = NULL \/ encoded = EncodedOf(column)
    /\ cursor \in 0 .. Rows /\ opens \in Nat
    /\ opened => encoded # NULL /\ out = SubSeq(column.vals, 1, cursor) /\ Behind(cc, cursor)
    /\ ~opened => cc = NewCursor /\ (opens > 0 => cursor = Rows)

\* What the columns are.
LEMMA ColumnFacts ==
    ASSUME column \in Columns
    PROVE  /\ column.type \in ColumnTypes /\ NULL \notin WordsOf(column.type)
           /\ column.vals \in Seq(WordsOf(column.type) \union {NULL}) /\ Rows \in Nat
<1>1. column.type \in ColumnTypes /\ column.vals \in Seq(WordsOf(column.type) \union {NULL}) /\ NULL \notin Nat
  BY ScanAssumption
<1>2. WordsOf(column.type) \subseteq Nat
  BY <1>1, WordFacts DEF WordsOf, ColumnTypes
<1>. QED BY <1>1, <1>2 DEF Rows

\* One row decoded: its value is handed out and the cursor stands behind it.
LEMMA RowDecodes ==
    ASSUME column \in Columns, encoded = EncodedOf(column), NEW k \in Nat, k + 1 <= Rows,
           NEW a, NEW c, NEW cells \in Seq(WordsOf(column.type) \union {NULL}),
           a = [cc |-> c, cells |-> cells], Behind(c, k)
    PROVE  \E d : /\ Behind(d, k + 1)
                  /\ DecodeRow(a, k + 1) = [cc |-> d, cells |-> Append(cells, column.vals[k + 1])]
<1> DEFINE vals == column.vals
           type == column.type
           N(j) == NonNull(SubSeq(vals, 1, j))
           all == NonNull(vals)
           stream == Encode(type, all)
<1>1. /\ type \in ColumnTypes /\ NULL \notin WordsOf(type)
      /\ vals \in Seq(WordsOf(type) \union {NULL}) /\ Rows \in Nat /\ Rows = Len(vals)
  BY ColumnFacts DEF Rows
<1>2. k \in 0 .. Len(vals) /\ k + 1 \in 0 .. Len(vals) /\ k + 1 \in 1 .. Len(vals) /\ k + 1 <= Len(vals)
  BY <1>1
<1>3. encoded.stream = stream /\ encoded.valid[k + 1] = (vals[k + 1] # NULL)
  BY <1>2 DEF EncodedOf
<1> HIDE DEF vals, type
<1>4. N(k + 1) = IF vals[k + 1] = NULL THEN N(k) ELSE Append(N(k), vals[k + 1])
  BY <1>1, <1>2, NonNullGrows
<1>5. /\ N(k) \in Seq(WordsOf(type)) /\ N(k + 1) \in Seq(WordsOf(type)) /\ all \in Seq(WordsOf(type))
      /\ Len(N(k)) <= Len(all) /\ Len(N(k + 1)) <= Len(all)
      /\ N(k) = SubSeq(all, 1, Len(N(k))) /\ N(k + 1) = SubSeq(all, 1, Len(N(k + 1)))
  BY <1>1, <1>2, NonNullFirst
<1>6. c \in CursorSet /\ InStep(type, c, N(k))
  BY DEF Behind, type, vals
<1> HIDE DEF N, all
<1>7. CASE vals[k + 1] = NULL
  <2>1. DecodeRow(a, k + 1) = [a EXCEPT !.cells = Append(@, NULL)]
    BY <1>3, <1>7 DEF DecodeRow, ValidBit
  <2>2. DecodeRow(a, k + 1) = [cc |-> c, cells |-> Append(cells, vals[k + 1])]
    BY <1>7, <2>1
  <2>3. Behind(c, k + 1)
    BY <1>4, <1>6, <1>7 DEF Behind, N, type, vals
  <2>. QED BY <2>2, <2>3 DEF vals
<1>8. CASE vals[k + 1] # NULL
  <2> DEFINE m == Len(N(k))
             v == vals[k + 1]
             d == Decode(type, stream, c)
  <2>1. N(k + 1) = Append(N(k), v)
    BY <1>4, <1>8
  <2>2. m \in Nat /\ Len(N(k + 1)) = m + 1 /\ N(k + 1)[m + 1] = v
    <3>1. v \in WordsOf(type) \union {NULL}
      BY <1>1, <1>2
    <3> DEFINE s == N(k)
               t == N(k + 1)
    <3>2. s \in Seq(WordsOf(type) \union {NULL}) /\ t = Append(s, v)
      BY <1>5, <2>1
    <3> HIDE DEF s, t, v
    <3>3. Len(s) \in Nat /\ Len(t) = Len(s) + 1 /\ t[Len(s) + 1] = v
      BY <3>1, <3>2
    <3>. QED BY <3>3 DEF s, t
  <2>3. m + 1 <= Len(all) /\ all[m + 1] = v
    <3>1. m + 1 <= Len(all) /\ Len(all) \in Nat
      BY <1>5, <2>2
    <3>2. m + 1 \in 0 .. Len(all) /\ m + 1 \in 1 .. m + 1
      BY <2>2, <3>1
    <3>3. SubSeq(all, 1, m + 1)[m + 1] = all[m + 1]
      BY <1>5, <3>2, FirstOnes
    <3>. QED BY <1>5, <2>2, <3>1, <3>3
  <2>4. InStep(type, c, SubSeq(all, 1, m))
    BY <1>5, <1>6
  <2> HIDE DEF m, v
  <2>5. d \in CursorSet /\ InStep(type, d, SubSeq(all, 1, m + 1)) /\ d.val = all[m + 1]
    BY <1>1, <1>5, <1>6, <2>2, <2>3, <2>4, DecodesNext
  <2>6. Behind(d, k + 1)
    BY <1>5, <2>2, <2>5 DEF Behind, N, type, vals
  <2>7. DecodeRow(a, k + 1) = [cc |-> d, cells |-> Append(a.cells, d.val)]
    BY <1>3, <1>8 DEF DecodeRow, ValidBit, type
  <2> HIDE DEF d
  <2>8. DecodeRow(a, k + 1) = [cc |-> d, cells |-> Append(cells, v)]
    BY <2>3, <2>5, <2>7
  <2>. QED BY <2>6, <2>8 DEF v, vals
<1>. QED BY <1>7, <1>8

\* A stretch of a sequence and the element after it.
LEMMA StretchGrows ==
    ASSUME NEW A, NEW s \in Seq(A), NEW c \in Nat, NEW k \in Nat, c + k + 1 <= Len(s)
    PROVE  /\ SubSeq(s, c + 1, c + k) \in Seq(A)
           /\ Append(SubSeq(s, c + 1, c + k), s[c + k + 1]) = SubSeq(s, c + 1, c + (k + 1))
OBVIOUS

\* Two stretches, one after the other.
LEMMA StretchesJoin ==
    ASSUME NEW A, NEW s \in Seq(A), NEW c \in Nat, NEW k \in Nat, c + k <= Len(s)
    PROVE  SubSeq(s, 1, c) \o SubSeq(s, c + 1, c + k) = SubSeq(s, 1, c + k)
OBVIOUS

\* A batch hands out the next n rows and leaves the cursor behind them.
LEMMA BatchDecodes ==
    ASSUME column \in Columns, encoded = EncodedOf(column), cursor \in 0 .. Rows, Behind(cc, cursor),
           out = SubSeq(column.vals, 1, cursor), NEW n \in Nat, cursor + n <= Rows
    PROVE  LET last == FoldLeft(DecodeRow, [cc |-> WindowStart(cc), cells |-> <<>>],
                                [k \in 1 .. n |-> cursor + k])
           IN  Behind(last.cc, cursor + n) /\ out \o last.cells = SubSeq(column.vals, 1, cursor + n)
<1> DEFINE vals == column.vals
           A == WordsOf(column.type) \union {NULL}
           idx == [k \in 1 .. n |-> cursor + k]
           base == [cc |-> WindowStart(cc), cells |-> <<>>]
           last == FoldLeft(DecodeRow, base, idx)
           Cells(k) == SubSeq(vals, cursor + 1, cursor + k)
<1>1. vals \in Seq(A) /\ Rows \in Nat /\ Rows = Len(vals) /\ cursor \in Nat
  BY ColumnFacts DEF Rows
<1>2. idx \in Seq(Nat) /\ Len(idx) = n /\ \A k \in 1 .. n : idx[k] = cursor + k
  BY <1>1
<1> HIDE DEF idx
<1>3. PICK h : RowTable(h, base, idx) /\ last = h[n]
  <2> HIDE DEF base
  <2>. QED BY <1>2, BatchTable
<1> HIDE DEF last
<1> DEFINE Good(k) == \E d : h[k] = [cc |-> d, cells |-> Cells(k)] /\ Behind(d, cursor + k)
           S == {k \in Nat : k <= n => Good(k)}
<1>4. 0 \in S
  <2>1. h[0] = [cc |-> cc, cells |-> <<>>]
    BY <1>3 DEF RowTable, WindowStart
  <2>2. Cells(0) = <<>>
    BY <1>1
  <2>3. Behind(cc, cursor + 0)
    <3>1. cursor + 0 = cursor
      BY <1>1
    <3>. QED BY <3>1
  <2> HIDE DEF Cells
  <2>. QED BY <2>1, <2>2, <2>3
<1>5. ASSUME NEW k \in Nat, k \in S PROVE k + 1 \in S
  <2>1. SUFFICES ASSUME k + 1 <= n PROVE Good(k + 1)
    <3> HIDE DEF Good
    <3>. QED OBVIOUS
  <2>2. k + 1 \in 1 .. n /\ (k + 1) - 1 = k /\ k <= n
    BY <2>1
  <2>3. PICK d : h[k] = [cc |-> d, cells |-> Cells(k)] /\ Behind(d, cursor + k)
    BY <1>5, <2>2
  <2> DEFINE j == cursor + k
  <2>4. j \in Nat /\ j + 1 <= Rows /\ idx[k + 1] = j + 1 /\ cursor + k + 1 = j + 1 /\ cursor + (k + 1) = j + 1
    BY <1>1, <1>2, <2>1, <2>2
  <2>5. Cells(k) \in Seq(A) /\ Append(Cells(k), vals[j + 1]) = Cells(k + 1)
    <3>1. cursor + k + 1 <= Len(vals)
      BY <1>1, <2>4
    <3> HIDE DEF vals, A
    <3>. QED BY <1>1, <2>4, <3>1, StretchGrows
  <2>6. h[k + 1] = DecodeRow(h[k], j + 1)
    BY <1>2, <1>3, <2>2, <2>4 DEF RowTable
  <2> HIDE DEF Cells, j
  <2>7. PICK e : Behind(e, j + 1) /\ DecodeRow(h[k], j + 1) = [cc |-> e, cells |-> Append(Cells(k), vals[j + 1])]
    <3>1. Behind(d, j)
      BY <2>3 DEF j
    <3>. QED BY <2>3, <2>4, <2>5, <3>1, RowDecodes
  <2>8. h[k + 1] = [cc |-> e, cells |-> Cells(k + 1)] /\ Behind(e, cursor + (k + 1))
    BY <2>4, <2>5, <2>6, <2>7
  <2>. QED BY <2>8
<1>6. n \in S
  <2> HIDE DEF S
  <2>. QED BY <1>4, <1>5, SetInduction
<1>7. PICK d : last = [cc |-> d, cells |-> Cells(n)] /\ Behind(d, cursor + n)
  <2>1. Good(n)
    <3> HIDE DEF Good
    <3>. QED BY <1>6
  <2>. QED BY <1>3, <2>1
<1>8. SubSeq(vals, 1, cursor) \o Cells(n) = SubSeq(vals, 1, cursor + n)
  <2> HIDE DEF vals, A
  <2>. QED BY <1>1, StretchesJoin
<1> HIDE DEF Cells
<1>9. last.cc = d /\ last.cells = Cells(n)
  BY <1>7
<1>10. Behind(last.cc, cursor + n) /\ out \o last.cells = SubSeq(vals, 1, cursor + n)
  BY <1>7, <1>8, <1>9
<1>. QED BY <1>10 DEF last, base, idx

\* A table of no encoded column has no open scan; a new cursor is behind no row.
LEMMA ScanStarts == Init => ScanInv
<1> SUFFICES ASSUME Init PROVE ScanInv
  OBVIOUS
<1>1. column \in Columns
  BY DEF Init
<1>2. Rows \in Nat
  BY <1>1, ColumnFacts
<1>3. batchSize \in Nat \ {0}
  BY ScanAssumption DEF Init
<1>. QED BY <1>1, <1>2, <1>3 DEF Init, ScanInv

\* Every operation of the scan preserves ScanInv.
LEMMA ScanSteps == ScanInv /\ [Next]_vars => ScanInv'
<1> SUFFICES ASSUME ScanInv, [Next]_vars PROVE ScanInv'
  OBVIOUS
<1>1. /\ column \in Columns /\ batchSize \in Nat \ {0}
      /\ encoded = NULL \/ encoded = EncodedOf(column)
      /\ cursor \in 0 .. Rows /\ opens \in Nat
      /\ opened => encoded # NULL /\ out = SubSeq(column.vals, 1, cursor) /\ Behind(cc, cursor)
      /\ ~opened => cc = NewCursor /\ (opens > 0 => cursor = Rows)
  BY DEF ScanInv
<1>2. Rows \in Nat /\ column.type \in ColumnTypes
  BY <1>1, ColumnFacts
<1>3. CASE UNCHANGED vars
  BY <1>1, <1>3 DEF vars, ScanInv, Rows, Behind
<1>4. CASE EncodeTable
  <2>1. encoded' = EncodedOf(column)' /\ ~opened /\ opened' = opened /\ column' = column /\ batchSize' = batchSize
        /\ cursor' = cursor /\ cc' = cc /\ opens' = opens
    BY <1>1, <1>4 DEF EncodeTable, EncodedOf, Rows
  <2>. QED BY <1>1, <2>1 DEF ScanInv, Rows
<1>5. CASE Open
  <2>1. /\ encoded # NULL /\ opens' = opens + 1 /\ opened' /\ cursor' = 0 /\ cc' = NewCursor /\ out' = <<>>
        /\ column' = column /\ batchSize' = batchSize /\ encoded' = encoded
    BY <1>5 DEF Open
  <2>2. SubSeq(column.vals, 1, 0) = <<>>
    OBVIOUS
  <2>3. NonNull(<<>>) = <<>>
    <3>1. {i \in DOMAIN <<>> : <<>>[i] # NULL} = {}
      OBVIOUS
    <3>. QED BY <3>1, ElementsNone DEF NonNull, SelectedBy
  <2>4. Behind(NewCursor, 0)
    BY <1>2, <2>2, <2>3, StartsInStep DEF Behind
  <2>5. Behind(cc, cursor)'
    BY <2>1, <2>4 DEF Behind
  <2>. QED BY <1>1, <1>2, <2>1, <2>2, <2>5 DEF ScanInv, EncodedOf, Rows
<1>6. CASE DecodeBatch
  <2> DEFINE n == IF batchSize < Rows - cursor THEN batchSize ELSE Rows - cursor
             last == FoldLeft(DecodeRow, [cc |-> WindowStart(cc), cells |-> <<>>], [k \in 1 .. n |-> cursor + k])
  <2>1. /\ opened /\ cursor < Rows /\ cursor' = cursor + n /\ cc' = last.cc /\ out' = out \o last.cells
        /\ column' = column /\ batchSize' = batchSize /\ encoded' = encoded /\ opened' = opened /\ opens' = opens
    BY <1>6 DEF DecodeBatch
  <2>2. n \in Nat /\ cursor + n <= Rows /\ cursor \in Nat
    BY <1>1, <1>2, <2>1
  <2>3. encoded = EncodedOf(column) /\ encoded # NULL
    BY <1>1, <2>1
  <2> HIDE DEF n
  <2>4. Behind(last.cc, cursor + n) /\ out \o last.cells = SubSeq(column.vals, 1, cursor + n)
    BY <1>1, <2>1, <2>2, <2>3, BatchDecodes
  <2> HIDE DEF last
  <2>5. Behind(cc, cursor)'
    BY <2>1, <2>4 DEF Behind
  <2>6. out' = SubSeq(column.vals, 1, cursor)' /\ cursor' \in 0 .. Rows'
    BY <1>2, <2>1, <2>2, <2>4 DEF Rows
  <2>7. encoded' = EncodedOf(column)'
    BY <2>1, <2>3
  <2>. QED BY <1>1, <2>1, <2>3, <2>5, <2>6, <2>7 DEF ScanInv
<1>7. CASE Close
  <2>1. /\ ~opened' /\ cursor' = Rows /\ cc' = NewCursor
        /\ column' = column /\ batchSize' = batchSize /\ encoded' = encoded /\ opens' = opens
    BY <1>7 DEF Close, CloseCursor
  <2>. QED BY <1>1, <1>2, <2>1 DEF ScanInv, EncodedOf, Rows
<1>. QED BY <1>3, <1>4, <1>5, <1>6, <1>7 DEF Next

\* ScanInv holds in every state.
LEMMA ScanHolds == Spec => []ScanInv
<1>1. Init => ScanInv
  BY ScanStarts
<1>2. ScanInv /\ [Next]_vars => ScanInv'
  BY ScanSteps
<1>. QED BY <1>1, <1>2, PTL DEF Spec

(***************************************************************************)
(* A scan that is not open has nothing to give and no decoder state; an    *)
(* open one has handed out the rows before its cursor.                     *)
(***************************************************************************)
THEOREM ScanTypes == Spec => []TypeOK
<1>1. ScanInv => TypeOK
  <2> SUFFICES ASSUME ScanInv PROVE TypeOK
    OBVIOUS
  <2>1. column \in Columns /\ cursor \in 0 .. Rows /\ batchSize \in Nat \ {0}
    BY DEF ScanInv
  <2>2. /\ column.vals \in Seq(WordsOf(column.type) \union {NULL}) /\ Rows \in Nat /\ Rows = Len(column.vals)
    BY <2>1, ColumnFacts DEF Rows
  <2>3. encoded # NULL => Len(encoded.valid) = Rows
    <3> SUFFICES ASSUME encoded # NULL PROVE Len(encoded.valid) = Rows
      OBVIOUS
    <3>1. encoded.valid = [r \in 1 .. Rows |-> column.vals[r] # NULL]
      BY DEF ScanInv, EncodedOf, Rows
    <3>. QED BY <2>2, <3>1
  <2>4. opened => encoded # NULL /\ Len(out) = cursor
    <3>1. opened => encoded # NULL /\ out = SubSeq(column.vals, 1, cursor)
      BY DEF ScanInv
    <3>2. Len(SubSeq(column.vals, 1, cursor)) = cursor
      BY <2>1, <2>2, FirstOnes
    <3>. QED BY <3>1, <3>2
  <2>5. ~opened => cc = NewCursor /\ (opens > 0 => cursor = Rows)
    BY DEF ScanInv
  <2>. QED BY <2>1, <2>3, <2>4, <2>5 DEF TypeOK
<1>. QED BY <1>1, ScanHolds, PTL

(***************************************************************************)
(* decode(encode(column)) is the column, cut into batches or not, for      *)
(* every type: the cells handed out are the stored ones bit by bit.        *)
(***************************************************************************)
THEOREM ScanLossless == Spec => []Lossless
<1>1. ScanInv => Lossless
  BY DEF ScanInv, Lossless
<1>. QED BY <1>1, ScanHolds, PTL

(***************************************************************************)
(* Between batches the decoder carries what the encoder had at that row.   *)
(***************************************************************************)
THEOREM ScanInStep == Spec => []DecoderInStep
<1>1. ScanInv => DecoderInStep
  <2> SUFFICES ASSUME ScanInv PROVE DecoderInStep
    OBVIOUS
  <2> DEFINE vals == NonNull(SubSeq(column.vals, 1, cursor))
             g == EncodeGorilla(vals)
             d == EncodeDod(vals)
  <2>1. column.type \in ColumnTypes
    BY ColumnFacts DEF ScanInv
  <2> SUFFICES ASSUME opened
               PROVE  CASE column.type \in {"I64", "TS"} ->
                             cc.pos = Len(d.out) /\ cc.prev = d.prev /\ cc.delta = d.delta
                        [] column.type = "F64" ->
                             cc.pos = Len(g.out) /\ cc.prev = g.prev
                             /\ cc.mean = g.mean /\ cc.trail = g.trail /\ cc.started = (vals # <<>>)
                        [] column.type = "I32" -> cc.pos = Len(EncodeZigZag(vals))
                        [] column.type = "BOOL" -> cc.pos = Len(vals)
    BY DEF DecoderInStep
  <2>2. InStep(column.type, cc, vals)
    BY DEF ScanInv, Behind
  <2> HIDE DEF vals
  <2>. QED BY <2>1, <2>2 DEF InStep, DodIn, GorillaIn, ZigIn, BoolIn, ColumnTypes
<1>. QED BY <1>1, ScanHolds, PTL
===============================================================================
