--------------------------------- MODULE Expr ---------------------------------
(***************************************************************************)
(* Expressions (expr/expr.cpp, expr/eval.cpp and the kernels): typed trees *)
(* built with promotion casts, and their evaluation over a batch.  Kernels *)
(* compute every lane, NULL lanes included; eval.cpp then decides which    *)
(* lanes are NULL.  Integers have Bits32 or Bits64 bits.  An F64 is NaN or *)
(* a number of halves: one fractional bit is enough to round and compare.  *)
(***************************************************************************)
EXTENDS Columns, ReferenceOracle

CONSTANT Lanes   \* lanes of a vector register; the rest is a scalar tail

Invalid == [kind |-> "Invalid", type |-> "Invalid"]   \* std::invalid_argument

Column(t, i) == [kind |-> "Column", type |-> t, col |-> i]
Literal(t, v) == [kind |-> "Literal", type |-> t, value |-> v]   \* v may be NULL
Tree(kind, t, op, kids) == [kind |-> kind, type |-> t, op |-> op, kids |-> kids]
-----------------------------------------------------------------------------
(* Builders: the type rules and the inserted casts.                        *)

Rank(t) == CASE t = "I32" -> 1 [] t = "I64" -> 2 [] t = "F64" -> 3
             [] t \in {"BOOL", "TS", "STR", "Invalid"} -> 0

Numeric(t) == Rank(t) > 0

Promote(a, b) == IF Rank(a) >= Rank(b) THEN a ELSE b

Cast(e, to) ==
    IF e.type = to THEN e
    ELSE IF "STR" \in {e.type, to} THEN Invalid ELSE Tree("Cast", to, to, <<e>>)

Arith(op, a, b) ==
    IF Numeric(a.type) /\ Numeric(b.type)
      THEN LET t == Promote(a.type, b.type) IN Tree("Arith", t, op, <<Cast(a, t), Cast(b, t)>>)
      ELSE Invalid

Cmp(op, a, b) ==
    LET common == IF Numeric(a.type) /\ Numeric(b.type) THEN Promote(a.type, b.type) ELSE a.type
    IN  IF (Numeric(a.type) /\ Numeric(b.type)) \/ a.type = b.type
          THEN Tree("Cmp", "BOOL", op, <<Cast(a, common), Cast(b, common)>>)
          ELSE Invalid

\* AND and OR have two operands, NOT has one.
Logic(op, kids) ==
    IF \A i \in DOMAIN kids : kids[i].type = "BOOL" THEN Tree("Logic", "BOOL", op, kids) ELSE Invalid
-----------------------------------------------------------------------------
(* Kernels, lane by lane.  Every lane gets a value, whatever its validity. *)

Wrap(x, w) == ((x + 2 ^ (w - 1)) % 2 ^ w) - 2 ^ (w - 1)

Quotient(a, b) == IF b < 0 THEN TruncDiv(-a, -b) ELSE TruncDiv(a, b)

\* Mutant of ArithInt: INT_MIN / -1 is not wrapped.
ArithIntOverflow(op, w, a, b) ==
    CASE op = "Add" -> Wrap(a + b, w)
      [] op = "Sub" -> Wrap(a - b, w)
      [] op = "Mul" -> Wrap(a * b, w)
      [] op = "Div" -> IF b = 0 THEN 0 ELSE Quotient(a, b)
      [] op = "Mod" -> IF b = 0 THEN 0 ELSE a - b * Quotient(a, b)

ArithInt(op, w, a, b) ==
    CASE op = "Add" -> Wrap(a + b, w)
      [] op = "Sub" -> Wrap(a - b, w)
      [] op = "Mul" -> Wrap(a * b, w)
      [] op = "Div" -> IF b = 0 THEN 0 ELSE IF b = -1 THEN Wrap(-a, w) ELSE Quotient(a, b)
      [] op = "Mod" -> IF b \in {0, -1} THEN 0 ELSE a - b * Quotient(a, b)

\* In halves; a zero divisor leaves an infinity or NaN that is never looked at.
ArithF64(op, a, b) ==
    IF NaN \in {a, b} \/ (b = 0 /\ op \in {"Div", "Mod"}) THEN NaN
    ELSE CASE op = "Add" -> a + b
           [] op = "Sub" -> a - b
           [] op = "Mul" -> TruncDiv(a * b, 2)
           [] op = "Div" -> Quotient(2 * a, b)
           [] op = "Mod" -> a - b * Quotient(a, b)

\* The vector kernel by type: its register and tail lanes wrap alike, and
\* integer division is scalar in both twins.
ArithLanes(t, op, a, b) ==
    [i \in DOMAIN a |-> IF t = "F64" THEN ArithF64(op, a[i], b[i]) ELSE ArithInt(op, Width(t), a[i], b[i])]

\* Comparisons with NaN are false, except "not equal".
CmpLane(op, a, b) ==
    LET holds == IF NaN \in {a, b} THEN op = "Ne"
                 ELSE CASE op = "Lt" -> a < b  [] op = "Le" -> a <= b
                        [] op = "Gt" -> a > b  [] op = "Ge" -> a >= b
                        [] op = "Eq" -> a = b  [] op = "Ne" -> a # b
    IN  IF holds THEN 1 ELSE 0

\* The vector kernel: a mask of lanes, stored as 0 and 1.
CmpLanes(op, a, b) == [i \in DOMAIN a |-> CmpLane(op, a[i], b[i])]

\* Half away from zero: std::round, and its vector form, truncate and bump.
CastRound(x) == IF x >= 0 THEN (x + 1) \div 2 ELSE -((1 - x) \div 2)

\* Mutant of RoundAway: a half is added before truncating, also below zero.
RoundUp(x) == TruncDiv(x + 1, 2)

RoundAway(x) ==
    LET t == TruncDiv(x, 2)
    IN  t + (IF x - 2 * t >= 1 THEN 1 ELSE IF 2 * t - x >= 1 THEN -1 ELSE 0)

\* The integer a vector lane rounds to, 0 when it does not fit.
ToInt(x, to) ==
    LET r == IF x = NaN THEN 0 ELSE RoundAway(x)
    IN  IF x # NaN /\ InRange(r, Width(to)) THEN r ELSE 0

F64FitsInt(x, to) == x # NaN /\ InRange(CastRound(x), Width(to))

CastScalar(from, to, v) ==
    IF to = "F64" THEN 2 * v
    ELSE IF to = "BOOL" THEN (IF v # 0 THEN 1 ELSE 0)
    ELSE IF from = "F64" THEN (IF F64FitsInt(v, to) THEN CastRound(v) ELSE 0)
    ELSE Wrap(v, Width(to))

\* The lane representation a type is cast through.
Rep(t) == IF t = "TS" THEN "I64" ELSE t

\* Promoting, converting and truncating between integers and to F64.
ConvertInt(to, v) == IF to = "F64" THEN 2 * v ELSE Wrap(v, Width(to))

FromBool(to, v) == IF v = 0 THEN 0 ELSE IF to = "F64" THEN 2 ELSE 1

ToBool(v) == IF v # 0 THEN 1 ELSE 0

\* The vector twin: BOOL and same-width conversions, then by representation.
CastVec(from, to, v) ==
    IF from = "BOOL" THEN FromBool(to, v)
    ELSE IF to = "BOOL" THEN ToBool(v)
    ELSE IF Rep(from) = Rep(to) THEN v
    ELSE IF from = "F64" THEN ToInt(v, to) ELSE ConvertInt(to, v)

\* Three-valued logic on 0 = FALSE, 1 = NULL, 2 = TRUE: the scalar twin by
\* cases, the vector twin as minimum, maximum and complement.
LogicScalar(op, a, b) ==
    IF op = "And" THEN IF 0 \in {a, b} THEN 0 ELSE IF 1 \in {a, b} THEN 1 ELSE 2
    ELSE IF op = "Or" THEN IF 2 \in {a, b} THEN 2 ELSE IF 1 \in {a, b} THEN 1 ELSE 0
    ELSE IF a = 0 THEN 2 ELSE IF a = 2 THEN 0 ELSE 1

LogicVec(op, a, b) ==
    IF op = "And" THEN IF a < b THEN a ELSE b
    ELSE IF op = "Or" THEN IF a > b THEN a ELSE b
    ELSE 2 - a

\* Whether a vector kernel does lane i of n in a full register.
InRegister(i, n, backend) == backend = "Vector" /\ i <= (n \div Lanes) * Lanes
-----------------------------------------------------------------------------
(* Evaluation: which lanes are NULL.                                       *)

\* Whole words, padding included.
CopyValidity(out, in) ==
    IF in.av THEN out
    ELSE RefreshAllValid([EnsureValidity(out) EXCEPT !.bits = SubSeq(in.bits, 1, Len(@))])

\* propagate_nulls_and: the AND of the two bitmaps, or the only one there is.
PropagateNulls(out, a, b) ==
    IF a.av /\ b.av THEN out
    ELSE IF a.av THEN CopyValidity(out, b)
    ELSE IF b.av THEN CopyValidity(out, a)
    ELSE RefreshAllValid([EnsureValidity(out) EXCEPT !.bits = BitAndImpl(a.bits, b.bits, Len(out.data))])

\* null_where_divisor_zero: also in lanes that are NULL anyway.
DivisorZero(b) == {i \in DOMAIN b.data : b.data[i] = 0}

\* null_where_cast_oor: only narrowing casts and F64 to integer can fail.
CastOor(in, to) ==
    {i \in DOMAIN in.data :
        \/ in.type = "F64" /\ to \in {"I32", "I64", "TS"} /\ ~F64FitsInt(in.data[i], to)
        \/ in.type \in {"I64", "TS"} /\ to = "I32" /\ ~InRange(in.data[i], Bits32)}

ToTristate(c, i) == IF ~Valid(c, i) THEN 1 ELSE IF c.data[i] # 0 THEN 2 ELSE 0

FromTristate(ts) ==
    LET out   == Make("BOOL", [i \in DOMAIN ts |-> IF ts[i] = 2 THEN 1 ELSE 0], <<>>)
        nulls == {i \in DOMAIN ts : ts[i] = 1}
    IN  IF nulls = {} THEN out ELSE NullWhere(out, nulls)

MaterializeLiteral(t, v, n) ==
    LET out == Make(t, [i \in 1 .. n |-> IF v = NULL THEN 0 ELSE v], <<>>)
    IN  IF v = NULL /\ n > 0 THEN NullWhere(out, 1 .. n) ELSE out

EvalArith(e, a, b) ==
    LET out == PropagateNulls(Make(e.type, ArithLanes(e.type, e.op, a.data, b.data), <<>>), a, b)
    IN  IF e.op \in {"Div", "Mod"} THEN NullWhere(out, DivisorZero(b)) ELSE out

\* cmp_str resolves codes, each in its own dictionary, and skips NULL lanes.
CmpStr(op, a, b, i) ==
    IF Valid(a, i) /\ Valid(b, i)
      THEN CmpLane(op, At(a.dict, a.data[i]), At(b.dict, b.data[i])) ELSE 0

EvalCmp(e, a, b) ==
    LET lanes == IF a.type = "STR" THEN [i \in DOMAIN a.data |-> CmpStr(e.op, a, b, i)]
                 ELSE CmpLanes(e.op, a.data, b.data)
    IN  PropagateNulls(Make("BOOL", lanes, <<>>), a, b)

\* NOT has one operand: it is passed twice.
EvalLogic(e, a, b, backend) ==
    LET n == Len(a.data)
        lane(i) == IF InRegister(i, n, backend)
                     THEN LogicVec(e.op, ToTristate(a, i), ToTristate(b, i))
                     ELSE LogicScalar(e.op, ToTristate(a, i), ToTristate(b, i))
    IN  FromTristate([i \in 1 .. n |-> lane(i)])

EvalCast(e, in, backend) ==
    LET n == Len(in.data)
        lane(i) == IF InRegister(i, n, backend) THEN CastVec(in.type, e.type, in.data[i])
                   ELSE CastScalar(in.type, e.type, in.data[i])
        out == CopyValidity(Make(e.type, [i \in 1 .. n |-> lane(i)], <<>>), in)
        oor == CastOor(in, e.type)
    IN  IF oor = {} THEN out ELSE NullWhere(out, oor)

RECURSIVE Eval(_, _, _)
Eval(e, b, backend) ==
    CASE e.kind = "Column"  -> Compact(b.cols[e.col], [k \in 1 .. b.rows |-> k])
      [] e.kind = "Literal" -> MaterializeLiteral(e.type, e.value, b.rows)
      [] e.kind = "Arith"   -> EvalArith(e, Eval(e.kids[1], b, backend), Eval(e.kids[2], b, backend))
      [] e.kind = "Cmp"     -> EvalCmp(e, Eval(e.kids[1], b, backend), Eval(e.kids[2], b, backend))
      [] e.kind = "Logic"   -> EvalLogic(e, Eval(e.kids[1], b, backend),
                                         Eval(e.kids[Len(e.kids)], b, backend), backend)
      [] e.kind = "Cast"    -> EvalCast(e, Eval(e.kids[1], b, backend), backend)
===============================================================================
