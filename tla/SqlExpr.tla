------------------------------- MODULE SqlExpr -------------------------------
(***************************************************************************)
(* What an expression means on one row (expr/expr.h): NULL in, NULL out,   *)
(* Kleene's logic, NULL for a zero divisor or a value that does not fit,   *)
(* and wraparound.  Written on values: no lanes, bitmaps or dictionaries.  *)
(***************************************************************************)
EXTENDS Expr

SqlArith(e, a, b) ==
    IF e.type = "F64" THEN ArithF64(e.op, a, b)
    ELSE LET exact == CASE e.op = "Add" -> a + b  [] e.op = "Sub" -> a - b
                        [] e.op = "Mul" -> a * b  [] e.op = "Div" -> Quotient(a, b)
                        [] e.op = "Mod" -> a - b * Quotient(a, b)
             w == Width(e.type)
         IN  CHOOSE v \in -(2 ^ (w - 1)) .. 2 ^ (w - 1) - 1 : (v - exact) % 2 ^ w = 0

SqlLogic(op, a, b) ==
    LET dominant == IF op = "And" THEN 0 ELSE 1
    IN  IF op = "Not" THEN (IF a = NULL THEN NULL ELSE 1 - a)
        ELSE IF dominant \in {a, b} THEN dominant
        ELSE IF NULL \in {a, b} THEN NULL ELSE 1 - dominant

SqlCast(from, to, v) ==
    IF v = NULL THEN NULL
    ELSE IF to = "BOOL" THEN (IF v = 0 THEN 0 ELSE 1)
    ELSE IF to = "F64" THEN 2 * v
    ELSE IF from # "F64" THEN (IF InRange(v, Width(to)) THEN v ELSE NULL)
    ELSE IF v = NaN THEN NULL
    ELSE LET w == Width(to)
             near == {n \in -(2 ^ (w - 1)) .. 2 ^ (w - 1) - 1 : 2 * n - v \in {-1, 0, 1}}
         IN  IF v % 2 = 0 THEN (IF v \div 2 \in near THEN v \div 2 ELSE NULL)
             ELSE LET away == IF v > 0 THEN (v + 1) \div 2 ELSE (v - 1) \div 2
                  IN  IF away \in near THEN away ELSE NULL

RECURSIVE Sql(_, _)
Sql(e, row) ==
    IF e.kind = "Column" THEN row[e.col]
    ELSE IF e.kind = "Literal" THEN e.value
    ELSE LET a == Sql(e.kids[1], row)
             b == Sql(e.kids[Len(e.kids)], row)
         IN  CASE e.kind = "Cast"  -> SqlCast(e.kids[1].type, e.type, a)
               [] e.kind = "Logic" -> SqlLogic(e.op, a, b)
               [] e.kind = "Cmp"   -> IF NULL \in {a, b} THEN NULL ELSE CmpLane(e.op, a, b)
               [] e.kind = "Arith" -> IF NULL \in {a, b} \/ (b = 0 /\ e.op \in {"Div", "Mod"})
                                        THEN NULL ELSE SqlArith(e, a, b)
===============================================================================
