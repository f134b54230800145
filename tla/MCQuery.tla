------------------------------- MODULE MCQuery -------------------------------
(* Constants for TLC: four small tables, and builder calls that meet every   *)
(* type, NULL, NaN, overflow and zero divisor, valid ones and invalid ones.  *)
EXTENDS Query

CONSTANTS W, D, E, Z   \* names of the tables

Field(n, t) == [name |-> n, type |-> t]

\* A column whose dictionary is given, with junk under its NULLs.
Col(t, cells, dict) ==
    Fill(t, [i \in DOMAIN cells |-> IF t = "STR" /\ cells[i] # NULL
                                    THEN CodeOf(dict, cells[i]) ELSE cells[i]], dict)

\* Every type; strings whose codes are not in their order and differ by column.
Wide == [schema |-> <<Field("a", "I32"), Field("b", "I64"), Field("f", "F64"), Field("p", "BOOL"),
                      Field("t", "TS"), Field("s", "STR"), Field("u", "STR")>>,
         cols |-> <<Col("I32", <<-8, NULL, 7, -1, -8>>, <<>>),
                    Col("I64", <<127, 0, -128, NULL, 3>>, <<>>),
                    Col("F64", <<5, NaN, -3, NULL, 300>>, <<>>),
                    Col("BOOL", <<1, NULL, 0, NULL, 1>>, <<>>),
                    Col("TS", <<3, 1, NULL, 0, 2>>, <<>>),
                    Col("STR", <<20, 10, NULL, 10, 20>>, <<20, 10>>),
                    Col("STR", <<10, 10, 30, NULL, 20>>, <<10, 30, 20>>)>>]

Dimension == [schema |-> <<Field("k", "I32"), Field("v", "STR"), Field("w", "TS"), Field("a", "I64")>>,
              cols |-> <<Col("I32", <<-8, 7, -8>>, <<>>), Col("STR", <<10, NULL, 30>>, <<30, 10>>),
                         Col("TS", <<0, 2, 3>>, <<>>), Col("I64", <<0, 1, 2>>, <<>>)>>]

Series == [schema |-> <<Field("t", "TS"), Field("x", "F64")>>,
           cols |-> <<Col("TS", <<2, 0, NULL>>, <<>>), Col("F64", <<NaN, NULL, 4>>, <<>>)>>]

Empty == [schema |-> <<Field("a", "I32"), Field("t", "I64")>>,
          cols |-> <<Col("I32", <<>>, <<>>), Col("I64", <<>>, <<>>)>>]

MCTables == (W :> Wide) @@ (D :> Dimension) @@ (E :> Series) @@ (Z :> Empty)
-----------------------------------------------------------------------------
Ix(i) == [byName |-> FALSE, index |-> i, name |-> ""]
By(n) == [byName |-> TRUE, index |-> 0, name |-> n]
Agg(func, col) == [func |-> func, col |-> col, name |-> func]
Key(ref, dir, nulls) == [col |-> ref, dir |-> dir, nulls |-> nulls]
As(e) == [name |-> "e", expr |-> e]

a == Column("I32", 1)
b == Column("I64", 2)
f == Column("F64", 3)
p == Column("BOOL", 4)
t == Column("TS", 5)
s == Column("STR", 6)
u == Column("STR", 7)
I32(n) == Literal("I32", n)

Filters ==
    {p, a, Column("BOOL", 1), Literal("BOOL", NULL),
     Logic("And", <<p, Cmp("Lt", a, b)>>),
     Logic("Or", <<Logic("Not", <<p>>), Cmp("Eq", s, u)>>),
     Cmp("Ge", f, a), Cmp("Ne", Column("I32", 1), I32(7))}

Projections ==
    { <<As(Arith("Div", a, I32(-1))), As(Arith("Mod", b, a)), As(Arith("Mul", a, b)), As(Cast(b, "I32")), As(s)>>,
      <<As(Cast(f, "I32")), As(Cast(f, "I64")), As(Arith("Sub", f, a)), As(Cast(a, "BOOL")), As(Cast(t, "F64"))>>,
      <<As(Logic("Not", <<p>>)), As(Logic("Or", <<p, Literal("BOOL", NULL)>>)), As(Cmp("Lt", u, s)),
        As(Arith("Div", f, f)), As(Cast(Column("BOOL", 4), "I64")), As(u)>>,
      <<As(a), As(Cast(Literal("F64", -3), "I32"))>>,
      <<As(Arith("Add", a, s))>>, <<>> }

Groupings ==
    { [keys |-> <<>>, aggs |-> <<Agg("CountStar", 0), Agg("Sum", 1), Agg("Avg", 3), Agg("Min", 3), Agg("Max", 6)>>],
      [keys |-> <<By("s")>>, aggs |-> <<Agg("Count", 2), Agg("Min", 7), Agg("Avg", 1), Agg("Max", 3)>>],
      [keys |-> <<Ix(3)>>, aggs |-> <<Agg("CountStar", 0), Agg("Min", 6)>>],
      [keys |-> <<Ix(4), By("a")>>, aggs |-> <<Agg("Max", 5), Agg("Sum", 3)>>],
      [keys |-> <<>>, aggs |-> <<Agg("Max", 1), Agg("Count", 1)>>],
      [keys |-> <<>>, aggs |-> <<Agg("Sum", 6)>>] }

OneJoin(build, l, r, type) == [build |-> build, left |-> l, right |-> r, type |-> type]

OneAsof(l, r, type, tol) ==
    [build |-> D, left |-> l, right |-> r, leftTime |-> By("t"), rightTime |-> By("w"),
     type |-> type, tolerance |-> tol]

OneWindow(keys, time, param, aggs) == [keys |-> keys, time |-> time, param |-> param, aggs |-> aggs]

MCCalls ==
    [filter |-> Filters, project |-> Projections, aggregate |-> Groupings,
     join |-> {OneJoin(D, <<By("a")>>, <<Ix(1)>>, "Inner"), OneJoin(D, <<By("s")>>, <<By("v")>>, "Left"),
               OneJoin(Z, <<Ix(1)>>, <<Ix(1)>>, "Left"), OneJoin(D, <<Ix(1)>>, <<Ix(3)>>, "Inner")},
     asof |-> {OneAsof(<<Ix(1)>>, <<Ix(1)>>, "Left", NULL), OneAsof(<<>>, <<>>, "Inner", 1)},
     tumbling |-> {OneWindow(<<Ix(4)>>, By("t"), 2, <<Agg("Avg", 3), Agg("Min", 1)>>),
                   OneWindow(<<By("s")>>, By("t"), 2, <<Agg("CountStar", 0)>>),
                   OneWindow(<<>>, By("t"), 0, <<Agg("CountStar", 0)>>)},
     sliding |-> {OneWindow(<<Ix(1)>>, By("t"), 1, <<Agg("Sum", 1), Agg("Max", 3)>>),
                  OneWindow(<<>>, By("t"), 1, <<Agg("Min", 6)>>),
                  OneWindow(<<>>, By("t"), -1, <<Agg("CountStar", 0)>>)},
     sort |-> {<<Key(By("a"), "Desc", "First"), Key(By("t"), "Asc", "Last")>>,
               <<Key(Ix(3), "Desc", "Last")>>, <<Key(By("s"), "Asc", "First"), Key(Ix(2), "Desc", "First")>>,
               <<Key(Ix(9), "Asc", "First")>>}]

MCMinInt == -1000
===============================================================================
