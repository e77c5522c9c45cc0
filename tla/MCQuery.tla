------------------------------- MODULE MCQuery -------------------------------
(* Query over small tables: queries that combine every clause with every    *)
(* other, queries that refer to their list in every way, every expression   *)
(* in every place, times of eight centuries, and nearest neighbours.        *)
EXTENDS Query

A == Name("a")
B == Name("b")
C == Name("c")
Whole(i) == Lit("int", i)
True   == Lit("bool", 1)
CountAll == Agg("count", <<>>)
Of(func, e) == Agg(func, <<e>>)

Half == IntMax \div 2 + 1       \* two of them saturate

Asc(e)  == [expr |-> e, asc |-> TRUE]
Desc(e) == [expr |-> e, asc |-> FALSE]

All == <<None, None>>           \* no LIMIT, no OFFSET
Paged(limit, offset) == <<Whole(limit), Whole(offset)>>

Select(list, filter, groups, having, order, page) ==
    [from |-> TRUE, list |-> list, filter |-> filter, groups |-> groups, having |-> having,
     order |-> order, limit |-> page[1], offset |-> page[2]]
Simple(list) == Select(list, None, <<>>, None, <<>>, All)

PlainList(exprs) == [k \in 1..Len(exprs) |-> Plain(exprs[k])]

Field(name, type) == [name |-> name, type |-> type]
Ints(n) == [k \in 1..n |-> Field(<<"a", "b", "c">>[k], "int")]

\* All tables of n rows and two columns over these values.
TwoColumns(n, values) ==
    {[schema |-> Ints(2), columns |-> <<Arr("int", a), Arr("int", b)>>] :
        a, b \in [1..n -> values]}
Pairs == UNION {TwoColumns(n, {0, Half}) : n \in {0, 1, 3}}

Ask(queries, tables, replacements) ==
    {[query |-> q, sources |-> tables, others |-> replacements] : q \in queries}

-----------------------------------------------------------------------------
(* Clauses. *)

RowQueries ==
    {Select(list, filter, <<>>, None, order, page) :
        filter \in {None, A, Bin("and", Bin("gt", A, Whole(0)), True)},
        list \in {PlainList(<<A>>), PlainList(<<B, Bin("add", A, B), Whole(1)>>)},
        order \in {<<>>, <<Desc(A)>>, <<Asc(B), Desc(Bin("sub", A, B))>>, <<Asc(Bin("add", Whole(1), Whole(1)))>>},
        page \in {All, <<None, Whole(2)>>, Paged(1, 0), Paged(1, 1), Paged(2, 1)}}

GroupQueries ==
    {Select(PlainList(list), filter, groups, having, order, page) :
        filter \in {None, Bin("gt", A, B)},
        groups \in {<<>>, <<A>>, <<B, A>>, <<Bin("add", A, B)>>, <<CountAll>>},
        having \in {None, Bin("gt", CountAll, Whole(1))},
        list \in {<<A>>, <<A, Of("sum", B)>>, <<Bin("add", A, B), Of("min", A), Of("max", B)>>,
                  <<Distinct("count", B), Whole(1)>>, <<Bin("add", Of("sum", A), CountAll)>>},
        order \in {<<>>, <<Desc(CountAll)>>, <<Asc(A)>>},
        page \in {All, Paged(1, 1)}}

-----------------------------------------------------------------------------
(* References: three columns, of which c is also an alias and d only one.   *)

ThreeColumns ==
    [schema |-> Ints(3),
     columns |-> <<Arr("int", <<1, 0, 1, 2>>), Arr("int", <<0, 2, 1, 1>>), Arr("int", <<2, 1, 0, 0>>)>>]

Sum == Bin("add", A, B)
Lists ==
    {<<Everything>>, <<Everything, Plain(Sum)>>, <<Plain(Sum), Everything>>,
     <<Item(Sum, "d"), Item(A, "c")>>, <<Item(B, "d"), Item(A, "d"), Plain(C)>>,
     PlainList(<<A, CountAll>>), <<Item(CountAll, "d"), Plain(A)>>, <<>>}
References == {A, C, Sum, Name("d"), Whole(1), Whole(2), Whole(0), Lit("float", 1), CountAll}
ReferringQueries ==
    {Select(list, None, groups, None, order, All) :
        list \in Lists, groups \in {<<>>} \cup {<<e>> : e \in References},
        order \in {<<>>} \cup {<<Desc(e)>> : e \in References}}
    \cup {[Simple(list) EXCEPT !.from = FALSE] : list \in Lists \cup {PlainList(<<Whole(1), Of("sum", Whole(2))>>)}}

-----------------------------------------------------------------------------
(* Expressions: a table with a column of every type, and others of its name *)
(* with fewer columns, in another order or with a shorter vector.           *)

Named == <<Field("a", "int"), Field("f", "float"), Field("s", "str"), Field("t", "bool"), Field("v", "vec")>>
Mixed(n) ==
    LET first(column) == SubSeq(column, 1, n)
    IN  [schema |-> Named,
         columns |-> <<Arr("int", first(<<3, -1, -IntMax - 1>>)), Arr("float", first(<<0, 2, -1>>)),
                       Arr("str", first(<<1, 0, 4>>)), Arr("bool", first(<<0, 1, 1>>)),
                       Arr("vec", first(<<<<1, 2, 0, 1, 3>>, <<0, 0, 2, 0, 1>>, <<1, 1, 1, 1, 1>>>>))>>]
Narrow == [schema |-> Ints(1), columns |-> <<Arr("int", <<4, 4>>)>>]
Turned ==
    [schema |-> <<Field("v", "pair"), Field("t", "bool"), Field("s", "str"), Field("f", "float"), Field("a", "pair")>>,
     columns |-> <<Arr("pair", <<<<1, 0>>>>), Arr("bool", <<1>>), Arr("str", <<2>>), Arr("float", <<3>>),
                   Arr("pair", <<<<0, 1>>>>)>>]

F == Name("f")
S == Name("s")
T == Name("t")
V == Name("v")
Nearest == <<0, 1, 1, 0, 2>>
Str(s) == Lit("str", s)
Trunc(unit, time) == Func("date_trunc", <<unit, time>>)

Expressions1 ==
    {A, F, S, T, V, Whole(2), Str(1), True, Name("z"), Un("neg", A), Un("neg", T), Un("neg", Whole(2)), Un("not", T),
     Un("not", A), Bin("mod", A, Whole(2)), Bin("mul", A, Whole(2)), Bin("mul", F, A), Bin("sub", A, T),
     Bin("lt", S, Str(2)), Bin("eq", S, A), Bin("add", S, S), Bin("or", T, Bin("le", A, F)), Bin("eq", V, V),
     In("is", A, <<Whole(3), Whole(-1)>>), In("not", S, <<Str(1), Str(3)>>), In("is", S, <<Whole(1)>>), In("is", A, <<F>>),
     Between("is", A, Whole(-1), F), Between("not", S, Str(0), Str(2)), Between("is", A, S, S),
     Like("is", S, <<1, AnyText>>, FALSE), Like("not", S, <<AnyChar>>, FALSE), Like("is", S, <<AnyText, 2>>, TRUE),
     Like("not", A, <<AnyText>>, TRUE),
     Cast("bool", F), Cast("int", F), Cast("float", A), Cast("int", S), Cast("bool", S), Cast("vec", V),
     Func("length", <<S>>), Func("length", <<A>>), Func("upper", <<S>>), Func("lower", <<Str(3)>>),
     Func("abs", <<A>>), Func("abs", <<F>>), Func("abs", <<A, A>>), Func("substring", <<S, Whole(1), Whole(1)>>),
     Func("substring", <<Str(4), A>>), Func("substring", <<S>>), Func("coalesce", <<Whole(1), A>>), Func("coalesce", <<A, S>>),
     Func("if", <<T, A, Whole(2)>>), Func("if", <<T, S, Str(4)>>), Func("if", <<T, S, A>>),
     Case(<<T, A, Bin("eq", A, Whole(3)), F, Whole(5)>>), Case(<<T, S>>), Case(<<T, A>>),
     CaseOf(A, <<Whole(3), S, Whole(-1), Str(2), Str(5)>>),
     Trunc(Str(9), A), Trunc(Str(6), F), Trunc(Str(0), A), Trunc(Str(8), S), Trunc(A, A), Trunc(S, A), Trunc(S, Whole(2)),
     Trunc(Func("upper", <<Str(6)>>), A), Func("date_trunc", <<Str(6)>>),
     Metric("l2", <<V, Array(Nearest)>>), Metric("ip", <<V, Array(Nearest)>>), Metric("l2", <<V, Array(<<1, 2>>)>>),
     Metric("l2", <<A, Array(Nearest)>>), Metric("ip", <<V>>)}

\* Cut times where no row is left by WHERE, HAVING or LIMIT, and units that are keys.
TruncQueries ==
    UNION {{Select(PlainList(<<e>>), None, <<>>, None, <<>>, Paged(0, 0)),
            Select(PlainList(<<e>>), Bin("eq", S, Str(3)), <<>>, None, <<>>, All),
            Select(PlainList(<<A>>), Bin("eq", S, Str(3)), <<>>, None, <<Asc(e)>>, All),
            Select(PlainList(<<e>>), None, <<S, A>>, Bin("gt", CountAll, Whole(1)), <<>>, All),
            Select(PlainList(<<e, CountAll>>), None, <<A, Str(6)>>, None, <<>>, All)} :
                e \in {Trunc(S, A), Trunc(Str(6), A), Trunc(Str(0), A)}}
    \cup {Simple(PlainList(<<Trunc(Of("min", S), Of("sum", A))>>)),
          Select(PlainList(<<Trunc(Of("min", S), Whole(7))>>), None, <<A>>, None, <<>>, All)}

\* Two strings that differ in case.
Shout == Bin("eq", S, Str(1))
Whisper == Bin("eq", S, Str(4))

ExpressionQueries ==
    UNION {{Simple(PlainList(<<e>>)),
            Select(PlainList(<<A>>), e, <<>>, None, <<>>, All),
            Select(PlainList(<<A>>), None, <<>>, None, <<Desc(e), Asc(T)>>, Paged(2, 0)),
            Select(PlainList(<<e, CountAll>>), None, <<e>>, None, <<>>, All),
            Simple(PlainList(<<Of("sum", e), Of("min", e), Of("max", e)>>)),
            Simple(PlainList(<<Of("min", e), Of("max", e), Of("count", e)>>)),
            Simple(PlainList(<<Agg("uniq", <<e>>)>>)),
            Select(PlainList(<<T>>), None, <<T>>, Bin("ge", Of("max", e), Whole(1)), <<>>, All)} :
                e \in Expressions1}
    \cup {Simple(<<Everything>>), Simple(PlainList(<<Of("sum", CountAll)>>)),
          Simple(PlainList(<<Agg("sum", <<>>)>>)), Simple(PlainList(<<Distinct("sum", A)>>)),
          Select(PlainList(<<Shout, CountAll>>), None, <<Whisper>>, None, <<>>, All),
          Select(PlainList(<<A>>), None, <<>>, None, <<>>, <<Whole(-1), None>>),
          Select(PlainList(<<A>>), None, <<>>, None, <<>>, <<Whole(1), Lit("str", 0)>>)}

-----------------------------------------------------------------------------
\* The first and the last second of the days around the ends of months, in years with
\* every rule for leap years before and after 1970, and one second of another hour.
Years  == {1600, 1700, 1899, 1900, 1904, 1969, 1970, 1971, 2000, 2100, 2300}
InYear == <<-1, 0, 58, 59, 60, 90, 121, 152, 213, 305, 364>>
InDay  == <<0, HourSeconds + 1, DaySeconds - 1>>
Moments(y) ==
    [schema |-> <<Field("a", "int")>>,
     columns |-> <<Arr("int", [n \in 1..33 |->
        (DaysBefore(y) + InYear[(n + 2) \div 3]) * DaySeconds + InDay[(n % 3) + 1]])>>]

TimeQuery ==
    Simple(PlainList(
        [k \in 1..5 |-> Func(<<"year", "month", "day", "hour", "minute">>[k], <<A>>)]
        \o [k \in 1..4 |-> Trunc(Str(<<4, 6, 8, 10>>[k]), A)]))

MCCases ==
    Ask(RowQueries \cup GroupQueries, Pairs, {})
    \cup Ask(ReferringQueries, {ThreeColumns}, {})
    \cup Ask(ExpressionQueries \cup TruncQueries, {Mixed(n) : n \in 0..3}, {Narrow, Turned})
    \cup Ask({TimeQuery}, {Moments(y) : y \in Years}, {})

\* Letters: 1 is A, 2 is a, 3 is B and so on.  Strings of up to two of the first, and
\* one of the others; four of them are the names of the units.
MCTexts == <<<<>>, <<1>>, <<1, 1>>, <<1, 2>>, <<2>>, <<2, 1>>, <<2, 2>>, <<3>>, <<4>>, <<5>>, <<6>>>>
MCUnits == <<2>> :> "second" @@ <<2, 2>> :> "minute" @@ <<4>> :> "hour" @@ <<6>> :> "day"

MCDims == [vec |-> 5, pair |-> 2]

\* Every item of a SELECT with aggregates is an aggregate or in GROUP BY, or the
\* query is refused: "All that is still left to refer to base columns is
\* `SELECT x` without `GROUP BY x`" (exec.rs:972), "'{}' is not an aggregate and
\* not in GROUP BY" (exec.rs:984).
UngroupedRefused == stage = "done" /\ Aggregates => \A e \in ToSet(Shown) : Grounded(e)
=============================================================================
