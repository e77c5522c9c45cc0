---------------------------- MODULE Expressions ----------------------------
(***************************************************************************)
(* Expr of src/src/plan.rs and its evaluation by src/src/exec.rs: a node   *)
(* is computed for all rows of a selection at once and yields an array of  *)
(* as many values, or of one value that stands for all of them.            *)
(*                                                                         *)
(* Integers saturate at a small width; floats are whole and do not (NaN,   *)
(* fractions and rounding are left out, and with them division, AVG, the   *)
(* roots and roundings, and remainders by a float zero); truth values are  *)
(* 0 and 1, as in the code; a string is its place among Texts.             *)
(***************************************************************************)
EXTENDS Calendar, Vectors, SequencesExt

CONSTANTS
    IntMax,     \* i64::MAX
    Texts,      \* all strings, as sequences of characters, in lexicographic order
    Dims,       \* the types of vectors, with their dimensions
    UnitCalled  \* the units of date_trunc, by what they are called in lower case

ASSUME IntMaxAssumption == IntMax \in Nat \ {0}
ASSUME TextsAssumption == Texts[1] = <<>>
ASSUME UnitsAssumption == \A t \in DOMAIN UnitCalled : UnitCalled[t] \in Units

\* Nodes have the expressions they are built from as args.  Expr::Col counts from 1.
Col(i)               == [kind |-> "col", i |-> i, args |-> <<>>]
Lit(type, v)         == [kind |-> "lit", type |-> type, v |-> v, args |-> <<>>]
Node(kind, op, args) == [kind |-> kind, op |-> op, args |-> args]
Dist(metric, i, q)   == [kind |-> "dist", metric |-> metric, i |-> i, q |-> q, args |-> <<>>]
Unbound              == [kind |-> "unbound", args |-> <<>>]

Un(op, e)             == Node("un", op, <<e>>)              \* "not", "neg"
Bin(op, l, r)         == Node("bin", op, <<l, r>>)
Between(op, e, lo, hi) == Node("between", op, <<e, lo, hi>>) \* "is", "not"
In(op, e, list)       == Node("in", op, <<e>> \o list)
Cast(type, e)         == Node("cast", type, <<e>>)
Func(func, args)      == Node("func", func, args)
Agg(func, args)       == Node("agg", func, args)            \* no argument: COUNT(*)
Distinct(func, e)     == Node("distinct", func, <<e>>)

\* A pattern is a sequence of characters, two of which are its wildcards.
Like(op, e, pattern, fold) ==
    [kind |-> "like", op |-> op, pattern |-> pattern, fold |-> fold, args |-> <<e>>]

IsAgg(e) == e.kind \in {"agg", "distinct"}

-----------------------------------------------------------------------------
(* Types and values of one row. *)

Number == {"int", "float", "bool"}      \* what to_f64 takes
Vector == DOMAIN Dims

Compares == {"eq", "neq", "lt", "le", "gt", "ge"}

Saturate(x) == Max({-IntMax - 1, Min({x, IntMax})})

\* What is left of an integer that does not fit where the code does not saturate.
Wrap(x) == ((x + IntMax + 1) % (2 * IntMax + 2)) - IntMax - 1

AbsOf(x) == IF x < 0 THEN -x ELSE x

Truth(b) == IF b THEN 1 ELSE 0

\* Which operands eval_binary takes, and what it makes of them.
OpType(op, l, r) ==
    CASE op \in {"and", "or"} -> IF {l, r} = {"bool"} THEN "bool" ELSE "error"
      [] op \in Compares -> IF {l, r} = {"str"} \/ {l, r} \subseteq Number THEN "bool" ELSE "error"
      [] op \in {"add", "sub", "mul", "mod"} ->
            IF {l, r} = {"int"} THEN "int" ELSE IF {l, r} \subseteq Number THEN "float" ELSE "error"

\* The remainder has the sign of the dividend.
Remainder(x, y) ==
    LET rest == AbsOf(x) % AbsOf(y)
    IN  IF y = 0 THEN 0 ELSE IF x < 0 THEN -rest ELSE rest

Compared(op, x, y) ==
    Truth(CASE op = "eq" -> x = y [] op = "neq" -> x # y [] op = "lt" -> x < y
            [] op = "le" -> x <= y [] op = "gt" -> x > y [] op = "ge" -> x >= y)

Apply(op, type, x, y) ==
    LET exact == CASE op = "add" -> x + y [] op = "sub" -> x - y
                   [] op = "mul" -> x * y [] op = "mod" -> Remainder(x, y)
    IN  CASE op = "and" -> Truth(x # 0 /\ y # 0)
          [] op = "or"  -> Truth(x # 0 \/ y # 0)
          [] op \in Compares -> Compared(op, x, y)
          [] OTHER -> IF type = "int" THEN Saturate(exact) ELSE exact

\* CAST; to a string is left out.
CastType(type, from) ==
    CASE type \in {"int", "float"} -> IF from \in Number \cup {"str"} THEN type ELSE "error"
      [] type = "bool" -> IF from \in Number THEN type ELSE "error"
      [] type \in Vector -> "error"

\* The strings have no digits: as numbers all of them are 0.
CastTo(type, from, x) ==
    CASE from = "str"   -> 0
      [] from # "str" /\ type = "int"   -> Saturate(x)
      [] from # "str" /\ type = "float" -> x
      [] from # "str" /\ type = "bool"  -> Truth(x # 0)

FuncType(func, types) ==
    LET t == types[1]
        others == {types[k] : k \in 2..Len(types)}
    IN  CASE func = "length" -> IF t = "str" THEN "int" ELSE "error"
          [] func \in {"lower", "upper"} -> IF t = "str" THEN "str" ELSE "error"
          [] func = "abs" -> IF t = "int" THEN "int" ELSE IF t \in Number THEN "float" ELSE "error"
          [] func = "substring" -> IF t = "str" /\ others \subseteq Number THEN "str" ELSE "error"
          [] func \in Parts -> IF t \in Number THEN "int" ELSE "error"
          [] func = "date_trunc" -> IF t = "str" /\ others \subseteq Number THEN "int" ELSE "error"
          [] func = "coalesce" -> IF "error" \in others THEN "error" ELSE t
          [] func = "if" -> IF t # "bool" THEN "error" ELSE IF others = {"str"} THEN "str"
                            ELSE IF others \subseteq Number THEN "float" ELSE "error"

Text(s)  == Texts[s + 1]
Place(t) == (CHOOSE k \in 1..Len(Texts) : Texts[k] = t) - 1

\* Every letter has an upper case, an odd number, and a lower case, the next one.
Lower(t) == [k \in 1..Len(t) |-> t[k] + (t[k] % 2)]
Upper(t) == [k \in 1..Len(t) |-> t[k] - 1 + (t[k] % 2)]

\* `%` and `_`, which have no case.
AnyText == 0
AnyChar == -2

\* What like.rs answers for a text without a `%`; how it finds that is in Like.
Matches(t, p) ==
    LET m[i \in 0..Len(t), j \in 0..Len(p)] ==
            IF j = Len(p) THEN i = Len(t)
            ELSE IF p[j + 1] = AnyText THEN m[i, j + 1] \/ (i < Len(t) /\ m[i + 1, j])
            ELSE i < Len(t) /\ p[j + 1] \in {AnyChar, t[i + 1]} /\ m[i + 1, j + 1]
    IN  m[0, 0]

\* ILIKE compares in lower case.
LikeHolds(e, t) == IF e.fold THEN Matches(Lower(t), Lower(e.pattern)) ELSE Matches(t, e.pattern)

\* Substring counts from 1; what lies outside of the string is empty.
Substring(xs) ==
    LET t    == Text(xs[1])
        skip == Max({xs[2] - 1, 0})
        take == IF Len(xs) = 2 THEN Len(t) ELSE Max({xs[3], 0})
    IN  Place(SubSeq(t, skip + 1, Min({Len(t), skip + take})))

FuncValue(func, type, xs) ==
    CASE func = "length"    -> Len(Text(xs[1]))
      [] func = "lower"     -> Place(Lower(Text(xs[1])))
      [] func = "upper"     -> Place(Upper(Text(xs[1])))
      [] func = "abs"       -> IF type = "int" THEN Saturate(AbsOf(xs[1])) ELSE AbsOf(xs[1])
      [] func = "substring" -> Substring(xs)
      [] func \in Parts     -> ExtractPart(func, Saturate(xs[1]))
      [] func = "coalesce"  -> xs[1]
      [] func = "if"        -> IF xs[1] # 0 THEN xs[2] ELSE xs[3]

\* The type of a node from those of its args, and its value from theirs.
NodeType(e, types) ==
    CASE e.kind = "un"  -> IF e.op = "not" THEN OpType("and", types[1], types[1])
                           ELSE OpType("sub", types[1], types[1])
      [] e.kind = "bin" -> OpType(e.op, types[1], types[2])
      [] e.kind = "between" -> OpType("and", OpType("ge", types[1], types[2]),
                                             OpType("le", types[1], types[3]))
      [] e.kind = "in"   -> IF \A k \in 2..Len(types) : OpType("eq", types[1], types[k]) = "bool"
                            THEN "bool" ELSE "error"
      [] e.kind = "like" -> IF types[1] = "str" THEN "bool" ELSE "error"
      [] e.kind = "cast" -> CastType(e.op, types[1])
      [] e.kind = "func" -> FuncType(e.op, types)

NodeValue(e, types, xs) ==
    LET type == NodeType(e, types)
    IN  CASE e.kind = "un"  -> IF e.op = "not" THEN Truth(xs[1] = 0) ELSE Apply("sub", type, 0, xs[1])
          [] e.kind = "bin" -> Apply(e.op, type, xs[1], xs[2])
          [] e.kind = "between" -> Truth((e.op = "is") = (xs[2] <= xs[1] /\ xs[1] <= xs[3]))
          [] e.kind = "in"   -> Truth((e.op = "is") = (\E k \in 2..Len(xs) : xs[k] = xs[1]))
          [] e.kind = "like" -> Truth((e.op = "is") = LikeHolds(e, Text(xs[1])))
          [] e.kind = "cast" -> CastTo(e.op, types[1], xs[1])
          [] e.kind = "func" -> FuncValue(e.op, type, xs)
-----------------------------------------------------------------------------
(* Arrays: a node for all rows of a selection. *)

Arr(type, v) == [type |-> type, v |-> v]
Error        == Arr("error", <<>>)
Panic        == Arr("panic", <<>>)
Failed(a)    == a.type \in {"error", "panic"}

\* The first of the arrays that failed: `?` goes no further.
FirstFailed(arrays) == arrays[Min({k \in 1..Len(arrays) : Failed(arrays[k])})]

At(a, i) == IF Len(a.v) = 1 THEN a.v[1] ELSE a.v[i]

\* gather: the values of a column in the selected rows.
Gather(column, sel) == Arr(column.type, [i \in 1..Len(sel) |-> column.v[sel[i]]])

\* distances.
Distances(e, columns, sel) ==
    IF e.i > Len(columns) THEN Error
    ELSE LET c == columns[e.i]
         IN  IF c.type \notin Vector THEN Error
             ELSE IF Dims[c.type] # Len(e.q) THEN Error
             ELSE Arr("float", [i \in 1..Len(sel) |-> Distance(e.metric, c.v[sel[i]], e.q)])

\* How long the result is: as the first of the args that is not a constant
\* (pair_len, scalar_func); coalesce hands on its first.
Length(e, args) ==
    LET long == {k \in 1..Len(args) : Len(args[k].v) # 1}
    IN  IF e.op = "coalesce" THEN Len(args[1].v)
        ELSE IF long = {} THEN 1 ELSE Len(args[Min(long)].v)

\* The multiple of the unit that a time lies behind, as an i64.
CutTo(unit, x) == Wrap(DateTrunc(unit, Saturate(x)))

\* date_trunc: the unit of the first row is that of all rows, and it is looked for
\* (unit[0]) also where there is no row.
TruncDates(units, times) ==
    LET name == Lower(Text(units.v[1]))
    IN  IF units.v = <<>> THEN Panic
        ELSE IF name \notin DOMAIN UnitCalled THEN Error
        ELSE Arr("int", [i \in 1..Len(times.v) |-> CutTo(UnitCalled[name], times.v[i])])

\* A node whose args are there, of this type.
NodeArray(e, args, types, type) ==
    IF type = "error" THEN Error
    ELSE IF e.op = "date_trunc" THEN TruncDates(args[1], args[2])
    ELSE Arr(type, [i \in 1..Length(e, args) |->
                      NodeValue(e, types, [k \in 1..Len(args) |-> At(args[k], i)])])

\* The args are evaluated one after the other; BETWEEN compares with its lower bound
\* before it evaluates the upper one.
EvalNode(e, args, types) ==
    LET failed == {k \in 1..Len(args) : Failed(args[k])}
    IN  IF failed = {} THEN NodeArray(e, args, types, NodeType(e, types))
        ELSE IF e.kind = "between" /\ failed = {3} /\ OpType("ge", types[1], types[2]) = "error"
        THEN Error
        ELSE FirstFailed(args)

\* A result is one value or as many as rows are selected.
Checked(a, sel) == IF Failed(a) \/ Len(a.v) \in {1, Len(sel)} THEN a ELSE Error

\* eval over the columns of a frame.
RECURSIVE Eval(_, _, _)
Eval(e, columns, sel) ==
    LET args  == [k \in 1..Len(e.args) |-> Eval(e.args[k], columns, sel)]
        types == [k \in 1..Len(args) |-> args[k].type]
    IN  Checked(CASE e.kind = "col" -> IF e.i <= Len(columns) THEN Gather(columns[e.i], sel) ELSE Error
                  [] e.kind = "lit" -> Arr(e.type, <<e.v>>)
                  [] e.kind = "dist" -> Distances(e, columns, sel)
                  [] IsAgg(e) -> Error
                  [] OTHER -> EvalNode(e, args, types),
                sel)

-----------------------------------------------------------------------------
(* plan.rs: walking and rewriting.                                         *)

RECURSIVE Nodes(_)
Nodes(e) == {e} \cup UNION {Nodes(e.args[k]) : k \in 1..Len(e.args)}

ContainsAgg(e) == \E n \in Nodes(e) : IsAgg(n)

\* The columns that a walk meets; it does not look into distances.
ColumnsOf(e) == {n.i : n \in {m \in Nodes(e) : m.kind = "col"}}

\* The aggregates of e from left to right; none is looked for inside another.
RECURSIVE AggsOf(_)
AggsOf(e) ==
    IF IsAgg(e) THEN <<e>> ELSE FlattenSeq([k \in 1..Len(e.args) |-> AggsOf(e.args[k])])

\* substitute: the first pattern equal to the whole node wins, and what it puts in
\* is not looked at again; lists of IN and distances stay as they are.
RECURSIVE Substitute(_, _)
Substitute(e, pats) ==
    LET same == {k \in 1..Len(pats) : pats[k][1] = e}
    IN  IF same # {} THEN pats[Min(same)][2]
        ELSE [e EXCEPT !.args = [k \in 1..Len(e.args) |->
                 IF e.kind = "in" /\ k > 1 THEN e.args[k] ELSE Substitute(e.args[k], pats)]]
=============================================================================
