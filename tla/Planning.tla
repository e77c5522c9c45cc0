------------------------------ MODULE Planning ------------------------------
(***************************************************************************)
(* plan_query of src/src/sql.rs: from a SELECT as it was written, a tree   *)
(* with names, to the plan that is run, whose expressions name columns by  *)
(* their places.  What the parser's tree alone shows to be unsupported     *)
(* (WITH, UNION, DISTINCT, joins, windows, IS NULL) is left out.           *)
(*                                                                         *)
(* Names are compared without case in the code, so a name here stands for  *)
(* all its spellings.                                                      *)
(***************************************************************************)
EXTENDS Expressions

None == [kind |-> "none"]           \* an absent clause
NoLimit == -1

\* As written.  The node of a function or an operator is that of Expressions.
Name(n)   == [kind |-> "name", name |-> n, args |-> <<>>]
Array(q)  == [kind |-> "array", q |-> q, args |-> <<>>]       \* ARRAY[...] or '[...]'
Metric(metric, args) == Node("metric", metric, args)
Case(args) == Node("case", "searched", args)     \* WHEN, THEN, ... and ELSE if there is one
CaseOf(e, args) == Node("case", "simple", <<e>> \o args)

\* An item of the list and, if it has none, its text in place of an alias.
Item(e, alias) == [expr |-> e, alias |-> alias]
TextOf(e)      == IF e.kind = "name" THEN e.name ELSE ""
Plain(e)       == Item(e, TextOf(e))
Everything     == Item([kind |-> "wildcard", args |-> <<>>], "")

IndexOf(schema, name) ==
    LET is == {i \in 1..Len(schema) : schema[i].name = name}
    IN  IF is = {} THEN 0 ELSE Min(is)

ToColumn(schema, name) ==
    IF IndexOf(schema, name) = 0 THEN Unbound ELSE Col(IndexOf(schema, name))

-----------------------------------------------------------------------------
(* bind *)

\* A CASE becomes ifs within ifs; one without ELSE ends in the empty string.
RECURSIVE Ifs(_)
Ifs(args) ==
    CASE Len(args) = 0 -> Lit("str", 0)
      [] Len(args) = 1 -> args[1]
      [] Len(args) > 1 -> Func("if", <<args[1], args[2], Ifs(SubSeq(args, 3, Len(args)))>>)

BindCase(op, args) ==
    LET branches == Tail(args)
    IN  IF op = "searched" THEN Ifs(args)
        ELSE Ifs([k \in 1..Len(branches) |->
                    IF k % 2 = 1 /\ k < Len(branches) THEN Bin("eq", args[1], branches[k])
                    ELSE branches[k]])

\* COUNT without an argument counts the rows, DISTINCT or not.
BindAgg(e, args) ==
    LET func == IF e.op = "uniq" THEN "count" ELSE e.op
    IN  CASE args = <<>> -> IF func = "count" THEN Agg("count", <<>>) ELSE Unbound
          [] Len(args) = 1 -> IF e.op = "uniq" THEN Distinct("count", args[1])
                              ELSE Node(e.kind, func, args)
          [] Len(args) > 1 -> Unbound

BindMetric(e, first, schema) ==
    IF Len(e.args) # 2 \/ first.kind # "col" \/ e.args[Len(e.args)].kind # "array" THEN Unbound
    ELSE LET type == schema[first.i].type
             q    == e.args[2].q
         IN  IF type \notin Vector THEN Unbound
             ELSE IF Len(q) # Dims[type] THEN Unbound ELSE Dist(e.op, first.i, q)

Arity(func) ==
    CASE func = "substring" -> {2, 3} [] func = "if" -> {3}
      [] func = "date_trunc" -> {2} [] func = "coalesce"  -> Nat \ {0} [] OTHER -> {1}

RECURSIVE Bind(_, _)
Bind(e, schema) ==
    LET args == [k \in 1..Len(e.args) |-> Bind(e.args[k], schema)]
    IN  CASE e.kind = "name" -> ToColumn(schema, e.name)
          [] e.kind = "lit"  -> e
          [] e.kind \in {"array", "wildcard"} -> Unbound
          [] e.kind = "un" -> IF e.op = "neg" /\ args[1].kind = "lit" /\ args[1].type \in {"int", "float"}
                              THEN Lit(args[1].type, -args[1].v) ELSE Un(e.op, args[1])
          [] e.kind = "case" -> BindCase(e.op, args)
          [] IsAgg(e) -> BindAgg(e, args)
          [] e.kind = "metric" -> BindMetric(e, args[1], schema)
          [] e.kind = "func" -> IF Len(args) \in Arity(e.op) THEN Func(e.op, args) ELSE Unbound
          [] e.kind = "in" -> IF \A k \in 2..Len(e.args) : e.args[k].kind = "lit"
                              THEN Node("in", e.op, args) ELSE Unbound
          [] OTHER -> [e EXCEPT !.args = args]

IsBound(e) == \A n \in Nodes(e) : n.kind # "unbound"

-----------------------------------------------------------------------------
(* References from GROUP BY and ORDER BY to the list. *)

\* Two expressions whose texts differ in the case of letters only.
RECURSIVE InLower(_)
InLower(e) ==
    LET args == [k \in 1..Len(e.args) |-> InLower(e.args[k])]
    IN  IF e.kind = "lit" /\ e.type = "str" THEN [e EXCEPT !.v = Place(Lower(Text(@)))]
        ELSE IF e.kind = "like" THEN [e EXCEPT !.pattern = Lower(@), !.args = args]
        ELSE [e EXCEPT !.args = args]

SameText(e, f) == InLower(e) = InLower(f)

\* bind_output_ref: by number, by alias if no column has that name, by text.  The
\* texts are those of the list as written, what is bound is the list with `*`
\* spelled out, and they are taken pairwise.
Resolve(e, schema, items, bound) ==
    LET named   == {k \in 1..Len(bound) : bound[k].alias = TextOf(e)}
        alike   == {k \in 1..Min({Len(items), Len(bound)}) :
                       items[k] # Everything /\ SameText(items[k].expr, e)}
        isAlias == e.kind = "name" /\ named # {} /\ IndexOf(schema, TextOf(e)) = 0
        number  == e.kind = "lit" /\ e.type \in {"int", "float"}
    IN  CASE number -> IF e.type = "int" /\ e.v \in 1..Len(bound) THEN bound[e.v].expr ELSE Unbound
          [] ~number /\ isAlias -> bound[Min(named)].expr
          [] ~number /\ ~isAlias /\ alike # {} -> bound[Min(alike)].expr
          [] ~number /\ ~isAlias /\ alike = {} -> Bind(e, schema)

-----------------------------------------------------------------------------
\* The list, with `*` spelled out.
BoundList(items, schema) ==
    FlattenSeq([k \in 1..Len(items) |->
        IF items[k] = Everything
        THEN [i \in 1..Len(schema) |-> Item(Col(i), schema[i].name)]
        ELSE <<Item(Bind(items[k].expr, schema), items[k].alias)>>])

\* LIMIT and OFFSET take an integer that is not negative.
IsCount(e) == e = None \/ (e.kind = "lit" /\ e.type = "int" /\ e.v >= 0)
Count(e, default) == IF e = None THEN default ELSE e.v

\* Every clause with its names bound to the schema, well or not; bound is the list.
BindAll(query, schema, bound) ==
    LET bind(e)    == IF e = None THEN None ELSE Bind(e, schema)
        resolve(e) == Resolve(e, schema, query.list, bound)
    IN  [kind   |-> "plan", list |-> [k \in 1..Len(bound) |-> bound[k].expr],
         filter |-> bind(query.filter), having |-> bind(query.having),
         groups |-> [k \in 1..Len(query.groups) |-> resolve(query.groups[k])],
         order  |-> [k \in 1..Len(query.order) |->
                       [expr |-> resolve(query.order[k].expr), asc |-> query.order[k].asc]],
         limit  |-> Count(query.limit, NoLimit), offset |-> Count(query.offset, 0)]

\* What plan_query makes sure of.
Accepted(plan) ==
    /\ plan.list # <<>>
    /\ \A e \in ToSet(plan.list) \cup ToSet(plan.groups) \cup ({plan.filter, plan.having} \ {None})
              \cup {plan.order[k].expr : k \in 1..Len(plan.order)} : IsBound(e)
    /\ \A e \in ToSet(plan.groups) : ~ContainsAgg(e)
    /\ plan.having # None => plan.groups # <<>> \/ \E e \in ToSet(plan.list) : ContainsAgg(e)

\* The plan, or None if the query is refused.
PlanQuery(query, schema) ==
    LET orNone(plan) == IF Accepted(plan) THEN plan ELSE None
    IN  IF IsCount(query.limit) /\ IsCount(query.offset)
        THEN orNone(BindAll(query, schema, BoundList(query.list, schema)))
        ELSE None
=============================================================================
