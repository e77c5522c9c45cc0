-------------------------------- MODULE Query --------------------------------
(***************************************************************************)
(* SELECT: planned by src/src/sql.rs from the schema of its table, then    *)
(* run by src/src/exec.rs over the columns of the table, which is kept     *)
(* locked for reading: WHERE, GROUP BY with aggregates, HAVING, ORDER BY   *)
(* with LIMIT and OFFSET, and the projection.  A stage is one step; stages *)
(* hand on a selection (row numbers of a frame) and the frame itself, the  *)
(* table's columns or those of the groups.                                 *)
(***************************************************************************)
EXTENDS Planning

CONSTANTS
    Cases,          \* what is asked of which tables: [query, sources, others]
    CutFactor       \* sort only the head when it is this many times shorter; 4 in the code

ASSUME CutFactorAssumption == CutFactor \in Nat \ {0}

VARIABLES
    query,          \* the SELECT as written
    source,         \* the table whose schema it is planned by: [schema, columns]
    others,         \* tables that may have taken its place when the plan is run
    plan,           \* the plan, once there is one
    stage,
    replaced,       \* another table was there, or none
    frame,          \* columns that expressions are evaluated over
    sel,            \* rows of the frame that are left, in their order
    work,           \* projection, ORDER BY and HAVING over that frame
    rows            \* the answer

asked == <<query, source, others>>
vars == <<asked, plan, replaced, stage, frame, sel, work, rows>>

RowsOf(t) == Len(t.columns[1].v)

Init ==
    /\ \E c \in Cases : query = c.query /\ source \in c.sources /\ others = c.others
    /\ plan = None /\ replaced = FALSE /\ stage = "plan"
    /\ frame = <<>> /\ sel = <<>>
    /\ work = [list |-> <<>>, order |-> <<>>, having |-> None]
    /\ rows = <<>>

Stop(how) == stage' = how /\ UNCHANGED <<asked, plan, replaced, frame, sel, work, rows>>

IsAggregate ==
    \/ plan.groups # <<>>
    \/ \E i \in 1..Len(plan.list) : ContainsAgg(plan.list[i])
    \/ \E i \in 1..Len(plan.order) : ContainsAgg(plan.order[i].expr)

-----------------------------------------------------------------------------
\* Without a FROM there are no columns, and there is one row.
Schema == IF query.from THEN source.schema ELSE <<>>

Plan ==
    /\ stage = "plan"
    /\ plan' = PlanQuery(query, Schema)
    /\ IF plan' = None THEN stage' = "error" /\ UNCHANGED work
       ELSE /\ work' = [list |-> plan'.list, order |-> plan'.order, having |-> None]
            /\ stage' = "find"
    /\ UNCHANGED <<asked, replaced, frame, sel, rows>>

RunOver(columns, n, other) ==
    /\ frame' = columns /\ sel' = [i \in 1..n |-> i] /\ replaced' = other
    /\ stage' = "where"
    /\ UNCHANGED <<asked, plan, work, rows>>

\* The table is looked up once more when the plan is run: other requests may have
\* dropped it since, and created another one of its name.
Find ==
    /\ stage = "find"
    /\ \/ ~query.from /\ RunOver(<<>>, 1, FALSE)
       \/ query.from /\ RunOver(source.columns, RowsOf(source), FALSE)
       \/ query.from /\ \E t \in others : RunOver(t.columns, RowsOf(t), TRUE)
       \/ /\ query.from /\ others # {}
          /\ replaced' = TRUE /\ stage' = "error"
          /\ UNCHANGED <<asked, plan, frame, sel, work, rows>>

\* The selected rows for which a condition holds; one value counts for all of them.
Holds(a) == SelectSeq([i \in 1..Len(sel) |-> i], LAMBDA i : At(a, i) # 0)

KeepWhere(a, next) ==
    IF Failed(a) THEN Stop(a.type)
    ELSE IF a.type # "bool" THEN Stop("error")
    ELSE /\ sel' = LET kept == Holds(a) IN [i \in 1..Len(kept) |-> sel[kept[i]]]
         /\ stage' = next
         /\ UNCHANGED <<asked, plan, replaced, frame, work, rows>>

KeepIf(condition, next) ==
    IF condition = None THEN Stop(next) ELSE KeepWhere(Eval(condition, frame, sel), next)

Where == stage = "where" /\ KeepIf(plan.filter, IF IsAggregate THEN "group" ELSE "order")

-----------------------------------------------------------------------------
(* aggregate.                                                              *)

\* assign_groups: group numbers in the order in which the groups appear; without
\* GROUP BY all rows, or none, make one group.
Grouping(keys) ==
    LET key(i) == [k \in 1..Len(keys) |-> At(keys[k], i)]
        firsts == {i \in 1..Len(sel) : \A j \in 1..(i - 1) : key(j) # key(i)}
        first(i) == CHOOSE f \in firsts : key(f) = key(i)
    IN  IF keys = <<>>
        THEN [of |-> [i \in 1..Len(sel) |-> 1], count |-> 1]
        ELSE [of |-> [i \in 1..Len(sel) |-> Cardinality({f \in firsts : f <= first(i)})],
              count |-> Cardinality(firsts)]

Members(grouping, g) == SelectSeq([i \in 1..Len(sel) |-> i], LAMBDA i : grouping.of[i] = g)

\* pick_first_per_group.
KeyColumn(key, grouping) ==
    Arr(key.type, [g \in 1..grouping.count |-> At(key, Members(grouping, g)[1])])

\* The type of a column of run_agg: sums and extremes of what is no integer are
\* floats, extremes of strings strings.
AggType(agg, type) ==
    CASE type = "error" -> "error"
      [] type # "error" /\ (agg.kind = "distinct" \/ agg.op = "count") -> "int"
      [] agg.kind = "agg" /\ agg.op = "sum" ->
            IF type = "int" THEN "int" ELSE IF type \in Number THEN "float" ELSE "error"
      [] agg.kind = "agg" /\ agg.op \in {"min", "max"} ->
            IF type \in {"int", "str"} THEN type ELSE IF type \in Number THEN "float" ELSE "error"

\* What run_agg makes of the values of one group; nothing at all gives 0 or "", the
\* first of the strings.  The key of a vector, by which DISTINCT counts, is always 0.
Aggregated(agg, type, values) ==
    CASE agg.kind = "distinct" -> IF type \in Vector THEN Min({1, Len(values)})
                                  ELSE Cardinality(ToSet(values))
      [] agg.kind = "agg" /\ agg.op = "count" -> Len(values)
      [] agg.kind = "agg" /\ agg.op = "sum" ->
            FoldLeft(LAMBDA acc, x : IF type = "int" THEN Saturate(acc + x) ELSE acc + x, 0, values)
      [] agg.kind = "agg" /\ agg.op = "min" -> IF values = <<>> THEN 0 ELSE Min(ToSet(values))
      [] agg.kind = "agg" /\ agg.op = "max" -> IF values = <<>> THEN 0 ELSE Max(ToSet(values))

\* run_agg.
AggColumn(agg, a, grouping) ==
    LET values(g) == LET is == Members(grouping, g)
                     IN  [k \in 1..Len(is) |-> At(a, is[k])]
        type == AggType(agg, a.type)
    IN  IF Failed(a) THEN a
        ELSE IF type = "error" THEN Error
        ELSE Arr(type, [g \in 1..grouping.count |-> Aggregated(agg, a.type, values(g))])

\* What an aggregate is computed from; COUNT(*) takes anything.
ArgumentOf(agg) == IF agg.args = <<>> THEN Arr("int", <<0>>) ELSE Eval(agg.args[1], frame, sel)

\* A slip: the aggregates of ORDER BY would be forgotten.
CollectedShown ==
    FoldLeft(LAMBDA seen, agg : IF Contains(seen, agg) THEN seen ELSE Append(seen, agg), <<>>,
             FlattenSeq([i \in 1..Len(plan.list) |-> AggsOf(plan.list[i])]))

\* Every aggregate of the query once, in the order of its first use.
Collected ==
    LET used == FlattenSeq([i \in 1..Len(plan.list) |-> AggsOf(plan.list[i])])
                \o FlattenSeq([i \in 1..Len(plan.order) |-> AggsOf(plan.order[i].expr)])
                \o (IF plan.having = None THEN <<>> ELSE AggsOf(plan.having))
    IN  FoldLeft(LAMBDA seen, agg : IF Contains(seen, agg) THEN seen ELSE Append(seen, agg),
                 <<>>, used)

\* A slip: the numbers of the rows would not be replaced by those of the groups.
SelOfGroupsKept(n) == sel

SelOfGroups(n) == [g \in 1..n |-> g]

\* The clauses that are left, with keys and aggregates as columns of the groups.
Rewritten(aggs) ==
    LET pats == [k \in 1..Len(aggs) |-> <<aggs[k], Col(Len(plan.groups) + k)>>]
                \o [k \in 1..Len(plan.groups) |-> <<plan.groups[k], Col(k)>>]
    IN  [list |-> [i \in 1..Len(plan.list) |-> Substitute(plan.list[i], pats)],
         order |-> [i \in 1..Len(plan.order) |->
                       [plan.order[i] EXCEPT !.expr = Substitute(@, pats)]],
         having |-> IF plan.having = None THEN None ELSE Substitute(plan.having, pats)]

\* The intermediate frame: keys, then aggregates.
FrameOfGroups(keys, aggs, grouping) ==
    [k \in 1..Len(keys) |-> KeyColumn(keys[k], grouping)]
    \o [k \in 1..Len(aggs) |-> AggColumn(aggs[k], ArgumentOf(aggs[k]), grouping)]

GoOnWithGroups(columns, rewritten, n) ==
    IF \E k \in 1..Len(columns) : Failed(columns[k]) THEN Stop(FirstFailed(columns).type)
    ELSE IF \E i \in 1..Len(rewritten.list) :
               \E c \in ColumnsOf(rewritten.list[i]) : c > Len(columns)
    THEN Stop("error")
    ELSE /\ frame' = columns /\ sel' = SelOfGroups(n) /\ work' = rewritten
         /\ stage' = "having"
         /\ UNCHANGED <<asked, plan, replaced, rows>>

GroupBy(keys, aggs, grouping) ==
    IF \E k \in 1..Len(keys) : Failed(keys[k]) THEN Stop(FirstFailed(keys).type)
    ELSE IF sel # <<>> /\ \E k \in 1..Len(keys) : keys[k].type \in Vector THEN Stop("error")
    ELSE GoOnWithGroups(FrameOfGroups(keys, aggs, grouping), Rewritten(aggs), grouping.count)

Group ==
    /\ stage = "group"
    /\ LET group(keys) == GroupBy(keys, Collected, Grouping(keys))
       IN  group([k \in 1..Len(plan.groups) |-> Eval(plan.groups[k], frame, sel)])

Having == stage = "having" /\ KeepIf(work.having, "order")

-----------------------------------------------------------------------------
(* order_and_limit.                                                        *)

\* Keys one after the other, then the place in the selection; vectors are all equal.
Before(keys, i, j) ==
    LET differ == {k \in 1..Len(keys) : keys[k].a.type \notin Vector
                                           /\ At(keys[k].a, i) # At(keys[k].a, j)}
        k      == Min(differ)
    IN  IF differ = {} THEN i < j
        ELSE keys[k].asc <=> At(keys[k].a, i) < At(keys[k].a, j)

\* cmp_arr indexes a key by the row, also when it is one value for all rows: a
\* comparison that gets as far as that key panics.
Panics(keys, i, j) ==
    \E k \in 1..Len(keys) :
        /\ Len(keys[k].a.v) = 1
        /\ \A m \in 1..(k - 1) :
              Len(keys[m].a.v) # 1
              /\ (keys[m].a.type \in Vector \/ keys[m].a.v[i] = keys[m].a.v[j])

\* A slip: the head to sort would be as long as the page, wherever it begins.
NeedOfPage(n) == Min({plan.limit, n})

\* How many of the first rows the page can reach.
Need(n) == Min({plan.offset + plan.limit, n})

\* The rows of the page, out of those in order.
Page(order) ==
    LET n     == Len(order)
        start == Min({plan.offset, n})
        end   == IF plan.limit = NoLimit THEN n ELSE Min({start + plan.limit, n})
    IN  SubSeq(order, start + 1, end)

Take(order) ==
    LET page == Page(order)
    IN  /\ sel' = [i \in 1..Len(page) |-> sel[page[i]]]
        /\ stage' = "project"
        /\ UNCHANGED <<asked, plan, replaced, frame, work, rows>>

\* select_nth_unstable splits off the rows that come first, in any order, and only
\* these are sorted; it need not compare all rows.
OrderBy(keys) ==
    LET n     == Len(sel)
        arrays == [k \in 1..Len(keys) |-> keys[k].a]
        cut   == plan.limit # NoLimit /\ Need(n) * CutFactor < n
        head  == IF cut THEN Need(n) ELSE n
        fails == \E k \in 1..Len(keys) : Failed(keys[k].a)
        panic == ~fails /\ \E i, j \in 1..n : i # j /\ Panics(keys, i, j)
    IN  \/ keys = <<>> /\ Take([i \in 1..n |-> i])
        \/ fails /\ Stop(FirstFailed(arrays).type)
        \/ panic /\ Stop("panic")
        \/ /\ keys # <<>> /\ ~fails /\ (panic => cut)
           /\ \E first \in kSubset(head, 1..n) :
                 /\ \A i \in first, j \in (1..n) \ first : Before(keys, i, j)
                 /\ Take(SetToSortSeq(first, LAMBDA i, j : Before(keys, i, j)))

Order ==
    /\ stage = "order"
    /\ OrderBy([k \in 1..Len(work.order) |->
                  [a |-> Eval(work.order[k].expr, frame, sel), asc |-> work.order[k].asc]])

-----------------------------------------------------------------------------
Show(arrays) ==
    IF \E i \in 1..Len(arrays) : Failed(arrays[i]) THEN Stop(FirstFailed(arrays).type)
    ELSE /\ rows' = [r \in 1..Len(sel) |-> [i \in 1..Len(arrays) |-> At(arrays[i], r)]]
         /\ stage' = "done"
         /\ UNCHANGED <<asked, plan, replaced, frame, sel, work>>

Project ==
    stage = "project" /\ Show([i \in 1..Len(work.list) |-> Eval(work.list[i], frame, sel)])

Ended == stage \in {"done", "error", "panic"} /\ UNCHANGED vars

Next == Plan \/ Find \/ Where \/ Group \/ Having \/ Order \/ Project \/ Ended

Spec == Init /\ [][Next]_vars
-----------------------------------------------------------------------------
(* What a SELECT means, read from its text: names are looked up in the      *)
(* schema, and values are those of one row or of one group of rows.         *)

\* The expressions of the list, `*` spelled out.
Shown ==
    FlattenSeq([k \in 1..Len(query.list) |->
        IF query.list[k] = Everything THEN [i \in 1..Len(Schema) |-> Name(Schema[i].name)]
        ELSE <<query.list[k].expr>>])

\* What GROUP BY or ORDER BY refers to: the item of that number, the item of that
\* alias unless a column has the name, or just what it says.
Meant(e) ==
    LET aliased == {k \in 1..Len(query.list) : query.list[k].alias = TextOf(e)}
    IN  CASE e.kind = "lit" /\ e.type \in {"int", "float"} ->
                IF e.type = "int" /\ e.v \in 1..Len(Shown) THEN Shown[e.v] ELSE Unbound
          [] e.kind = "name" -> IF IndexOf(Schema, e.name) = 0 /\ aliased # {}
                                THEN query.list[Min(aliased)].expr ELSE e
          [] OTHER -> e

Groups == [k \in 1..Len(query.groups) |-> Meant(query.groups[k])]
Sort   == [k \in 1..Len(query.order) |->
              [expr |-> Meant(query.order[k].expr), asc |-> query.order[k].asc]]

Keys == {Sort[k].expr : k \in 1..Len(Sort)}

Aggregates ==
    Groups # <<>> \/ \E e \in ToSet(Shown) \cup Keys : ContainsAgg(e)

\* CASE: the conditions, the operand they are compared with, the results, the last of
\* which is that of ELSE.
Branches(e) == IF e.op = "simple" THEN Tail(e.args) ELSE e.args
Conditions(e) == {k \in 1..Len(Branches(e)) : k % 2 = 1 /\ k < Len(Branches(e))}
Results(e) == (1..Len(Branches(e))) \ Conditions(e)
Offset(e) == IF e.op = "simple" THEN 1 ELSE 0

CaseType(e, types) ==
    LET results == {types[k + Offset(e)] : k \in Results(e)}
                   \cup (IF Len(Branches(e)) % 2 = 0 THEN {"str"} ELSE {})
        tested(k) == IF e.op = "simple" THEN OpType("eq", types[1], types[k + 1]) ELSE types[k]
    IN  IF \E k \in Conditions(e) : tested(k) # "bool" THEN "error"
        ELSE IF results = {"str"} THEN "str" ELSE IF results \subseteq Number THEN "float" ELSE "error"

CaseValue(e, xs) ==
    LET true == {k \in Conditions(e) : IF e.op = "simple" THEN xs[k + 1] = xs[1] ELSE xs[k] # 0}
    IN  IF true # {} THEN xs[Min(true) + 1 + Offset(e)]
        ELSE IF Len(Branches(e)) % 2 = 1 THEN xs[Len(xs)] ELSE 0

IsDistinct(agg) == agg.kind = "distinct" \/ agg.op = "uniq"

IsTrunc(e) == e.kind = "func" /\ e.op = "date_trunc"

\* It has a literal as unit that names none.
UnknownUnit(e) ==
    /\ IsTrunc(e) /\ e.args[1].kind = "lit" /\ e.args[1].type = "str"
    /\ Lower(Text(e.args[1].v)) \notin DOMAIN UnitCalled

\* The type of an expression, "error" if it has none.
RECURSIVE TypeOf(_)
TypeOf(e) ==
    LET types == [k \in 1..Len(e.args) |-> TypeOf(e.args[k])]
    IN  CASE e.kind = "name" -> IF IndexOf(Schema, e.name) = 0 THEN "error"
                                ELSE Schema[IndexOf(Schema, e.name)].type
          [] e.kind = "lit"  -> e.type
          [] e.kind \in {"array", "wildcard", "unbound"} -> "error"
          [] e.kind = "metric" ->
                IF Len(e.args) = 2 /\ types[1] \in Vector /\ e.args[1].kind = "name"
                   /\ e.args[Len(e.args)].kind = "array"
                THEN IF Len(e.args[2].q) = Dims[types[1]] THEN "float" ELSE "error"
                ELSE "error"
          [] IsAgg(e) ->
                IF e.args = <<>> THEN (IF e.op \in {"count", "uniq"} THEN "int" ELSE "error")
                ELSE IF Len(e.args) > 1 \/ ContainsAgg(e.args[1]) THEN "error"
                ELSE IF IsDistinct(e) /\ types[1] # "error" THEN "int" ELSE AggType(e, types[1])
          [] e.kind = "case" -> CaseType(e, types)
          [] e.kind = "func" -> IF Len(e.args) \in Arity(e.op) /\ ~UnknownUnit(e)
                                THEN FuncType(e.op, types) ELSE "error"
          [] e.kind = "in" -> IF \A k \in 2..Len(e.args) : e.args[k].kind = "lit"
                              THEN NodeType(e, types) ELSE "error"
          [] OTHER -> NodeType(e, types)

\* What an aggregate makes of the values of its argument.
AggMeant(agg, type, values) ==
    LET sum == FoldLeft(+, 0, values)
        S   == ToSet(values)
    IN  CASE IsDistinct(agg) -> Cardinality(S)
          [] ~IsDistinct(agg) /\ agg.op = "count" -> Len(values)
          [] ~IsDistinct(agg) /\ agg.op = "sum" -> IF type = "int" THEN Saturate(sum) ELSE sum
          [] ~IsDistinct(agg) /\ agg.op = "min" ->
                IF S = {} THEN 0 ELSE CHOOSE x \in S : \A y \in S : x <= y
          [] ~IsDistinct(agg) /\ agg.op = "max" ->
                IF S = {} THEN 0 ELSE CHOOSE x \in S : \A y \in S : x >= y

\* The value of e for a group of rows, or for a single row (`single`).
RECURSIVE Value(_, _, _)
Value(e, rs, single) ==
    LET alone  == single \/ Contains(Groups, e)
        xs     == [k \in 1..Len(e.args) |-> Value(e.args[k], rs, alone)]
        column(i) == source.columns[i].v[rs[1]]
        ofRow(r)  == Value(e.args[1], <<r>>, TRUE)
        values == [k \in 1..Len(rs) |-> IF e.args = <<>> THEN 0 ELSE ofRow(rs[k])]
    IN  CASE e.kind = "name" -> column(IndexOf(Schema, e.name))
          [] e.kind = "lit"  -> e.v
          [] e.kind = "metric" -> DistanceMeant(e.op, column(IndexOf(Schema, e.args[1].name)), e.args[2].q)
          [] e.kind = "case" -> CaseValue(e, xs)
          [] e.kind = "func" /\ e.op \in Parts -> PartMeant(e.op, Saturate(xs[1]))
          [] IsTrunc(e) ->
                Wrap(CutMeant(UnitCalled[Lower(Text(xs[1]))], Saturate(xs[2])))
          [] IsAgg(e) -> IF e.args = <<>> THEN Len(rs) ELSE AggMeant(e, TypeOf(e.args[1]), values)
          [] OTHER -> NodeValue(e, [k \in 1..Len(e.args) |-> TypeOf(e.args[k])], xs)

\* The rows that WHERE leaves.
Kept ==
    SelectSeq([r \in 1..(IF query.from THEN RowsOf(source) ELSE 1) |-> r],
              LAMBDA r : query.filter = None \/ Value(query.filter, <<r>>, TRUE) # 0)

\* Rows with the same keys, in the order of their first rows.
GroupsOf(kept, keys) ==
    LET heads == SelectSeq(kept, LAMBDA r : \A q \in ToSet(kept) : q < r => keys[q] # keys[r])
    IN  [i \in 1..Len(heads) |-> SelectSeq(kept, LAMBDA r : keys[r] = keys[heads[i]])]

\* What the answer has a row for: a row, or a group of rows.
Grouped(kept, groups) ==
    IF ~Aggregates THEN [i \in 1..Len(kept) |-> <<kept[i]>>]
    ELSE IF groups = <<>> THEN <<kept>>
    ELSE GroupsOf(kept, [r \in ToSet(kept) |->
                            [k \in 1..Len(groups) |-> Value(groups[k], <<r>>, TRUE)]])

UnitsOf ==
    SelectSeq(Grouped(Kept, Groups),
              LAMBDA rs : query.having = None \/ Value(query.having, rs, ~Aggregates) # 0)

\* Numbers of the units in the order of their keys, else in their own order.
Sorted(sort, keys) ==
    LET precedes(i, j) ==
            LET k == Min({m \in 1..Len(sort) : keys[i][m] # keys[j][m]} \cup {Len(sort) + 1})
            IN  IF k > Len(sort) THEN i < j
                ELSE IF sort[k].asc THEN keys[i][k] < keys[j][k] ELSE keys[i][k] > keys[j][k]
    IN  IF sort = <<>> THEN [i \in 1..Len(keys) |-> i] ELSE SetToSortSeq(1..Len(keys), precedes)

PageOf(sorted) ==
    LET skip == Count(query.offset, 0)
    IN  SubSeq(sorted, skip + 1,
               IF query.limit = None THEN Len(sorted) ELSE Min({Len(sorted), skip + query.limit.v}))

\* The list for each unit of the page.
Projected(units, page, list) ==
    [r \in 1..Len(page) |-> [i \in 1..Len(list) |-> Value(list[i], units[page[r]], ~Aggregates)]]

\* The answer for units ordered by the keys.
AnswerFor(units, sort) ==
    LET keys == [i \in 1..Len(units) |->
                    [k \in 1..Len(sort) |-> Value(sort[k].expr, units[i], ~Aggregates)]]
    IN  Projected(units, PageOf(Sorted(sort, keys)), Shown)

Answer == AnswerFor(UnitsOf, Sort)

-----------------------------------------------------------------------------
(* Which queries have a meaning. *)

\* Everything in e is a key of the groups, an aggregate or the same for all rows.
RECURSIVE Grounded(_)
Grounded(e) ==
    \/ Contains(Groups, e)
    \/ e.kind = "lit" \/ IsAgg(e)
    \/ e.kind \notin {"name", "metric"} /\ \A k \in 1..Len(e.args) : Grounded(e.args[k])

AllGrounded ==
    Aggregates =>
        /\ \A e \in ToSet(Shown) \cup Keys : Grounded(e)
        /\ query.having # None => Grounded(query.having)

WellTyped ==
    /\ \A e \in ToSet(Shown) \cup Keys \cup ToSet(Groups) : TypeOf(e) # "error"
    /\ query.filter # None => TypeOf(query.filter) = "bool"
    /\ query.having # None => TypeOf(query.having) = "bool"

\* A key that is not one value for all rows.
RECURSIVE Varies(_)
Varies(e) ==
    \/ e.kind \in {"name", "metric"} \/ IsAgg(e) \/ Contains(Groups, e)
    \/ \E k \in 1..Len(e.args) :
          /\ e.kind = "func" => (e.op = "coalesce" => k = 1) /\ (e.op = "date_trunc" => k = 2)
          /\ Varies(e.args[k])

\* Behind a `*`, or but for the case of a string, the text of a reference is also
\* that of another item than the one it is paired with.
ReadAsAnotherItem(e) ==
    /\ e.kind # "name"
    /\ \E k \in 1..Len(query.list) :
          /\ SameText(query.list[k].expr, e)
          /\ query.list[k].expr # e \/ \E j \in 1..(k - 1) : query.list[j] = Everything

\* Every expression of the query and all that it is built from.
EveryNode ==
    UNION {Nodes(e) : e \in ToSet(Shown) \cup Keys \cup ToSet(Groups)
                             \cup ({query.filter, query.having} \ {None})}

\* The units of date_trunc that are not the same for all rows.
VaryingUnits ==
    {e.args[1] : e \in {n \in EveryNode : IsTrunc(n) /\ n.args # <<>> /\ Varies(n.args[1])}}

\* A query with a meaning, and without the forms that the code answers in a way of
\* its own: a reference that is read as another item, a sort key that is the same for
\* all rows or a vector, DISTINCT in another aggregate than COUNT or of vectors, and a
\* unit of date_trunc that is not a literal or is a key of the groups.
Legal ==
    /\ Shown # <<>> /\ WellTyped /\ AllGrounded
    /\ IsCount(query.limit) /\ IsCount(query.offset)
    /\ query.filter # None => ~ContainsAgg(query.filter)
    /\ \A e \in ToSet(Groups) : ~ContainsAgg(e) /\ TypeOf(e) \notin Vector
    /\ query.having # None => Groups # <<>> \/ \E e \in ToSet(Shown) : ContainsAgg(e)
    /\ \A e \in Keys : Varies(e) /\ TypeOf(e) \notin Vector
    /\ \A e \in ToSet(query.groups) \cup {query.order[k].expr : k \in 1..Len(query.order)} :
          ~ReadAsAnotherItem(e)
    /\ \A e \in ToSet(Shown) \cup Keys \cup ({query.having} \ {None}) : \A agg \in Nodes(e) :
          IsAgg(agg) /\ agg.args # <<>> /\ IsDistinct(agg) =>
              agg.op \in {"count", "uniq"} /\ TypeOf(agg.args[1]) \notin Vector
    /\ \A e \in EveryNode : IsTrunc(e) => e.args[1].kind = "lit" /\ ~Contains(Groups, e.args[1])

-----------------------------------------------------------------------------
(* Properties. *)

\* Every variable keeps its type, and the selection names rows of the frame, in
\* every stage and through the change from the table's rows to groups, also over a
\* table the query was not planned for (exec.rs's unchecked indexes).
TypeOK ==
    /\ stage \in {"plan", "find", "where", "group", "having", "order", "project",
                  "done", "error", "panic"}
    /\ \A c \in 1..Len(frame) : \A i \in 1..Len(sel) : sel[i] \in 1..Len(frame[c].v)
    /\ \A c \in 1..Len(frame) : frame[c].type \in Number \cup Vector \cup {"str"}
    /\ \A r \in 1..Len(rows) : Len(rows[r]) = Len(plan.list)

\* A query with a meaning gets the answer it means: names, numbers and aliases
\* resolved, filtered, grouped, aggregated, filtered again, sorted with ties in table
\* order, and cut to the page, whichever of the two sorting paths it takes (plan_query
\* and run_select as a whole).
AnswersRight == stage = "done" /\ Legal /\ ~replaced => rows = Answer

\* A query with a meaning is never refused while its table stands, and a query whose
\* types do not fit is never answered.  A plan that meets another table than the one
\* it was made for fails or is answered from that table: it panics no more than any
\* other, which is by a sort key that is the same for all rows, or without rows by a
\* date_trunc whose unit is that of the first row (run_select's errors).
VerdictsRight ==
    /\ stage = "error" => ~Legal \/ replaced
    /\ stage = "panic" => \/ \E e \in Keys : ~Varies(e)
                          \/ sel = <<>> /\ VaryingUnits # {}
    /\ stage = "done" => WellTyped \/ replaced \/ ~AllGrounded
=============================================================================
