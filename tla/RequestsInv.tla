---------------------------- MODULE RequestsInv ----------------------------
(***************************************************************************)
(* The inductive invariants of Requests: what a request on its way knows of *)
(* its values, of the table it is about and of the memory limit, whatever   *)
(* the other threads do; and what the log reads back as while they do it.   *)
(***************************************************************************)
EXTENDS Requests

Cell == [meant : Names, type : Types]

Row == [of : Nat \X Nat, spoiled : BOOLEAN, cells : Seq(Cell)]

Ops == [kind : {"none", "create", "drop", "insert"}, table : Tables, names : Seq(Names),
        rows : Seq(Row), handle : Nat, todo : SUBSET Tables, sum : Nat, number : Nat,
        spoiled : BOOLEAN]

Places == {"idle", "reorder", "limit", "sum", "lookup", "push", "encode", "append"}

\* Where the values of a request are in an order the table of its name has, and
\* where a request may still insert them.
InOrder   == {"limit", "sum", "lookup", "push"}
Inserting == {"reorder"} \cup InOrder

Typed ==
    /\ heap \in Seq([schema : Schemas, rows : SUBSET Row])
    /\ tables \in [Tables -> 0..Len(heap)]
    /\ pc \in [Clients -> Places] /\ op \in [Clients -> Ops]
    /\ issued \in 0..MaxRequests /\ conflicted \in BOOLEAN /\ leftover \in BOOLEAN

\* Two names never point to the same table.
NamesApart ==
    \A t, u \in Tables : tables[t] = tables[u] /\ tables[t] # NoTable => t = u

-----------------------------------------------------------------------------
(* Tables.                                                                 *)

\* The cells are for the columns, one for one, that names lists.
MeantFor(cells, names) ==
    /\ Len(cells) = Len(names)
    /\ \A i \in 1..Len(cells) : cells[i].meant = names[i]

ColumnNames(schema) == [i \in 1..Len(schema) |-> schema[i].name]

\* A row has one value per column, of its column's type, and if nobody changed the
\* table under its request, each value is in the column it was meant for.
RowOK(row, schema) ==
    /\ Len(row.cells) = Len(schema)
    /\ \A i \in 1..Len(schema) : row.cells[i].type = schema[i].type
    /\ ~row.spoiled => MeantFor(row.cells, ColumnNames(schema))

TableOK(table) == IsFiniteSet(table.rows) /\ \A row \in table.rows : RowOK(row, table.schema)

TablesOK == \A h \in 1..Len(heap) : TableOK(heap[h])

-----------------------------------------------------------------------------
(* Threads: what one knows at place about its request o.                   *)

\* The walk of bytes_used is over tables that are still there.
WalkOK(place, o) == o.todo \subseteq Existing /\ (place # "sum" => o.todo = {})

\* A thread that is to insert has the handle of some table: as long as nobody
\* dropped or created its table, of the one its request was planned for.
HandleOK(place, o) ==
    /\ place = "push" => o.handle \in 1..Len(heap)
    /\ place \in Inserting /\ ~o.spoiled => o.table \in Existing
    /\ place = "push" /\ ~o.spoiled => o.handle = tables[o.table]

\* The values are in the order of the statement's names, later of the table.
ValuesMeant(place, o) ==
    \A n \in 1..Len(o.rows) :
        /\ place = "reorder" => MeantFor(o.rows[n].cells, o.names)
        /\ place \in InOrder /\ ~o.spoiled
            => MeantFor(o.rows[n].cells, ColumnNames(SchemaOf(o.table)))

\* No request brings more cells than the largest there is.
RequestBounded(place, o) ==
    place \in Inserting =>
        \A n \in 1..Len(o.rows) : Len(o.rows) * Len(o.rows[n].cells) <= LargestInsert

ThreadOK(place, o) ==
    WalkOK(place, o) /\ HandleOK(place, o) /\ ValuesMeant(place, o) /\ RequestBounded(place, o)

ThreadsOK == \A c \in Clients : ThreadOK(pc[c], op[c])

-----------------------------------------------------------------------------
(* The memory limit.                                                       *)

Used(some) == Cardinality(CellsIn(some))

\* A thread has passed the check of the limit, or what it has counted and has still
\* to count would let it pass if nobody inserted any more.
MayPass(place, o) ==
    \/ place \in {"lookup", "push"}
    \/ place = "sum" /\ o.sum + Used(o.todo) < Limit

MayInsert == {c \in Clients : MayPass(pc[c], op[c])}

\* One INSERT of every thread that may still insert has room in the bound.
RoomLeft ==
    Limit # 0 =>
        Used(Existing) + Cardinality(MayInsert) * LargestInsert
            <= (Limit - 1) + Cardinality(Clients) * LargestInsert

-----------------------------------------------------------------------------
(* What the log reads back as, while no request overlapped a CREATE or DROP  *)
(* and none failed half way.                                               *)

Records == [kind : {"create", "drop", "insert"}, table : Tables, rows : Seq(Row),
            schema : Schemas \cup {<<>>}]

ReadTables == [schema : Schemas \cup {<<>>}, rows : SUBSET Row]

\* A request on the catalogue has only its record left to write.
KindsPlaced ==
    \A c \in Clients :
        /\ pc[c] # "idle" => op[c].kind \in {"create", "drop", "insert"}
        /\ pc[c] # "idle" /\ op[c].kind # "insert" => pc[c] = "append"

\* Requests on one table that are under way together are INSERTs.
RequestsApart ==
    \A c, d \in Clients :
        c # d /\ pc[c] # "idle" /\ pc[d] # "idle" /\ op[c].table = op[d].table
        => op[c].kind = "insert" /\ op[d].kind = "insert"

\* An INSERT finds the table it was planned for, and nobody has changed it.
InsertsUnspoiled ==
    \A c \in Clients :
        pc[c] # "idle" /\ op[c].kind = "insert" => op[c].table \in Existing /\ ~op[c].spoiled

\* None of the request's values is an integer meant for a float column.
Widened(o) ==
    \A n \in 1..Len(o.rows) :
        \A i \in 1..Len(o.rows[n].cells), k \in 1..Len(SchemaOf(o.table)) :
            o.rows[n].cells[i].meant = SchemaOf(o.table)[k].name
            => ~(o.rows[n].cells[i].type = "int" /\ SchemaOf(o.table)[k].type = "float")

NoneNarrowed == \A c \in Clients : pc[c] \in Inserting => Widened(op[c])

\* The rows that are in table t and whose records are not in the log yet.
Unlogged(t) ==
    UNION {{op[c].rows[n] : n \in 1..Len(op[c].rows)} :
           c \in {d \in Clients : /\ pc[d] \in {"encode", "append"}
                                  /\ op[d].kind = "insert" /\ op[d].table = t}}

\* What the log says of table t is what is in memory, but for the rows under way.
ReadAsIs(t) ==
    IF t \in Existing
    THEN /\ Recovered.view[t].schema = SchemaOf(t)
         /\ heap[tables[t]].rows = Recovered.view[t].rows \cup Unlogged(t)
    ELSE Recovered.view[t] = Absent

\* Nobody creates or drops table t.
OnlyInserts(t) ==
    \A c \in Clients : pc[c] # "idle" /\ op[c].table = t => op[c].kind = "insert"

\* A CREATE under way has made an empty table, of which the log knows nothing.
CreateUnlogged(c) ==
    /\ op[c].table \in Existing /\ op[c].handle = tables[op[c].table]
    /\ heap[op[c].handle].rows = {} /\ Recovered.view[op[c].table] = Absent

LogReads ==
    /\ log \in Seq(Records)
    /\ Recovered \in [ok : {TRUE}, view : [Tables -> ReadTables]]
    /\ \A t \in Tables : OnlyInserts(t) => ReadAsIs(t)
    /\ \A c \in Clients :
          /\ pc[c] # "idle" /\ op[c].kind = "create" => CreateUnlogged(c)
          /\ pc[c] # "idle" /\ op[c].kind = "drop" => op[c].table \notin Existing

Undisturbed == KindsPlaced /\ RequestsApart /\ InsertsUnspoiled /\ NoneNarrowed /\ LogReads

\* The inductive invariant behind RecoveryExact, beside IInv.
ReplayInv == ~conflicted /\ ~leftover => Undisturbed

-----------------------------------------------------------------------------
\* The inductive invariant behind TypeOK, NamedColumnsKept and MemoryBounded.
IInv == Typed /\ NamesApart /\ TablesOK /\ ThreadsOK /\ RoomLeft

\* What the proofs show of every thread, of the tables and of the log.
PipelineInv == IInv /\ ReplayInv
=============================================================================
