------------------------------ MODULE Requests ------------------------------
(***************************************************************************)
(* One request through the layers of the server: src/src/sql.rs plans an    *)
(* INSERT by the schema it looks up, or src/src/http.rs and grpc.rs convert *)
(* its rows by theirs; db.rs reorders the values of a named INSERT by a     *)
(* second look at the schema, checks the memory limit while it walks over   *)
(* the tables, inserts into the handle it looks up then, and encodes for    *)
(* the log by the schema of a fourth moment.                               *)
(*                                                                         *)
(* Database follows the same requests through snapshots and crashes with    *)
(* rows that are plain numbers.  Here rows have values, values have types,  *)
(* tables have schemas; the log is only appended to, and what a start (or a *)
(* replica) would read out of it is a function of the log.                  *)
(*                                                                         *)
(* A cell is what becomes of one value: the column its client meant it for  *)
(* and the type it has now.                                                *)
(***************************************************************************)
EXTENDS Naturals, Sequences, FiniteSetsExt

CONSTANTS
    Clients,        \* threads that serve requests
    Tables,         \* table names
    Schemas,        \* the schemas CREATE TABLE is called with: sequences of columns
    Inserts,        \* the INSERTs the clients send, see AllInserts
    Limit,          \* --max-memory, in cells; 0 when there is no limit
    MaxRequests     \* bound: requests in one behaviour

Names   == {"a", "b", "c"}
Types   == {"int", "float"}
Columns == [name : Names, type : Types]

\* A client sends whole numbers and numbers with a fraction, in rows; an INSERT of
\* SQL may name the columns, one by HTTP or gRPC may not.
AllInserts == [via : {"sql", "api"}, names : Seq(Names), rows : Seq(Seq({"whole", "real"}))]

ASSUME ClientsAssumption == Clients # {} /\ Tables # {}
\* Table::new accepts no schema without columns or with one name twice.
ASSUME SchemasAssumption ==
    \A s \in Schemas : /\ s \in Seq(Columns) /\ s # <<>>
                       /\ \A i, j \in 1..Len(s) : s[i].name = s[j].name => i = j
ASSUME InsertsAssumption ==
    Inserts \subseteq AllInserts /\ \A i \in Inserts : i.via = "api" => i.names = <<>>
\* A body has a largest size, and so has an INSERT.
ASSUME FiniteAssumption == IsFiniteSet(Clients) /\ IsFiniteSet(Tables) /\ IsFiniteSet(Inserts)
ASSUME LimitAssumption == Limit \in Nat /\ MaxRequests \in Nat

VARIABLES
    tables,     \* Database.tables: which handle a name points to, 0 when absent
    heap,       \* every table there ever was: its schema and its rows
    pc,         \* where each client's thread stands
    op,         \* its request
    log,        \* the records of wal.log
    issued,     \* how many requests were taken up
    conflicted, \* history: a CREATE or DROP overlapped another request on its table
    leftover    \* history: a request failed after it had changed memory

vars == <<tables, heap, pc, op, log, issued, conflicted, leftover>>

NoTable == 0
NoOp == [kind |-> "none", table |-> CHOOSE t \in Tables : TRUE, names |-> <<>>, rows |-> <<>>,
         handle |-> NoTable, todo |-> {}, sum |-> 0, number |-> 0, spoiled |-> FALSE]

SchemaOf(t) == heap[tables[t]].schema
Existing    == {t \in Tables : tables[t] # NoTable}

-----------------------------------------------------------------------------
(* The conversions of values.                                              *)

Has(schema, name) == \E i \in 1..Len(schema) : schema[i].name = name

\* Schema::index_of, of a name the schema has.
IndexOf(schema, name) == CHOOSE i \in 1..Len(schema) : schema[i].name = name

\* The columns the values of a row are meant for.
Targets(insert, schema) ==
    IF insert.names = <<>> THEN schema
    ELSE [i \in 1..Len(insert.names) |-> schema[IndexOf(schema, insert.names[i])]]

\* A slip: an integer in a float column would stay what it is.
LiteralAsWritten(value, want) == IF value = "whole" THEN "int" ELSE "float"

\* sql.rs's literal: an integer is widened for a float column, and nothing else
\* is compared with the type of the column yet.
Literal(value, want) == IF value = "whole" /\ want = "int" THEN "int" ELSE "float"

\* Value::from_json and grpc's from_pb refuse a fraction for an integer column.
Converts(value, want) == want = "int" => value = "whole"

ApiValue(value, want) == want

CellsOf(insert, schema, number) ==
    LET targets == Targets(insert, schema) IN
    [n \in 1..Len(insert.rows) |->
        [of |-> <<number, n>>, spoiled |-> FALSE,
         cells |-> [i \in 1..Len(targets) |->
            [meant |-> targets[i].name,
             type  |-> IF insert.via = "sql" THEN Literal(insert.rows[n][i], targets[i].type)
                       ELSE ApiValue(insert.rows[n][i], targets[i].type)]]]]

\* What plan_insert, and the insert handlers of http.rs and grpc.rs, let through.
Planned(insert, schema) ==
    /\ \A i \in 1..Len(insert.names) : Has(schema, insert.names[i])
    /\ LET targets == Targets(insert, schema) IN
       \A n \in 1..Len(insert.rows) :
          /\ Len(insert.rows[n]) = Len(targets)
          /\ insert.via = "api" =>
                \A i \in 1..Len(targets) : Converts(insert.rows[n][i], targets[i].type)

\* What reorder lets through.
Reorderable(names, schema) ==
    /\ Len(names) = Len(schema)
    /\ \A i, j \in 1..Len(names) : Has(schema, names[i]) /\ (names[i] = names[j] => i = j)

\* A slip: values would go to the place of the column in the statement's list.
ReorderedBack(cells, names, schema) ==
    [i \in 1..Len(names) |-> cells[IndexOf(schema, names[i])]]

\* reorder: column i of the schema gets the value named for it.
Reordered(cells, names, schema) ==
    [i \in 1..Len(schema) |-> cells[CHOOSE j \in 1..Len(names) : names[j] = schema[i].name]]

\* A slip: only the number of values would be compared with the schema.
RowFitsInLength(cells, schema) == Len(cells) = Len(schema)

\* An integer fits a float column, a float no integer column.
Fits(cell, type) == cell.type = "float" => type = "float"

\* Table::insert looks at the whole row before it touches a column.
RowFits(cells, schema) ==
    Len(cells) = Len(schema) /\ \A i \in 1..Len(schema) : Fits(cells[i], schema[i].type)

\* Column::push, column by column up to the first that does not take its value: a
\* column holds values of its type only.
Stored(row, schema) ==
    LET taken == Max({n \in 0..Len(schema) : \A i \in 1..n : Fits(row.cells[i], schema[i].type)})
    IN  [row EXCEPT !.cells = [i \in 1..taken |-> [@[i] EXCEPT !.type = schema[i].type]]]

-----------------------------------------------------------------------------
(* What WalRecord::decode makes of a record's cells, which carry no types.  *)

\* An integer read as a float, or a float as an integer, has the same bits.
ReadAs(cell, type) == IF cell.type = type THEN cell ELSE [cell EXCEPT !.type = "garbage"]

\* The rows are read one behind the other, by the columns of the schema.
Flat(rows) ==
    LET upTo[n \in 0..Len(rows)] == IF n = 0 THEN <<>> ELSE upTo[n - 1] \o rows[n].cells
    IN  upTo[Len(rows)]

Decodes(rows, schema) == Len(rows) * Len(schema) <= Len(Flat(rows))

Decoded(rows, schema) ==
    {[rows[n] EXCEPT !.cells =
        [i \in 1..Len(schema) |-> ReadAs(Flat(rows)[(n - 1) * Len(schema) + i], schema[i].type)]]
     : n \in 1..Len(rows)}

Absent == [schema |-> <<>>, rows |-> {}]

\* Database::apply of one record; a start that met one that does not apply is over.
Apply(before, record) ==
    LET schema == before.view[record.table].schema IN
    CASE ~before.ok -> before
      [] record.kind = "create" ->
           [before EXCEPT !.view[record.table] = [schema |-> record.schema, rows |-> {}]]
      [] record.kind = "drop" -> [before EXCEPT !.view[record.table] = Absent]
      [] record.kind = "insert" /\ schema # <<>> /\ Decodes(record.rows, schema) ->
           [before EXCEPT !.view[record.table].rows = @ \cup Decoded(record.rows, schema)]
      [] OTHER -> [before EXCEPT !.ok = FALSE]

\* What applying some records one by one makes of an empty catalogue.
Replayed(records) ==
    LET upTo[n \in 0..Len(records)] ==
            IF n = 0 THEN [ok |-> TRUE, view |-> [t \in Tables |-> Absent]]
            ELSE Apply(upTo[n - 1], records[n])
    IN  upTo[Len(records)]

Recovered == Replayed(log)

-----------------------------------------------------------------------------
Init ==
    /\ tables = [t \in Tables |-> NoTable] /\ heap = <<>>
    /\ pc = [c \in Clients |-> "idle"] /\ op = [c \in Clients |-> NoOp]
    /\ log = <<>> /\ issued = 0 /\ conflicted = FALSE /\ leftover = FALSE

Finish(c) == pc' = [pc EXCEPT ![c] = "idle"] /\ op' = [op EXCEPT ![c] = NoOp]

Goes(c, to) == pc' = [pc EXCEPT ![c] = to]

\* c takes up a request on t; it conflicts with a CREATE or DROP still on its way,
\* and such a request with every other.
Serve(c, t, ddl) ==
    /\ pc[c] = "idle" /\ issued < MaxRequests /\ issued' = issued + 1
    /\ conflicted' = (conflicted \/ \E d \in Clients : /\ pc[d] # "idle" /\ op[d].table = t
                                                       /\ ddl \/ op[d].kind # "insert")

-----------------------------------------------------------------------------
(* CREATE and DROP.  They write the catalogue, which waits for a memory check *)
(* in progress: bytes_used keeps it locked until it has been to every table. *)

CatalogueFree == \A c \in Clients : pc[c] # "sum"

\* Everybody who looked at t before may now act on what is no longer true.
Spoil(c, t, ownOp) ==
    op' = [d \in Clients |-> IF d = c THEN ownOp
                             ELSE IF op[d].table = t /\ pc[d] # "idle"
                                  THEN [op[d] EXCEPT !.spoiled = TRUE] ELSE op[d]]

CreateTable(c, t, schema) ==
    /\ Serve(c, t, TRUE)
    /\ CatalogueFree /\ tables[t] = NoTable
    /\ heap' = Append(heap, [schema |-> schema, rows |-> {}])
    /\ tables' = [tables EXCEPT ![t] = Len(heap) + 1]
    /\ Spoil(c, t, [NoOp EXCEPT !.kind = "create", !.table = t, !.handle = Len(heap) + 1])
    /\ Goes(c, "append")
    /\ UNCHANGED <<log, leftover>>

DropTable(c, t) ==
    /\ Serve(c, t, TRUE)
    /\ CatalogueFree /\ tables[t] # NoTable
    /\ tables' = [tables EXCEPT ![t] = NoTable]
    /\ Spoil(c, t, [NoOp EXCEPT !.kind = "drop", !.table = t])
    /\ Goes(c, "append")
    /\ UNCHANGED <<heap, log, leftover>>

-----------------------------------------------------------------------------
(* INSERT.                                                                 *)

\* sql.rs's plan_insert, or the handler's own conversion.  A request refused here
\* has changed nothing and is no step.
PlanInsert(c, t, insert) ==
    /\ Serve(c, t, FALSE)
    /\ tables[t] # NoTable /\ Planned(insert, SchemaOf(t))
    /\ op' = [op EXCEPT ![c] = [NoOp EXCEPT !.kind = "insert", !.table = t, !.names = insert.names,
                                            !.rows = CellsOf(insert, SchemaOf(t), issued + 1),
                                            !.number = issued + 1]]
    /\ Goes(c, IF insert.names = <<>> THEN "limit" ELSE "reorder")
    /\ UNCHANGED <<tables, heap, log, leftover>>

\* run: the values of a named INSERT go where the schema of this moment has them.
Reorder(c) ==
    /\ pc[c] = "reorder"
    /\ LET t    == op[c].table
           rows == [n \in 1..Len(op[c].rows) |->
                      [op[c].rows[n] EXCEPT !.cells = Reordered(@, op[c].names, SchemaOf(t))]]
       IN
       IF tables[t] # NoTable /\ Reorderable(op[c].names, SchemaOf(t))
       THEN op' = [op EXCEPT ![c].rows = rows] /\ Goes(c, "limit")
       ELSE Finish(c)
    /\ UNCHANGED <<tables, heap, log, issued, conflicted, leftover>>

\* bytes_used read-locks the catalogue and then one table after the other.
BeginSum(c) ==
    /\ pc[c] = "limit" /\ Limit # 0
    /\ op' = [op EXCEPT ![c].todo = Existing, ![c].sum = 0]
    /\ Goes(c, "sum")
    /\ UNCHANGED <<tables, heap, log, issued, conflicted, leftover>>

Size(handle) == Cardinality(heap[handle].rows) * Len(heap[handle].schema)

SumTable(c, t) ==
    /\ pc[c] = "sum" /\ t \in op[c].todo
    /\ op' = [op EXCEPT ![c].todo = @ \ {t}, ![c].sum = @ + Size(tables[t])]
    /\ UNCHANGED <<tables, heap, pc, log, issued, conflicted, leftover>>

\* A slip: the limit itself would still be below the limit.
LimitPassed(used) == used > Limit

\* "the memory limit is reached".
LimitReached(used) == used >= Limit

CheckLimit(c) ==
    /\ \/ pc[c] = "limit" /\ Limit = 0
       \/ pc[c] = "sum" /\ op[c].todo = {}
    /\ IF Limit # 0 /\ LimitReached(op[c].sum)
       THEN Finish(c)
       ELSE Goes(c, "lookup") /\ op' = [op EXCEPT ![c].sum = 0]
    /\ UNCHANGED <<tables, heap, log, issued, conflicted, leftover>>

\* insert_inner clones the Arc of the table that has the name now.
LookupHandle(c) ==
    /\ pc[c] = "lookup"
    /\ IF tables[op[c].table] = NoTable THEN Finish(c)
       ELSE Goes(c, "push") /\ op' = [op EXCEPT ![c].handle = tables[op[c].table]]
    /\ UNCHANGED <<tables, heap, log, issued, conflicted, leftover>>

\* insert_many stops at the first row that does not fit; those before it stay.
InsertMany(c) ==
    LET handle == op[c].handle
        schema == heap[handle].schema
        rows   == [n \in 1..Len(op[c].rows) |-> [op[c].rows[n] EXCEPT !.spoiled = op[c].spoiled]]
        fitting == Max({n \in 0..Len(rows) : \A i \in 1..n : RowFits(rows[i].cells, schema)})
    IN
    /\ pc[c] = "push"
    /\ heap' = [heap EXCEPT ![handle].rows = @ \cup {Stored(rows[n], schema) : n \in 1..fitting}]
    /\ IF fitting = Len(rows)
       THEN Goes(c, "encode") /\ op' = [op EXCEPT ![c].rows = rows] /\ UNCHANGED leftover
       ELSE Finish(c) /\ leftover' = (leftover \/ fitting > 0)
    /\ UNCHANGED <<tables, log, issued, conflicted>>

\* log() encodes by the schema of the table that has the name now, of which it
\* uses no more than the number of columns.
Encode(c) ==
    /\ pc[c] = "encode"
    /\ LET t == op[c].table IN
       IF /\ tables[t] # NoTable
          /\ \A n \in 1..Len(op[c].rows) : Len(op[c].rows[n].cells) = Len(SchemaOf(t))
       THEN Goes(c, "append") /\ UNCHANGED <<op, leftover>>
       ELSE Finish(c) /\ leftover' = TRUE
    /\ UNCHANGED <<tables, heap, log, issued, conflicted>>

AppendWal(c) ==
    /\ pc[c] = "append"
    /\ log' = Append(log, [kind |-> op[c].kind, table |-> op[c].table, rows |-> op[c].rows,
                           schema |-> IF op[c].kind = "create" THEN heap[op[c].handle].schema
                                      ELSE <<>>])
    /\ Finish(c)
    /\ UNCHANGED <<tables, heap, issued, conflicted, leftover>>

\* append returns an error and log() hands it on; memory stays as changed.
AppendFails(c) ==
    /\ pc[c] = "append"
    /\ leftover' = TRUE
    /\ Finish(c)
    /\ UNCHANGED <<tables, heap, log, issued, conflicted>>

-----------------------------------------------------------------------------
Step(c) ==
    \/ \E t \in Tables : \/ \E s \in Schemas : CreateTable(c, t, s)
                         \/ DropTable(c, t)
                         \/ \E i \in Inserts : PlanInsert(c, t, i)
                         \/ SumTable(c, t)
    \/ Reorder(c) \/ BeginSum(c) \/ CheckLimit(c) \/ LookupHandle(c)
    \/ InsertMany(c) \/ Encode(c) \/ AppendWal(c) \/ AppendFails(c)

Quiet == \A c \in Clients : pc[c] = "idle"

\* A server nobody calls rests; anything else without a step is a deadlock.
Rest == Quiet /\ UNCHANGED vars

Next == (\E c \in Clients : Step(c)) \/ Rest

Spec == Init /\ [][Next]_vars

-----------------------------------------------------------------------------
(* Properties. *)

\* Every variable keeps its type, and every row of every table has one value per
\* column, of the type of the column, whatever the schemas its request went by
\* (Table::insert as the last to check).
TypeOK ==
    /\ tables \in [Tables -> 0..Len(heap)]
    /\ \A h \in 1..Len(heap) : \A row \in heap[h].rows :
          /\ DOMAIN row.cells = DOMAIN heap[h].schema
          /\ \A i \in DOMAIN row.cells : row.cells[i].type = heap[h].schema[i].type
    /\ pc \in [Clients -> {"idle", "reorder", "limit", "sum", "lookup", "push", "encode", "append"}]
    /\ \A c \in Clients : op[c].kind \in {"none", "create", "drop", "insert"} /\ op[c].todo \subseteq Existing
    /\ issued \in 0..MaxRequests /\ conflicted \in BOOLEAN /\ leftover \in BOOLEAN

\* A value ends in the column its client meant it for, in whatever order the
\* statement names the columns (plan_insert, reorder and insert_many together),
\* unless the table was dropped or created between the first look at its schema
\* and the insertion.
NamedColumnsKept ==
    \A t \in Existing : \A row \in heap[tables[t]].rows :
        ~row.spoiled => \A i \in DOMAIN row.cells : row.cells[i].meant = SchemaOf(t)[i].name

\* A restart or a replica reads the records, which carry no types, as exactly the
\* tables in memory: the type a value has when it is logged is the type of the
\* column it will be read by (literal's widening, from_json, encode, decode).
RecoveryExact ==
    Quiet /\ ~conflicted /\ ~leftover
        => /\ Recovered.ok
           /\ \A t \in Tables :
                 Recovered.view[t] = IF tables[t] = NoTable THEN Absent ELSE heap[tables[t]]

\* The largest INSERT, in cells.
LargestInsert ==
    Max({0} \cup {Len(i.rows) * Len(i.rows[1]) : i \in {j \in Inserts : j.rows # <<>>}})

\* The cells of some tables, one by one.
CellsIn(some) ==
    UNION {{t} \X (heap[tables[t]].rows \X DOMAIN SchemaOf(t)) : t \in some}

\* "A stop on approach" (db.rs:293): each thread checks for itself, over tables
\* that grow while it walks over them, and yet all together pass the limit by no
\* more than one INSERT for each thread.
MemoryBounded ==
    Limit # 0 =>
        Cardinality(CellsIn(Existing)) <= (Limit - 1) + Cardinality(Clients) * LargestInsert
=============================================================================
