------------------------------- MODULE Tables -------------------------------
(***************************************************************************)
(* One table in columns (src/src/table.rs, src/src/column.rs), the bytes a *)
(* snapshot and the log make of it (src/src/codec.rs, src/src/storage.rs)  *)
(* and what reading these bytes gives back.  Inserts, snapshots that empty *)
(* the log, and restarts follow one another in any order; Database models  *)
(* what happens when they overlap.                                         *)
(*                                                                         *)
(* A value is [type, v]: a number for an int or a float, a sequence of     *)
(* bytes for a string, of numbers for a vector; BOOL works as INT does and *)
(* is left out.  A file is a sequence of cells, each of them a field of    *)
(* the format with the width it is written in.                             *)
(***************************************************************************)
EXTENDS Integers, Sequences, FiniteSetsExt, SequencesExt

CONSTANTS
    Schema,         \* the types of the columns: "int", "float", "str" or "vec"
    Dim,            \* the dimension of the vector columns
    RowChoices,     \* the rows clients send, of the right types or not
    MaxBatch,       \* bound: rows of one INSERT
    MaxInserts,     \* bound: INSERTs in one behaviour
    OffsetLimit     \* what a u32 offset wraps at, 2^32 in the code

Types == {"int", "float", "str", "vec"}

\* What Value holds of a type.
ValuesOf(type) == [type : {type}, v : IF type \in {"str", "vec"} THEN Seq(Int) ELSE Int]

ASSUME SchemaAssumption ==
    Schema \in Seq(Types) \ {<<>>} /\ Dim \in Nat \ {0} /\ OffsetLimit \in Nat \ {0}
ASSUME RowsAssumption ==
    \A row \in RowChoices :
        row \in Seq(ToSet(row)) /\ \A x \in ToSet(row) : x.type \in Types /\ x \in ValuesOf(x.type)
ASSUME BoundsAssumption == MaxBatch \in Nat /\ MaxInserts \in Nat

Fields == 1..Len(Schema)

VARIABLES
    table,      \* [columns, nrows] in memory
    image,      \* the table's part of snapshot.vdb
    log,        \* the payloads of the INSERT records since
    inserts,    \* how many INSERTs were sent
    stored,     \* history: the rows put in, in their order
    rejected,   \* history: a batch failed behind a row that was put in
    narrowed    \* history: an integer for a float column was logged as it came

vars == <<table, image, log, inserts, stored, rejected, narrowed>>

Val(type, v) == [type |-> type, v |-> v]
Cell(width, v) == [width |-> width, v |-> v]
U64(n) == <<Cell("u64", n)>>
Run(width, values) == [i \in 1..Len(values) |-> Cell(width, values[i])]

-----------------------------------------------------------------------------
(* Columns.  A string column keeps all bytes in one buffer and where each   *)
(* string ends; a vector column keeps all numbers in one row.               *)

EmptyColumn(type) ==
    [type |-> type, data |-> <<>>, offsets |-> IF type = "str" THEN <<0>> ELSE <<>>]

ColumnLen(c) ==
    CASE c.type = "str" -> Len(c.offsets) - 1
      [] c.type = "vec" -> Len(c.data) \div Dim
      [] OTHER          -> Len(c.data)

\* A slip: a string would be entered by where it begins.
EndOfStringBegin(c, s) == Len(c.data) % OffsetLimit

\* Where a string pushed now ends, as u32.
EndOfString(c, s) == (Len(c.data) + Len(s)) % OffsetLimit

Push(c, value) ==
    CASE c.type = "str" -> [c EXCEPT !.data = @ \o value.v,
                                     !.offsets = Append(@, EndOfString(c, value.v))]
      [] c.type = "vec" -> [c EXCEPT !.data = @ \o value.v]
      [] OTHER          -> [c EXCEPT !.data = Append(@, value.v)]

Get(c, i) ==
    CASE c.type = "str" -> Val("str", SubSeq(c.data, c.offsets[i] + 1, c.offsets[i + 1]))
      [] c.type = "vec" -> Val("vec", SubSeq(c.data, (i - 1) * Dim + 1, i * Dim))
      [] OTHER          -> Val(c.type, c.data[i])

\* get_bytes would slice backwards or behind the buffer.
GetPanics(c, i) ==
    c.type = "str" /\ (c.offsets[i] > c.offsets[i + 1] \/ c.offsets[i + 1] > Len(c.data))

\* Table::row.
Row(t, i) == [f \in Fields |-> Get(t.columns[f], i)]

EmptyTable == [columns |-> [f \in Fields |-> EmptyColumn(Schema[f])], nrows |-> 0]

-----------------------------------------------------------------------------
(* Table::insert and insert_many.                                          *)

\* A slip: a vector of any length would do.
FitsAnyVector(type, value) ==
    value.type = type \/ (type = "float" /\ value.type = "int")

\* A vector fits by its length, and an integer fits a float column.
Fits(type, value) ==
    \/ value.type = type /\ (type = "vec" => Len(value.v) = Dim)
    \/ type = "float" /\ value.type = "int"

RowFits(row) == Len(row) = Len(Schema) /\ \A f \in Fields : Fits(Schema[f], row[f])

\* A slip: values would be pushed up to the first that does not fit.
InsertRowHalf(t, row) ==
    IF RowFits(row)
    THEN [columns |-> [f \in Fields |-> Push(t.columns[f], row[f])], nrows |-> t.nrows + 1]
    ELSE [t EXCEPT !.columns = [f \in Fields |->
            IF \A g \in 1..f : g <= Len(row) /\ Fits(Schema[g], row[g])
            THEN Push(t.columns[f], row[f]) ELSE t.columns[f]]]

\* A row is checked as a whole before any of it is pushed.
InsertRow(t, row) ==
    IF RowFits(row)
    THEN [columns |-> [f \in Fields |-> Push(t.columns[f], row[f])], nrows |-> t.nrows + 1]
    ELSE t

\* How many rows of a batch go in before the first that does not fit.
Accepted(batch) == Max({n \in 0..Len(batch) : \A i \in 1..n : RowFits(batch[i])})

\* The rows before the one that does not fit stay.
InsertMany(t, batch) ==
    LET after[n \in 0..Len(batch)] ==
            IF n = 0 THEN t ELSE InsertRow(after[n - 1], batch[n])
    IN  after[Min({Accepted(batch) + 1, Len(batch)})]

-----------------------------------------------------------------------------
(* Writing.                                                                *)

WidthOf(type) ==
    CASE type = "int" -> "i64" [] type = "float" -> "f64" [] type = "str" -> "byte"
      [] type = "vec" -> "f32"

\* Writer::value: no tag, but the length of what has one; an integer is written as
\* an integer, whatever the column is.
WriteValue(value) ==
    IF value.type \in {"str", "vec"}
    THEN U64(Len(value.v)) \o Run(WidthOf(value.type), value.v)
    ELSE <<Cell(WidthOf(value.type), value.v)>>

WriteRow(row) == FlattenSeq([f \in 1..Len(row) |-> WriteValue(row[f])])

\* The payload of an INSERT record.
WriteRows(batch) == U64(Len(batch)) \o FlattenSeq([i \in 1..Len(batch) |-> WriteRow(batch[i])])

\* A slip: the buffer would come before the offsets.
WriteColumnBufferFirst(c) ==
    CASE c.type = "str" -> U64(Len(c.data)) \o Run("byte", c.data)
                           \o U64(Len(c.offsets)) \o Run("u32", c.offsets)
      [] c.type = "vec" -> U64(Dim) \o U64(Len(c.data)) \o Run("f32", c.data)
      [] OTHER          -> U64(Len(c.data)) \o Run(WidthOf(c.type), c.data)

WriteColumn(c) ==
    CASE c.type = "str" -> U64(Len(c.offsets)) \o Run("u32", c.offsets)
                           \o U64(Len(c.data)) \o Run("byte", c.data)
      [] c.type = "vec" -> U64(Dim) \o U64(Len(c.data)) \o Run("f32", c.data)
      [] OTHER          -> U64(Len(c.data)) \o Run(WidthOf(c.type), c.data)

\* A table in encode_snapshot.
WriteTable(t) ==
    U64(t.nrows) \o FlattenSeq([f \in Fields |-> WriteColumn(t.columns[f])])

-----------------------------------------------------------------------------
(* Reading.  A reader is a place in a file; reading gives [ok, v, at].      *)

Failed == [ok |-> FALSE, v |-> <<>>, at |-> 0]
Misread == -1       \* some number: the bits of an integer taken for a float

\* The bits of integer 0 are those of 0.0; of the other small integers they are
\* those of a float that nobody wrote.
Take(cell, width) ==
    IF cell.width = width \/ cell.v = 0 THEN cell.v ELSE Misread

SameSize(width, other) ==
    width = other \/ {width, other} \subseteq {"u64", "i64", "f64"}

\* n fields of one width.
ReadRun(file, at, n, width) ==
    IF at + n <= Len(file) /\ \A i \in 1..n : SameSize(file[at + i].width, width)
    THEN [ok |-> TRUE, v |-> [i \in 1..n |-> Take(file[at + i], width)], at |-> at + n]
    ELSE Failed

\* A length and as many fields.
ReadCounted(file, at, width) ==
    LET count == ReadRun(file, at, 1, "u64")
    IN  IF count.ok THEN ReadRun(file, count.at, count.v[1], width) ELSE Failed

\* Reader::value, by the type the schema gives.
ReadValue(file, at, type) ==
    LET is == IF type \in {"str", "vec"} THEN ReadCounted(file, at, WidthOf(type))
              ELSE ReadRun(file, at, 1, WidthOf(type))
    IN  IF ~is.ok \/ (type = "vec" /\ Len(is.v) # Dim) THEN Failed
        ELSE [is EXCEPT !.v = Val(type, IF type \in {"str", "vec"} THEN is.v ELSE is.v[1])]

\* Reader::column, with the checks of StrColumn::from_parts.
ReadColumn(file, at, type) ==
    CASE type = "str" ->
            LET offsets == ReadCounted(file, at, "u32")
                buf     == IF offsets.ok THEN ReadCounted(file, offsets.at, "byte") ELSE Failed
            IN  IF /\ buf.ok /\ offsets.v # <<>>
                   /\ Head(offsets.v) = 0 /\ Last(offsets.v) = Len(buf.v) % OffsetLimit
                   /\ \A i \in 1..(Len(offsets.v) - 1) : offsets.v[i] <= offsets.v[i + 1]
                THEN [buf EXCEPT !.v = [type |-> type, data |-> buf.v, offsets |-> offsets.v]]
                ELSE Failed
      [] type = "vec" ->
            LET dim  == ReadRun(file, at, 1, "u64")
                data == IF dim.ok THEN ReadCounted(file, dim.at, "f32") ELSE Failed
            IN  IF data.ok /\ dim.v[1] = Dim /\ Len(data.v) % Dim = 0
                THEN [data EXCEPT !.v = [type |-> type, data |-> data.v, offsets |-> <<>>]]
                ELSE Failed
      [] OTHER ->
            LET data == ReadCounted(file, at, WidthOf(type))
            IN  [data EXCEPT !.v = [type |-> type, data |-> data.v, offsets |-> <<>>]]

\* One item after the other, reader[i][place] being item i read there; stops at a
\* failure.
ReadAll(at, n, reader) ==
    LET upTo[i \in 0..n] ==
            IF i = 0 THEN [ok |-> TRUE, v |-> <<>>, at |-> at]
            ELSE LET before == upTo[i - 1]
                     item   == reader[i][before.at]
                 IN  IF before.ok /\ item.ok
                     THEN [item EXCEPT !.v = Append(before.v, item.v)] ELSE Failed
    IN  upTo[n]

\* A table in decode_snapshot, with the checks of Table::from_columns.
ReadTable(file) ==
    LET count   == ReadRun(file, 0, 1, "u64")
        column  == [f \in Fields |-> [at \in 0..Len(file) |-> ReadColumn(file, at, Schema[f])]]
        columns == ReadAll(1, Len(Schema), column)
    IN  IF /\ count.ok /\ columns.ok
           /\ \A f \in Fields : ColumnLen(columns.v[f]) = count.v[1]
        THEN [ok |-> TRUE, table |-> [columns |-> columns.v, nrows |-> count.v[1]]]
        ELSE [ok |-> FALSE, table |-> EmptyTable]

\* A row of an INSERT record.
ReadRow(payload, from) ==
    ReadAll(from, Len(Schema),
            [f \in Fields |-> [at \in 0..Len(payload) |-> ReadValue(payload, at, Schema[f])]])

\* The rows of an INSERT record.
ReadRows(payload) ==
    ReadAll(1, payload[1].v,
            [i \in 1..payload[1].v |-> [at \in 0..Len(payload) |-> ReadRow(payload, at)]])

\* Database::open: a record on top of what is there.
Replay(before, payload) ==
    LET batch == ReadRows(payload)
    IN  IF before.ok /\ batch.ok
        THEN [before EXCEPT !.table = InsertMany(@, batch.v)]
        ELSE [before EXCEPT !.ok = FALSE]

\* Database::open: the snapshot, then the rows of every record.
RecoveredFrom(snapshot, records) ==
    LET after[n \in 0..Len(records)] ==
            IF n = 0 THEN ReadTable(snapshot) ELSE Replay(after[n - 1], records[n])
    IN  after[Len(records)]

Recovered == RecoveredFrom(image, log)

-----------------------------------------------------------------------------
Batches == UNION {[1..n -> RowChoices] : n \in 1..MaxBatch}

Init ==
    /\ table = EmptyTable /\ image = WriteTable(EmptyTable) /\ log = <<>>
    /\ inserts = 0 /\ stored = <<>> /\ rejected = FALSE /\ narrowed = FALSE

\* What a float column keeps of an integer.
Kept(row) == [f \in Fields |-> [row[f] EXCEPT !.type = Schema[f]]]

\* insert_rows: into memory, then to the log if all of it went in.
Insert(batch) ==
    /\ inserts < MaxInserts /\ inserts' = inserts + 1
    /\ table' = InsertMany(table, batch)
    /\ stored' = stored \o [i \in 1..Accepted(batch) |-> Kept(batch[i])]
    /\ IF Accepted(batch) = Len(batch)
       THEN log' = Append(log, WriteRows(batch)) /\ UNCHANGED rejected
       ELSE rejected' = (rejected \/ Accepted(batch) > 0) /\ UNCHANGED log
    /\ narrowed' = (narrowed \/ \E i \in 1..Accepted(batch) : Kept(batch[i]) # batch[i])
    /\ UNCHANGED image

Snapshot ==
    /\ image' = WriteTable(table) /\ log' = <<>>
    /\ UNCHANGED <<table, inserts, stored, rejected, narrowed>>

\* A start that succeeds; what was not logged is gone with the process.
Restart ==
    /\ Recovered.ok
    /\ table' = Recovered.table
    /\ stored' = IF Recovered.table = table THEN stored
                 ELSE [i \in 1..Recovered.table.nrows |-> Row(Recovered.table, i)]
    /\ UNCHANGED <<image, log, inserts, rejected, narrowed>>

Next == (\E batch \in Batches : Insert(batch)) \/ Snapshot \/ Restart

Spec == Init /\ [][Next]_vars

-----------------------------------------------------------------------------
(* Properties. *)

\* All offsets of the string columns still fit in 32 bits.
OffsetsFit == \A f \in Fields : Schema[f] = "str" => Len(table.columns[f].data) < OffsetLimit

\* The columns stay aligned: every one holds as many values as the table counts
\* rows, whatever row of a batch was refused (table.rs:113, "half a row in a
\* column store breaks the alignment"), and no read of one slices out of its buffer.
TypeOK ==
    /\ inserts \in 0..MaxInserts /\ rejected \in BOOLEAN /\ narrowed \in BOOLEAN
    /\ Len(stored) = table.nrows
    /\ \A f \in Fields :
          /\ table.columns[f].type = Schema[f]
          /\ ColumnLen(table.columns[f]) = table.nrows
          /\ OffsetsFit => \A i \in 1..table.nrows : ~GetPanics(table.columns[f], i)

\* Reading the columns back gives the rows that were put in, in their order:
\* strings and vectors are not mixed up in their common buffers, through any
\* refused batch, snapshot and restart.
RowsComeBack ==
    OffsetsFit => stored = [i \in 1..table.nrows |-> Row(table, i)]

\* A start would succeed at any moment, and give back exactly the table in memory:
\* the two formats written by Writer are understood by Reader for every value,
\* a snapshot in place of the log and the log on top of a snapshot included.  It
\* takes that no batch was refused half way, no integer was logged for a float
\* column and the bytes of a string column fit in 32-bit offsets.
RecoveryExact ==
    ~rejected /\ ~narrowed /\ OffsetsFit => Recovered = [ok |-> TRUE, table |-> table]

\* What only a refused batch or a narrowed number cost is those values: a start
\* still succeeds.
AlwaysStarts == OffsetsFit => Recovered.ok
=============================================================================
