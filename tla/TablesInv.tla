----------------------------- MODULE TablesInv ------------------------------
(* The inductive invariant of Tables. *)
EXTENDS Tables

Columns == [type : Types, data : Seq(Int), offsets : Seq(Nat)]

\* How a string column lays out n strings: where each ends is in the buffer, and in
\* order as long as no offset has wrapped.
StringsInOrder(c) == \A i \in 1..(Len(c.offsets) - 1) : c.offsets[i] <= c.offsets[i + 1]

LaidOut(c, n) ==
    /\ Len(c.offsets) = n + 1 /\ c.offsets[1] = 0
    /\ c.offsets[n + 1] = Len(c.data) % OffsetLimit
    /\ \A i \in 1..(n + 1) : c.offsets[i] <= Len(c.data)
    /\ Len(c.data) < OffsetLimit => StringsInOrder(c)

\* A column of n values.
Aligned(c, n) ==
    CASE c.type = "str" -> LaidOut(c, n)
      [] c.type = "vec" -> Len(c.data) = n * Dim /\ c.offsets = <<>>
      [] OTHER          -> Len(c.data) = n /\ c.offsets = <<>>

\* Tables whose columns are aligned, whatever is in them.
AlignedTables ==
    {t \in [columns : [Fields -> Columns], nrows : Nat] :
        \A f \in Fields : t.columns[f].type = Schema[f] /\ Aligned(t.columns[f], t.nrows)}

\* A row with a value of its type for each column.
IsRow(row) ==
    /\ row \in Seq(ToSet(row)) /\ Len(row) = Len(Schema)
    /\ \A f \in Fields : row[f] \in ValuesOf(Schema[f]) /\ Fits(Schema[f], row[f])

AreRows(rows) == rows \in Seq(ToSet(rows)) /\ \A i \in 1..Len(rows) : IsRow(rows[i])

\* What files are made of.
Widths == {"u64", "i64", "f64", "u32", "f32", "byte"}
Cells == [width : Widths, v : Int]

\* A record that can be read, and gives rows of the schema.
Reads(record) == ReadRows(record).ok = TRUE /\ AreRows(ReadRows(record).v)

\* What a start can give.
Starts == [ok : BOOLEAN, table : AlignedTables]

TypesInv ==
    /\ table \in AlignedTables /\ log \in Seq(Seq(Cells))
    /\ inserts \in 0..MaxInserts /\ rejected \in BOOLEAN /\ narrowed \in BOOLEAN
    /\ AreRows(stored) /\ Len(stored) = table.nrows

\* The files can be read: the snapshot gives an aligned table if it gives one at all,
\* which it does while the strings in memory fit their offsets, and every record
\* gives rows of the schema.
FilesRead ==
    /\ ReadTable(image) \in Starts
    /\ OffsetsFit => ReadTable(image).ok
    /\ \A i \in 1..Len(log) : Reads(log[i])

IInv == TypesInv /\ RowsComeBack /\ FilesRead /\ RecoveryExact
=============================================================================
