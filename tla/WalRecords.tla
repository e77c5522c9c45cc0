----------------------------- MODULE WalRecords -----------------------------
(***************************************************************************)
(* The data every part of veldb's durability shares: what a WAL record     *)
(* says, what a catalogue of tables holds, and Database::apply, the one     *)
(* function by which both crash recovery and a replica replay records.     *)
(*                                                                         *)
(* Data is abstracted to what the properties tell apart.  A row is the     *)
(* number of the INSERT that brought it, so a table is a bag of rows:      *)
(* rows[t][r] is how many copies of r table t holds.  Names are compared   *)
(* after Database::key lower-cased them, so a table is its key.            *)
(***************************************************************************)
EXTENDS LogNumbers

CONSTANTS
    Tables,     \* the table names the clients use
    MaxRows     \* how many INSERTs are issued in one behaviour

ASSUME TablesAssumption == Tables # {}
ASSUME MaxRowsAssumption == MaxRows \in Nat

Rows == 1..MaxRows

\* The bag of rows of a table that holds nothing.
NoRows == [r \in Rows |-> 0]

Bags == [Rows -> Nat]

\* Table::insert of one row.
AddRow(bag, r) == [bag EXCEPT ![r] = bag[r] + 1]

\* What a client reads and what a snapshot stores: the existing tables and
\* their rows.  An absent table has no rows.
Views == [names : SUBSET Tables, rows : [Tables -> Bags]]

EmptyView == [names |-> {}, rows |-> [t \in Tables |-> NoRows]]

\* A WalRecord; row is 0 when the record carries no rows.
Changes == [kind : {"create", "drop"}, table : Tables, row : {0}]
           \cup [kind : {"insert"}, table : Tables, row : Rows]

\* A frame of the log: a record under its LSN.
Frames == [lsn : Nat, change : Changes]

-----------------------------------------------------------------------------
\* Decoding an INSERT needs the schema of a table that exists at that moment;
\* the other two records decode by themselves.
Decodable(view, change) ==
    change.kind = "insert" => change.table \in view.names

\* Database::apply.  CREATE TABLE puts a new empty table over whatever stood
\* under the name, DROP TABLE of an absent table is no error.
Apply(view, change) ==
    LET t == change.table IN
    CASE change.kind = "create" ->
            [names |-> view.names \cup {t}, rows |-> [view.rows EXCEPT ![t] = NoRows]]
      [] change.kind = "drop" ->
            [names |-> view.names \ {t}, rows |-> [view.rows EXCEPT ![t] = NoRows]]
      [] change.kind = "insert" ->
            [names |-> view.names,
             rows  |-> [view.rows EXCEPT ![t] = AddRow(view.rows[t], change.row)]]

\* What a change was meant to achieve is visible in view.
Shows(view, change) ==
    CASE change.kind = "create" -> change.table \in view.names
      [] change.kind = "insert" -> view.rows[change.table][change.row] > 0
      [] change.kind = "drop"   -> TRUE

-----------------------------------------------------------------------------
\* What one record does to a replay: a record the snapshot covers is skipped, and
\* behind one that does not decode, for good, nothing is applied.
Replay(image, state, frame) ==
    IF ~state.ok \/ frame.lsn <= image.lsn THEN state
    ELSE IF Decodable(state.view, frame.change)
         THEN [state EXCEPT !.view = Apply(@, frame.change)]
         ELSE [state EXCEPT !.ok = FALSE]

\* The view that replaying a log on a snapshot yields, record by record.
Recovered(image, log) ==
    LET replayed[i \in 0..Len(log)] ==
            IF i = 0 THEN [ok |-> TRUE, view |-> image.view]
            ELSE Replay(image, replayed[i - 1], log[i])
    IN  replayed[Len(log)]
=============================================================================
