------------------------------ MODULE ReplayInv ------------------------------
(***************************************************************************)
(* The inductive invariants behind OpenSucceeds, RecoveryExact and         *)
(* NoRowTwice, which say what Database::open makes of the files at any     *)
(* moment.  They build on DatabaseInv's.  TLC checks them on small         *)
(* instances, Database_proofs proves them for all of them.                 *)
(***************************************************************************)
EXTENDS DatabaseInv

-----------------------------------------------------------------------------
(* Tables: what recovery finds under a name.                               *)

\* Requests on one table that are under way together are INSERTs.
RequestsApart ==
    \A c, d \in Clients :
        c # d /\ InFlight(c) /\ InFlight(d) /\ op[c].table = op[d].table
        => op[c].kind = "insert" /\ op[d].kind = "insert"

\* A request under way finds the table as it left it.
RequestTables ==
    \A c \in Clients :
        InFlight(c) => tables[op[c].table] = IF op[c].kind = "drop" THEN 0 ELSE op[c].gen

\* What a live process serves and no request is about to log is in the files.
NamesStored ==
    phase = "up" => \A t \in Tables :
        tables[t] # 0 /\ t \notin Doing("create") => t \in Recovered(image, log).view.names

\* ... and among the handles that snapshot copies.
NamesCaptured ==
    snapper.pc \in {"guard", "reset"} => \A t \in Tables :
        tables[t] # 0 /\ t \notin Doing("create") => HandleOf(t) \in snapper.handles

\* A handle that snapshot copies is still the table, or a DROP is under way.
HandlesCurrent ==
    snapper.pc \in {"guard", "reset"} => \A h \in snapper.handles :
        tables[h[1]] = h[2] \/ h[1] \in Doing("drop")

\* A row that nobody has put in its table yet is a row of no bag, and the number
\* of a row is used once.
NewRows ==
    /\ \A c \in Clients : pc[c] # "idle" => op[c].row <= issued
    /\ \A c, d \in Clients :
          c # d /\ op[c].kind = "insert" /\ op[d].kind = "insert" => op[c].row # op[d].row

\* Open has made of the first pos frames what recovery makes of them.
LoadingExact ==
    phase = "loading"
        => Recovered(image, SubSeq(log, 1, pos)) = [ok |-> TRUE, view |-> View]

\* Every record in the files decodes when its turn comes, and open finds it so.
FilesDecode == Recovered(image, log).ok /\ phase # "failed"

Decoding ==
    /\ NewRows /\ LoadingExact
    /\ unbacked => leftover
    /\ Clean => RequestsApart /\ RequestTables /\ NamesCaptured /\ HandlesCurrent
    /\ Clean /\ ~unbacked => FilesDecode /\ NamesStored

\* The inductive invariant behind OpenSucceeds and RecoveryExact.
DecodingInv == Decoding /\ RecoveryExact

-----------------------------------------------------------------------------
(* Rows: how often recovery finds one.                                     *)

\* A frame among those behind the first n holds the row r.
LoggedRow(r, n) ==
    \E i \in (n + 1)..Len(log) : log[i].change.kind = "insert" /\ log[i].change.row = r

\* ... and open would apply it.
ReplayedRow(r, n) ==
    \E i \in (n + 1)..Len(log) :
        log[i].change.kind = "insert" /\ log[i].change.row = r /\ log[i].lsn > image.lsn

InSnapshot(r) == \E t \in Tables : image.view.rows[t][r] > 0

\* No table and no file holds r.
Unused(r) ==
    /\ \A h \in Handles : heap[h][r] = 0
    /\ ~InSnapshot(r) /\ ~LoggedRow(r, 0)

\* Rows to come are nowhere yet, a row before it is put in its table neither.
RowsNew ==
    /\ \A r \in Rows : r > issued => Unused(r)
    /\ \A c \in Clients : pc[c] = "insert" => Unused(op[c].row)

\* A row on its way to the log is in no other table, and not in the log.
RowsUnlogged ==
    \A c \in Clients : Unlogged(c) /\ op[c].kind = "insert"
        => /\ \A h \in Handles : heap[h][op[c].row] > 0 => h = <<op[c].table, op[c].gen>>
           /\ ~LoggedRow(op[c].row, 0)
           /\ ~straddled => ~InSnapshot(op[c].row)

\* A row is logged once.
RowsLoggedOnce ==
    \A i, j \in 1..Len(log) :
        i # j /\ log[i].change.kind = "insert" /\ log[j].change.kind = "insert"
        => log[i].change.row # log[j].change.row

\* A row is once in a table and once in the snapshot, and where recovery would
\* bring it back it is not there yet.
RowsOnce ==
    /\ \A r \in Rows : \A h \in Handles : heap[h][r] <= 1
    /\ \A r \in Rows : \A t \in Tables : image.view.rows[t][r] <= 1
    /\ \A r \in Rows : ReplayedRow(r, 0) => ~InSnapshot(r)
    /\ phase = "loading" =>
          \A r \in Rows : ReplayedRow(r, pos) => \A h \in Handles : heap[h][r] = 0

\* The inductive invariant behind NoRowTwice.
RowsInv == NewRows /\ RowsNew /\ RowsUnlogged /\ RowsLoggedOnce /\ (~straddled => RowsOnce)

\* What the proofs show of the files: what they decode to, and how often a row is
\* in them.
FilesInv == DecodingInv /\ RowsInv
=============================================================================
