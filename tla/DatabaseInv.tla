----------------------------- MODULE DatabaseInv -----------------------------
(***************************************************************************)
(* The inductive invariant behind WalNumbered, ResetDropsOnlyCovered and   *)
(* AckedSurvive, in named parts.  TLC checks IInv on small instances,      *)
(* Database_proofs proves it for all of them.                              *)
(***************************************************************************)
EXTENDS Database

\* Every thread inside a request knows what it does there, and only a serving
\* process has threads in requests or in snapshot.
ThreadsOK ==
    /\ \A c \in Clients :
        /\ pc[c] \in {"insert", "encode"} => op[c].kind = "insert"
        /\ pc[c] = "append" => op[c].kind # "none"
        /\ pc[c] # "idle" => phase = "up"
        /\ pc[c] = "idle" => op[c] = NoOp
        /\ op[c].kind \in {"create", "insert"} => op[c].gen \in Gens
        /\ IF op[c].kind = "insert" THEN op[c].row \in Rows ELSE op[c].row = 0
    /\ IF snapper.pc = "idle" THEN snapper = NoSnapper ELSE phase = "up"
    /\ phase = "loading" => pos <= Len(log)
    /\ phase = "down" => pos = 0

\* The log is numbered consecutively from its first frame, the live counter
\* goes on from its last one, and stays above the snapshot unless rewound.
Numbering ==
    /\ \A i \in 1..Len(log) : log[i].lsn = log[1].lsn + i - 1
    /\ phase \in {"up", "loading"} /\ log # <<>> => nextLsn = log[Len(log)].lsn + 1
    /\ phase \in {"up", "loading"} /\ ~rewound => image.lsn < nextLsn
    /\ snapper.pc # "idle" => snapper.lsn = nextLsn - 1
    /\ snapper.pc = "reset" => image.lsn = nextLsn - 1

\* A generation in use was handed out before.
GensOK ==
    /\ \A t \in Tables : tables[t] <= gen[t]
    /\ \A c \in Clients : op[c].gen <= gen[op[c].table]

\* Every DROP on its way to the log or in it is recorded.
DropsRecorded ==
    /\ \A c \in Clients : op[c].kind = "drop" => op[c].table \in dropped
    /\ \A i \in 1..Len(log) : log[i].change.kind = "drop" => log[i].change.table \in dropped

\* A name that was never dropped still points to the handle that a thread got
\* for it ...
ThreadHandles ==
    \A c \in Clients :
        op[c].kind \in {"create", "insert"} /\ op[c].table \notin dropped
        => tables[op[c].table] = op[c].gen

\* ... and to the handle that snapshot collected for it.
SnapshotHandles ==
    \A t \in Tables, g \in Gens :
        <<t, g>> \in snapper.handles /\ t \notin dropped => tables[t] = g

\* A snapshot holds no rows without their table.
ImageRows ==
    \A t \in Tables : \A r \in Rows : image.view.rows[t][r] > 0 => t \in image.view.names

HandlesOK == GensOK /\ DropsRecorded /\ ThreadHandles /\ SnapshotHandles /\ ImageRows

-----------------------------------------------------------------------------
Clean == ~rewound /\ ~conflicted

Kept(change) == change.kind # "drop" /\ change.table \notin dropped

\* Recovery will come upon change among the first n frames.
LoggedUpTo(change, n) ==
    \E i \in 1..n : log[i].lsn > image.lsn /\ log[i].change = change

\* The files hold change.
Stored(change) == Shows(image.view, change) \/ LoggedUpTo(change, Len(log))

\* Whatever was acknowledged is in the files.
AckedStored == \A change \in acked : Kept(change) => Stored(change)

\* Whatever is in the files, or in the part of them open has read, is served.
StoredServed ==
    /\ phase = "up"
        => \A change \in Changes : Kept(change) /\ Stored(change) => Shows(View, change)
    /\ phase = "loading"
        => \A change \in Changes :
              Kept(change) /\ (Shows(image.view, change) \/ LoggedUpTo(change, pos))
                => Shows(View, change)

\* None of the first n frames that recovery replays inserts into t.
NoInsertUpTo(t, n) ==
    \A i \in 1..n :
        ~(log[i].lsn > image.lsn /\ log[i].change.kind = "insert" /\ log[i].change.table = t)

\* A CREATE record finds no row of its table before it: replaying it over the
\* snapshot empties nothing.
CreatesComeFirst ==
    \A j \in 1..Len(log) :
        log[j].change.kind = "create" /\ log[j].change.table \notin dropped /\ log[j].lsn > image.lsn
        => /\ \A r \in Rows : image.view.rows[log[j].change.table][r] = 0
           /\ NoInsertUpTo(log[j].change.table, j - 1)

\* The table t holds no row in memory or in the files, and nobody is inserting
\* into it.
Untouched(t) ==
    /\ \A r \in Rows : heap[HandleOf(t)][r] = 0 /\ image.view.rows[t][r] = 0
    /\ NoInsertUpTo(t, Len(log))
    /\ \A d \in Clients : op[d].kind = "insert" => op[d].table # t

\* While a CREATE waits for the log, its table is empty everywhere.
PendingCreateEmpty ==
    \A c \in Clients :
        pc[c] = "append" /\ op[c].kind = "create" /\ op[c].table \notin dropped
        => Untouched(op[c].table)

\* A row on its way to the log is in its table already.
PendingInsertServed ==
    \A c \in Clients :
        Unlogged(c) /\ op[c].kind = "insert" => heap[<<op[c].table, op[c].gen>>][op[c].row] > 0

\* The handles snapshot copies include the table of everything acknowledged:
\* nothing is acknowledged while it holds the WAL mutex.
AckedCaptured ==
    snapper.pc \in {"guard", "reset"}
        => \A change \in acked : Kept(change) => HandleOf(change.table) \in snapper.handles

Survival ==
    /\ PendingInsertServed
    /\ Clean => /\ AckedStored /\ StoredServed /\ CreatesComeFirst
                /\ PendingCreateEmpty /\ AckedCaptured

\* The inductive invariant.
IInv == TypeOK /\ ThreadsOK /\ Numbering /\ HandlesOK /\ Survival
=============================================================================
