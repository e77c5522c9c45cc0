----------------------------- MODULE Replication -----------------------------
(***************************************************************************)
(* A replica beside the primary of Database: src/src/replication.rs's      *)
(* follow loop, the two handlers of src/src/http.rs it calls and           *)
(* Database::snapshot_bytes, load_snapshot_bytes and wal_since behind them.*)
(*                                                                         *)
(* The primary is Database with all its threads, snapshots and crashes;    *)
(* what its snapshot_bytes copies travels to the replica.  The answer to a *)
(* poll of the log is taken under the WAL mutex at once and handled record *)
(* by record while the primary goes on.                                    *)
(***************************************************************************)
EXTENDS Database

CONSTANT MaxBreaks      \* bound: requests that fail on the network, batches that fail at
                        \* a record, deaths of the replica, writes it takes before it
                        \* knows that it is one

ASSUME BreaksAssumption == MaxBreaks \in Nat

VARIABLES
    rpc,        \* the follow task: "start", then its loop: "ask", "wait" (for a snapshot),
                \* "load", "apply"
    applied,    \* follow's applied: an LSN, or None before the first snapshot
    rview,      \* the tables of the replica
    reply,      \* the snapshot on its way to the replica
    batch,      \* the records of the last poll still to be handled
    at,         \* pull_once's lsn: the LSN of the last record handled
    breaks,     \* how many of the things MaxBreaks bounds have happened
    early,      \* writes of its own clients the replica let pass that are on their way
    strayed,    \* history: one of them landed behind the last full synchronisation
    caught,     \* history: a snapshot lacked a table whose DROP was not in the log yet, or
                \* a served one held another change that was not
    ledger      \* history: every change the primary ever logged

strays  == <<early, strayed>>
replica == <<rpc, applied, rview, reply, batch, at, breaks, strays>>
past    == <<ledger, caught>>
rvars   == <<vars, replica, past>>

None    == -1
NoReply == [lsn |-> 0, view |-> EmptyView]

RInit ==
    /\ Init
    /\ rpc = "start" /\ applied = None /\ rview = EmptyView /\ reply = NoReply
    /\ batch = <<>> /\ at = 0 /\ breaks = 0 /\ ledger = <<>>
    /\ early = 0 /\ strayed = FALSE /\ caught = FALSE

-----------------------------------------------------------------------------
\* The snapshot being taken leaves out a table whose DROP is still to be logged.
CatchesDrop ==
    \E c \in Clients :
        /\ Unlogged(c) /\ op[c].kind = "drop"
        /\ op[c].table \notin {h[1] : h \in snapper.handles}

\* A step of the primary; what it appends to the log goes into the ledger too.
PrimaryStep ==
    /\ LocalStep
    /\ caught' = (caught \/ (snapper.pc = "guard" /\ snapper'.pc = "reset" /\ CatchesDrop))
    /\ ledger' = IF Len(log') > Len(log) THEN Append(ledger, log'[Len(log')].change) ELSE ledger
    /\ UNCHANGED replica

\* GET /replication/snapshot: the request arrives and snapshot_bytes begins.
AskSnapshot ==
    /\ rpc = "ask" /\ applied = None
    /\ BytesLock
    /\ rpc' = "wait"
    /\ UNCHANGED <<applied, rview, reply, batch, at, breaks, strays, past>>

\* The answer leaves with the bytes; nobody may be waiting for it any more.
ServeSnapshot ==
    /\ BytesEncode
    /\ caught' = (caught \/ CapturedUnlogged \/ CatchesDrop)
    /\ IF rpc = "wait"
       THEN rpc' = "load" /\ reply' = [lsn |-> snapper.lsn, view |-> Captured]
       ELSE UNCHANGED <<rpc, reply>>
    /\ UNCHANGED <<applied, rview, batch, at, breaks, strays, ledger>>

-----------------------------------------------------------------------------
(* The replica.  Its process spawns follow and then opens its listeners; the *)
(* runtime may serve a client before follow has run for the first time.     *)

\* Database.read_only: follow's first statement sets it, nothing takes it back.
ReadOnly == rpc # "start"

FollowStarts ==
    /\ rpc = "start" /\ rpc' = "ask"
    /\ UNCHANGED <<vars, applied, rview, reply, batch, at, breaks, strays, past>>

\* A client's write passes deny_if_read_only, the first thing a write does.
EarlyWrite ==
    /\ ~ReadOnly /\ breaks < MaxBreaks /\ breaks' = breaks + 1
    /\ early' = early + 1
    /\ UNCHANGED <<vars, rpc, applied, rview, reply, batch, at, strayed, past>>

\* The same write reaches the tables, at any later time: CREATE of an absent table,
\* rows for one that exists, or its DROP.
EarlyWriteLands(t) ==
    /\ early > 0 /\ early' = early - 1
    /\ \/ t \notin rview.names /\ rview' = [rview EXCEPT !.names = @ \cup {t}]
       \/ t \in rview.names /\ rview' = [rview EXCEPT !.rows[t] = AddRow(@, 1)]
       \/ t \in rview.names
          /\ rview' = [names |-> rview.names \ {t},
                       rows  |-> [rview.rows EXCEPT ![t] = NoRows]]
    /\ strayed' = TRUE
    /\ UNCHANGED <<vars, rpc, applied, reply, batch, at, breaks, past>>

\* A slip: the replica would believe itself one record further than it is.
LoadedLsnOfNext(snapshot) == snapshot.lsn + 1

\* The LSN to go on from after a full synchronisation.
LoadedLsn(snapshot) == snapshot.lsn

\* A slip: tables the snapshot does not name would stay.
LoadedOver(snapshot) ==
    [names |-> snapshot.view.names \cup rview.names,
     rows  |-> [t \in Tables |-> IF t \in snapshot.view.names THEN snapshot.view.rows[t]
                                 ELSE rview.rows[t]]]

\* load_snapshot_bytes puts the snapshot in place of everything.
Loaded(snapshot) == snapshot.view

\* bootstrap.
LoadSnapshot ==
    /\ rpc = "load" /\ rpc' = "ask"
    /\ rview' = Loaded(reply) /\ applied' = LoadedLsn(reply)
    /\ at' = LoadedLsn(reply) /\ reply' = NoReply
    /\ strayed' = FALSE
    /\ UNCHANGED <<vars, batch, breaks, early, past>>

\* GET /replication/wal?after=<applied>.
AskWal ==
    /\ rpc = "ask" /\ applied # None
    /\ phase = "up" /\ WalFree
    /\ rpc' = "apply" /\ at' = applied
    /\ batch' = RecordsAfter(log, applied)
    /\ UNCHANGED <<vars, applied, rview, reply, breaks, strays, past>>

\* A slip: a gap would not be looked for.
NoGap(frame) == FALSE

\* LSNs follow one another; anything else means the log was truncated.
Gap(frame) == frame.lsn # at + 1

\* pull_once fails with "a gap in the WAL": follow forgets where it was.
PullGap ==
    /\ rpc = "apply" /\ batch # <<>> /\ Gap(Head(batch))
    /\ rpc' = "ask" /\ applied' = None /\ batch' = <<>>
    /\ UNCHANGED <<vars, rview, reply, at, breaks, strays, past>>

\* pull_once fails on a record that does not decode: follow asks again from
\* where the batch began, whatever part of it is in the tables already.
PullFails ==
    /\ rpc = "apply" /\ batch # <<>> /\ ~Gap(Head(batch))
    /\ ~Decodable(rview, Head(batch).change)
    /\ breaks < MaxBreaks /\ breaks' = breaks + 1
    /\ rpc' = "ask" /\ batch' = <<>>
    /\ UNCHANGED <<vars, applied, rview, reply, at, strays, past>>

PullApply ==
    /\ rpc = "apply" /\ batch # <<>> /\ ~Gap(Head(batch))
    /\ Decodable(rview, Head(batch).change)
    /\ rview' = Apply(rview, Head(batch).change)
    /\ at' = Head(batch).lsn /\ batch' = Tail(batch)
    /\ UNCHANGED <<vars, rpc, applied, reply, breaks, strays, past>>

\* A slip: follow would go on from where the batch began.
PullDoneForgets ==
    /\ rpc = "apply" /\ batch = <<>>
    /\ rpc' = "ask"
    /\ UNCHANGED <<vars, applied, rview, reply, batch, at, breaks, strays, past>>

PullDone ==
    /\ rpc = "apply" /\ batch = <<>>
    /\ rpc' = "ask" /\ applied' = at
    /\ UNCHANGED <<vars, rview, reply, batch, at, breaks, strays, past>>

\* The request for a snapshot fails on the network, or its primary dies; follow
\* tries again.  A poll that fails changes nothing and is no step.
SnapshotLost ==
    /\ rpc \in {"wait", "load"}
    /\ \/ rpc = "wait" /\ (snapper.pc = "idle" \/ snapper.to = "disk") /\ UNCHANGED breaks
       \/ breaks < MaxBreaks /\ breaks' = breaks + 1
    /\ rpc' = "ask" /\ reply' = NoReply
    /\ UNCHANGED <<vars, applied, rview, batch, at, strays, past>>

\* The replica dies and starts with the empty tables it never wrote to disk.
ReplicaDies ==
    /\ breaks < MaxBreaks /\ breaks' = breaks + 1
    /\ rpc' = "start" /\ applied' = None /\ rview' = EmptyView /\ reply' = NoReply
    /\ batch' = <<>> /\ at' = 0 /\ early' = 0 /\ strayed' = FALSE
    /\ UNCHANGED <<vars, past>>

-----------------------------------------------------------------------------
FollowStep ==
    \/ FollowStarts \/ AskSnapshot \/ LoadSnapshot \/ AskWal
    \/ PullGap \/ PullFails \/ PullApply \/ PullDone \/ SnapshotLost

EarlyStep == EarlyWrite \/ \E t \in Tables : EarlyWriteLands(t)

RNext == PrimaryStep \/ ServeSnapshot \/ FollowStep \/ EarlyStep \/ ReplicaDies

RSpec == RInit /\ [][RNext]_rvars

\* The replica keeps polling, the primary's threads keep running and the
\* service manager starts it again.
RFairSpec ==
    /\ RSpec
    /\ \A c \in Clients : WF_rvars(PrimaryStep /\ ClientStep(c))
    /\ WF_rvars(PrimaryStep /\ SnapshotStep)
    /\ WF_rvars(PrimaryStep /\ OpenStep)
    /\ WF_rvars(ServeSnapshot)
    /\ SF_rvars(FollowStep)

-----------------------------------------------------------------------------
(* Properties. *)

\* The tables after the first n of some changes.
After(changes, n) ==
    LET upTo[i \in 0..n] == IF i = 0 THEN EmptyView ELSE Apply(upTo[i - 1], changes[i])
    IN  upTo[n]

\* The state of the primary after its first n logged changes.
ViewAt(n) == After(ledger, n)

\* None of the recorded races and no rewound numbering has touched the primary, no
\* request of its failed half way, and no snapshot ran ahead of the log.
RClean == ~rewound /\ ~conflicted /\ ~straddled /\ ~leftover /\ ~caught

\* Every variable of the replica keeps its type (replication.rs's follow), and
\* what is left of a batch lies ahead of the replica.
RTypeOK ==
    /\ rpc \in {"start", "ask", "wait", "load", "apply"}
    /\ applied \in Nat \cup {None} /\ at \in Nat
    /\ rview \in Views /\ reply \in [lsn : Nat, view : Views]
    /\ batch \in Seq(Frames) /\ breaks \in 0..MaxBreaks /\ ledger \in Seq(Changes)
    /\ early \in 0..MaxBreaks /\ strayed \in BOOLEAN /\ caught \in BOOLEAN
    /\ rpc = "apply" => applied # None /\ applied <= at
    /\ \A i \in 1..Len(batch) : batch[i].lsn > at

\* A replica that has synchronised shows exactly the state of the primary as of
\* one LSN: a prefix of what was logged, with nothing lost, doubled or reordered,
\* through polls, gaps, resynchronisations, lost answers and deaths on both sides;
\* whatever its own clients wrote before it refused writes is gone with the first
\* synchronisation.  It takes a numbering that was not rewound, no race between a
\* change in memory and its record, no early write still on its way then, and no
\* snapshot that ran ahead of the log.
ReplicaIsPrefix ==
    RClean /\ applied # None /\ ~strayed
        => at <= Len(ledger) /\ rview = ViewAt(at)

\* The replica never goes back in the primary's history, not even by a full
\* synchronisation after a gap: only its own death takes it back, or an early write
\* that landed behind a synchronisation and makes a record fail, so that its whole
\* batch is repeated (follow's applied and pull_once's lsn).
ReplicaAdvances ==
    [][RClean /\ ~strayed' /\ breaks' = breaks => at' >= at]_rvars

\* Nobody works at the primary, its log holds a record to poll, the numbering
\* was never rewound, and no early write got behind the synchronisation.
Settled ==
    /\ phase = "up" /\ snapper.pc = "idle" /\ \A c \in Clients : pc[c] = "idle"
    /\ log # <<>> /\ RClean /\ ~strayed

\* Once the primary is left alone with a record in its log, the replica reaches
\* its state and keeps it: a gap is found and healed, failed requests are repeated.
Converges == <>[]Settled => <>[](rview = View)
=============================================================================
