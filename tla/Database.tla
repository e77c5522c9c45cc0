------------------------------ MODULE Database ------------------------------
(***************************************************************************)
(* The Database of src/src/db.rs over one data directory: client threads   *)
(* that change the catalogue in memory first and append to the WAL after,  *)
(* a snapshot that freezes the WAL while it copies the tables, crashes at  *)
(* any step, and Database::open, which replays the log record by record.   *)
(*                                                                         *)
(* Every lock of the code is here: a critical section that takes no second *)
(* lock is one action, the WAL mutex that snapshot holds across its steps  *)
(* is snapper.pc # "idle", the read guards it holds are snapper.guards.    *)
(* A table handle (Arc) is a pair of the name and a generation, so that a  *)
(* thread can still write to a table that was dropped under it.            *)
(***************************************************************************)
EXTENDS WalRecords, FiniteSets

CONSTANTS
    Clients,        \* threads that serve requests
    Kinds,          \* the requests they serve, a subset of AllKinds; "fetch" is that of
                    \* a replica for a snapshot, "fault" a write to the log that fails
    MaxGen,         \* bound: how often one name is created between two starts
    MaxCrashes,     \* bound: crashes in one behaviour
    MaxSnapshots    \* bound: snapshots in one behaviour

AllKinds == {"create", "drop", "insert", "badbatch", "fetch", "fault"}

ASSUME ClientsAssumption == Clients # {}
ASSUME KindsAssumption == Kinds \subseteq AllKinds
ASSUME BoundsAssumption == MaxGen \in Nat \ {0} /\ MaxCrashes \in Nat /\ MaxSnapshots \in Nat

VARIABLES
    phase,      \* "up", "down", "loading" (inside open), "failed" (open returned an error)
    tables,     \* Database.tables: the generation a name points to, 0 when absent
    heap,       \* the rows of every table handle
    gen,        \* the last generation handed out for a name
    pc,         \* where each client thread stands
    op,         \* the request it serves
    snapper,    \* the thread inside Database::snapshot (to "disk") or snapshot_bytes (to
                \* "replica"), which holds the WAL mutex
    log,        \* wal.log: the frames on disk
    nextLsn,    \* Wal.next_lsn, in memory
    image,      \* snapshot.vdb: the LSN it was taken at and the view it holds
    pos,        \* how many frames open has gone through
    issued,     \* how many INSERTs were issued
    crashes,    \* how many times the process died
    snaps,      \* how many snapshots were started
    acked,      \* history: the changes whose client was told Ok
    dropped,    \* history: names ever removed by DROP TABLE
    conflicted, \* history: a DDL overlapped another request on the same table
    straddled,  \* history: a snapshot captured a change its WAL record did not precede
    rewound,    \* history: open numbered the log at or below the snapshot's LSN
    leftover,   \* history: a request failed after it had changed memory
    unbacked    \* history: a CREATE failed so since the last snapshot or start, and its
                \* table is in no file

mem     == <<tables, heap, gen>>
threads == <<pc, op>>
disk    == <<log, image>>
history == <<acked, dropped, conflicted, straddled, rewound, leftover, unbacked>>
bounds  == <<issued, crashes, snaps>>
vars    == <<phase, mem, threads, snapper, disk, nextLsn, pos, bounds, history>>

Gens    == 1..MaxGen
Handles == Tables \X Gens

\* The handle a name points to; only for a name that exists.
HandleOf(t) == <<t, tables[t]>>

\* What readers of the catalogue see.
View == [names |-> {t \in Tables : tables[t] # 0},
         rows  |-> [t \in Tables |-> IF tables[t] = 0 THEN NoRows ELSE heap[HandleOf(t)]]]

\* A process that has just started: no thread, no handle, nobody in snapshot.
NoOp      == [kind |-> "none", table |-> CHOOSE t \in Tables : TRUE, gen |-> 0, row |-> 0]
Ops       == [kind : {"none", "create", "drop", "insert"}, table : Tables,
              gen : 0..MaxGen, row : 0..MaxRows]
NoSnapper == [pc |-> "idle", to |-> "disk", lsn |-> 0, handles |-> {}, guards |-> {}]
NoHeap    == [h \in Handles |-> NoRows]

-----------------------------------------------------------------------------
\* The request of c has looked at the catalogue and is not in the log yet.
InFlight(c) == pc[c] \in {"insert", "encode", "append"}

\* The request of c is visible in memory and is not in the log yet.
Unlogged(c) == pc[c] \in {"encode", "append"}

\* A request on t by c now would overlap another one that does not commute with it.
Overlaps(c, t, ddl) ==
    \E d \in Clients \ {c} :
        InFlight(d) /\ op[d].table = t /\ (ddl \/ op[d].kind # "insert")

\* snapshot copied a table whose creation or whose last row is not logged yet.
CapturedUnlogged ==
    \E c \in Clients :
        /\ Unlogged(c) /\ op[c].kind # "drop"
        /\ <<op[c].table, op[c].gen>> \in snapper.handles

-----------------------------------------------------------------------------
(* Slips of the kind a change to this code could bring in.  Each is a       *)
(* variant of a definition below; putting it in that definition's place     *)
(* must make TLC find a property violated.  The specification uses none.    *)

\* snapshot would let the WAL mutex go after reading the LSN.
WalFreeAlways == TRUE

\* snapshot would take the LSN of the next frame for that of the last one.
SnapshotLsnOfNext == nextLsn

\* snapshot would be one frame too modest, and wrong on an empty log.
SnapshotLsnTooLow == nextLsn - 2

\* open would compare with < and replay the last frame of the snapshot again.
CoveredStrictly(frame) == frame.lsn < image.lsn

\* reset would start the numbering over.
SnapshotResetRenumbers ==
    /\ snapper.pc = "reset"
    /\ log' = <<>> /\ nextLsn' = 1
    /\ snapper' = NoSnapper
    /\ UNCHANGED <<phase, mem, threads, image, pos, bounds, history>>

-----------------------------------------------------------------------------
\* A WAL frame can be written only by the holder of the WAL mutex.
WalFree == snapper.pc = "idle"

\* The LSN a snapshot taken now carries: that of the last frame handed out.
SnapshotLsn == nextLsn - 1

\* open skips the frames the snapshot already holds.
Covered(frame) == frame.lsn <= image.lsn

Serve(c, kind, t) ==
    /\ phase = "up" /\ pc[c] = "idle" /\ kind \in Kinds
    /\ conflicted' = (conflicted \/ Overlaps(c, t, kind # "insert"))

Finish(c) ==
    /\ pc' = [pc EXCEPT ![c] = "idle"]
    /\ op' = [op EXCEPT ![c] = NoOp]

Init ==
    /\ phase = "up" /\ pos = 0
    /\ tables = [t \in Tables |-> 0] /\ gen = [t \in Tables |-> 0] /\ heap = NoHeap
    /\ pc = [c \in Clients |-> "idle"] /\ op = [c \in Clients |-> NoOp]
    /\ snapper = NoSnapper
    /\ log = <<>> /\ nextLsn = 1 /\ image = [lsn |-> 0, view |-> EmptyView]
    /\ issued = 0 /\ crashes = 0 /\ snaps = 0
    /\ acked = {} /\ dropped = {}
    /\ conflicted = FALSE /\ straddled = FALSE /\ rewound = FALSE
    /\ leftover = FALSE /\ unbacked = FALSE

-----------------------------------------------------------------------------
(* Client threads.  A request that fails its first check changes nothing   *)
(* and is not an action: CREATE of an existing table, DROP and INSERT of an *)
(* absent one.                                                             *)

CreateTable(c, t) ==
    /\ Serve(c, "create", t)
    /\ tables[t] = 0 /\ gen[t] < MaxGen
    /\ gen' = [gen EXCEPT ![t] = @ + 1]
    /\ tables' = [tables EXCEPT ![t] = gen[t] + 1]
    /\ heap' = [heap EXCEPT ![<<t, gen[t] + 1>>] = NoRows]
    /\ pc' = [pc EXCEPT ![c] = "append"]
    /\ op' = [op EXCEPT ![c] = [kind |-> "create", table |-> t, gen |-> gen[t] + 1, row |-> 0]]
    /\ UNCHANGED <<phase, snapper, disk, nextLsn, pos, bounds,
                   acked, dropped, straddled, rewound, leftover, unbacked>>

DropTable(c, t) ==
    /\ Serve(c, "drop", t)
    /\ tables[t] # 0
    /\ tables' = [tables EXCEPT ![t] = 0]
    /\ dropped' = dropped \cup {t}
    /\ pc' = [pc EXCEPT ![c] = "append"]
    /\ op' = [op EXCEPT ![c] = [kind |-> "drop", table |-> t, gen |-> 0, row |-> 0]]
    /\ UNCHANGED <<phase, heap, gen, snapper, disk, nextLsn, pos, bounds,
                   acked, straddled, rewound, leftover, unbacked>>

\* insert_inner clones the Arc of the table and lets the catalogue lock go.
InsertLookup(c, t) ==
    /\ Serve(c, "insert", t)
    /\ tables[t] # 0 /\ issued < MaxRows
    /\ issued' = issued + 1
    /\ pc' = [pc EXCEPT ![c] = "insert"]
    /\ op' = [op EXCEPT ![c] = [kind |-> "insert", table |-> t, gen |-> tables[t], row |-> issued + 1]]
    /\ UNCHANGED <<phase, mem, snapper, disk, nextLsn, pos, crashes, snaps,
                   acked, dropped, straddled, rewound, leftover, unbacked>>

\* The row reaches the handle, whatever the name points to by now.
PushRow(c) ==
    LET h == <<op[c].table, op[c].gen>> IN
    /\ pc[c] = "insert" /\ h \notin snapper.guards
    /\ heap' = [heap EXCEPT ![h] = AddRow(heap[h], op[c].row)]

InsertMany(c) ==
    /\ PushRow(c)
    /\ pc' = [pc EXCEPT ![c] = "encode"]
    /\ UNCHANGED <<phase, tables, gen, op, snapper, disk, nextLsn, pos, bounds, history>>

\* insert_many stops at a row that does not fit the schema; the rows before
\* it stay in the table, the request fails and nothing is logged.
InsertManyRejects(c) ==
    /\ "badbatch" \in Kinds
    /\ PushRow(c)
    /\ Finish(c)
    /\ leftover' = TRUE
    /\ UNCHANGED <<phase, tables, gen, snapper, disk, nextLsn, pos, bounds,
                   acked, dropped, conflicted, straddled, rewound, unbacked>>

\* log() encodes before it takes the WAL mutex; an INSERT needs the schema of
\* whatever table has the name now, and fails when there is none.
Encode(c) ==
    /\ pc[c] = "encode"
    /\ IF tables[op[c].table] # 0
       THEN pc' = [pc EXCEPT ![c] = "append"] /\ UNCHANGED <<op, leftover>>
       ELSE Finish(c) /\ leftover' = TRUE
    /\ UNCHANGED <<phase, mem, snapper, disk, nextLsn, pos, bounds,
                   acked, dropped, conflicted, straddled, rewound, unbacked>>

\* Wal::append under the WAL mutex.  The client counts as answered from here
\* on, the earliest moment the answer can leave.
AppendWal(c) ==
    LET change == [kind |-> op[c].kind, table |-> op[c].table, row |-> op[c].row] IN
    /\ pc[c] = "append" /\ WalFree
    /\ log' = Append(log, [lsn |-> nextLsn, change |-> change])
    /\ nextLsn' = nextLsn + 1
    /\ acked' = acked \cup {change}
    /\ Finish(c)
    /\ UNCHANGED <<phase, mem, snapper, image, pos, bounds,
                   dropped, conflicted, straddled, rewound, leftover, unbacked>>

\* append returns an error (a full disk, a device error) and log() hands it on: the
\* client is told so, memory stays changed and the server goes on.  The record is
\* nowhere; what a write that stopped half way leaves of it is in Wal.
AppendFails(c) ==
    /\ "fault" \in Kinds
    /\ pc[c] = "append" /\ WalFree
    /\ leftover' = TRUE
    /\ unbacked' = (unbacked \/ op[c].kind = "create")
    /\ Finish(c)
    /\ UNCHANGED <<phase, mem, snapper, disk, nextLsn, pos, bounds,
                   acked, dropped, conflicted, straddled, rewound>>

-----------------------------------------------------------------------------
(* Database::snapshot and snapshot_bytes.  From SnapshotLock or BytesLock to *)
(* the end the WAL mutex is held.                                           *)

SnapshotLock ==
    /\ phase = "up" /\ WalFree /\ snaps < MaxSnapshots
    /\ snaps' = snaps + 1
    /\ snapper' = [NoSnapper EXCEPT !.pc = "collect", !.lsn = SnapshotLsn]
    /\ UNCHANGED <<phase, mem, threads, disk, nextLsn, pos, issued, crashes, history>>

\* snapshot_bytes begins like snapshot; a replica asks for it.
BytesLock ==
    /\ phase = "up" /\ WalFree /\ "fetch" \in Kinds
    /\ snapper' = [NoSnapper EXCEPT !.pc = "collect", !.lsn = SnapshotLsn, !.to = "replica"]
    /\ UNCHANGED <<phase, mem, threads, disk, nextLsn, pos, bounds, history>>

SnapshotCollect ==
    /\ snapper.pc = "collect"
    /\ snapper' = [snapper EXCEPT !.pc = "guard",
                                  !.handles = {HandleOf(t) : t \in View.names}]
    /\ UNCHANGED <<phase, mem, threads, disk, nextLsn, pos, bounds, history>>

SnapshotGuard(h) ==
    /\ snapper.pc = "guard" /\ h \in snapper.handles \ snapper.guards
    /\ snapper' = [snapper EXCEPT !.guards = @ \cup {h}]
    /\ UNCHANGED <<phase, mem, threads, disk, nextLsn, pos, bounds, history>>

\* A slip: the copy would wait until the log has caught up with memory, which
\* the threads it waits for cannot do without the mutex it holds.
SnapshotWriteWaits ==
    /\ snapper.pc = "guard" /\ snapper.guards = snapper.handles /\ snapper.to = "disk"
    /\ \A c \in Clients : ~Unlogged(c)
    /\ snapper' = [snapper EXCEPT !.pc = "reset"]
    /\ UNCHANGED <<phase, mem, threads, disk, nextLsn, pos, bounds, history>>

\* The tables behind the guards, as encode_snapshot copies them.
Captured ==
    [names |-> {h[1] : h \in snapper.handles},
     rows  |-> [t \in Tables |->
                  IF \E h \in snapper.handles : h[1] = t
                  THEN heap[CHOOSE h \in snapper.handles : h[1] = t]
                  ELSE NoRows]]

\* snapshot_bytes encodes the tables and gives the locks back; no file changes.
BytesEncode ==
    /\ snapper.pc = "guard" /\ snapper.guards = snapper.handles /\ snapper.to = "replica"
    /\ snapper' = NoSnapper
    /\ UNCHANGED <<phase, mem, threads, disk, nextLsn, pos, bounds, history>>

\* write_snapshot: the rename is the moment the new snapshot replaces the old.
SnapshotWrite ==
    /\ snapper.pc = "guard" /\ snapper.guards = snapper.handles /\ snapper.to = "disk"
    /\ image' = [lsn |-> snapper.lsn, view |-> Captured]
    /\ straddled' = (straddled \/ CapturedUnlogged)
    /\ unbacked' = FALSE
    /\ snapper' = [snapper EXCEPT !.pc = "reset"]
    /\ UNCHANGED <<phase, mem, threads, log, nextLsn, pos, bounds,
                   acked, dropped, conflicted, rewound, leftover>>

\* Wal::reset empties the file; the numbering goes on in memory.
SnapshotReset ==
    /\ snapper.pc = "reset"
    /\ log' = <<>>
    /\ snapper' = NoSnapper
    /\ UNCHANGED <<phase, mem, threads, image, nextLsn, pos, bounds, history>>

\* write_snapshot before its rename, or reset before it truncates, returns an
\* error: the guards and the mutex are released and nothing else is undone.
SnapshotFails ==
    /\ snapper.pc \in {"guard", "reset"} /\ snapper.guards = snapper.handles /\ snapper.to = "disk"
    /\ snapper' = NoSnapper
    /\ UNCHANGED <<phase, mem, threads, disk, nextLsn, pos, bounds, history>>

-----------------------------------------------------------------------------
(* The process dies at any step and Database::open brings it back.         *)

Crash ==
    /\ phase \in {"up", "loading"} /\ crashes < MaxCrashes
    /\ crashes' = crashes + 1
    /\ phase' = "down" /\ pos' = 0
    /\ tables' = [t \in Tables |-> 0] /\ gen' = [t \in Tables |-> 0] /\ heap' = NoHeap
    /\ pc' = [c \in Clients |-> "idle"] /\ op' = [c \in Clients |-> NoOp]
    /\ snapper' = NoSnapper
    /\ nextLsn' = 1
    /\ UNCHANGED <<disk, issued, snaps, history>>

\* The catalogue as open builds it; nobody holds a handle yet.
Install(view) ==
    /\ tables' = [t \in Tables |-> IF t \in view.names THEN 1 ELSE 0]
    /\ gen' = [t \in Tables |-> 1]
    /\ heap' = [h \in Handles |-> IF h[2] = 1 THEN view.rows[h[1]] ELSE NoRows]

\* open reads the snapshot, then Wal::open reads the log and sets next_lsn.
OpenSnapshot ==
    /\ phase = "down"
    /\ phase' = "loading"
    /\ Install(image.view)
    /\ nextLsn' = NextLsnOf(log)
    /\ rewound' = (rewound \/ NextLsnOf(log) <= image.lsn)
    /\ UNCHANGED <<threads, snapper, disk, pos, bounds,
                   acked, dropped, conflicted, straddled, leftover, unbacked>>

OpenSkip ==
    /\ phase = "loading" /\ pos < Len(log)
    /\ Covered(log[pos + 1])
    /\ pos' = pos + 1
    /\ UNCHANGED <<phase, mem, threads, snapper, disk, nextLsn, bounds, history>>

OpenApply ==
    /\ phase = "loading" /\ pos < Len(log)
    /\ ~Covered(log[pos + 1])
    /\ Decodable(View, log[pos + 1].change)
    /\ Install(Apply(View, log[pos + 1].change))
    /\ pos' = pos + 1
    /\ UNCHANGED <<phase, threads, snapper, disk, nextLsn, bounds, history>>

OpenFails ==
    /\ phase = "loading" /\ pos < Len(log)
    /\ ~Covered(log[pos + 1])
    /\ ~Decodable(View, log[pos + 1].change)
    /\ phase' = "failed"
    /\ UNCHANGED <<mem, threads, snapper, disk, nextLsn, pos, bounds, history>>

OpenDone ==
    /\ phase = "loading" /\ pos = Len(log)
    /\ phase' = "up" /\ pos' = 0
    /\ unbacked' = FALSE
    /\ UNCHANGED <<mem, threads, snapper, disk, nextLsn, bounds,
                   acked, dropped, conflicted, straddled, rewound, leftover>>

-----------------------------------------------------------------------------
ClientStep(c) ==
    InsertMany(c) \/ InsertManyRejects(c) \/ Encode(c) \/ AppendWal(c) \/ AppendFails(c)

Request(c) == \E t \in Tables : CreateTable(c, t) \/ DropTable(c, t) \/ InsertLookup(c, t)

SnapshotStep ==
    \/ SnapshotCollect \/ (\E h \in Handles : SnapshotGuard(h))
    \/ SnapshotWrite \/ SnapshotReset

OpenStep == OpenSnapshot \/ OpenSkip \/ OpenApply \/ OpenFails \/ OpenDone

\* A server nobody calls, or one that could not open its directory, rests;
\* any other state without a step is a deadlock.
Rest ==
    /\ \/ phase = "failed"
       \/ phase = "up" /\ snapper.pc = "idle" /\ \A c \in Clients : pc[c] = "idle"
    /\ UNCHANGED vars

\* Everything but the service to replicas.
LocalStep ==
    \/ \E c \in Clients : Request(c) \/ ClientStep(c)
    \/ SnapshotLock \/ SnapshotStep \/ SnapshotFails
    \/ Crash \/ OpenStep
    \/ Rest

Next == LocalStep \/ BytesLock \/ BytesEncode

Spec == Init /\ [][Next]_vars

\* A thread inside a request, snapshot or snapshot_bytes keeps running; nobody is
\* obliged to call, to snapshot or to restart the process.
FairSpec ==
    /\ Spec
    /\ \A c \in Clients : WF_vars(ClientStep(c))
    /\ WF_vars(SnapshotStep \/ BytesEncode)

-----------------------------------------------------------------------------
(* Properties. *)

\* Every variable keeps its type: db.rs's Database and Store, storage.rs's Wal.
TypeOK ==
    /\ phase \in {"up", "down", "loading", "failed"}
    /\ tables \in [Tables -> 0..MaxGen] /\ gen \in [Tables -> 0..MaxGen]
    /\ heap \in [Handles -> Bags]
    /\ pc \in [Clients -> {"idle", "insert", "encode", "append"}]
    /\ op \in [Clients -> Ops]
    /\ snapper \in [pc : {"idle", "collect", "guard", "reset"}, to : {"disk", "replica"}, lsn : Nat,
                     handles : SUBSET Handles, guards : SUBSET Handles]
    /\ log \in Seq(Frames) /\ nextLsn \in Nat \ {0}
    /\ image \in [lsn : Nat, view : Views]
    /\ pos \in Nat /\ issued \in 0..MaxRows
    /\ crashes \in 0..MaxCrashes /\ snaps \in 0..MaxSnapshots
    /\ acked \subseteq Changes /\ dropped \subseteq Tables
    /\ conflicted \in BOOLEAN /\ straddled \in BOOLEAN /\ rewound \in BOOLEAN
    /\ leftover \in BOOLEAN /\ unbacked \in BOOLEAN

\* The frames on disk are numbered without a gap and a live process continues
\* that numbering (Wal::append, Wal::reset and Wal::open together): this is what
\* lets a replica read a gap as "the log was truncated under me".
WalNumbered ==
    /\ Dense(log)
    /\ phase = "up" /\ log # <<>> => nextLsn = log[Len(log)].lsn + 1

\* When snapshot is about to empty the log, the snapshot that is already in
\* place covers every frame of it: the WAL mutex held over the whole of
\* Database::snapshot keeps any append out from under the truncation.
ResetDropsOnlyCovered ==
    snapper.pc = "reset" => \A i \in 1..Len(log) : log[i].lsn <= image.lsn

\* Across any snapshots and any crashes, a serving database shows every change
\* it ever acknowledged, as long as open never numbered the log at or below the
\* snapshot and no DDL overlapped another request on its table; names that were
\* dropped are out of it.
AckedSurvive ==
    phase = "up" /\ ~rewound /\ ~conflicted
        => \A change \in acked : change.table \notin dropped => Shows(View, change)

\* No row is ever served twice, whatever crash falls between the rename of the
\* snapshot and the truncation of the log, unless a snapshot captured a row
\* whose record was still to be appended.
NoRowTwice ==
    phase = "up" /\ ~straddled
        => \A t \in Tables : \A r \in Rows : View.rows[t][r] <= 1

\* open never refuses a directory this program wrote, under the same two
\* conditions, if every CREATE whose append failed has been followed by a snapshot
\* (or by a start that went well): then every INSERT in the log finds its table when
\* it is decoded, whatever else could not be logged.
OpenSucceeds == ~rewound /\ ~conflicted /\ ~unbacked => phase # "failed"

\* The tables that a request of the kind is about, and the rows on their way to
\* the log.
Doing(kind) == {op[c].table : c \in {d \in Clients : InFlight(d) /\ op[d].kind = kind}}

PendingRow(t, r) ==
    \E c \in Clients :
        Unlogged(c) /\ op[c].kind = "insert" /\ op[c].table = t /\ op[c].row = r

\* view, and the changes on top of it that are visible in memory and not logged yet.
WithPending(view) ==
    [names |-> (view.names \ Doing("drop")) \cup Doing("create"),
     rows  |-> [t \in Tables |->
                  IF t \in Doing("drop") \cup Doing("create") THEN NoRows
                  ELSE [r \in Rows |-> view.rows[t][r] + IF PendingRow(t, r) THEN 1 ELSE 0]]]

\* At any moment of a live process, recovery from the files would rebuild the
\* catalogue the readers see, but for the changes still on their way to the log
\* (Database::log after the change in memory, Database::open): the whole of crash
\* consistency, in the behaviours that none of the recorded races touched and
\* where no request failed half way.
RecoveryExact ==
    phase = "up" /\ ~rewound /\ ~conflicted /\ ~straddled /\ ~leftover
        => LET recovered == Recovered(image, log)
           IN  recovered.ok /\ View = WithPending(recovered.view)

\* A new snapshot never takes the directory back to an earlier LSN.
SnapshotsAdvance == [][~rewound => image'.lsn >= image.lsn]_vars

\* A thread in a request gets its answer (or dies with the process): snapshot
\* gives back the WAL mutex and its read guards, and no thread waits in a ring.
RequestsFinish == \A c \in Clients : pc[c] # "idle" ~> pc[c] = "idle"

\* A snapshot that started ends, however many requests run beside it.
SnapshotFinishes == snapper.pc # "idle" ~> snapper.pc = "idle"

\* Threads, snapshots and recoveries use the log as AtomicLog says it can be
\* used: this is the log that Wal builds out of a file.
Log == INSTANCE AtomicLog WITH
    Payloads <- Changes,
    up       <- phase \in {"up", "loading"},
    nextLsn  <- IF phase \in {"up", "loading"} THEN nextLsn ELSE 1

LogSpec == Log!Spec
=============================================================================
