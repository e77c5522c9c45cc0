# veldb in TLA+

veldb is an in-memory column store with a SQL front end, written in Rust. What
makes it hard to get right is not the columns but what surrounds them: client
threads that change memory first and the write-ahead log after, a snapshot that
empties the log beside them, a process that may be killed between any two steps,
a replica that polls the log over HTTP, and requests that look at a schema several
times while others change it. The modules here model that core and the pure
algorithms with the most room for error (LIKE, a SELECT from its text to its
answer, the column formats). TLC checks them on small instances; TLAPS proves theorems
about the database, its recovery, the log file, the replica, the path of an INSERT, LIKE
and the two file formats for every value of the constants.

Paths below are those of the repository seen from its parent: `src/src/db.rs` is
`src/db.rs` of the crate.

## The system and its parts

| part | state it keeps | operations | what must be right |
|---|---|---|---|
| **Database** `db.rs` | catalogue `RwLock<HashMap<key, Arc<RwLock<Table>>>>`, `Mutex<Wal>`, read-only flag, memory limit | CREATE, DROP, INSERT, SELECT, `snapshot`, `open`, `apply`, `snapshot_bytes`, `load_snapshot_bytes`, `wal_since` | what was acknowledged survives; no row twice; the directory opens again; truncating the log loses nothing; nobody waits for ever |
| **Write-ahead log** `storage.rs` (`Wal`) | the file, the handle's position, `next_lsn` | `open`, `append`, `reset`, `records_after` | torn tails are dropped, good frames are not; dense numbering; an acknowledged record is readable |
| **Formats** `storage.rs`, `codec.rs` | none | encode and decode of snapshots, records, columns, values | what is written reads back as the same thing |
| **Table and columns** `table.rs`, `column.rs` | typed columns, number of rows | `insert`, `insert_many`, `row`, `from_columns` | columns stay aligned; rows come back |
| **Replication** `replication.rs` | `applied`, the replica's own Database | `follow`, `bootstrap`, `pull_once` | the replica shows a prefix of the primary's history and reaches its end |
| **SQL planning** `sql.rs` | none | `plan_query`, `bind`, `bind_output_ref`, `plan_insert`, `literal` | names, numbers and aliases mean the right columns |
| **SELECT execution** `exec.rs`, `plan.rs` | the selection and the frame between stages | `run_select`, `aggregate`, `order_and_limit`, `eval`, `substitute` | the answer is the one the query means; ill-formed plans are refused |
| **LIKE** `like.rs` | cursors of the matcher | `compile`, `matches` | right answer; ends |
| **HTTP** `http.rs`, **gRPC** `grpc.rs` | none of their own | hand requests to blocking threads, convert rows | a checked batch is still right when it runs |
| **Server** `bin/server.rs` | tasks | start, snapshot timer, replica's task, shutdown | nothing acknowledged is lost in a shutdown |
| **Distances** `simd.rs` | none | dot, cosine, L2 | every component counts once |
| Command line, benchmark, packaging | none of the database's | | |

**How they interact.** The two APIs call `Database` from blocking threads. A
request takes the catalogue lock, then (after letting it go) one table's lock,
then (after letting that go) the WAL mutex, and holds one at a time. Only `snapshot`
and `snapshot_bytes` hold the WAL mutex while they take the catalogue lock and the
read locks of all tables, and `bytes_used` reads every table under the catalogue's
read lock, so that CREATE and DROP wait for it. An INSERT looks at the catalogue up
to four times on its way: to plan or convert its values, to reorder them, for the
handle, and to encode its record. A SELECT looks twice: to plan, and to run. Recovery and the replica share
`Database::apply`. The replica talks to its primary with two GETs: a snapshot in
memory and the records behind an LSN, which the primary serves by opening its own
live log file a second time.

**What is hard.** *Concurrency*: memory changes before the log, so the order of
records may differ from the order of effects, and a snapshot may see a change
that is not logged yet. *Failure*: kill -9 between any two writes; power loss; a
write, an fsync or a rename that fails while the server goes on. *Stale state*: a
schema that was true when it was read. *Ordering*: the
LSN is the only thing that ties snapshot, log and replica together, and it is
derived from the log alone when a process starts. *Timeouts and retries*: only in
the replica, which asks again after every error. PROJECT.json lists every such
place with its line ("hazards").

## Modules

| module | models | composes |
|---|---|---|
| `LogNumbers` | how frames are numbered and selected (`Wal::open`, `records_after`) | |
| `WalRecords` | records, views of the catalogue, `Database::apply`, replay | `LogNumbers` |
| `AtomicLog` | abstract specification: what the rest of veldb takes the log for | `LogNumbers` |
| `Database` | client threads, snapshot, crash, `Database::open` | `WalRecords`, instance of `AtomicLog` |
| `DatabaseInv` | the inductive invariant in named parts | `Database` |
| `ReplayInv` | the inductive invariants of what a restart makes of the files | `DatabaseInv` |
| `Database_proofs` | theorems | `ReplayInv`, `NaturalFacts` |
| `Wal` | the file behind the log, one write at a time | `LogNumbers`, instance of `AtomicLog` |
| `WalInv`, `Wal_proofs` | its inductive invariant; theorems | `Wal`, `NaturalFacts` |
| `Replication` | the follow loop and the handlers it calls, beside all of `Database` | `Database` |
| `ReplicationInv`, `Replication_proofs` | its inductive invariant; theorems | `Replication`, `ReplayInv`, `Database_proofs` |
| `Tables` | columns, batches, both on-disk formats, restart | |
| `TablesInv`, `Tables_proofs` | its inductive invariant; theorems | `Tables`, `NaturalFacts` |
| `Like` | `compile` and both matchers | |
| `LikeInv`, `Like_proofs` | its inductive invariant; theorems | `Like`, `NaturalFacts` |
| `Requests` | an INSERT through planning, reordering, the memory limit, insertion and log, beside CREATE and DROP | |
| `RequestsInv`, `Requests_proofs` | its inductive invariant; theorems | `Requests`, `NaturalFacts` |
| `NaturalFacts` | induction, maxima and division for the proofs | |
| `Calendar`, `Vectors` | parts of times; the kernels of the distances | |
| `Scalars_proofs` | theorems about both | `Calendar`, `Vectors`, `NaturalFacts` |
| `Expressions` | expression evaluation and rewriting | `Calendar`, `Vectors` |
| `Planning` | from a SELECT as written to its plan | `Expressions` |
| `Query` | a SELECT stage by stage, and what it means | `Planning` |
| `MC*` | values for TLC, and the claims of comments that the code does not keep | |

`AtomicLog` joins two levels: `Wal` implements it from below (a file with torn
writes *is* an atomic log: theorem `FileImplementsLog`, run `wal`), `Database` uses it
from above and no other way (theorem `LogImplemented`, run `snapshots`). So what is
proved of `Database` on a log of whole frames rests on a log that the file provides.

### Database

A critical section that takes no second lock inside is one action. The WAL mutex
is `snapper.pc # "idle"` (only a snapshot holds it over several steps), the read
guards of a snapshot are `snapper.guards`, and `InsertMany` is disabled while its
table is guarded.

| action | code |
|---|---|
| `CreateTable`, `DropTable` | the catalogue's write lock: check and change |
| `InsertLookup` | `insert_inner` clones the table's `Arc` |
| `InsertMany`, `InsertManyRejects` | the table's write lock; a batch may fail behind its first rows |
| `Encode` | `log()` looks the schema up under the name once more; fails if it is gone |
| `AppendWal` | `append` under the WAL mutex; the client may have its answer from here on |
| `AppendFails` | `append` returns an error and `log()` hands it on; memory stays changed |
| `SnapshotLock/Collect/Guard/Write/Reset/Fails` | the steps of `snapshot`; `Write` is the rename |
| `BytesLock`, `SnapshotCollect/Guard`, `BytesEncode` | the steps of `snapshot_bytes`, whose caller (`snapper.to`) is a replica |
| `Crash` | the process dies: memory gone, files kept |
| `OpenSnapshot/Skip/Apply/Fails/Done` | `open`, record by record; a crash may interrupt it |

A handle (`Arc`) is a name with a generation, so a thread can still write to a
table that was dropped under it. A row is the number of its INSERT and a table a
bag of rows, which is enough to see a row lost, doubled or resurrected. A request
that fails its first check (existing table, absent table) changes nothing and is no
action. All tables of one name have one schema here; values, schemas that change and
the memory limit are in `Requests`, the read-only switch of a replica in `Replication`.

`AppendFails` leaves the files as they are: the error of a write of which nothing
arrived, or of an encoded record that `append` refused. A write that arrived in part, or
whole without its fsync, is in `Wal`, and is not composed with requests and restarts here.

History variables only record: `acked`, `dropped`, and five Booleans for the
conditions under which the code does not keep its promises (see *Divergences*):
`rewound` (the numbering started over below a snapshot), `conflicted` (a CREATE
or DROP overlapped another request on the same table), `straddled` (a snapshot
copied a change that was not logged yet), `leftover` (a request that failed half way
left its change in memory), `unbacked` (the append of a CREATE failed, and no snapshot or
start has been completed since: the table may be in memory alone, with INSERTs into it
in the log).

### Wal

A cell of `file` is a unit of bytes that the code checks as a whole: one of the
two header words, the first or second part of a frame, the zeros of a hole.
`kept` is the set of states a power loss may leave: every state of the file since
the last fsync. `durability` and `harsh` are fixed at the start: with `harsh`
power may fail and writes may return errors; without it only the process dies.
Every write of `open`, `append` and `reset` is a step of its own, and
`ReadRecords` is the second `Wal::open` on the live file that a poll makes, in one step
(a kill between the two header words it puts into an empty file is that of
*Divergences* 8).
`AppendFails` and `ResetFails` are the errors of a write, a truncation or an fsync at
any of these steps; the server goes on with the same handle. Four history variables
say what such an error leaves behind: `torn` (half a frame or half a header is in the
file), `atRisk` (what was acknowledged behind it), `unsynced` (an fsync failed, and the
next one need not write what it should have written), `lost` (power then took it).

### Replication

The primary is all of `Database`; `PrimaryStep` is any step of it and keeps the
`ledger` of everything ever logged. `AskSnapshot` and `ServeSnapshot` are the ends of the
request around `snapshot_bytes`, whose steps are those of `Database` (it holds the WAL
mutex as `snapshot` does); `LoadSnapshot` is `bootstrap`; `AskWal`, `PullApply`, `PullGap`,
`PullFails`, `PullDone` are `pull_once`; what `follow` does with the result is
part of the last step. The batch is taken at once and handled record by record
while the primary goes on. `SnapshotLost` is a failed request and `ReplicaDies`
the end of the replica's process, whose tables are in memory only. `PullFails` is a
batch that stops at a record that does not apply: `follow` keeps `applied`, so the next
poll brings the whole batch again, on top of the part that is already in the tables.

`ReplicaIsPrefix` is exact: table by table and row by row, the replica is the primary as
of one LSN. One more history variable records when that cannot be: `caught`, a snapshot
(served, or written and then recovered from) that lacks a table whose DROP is in memory
and not in the log.

The replica refuses writes of its own clients from the first statement of `follow` on
(`FollowStarts`, `ReadOnly`), but `follow` is a task that starts beside the
listeners. `EarlyWrite` is a write that passed the check before; `EarlyWriteLands` is
the rest of it, at any later time: a CREATE, rows, or a DROP. `strayed` remembers that
one landed behind the last full synchronisation; a late CREATE or DROP makes a record of
the primary fail, and its batch is then repeated as above.

### Requests

| action | code |
|---|---|
| `CreateTable`, `DropTable` | the catalogue's write lock, which waits for `bytes_used` |
| `PlanInsert` | `plan_insert` with `literal`, or the conversion of the HTTP and gRPC handlers |
| `Reorder` | `reorder` of `db.rs`, by the schema of that moment |
| `BeginSum`, `SumTable`, `CheckLimit` | `bytes_used` table by table, and the memory limit |
| `LookupHandle`, `InsertMany` | `insert_inner` and `Table::insert_many` |
| `Encode`, `AppendWal`, `AppendFails` | `log()` |

What `Database` leaves out is here, and the other way round: rows have values, values
have the column their client `meant` them for and the type they have now, tables have
schemas that may differ from one CREATE to the next; there is no snapshot and no
crash. `Recovered` is what a start or a replica would read out of the log, whose
records carry no types: an integer logged for a float column reads as garbage, a row
logged with too few values swallows the next one's. `spoiled` marks a row whose table
was dropped or created under its request, `conflicted` and `leftover` are those of
`Database`.

### Tables

`Push`, `Get`, `InsertRow`, `InsertMany`, `WriteColumn`, `ReadColumn`,
`WriteRows`, `ReadRows` work on cells that carry the width of a field, so a reader
that is off by a field, or reads a string's bytes as numbers, fails or misreads as
the code would. `Restart` is `open`: the snapshot, then the rows of each record
through `InsertMany`. Offsets are `% OffsetLimit` (2^32 in the code).

### Like

One action is one turn of a loop. Strings are sequences of characters: `str::find`
and the slices of the code count bytes, but a UTF-8 character never starts inside
another one, so both ways of counting find the same places. (The matcher for `_`
works on `char`s in the code, too.)

### Expressions, Planning and Query

A stage is a step: plan, find, where, group, having, order, project. `PlanQuery` is
`plan_query`: it binds names, spells out `*`, turns CASE into `if`s, resolves the
numbers, aliases and texts of GROUP BY and ORDER BY with `bind_output_ref`, and
refuses. `Find` looks the table up again when the plan is run, and may meet one of
another schema, or none (`replaced`). `Eval` keeps the rule that an array of one
value stands for all rows, `Substitute` and `Group` the rewriting of expressions from
columns of the table to columns of the groups, and `Order` the choice between sorting
everything and splitting off the head with `select_nth_unstable`, whose head comes in
any order.

Values are integers that saturate, floats that are whole, truth values, strings (the
place of each in `Texts`, which is sorted) and vectors. `Calendar` is the arithmetic of
`civil_from_days` and of the floor divisions around it, with days, hours and minutes
of a few seconds; `Vectors` is the kernels' split into lanes and a tail. LIKE inside an
expression is what it answers for a text (`Matches`); how it finds the answer is `Like`.
An array that failed ends the query as an error or, where an index is out of range, as a
panic; the first of several decides. `date_trunc` takes its unit from an array too, by the
first row of the selection (`TruncDates`, with `UnitCalled` for the names of the units),
and its product may wrap (`Wrap`), as in the release build that the Dockerfile and
`deploy` make.

The meaning is a second definition, read from the text and not from the plan: `Shown`
and `Meant` resolve references, `TypeOf` says what has a type, `Value` computes an
expression for a row or a group, `Answer` puts the units of the answer in order. It
has no selections, frames, broadcasting or rewriting; its calendar counts days and its
distances add component by component. `Legal` says which queries have a meaning, and
leaves out the forms that the code answers in a way of its own (*Divergences* 14 to 17).

## What the runs show

| run | instance | question |
|---|---|---|
| `requests` | 2 threads, 1 table, all request kinds and appends that fail, 1 row, 2 crashes, 1 snapshot | is everything acknowledged served, is recovery exact, does the directory open; is the proofs' `IInv` an invariant |
| `snapshots` | 2 threads, 2 tables, 2 rows, appends that fail, 2 snapshots that may fail, 2 crashes, any number of `snapshot_bytes` | is truncation safe, is nothing replayed twice, does the snapshot advance, is the log used as `AtomicLog` says; is `FilesInv` (`DecodingInv` and `RowsInv` together), which the proofs use, an invariant |
| `wal` | 4 appends, 2 resets, 2 deaths, 2 failing writes or fsyncs, with and without fsync | is what `append` answered Ok to read back; does the file implement `AtomicLog`; do polls only read; is the proofs' `IInv` an invariant |
| `server` | 2 threads, 2 tables, 3 schemas, 6 INSERTs, limit of 3 cells, 4 requests | do values keep the types of their columns and end in the columns they were meant for; does the log read back as the tables; how far is the memory limit passed; are the proofs' `IInv` and `ReplayInv` (together `PipelineInv`) invariants |
| `replica_safety` | 1 thread, 1 table, 2 rows, 2 snapshots, 1 crash, 2 breaks (a lost answer, a death, an early write, a batch that fails for it) | does a synchronised replica show exactly the primary as of one LSN; does it go back only by its death or by an early write that landed late; is the proofs' `RInv` an invariant |
| `replica_live` | the same with 1 snapshot and 1 break, fair | does the replica reach a primary left alone; does every request and snapshot end |
| `tables` | float, string and vector column, batches of up to 2 of 6 rows (3 of them unfit), 3 inserts | do columns stay aligned, do rows come back, is recovery exact, does a start succeed |
| `like` | all patterns ≤ 5 over `a b % _`, all texts ≤ 5 over `a b %` | right answers; every turn advances; is the proofs' `IInv` an invariant |
| `query` | 2132 queries, four of them asked in two places: 718 over 69 tables of 0, 1 or 3 rows, 809 of references, 608 of expressions over tables of every type of 0 to 3 rows with two replacements, one over the ends of months of 11 years | right answers, no refusal of a query with a meaning, no panic but the two of *Divergences* 15, no answer to an ill-typed one |
| `rewind`, `wal_shortwrite`, `query_ungrouped` | small; the last that of `query` | a claim of a comment, without conditions, that the code breaks |

**Why the bounds are enough for the cases to happen.** `requests`: a DROP and a
CREATE of the same name under a thread's handle need two generations, a row between them
or behind a CREATE whose append failed needs one; the start that refuses such a
directory, or rewinds the numbering, needs one crash, and the one that loses rows or meets
the directory again behind a later snapshot a second. `snapshots`: a row in the snapshot
and one behind it need two rows; only with two snapshots can one be older than the other,
only with two tables can the guards be taken one by one beside inserts. `wal`: a kill in a
reset or an append and one in the open behind it are two deaths, a failed fsync and a failed write behind it two faults; two appends
before a reset and two after it four. `server`: an INSERT, a DROP and a CREATE of the
same name under it, and one more CREATE before them, are four requests; a cell limit
of 3 lets two threads pass the check beside each other. `replica_safety`: a gap needs
a snapshot between two polls, a synchronisation that meets a later one two; an early DROP
that lands late and the batch that fails for it are two breaks, and the batch must hold a
record before the one that fails. One thread is enough beside them: the properties leave
out requests that a DDL overlaps, and the snapshot and `snapshot_bytes` already run
between the two halves of an INSERT. `tables`:
`OffsetLimit` 7 is outgrown by four strings of two bytes. `like`: a pattern with a
prefix, an inner piece and a suffix has five characters; going back past a partial
match of two takes a text of four. `query`: three rows are the fewest with two groups
one of which has two rows and with a head that is sorted alone (`CutFactor` 2 in place
of 4); an offset, a page and a tie fit. `IntMax` leaves room for the times of the
calendar (a day of 12 seconds, an hour of 4, a minute of 2), and the sets have values
that two of saturate. With `Lane` 1 a vector of five components has a block and a
tail. The eleven years are of every kind of leap rule, before and after 1970. Bounds
stand as CONSTANTS named `Max...` in the guards, each commented where it is declared.

**Symmetry** over `Clients`, and over the letters of `Like`, is used in safety runs
only: threads are told apart nowhere, and letters are only compared for equality.

**Deadlock** is checked everywhere. `Rest` in `Database`, `Wal` and `Requests`, `Done` in
`Like` and `Ended` in `Query` let a system stop where the real one may: a server
nobody calls, a directory that could not be opened, an answer that was given.

**Fairness** is assumed only in `replica_live` (`RFairSpec`). Weak fairness of a
client thread inside a request and of a snapshot that runs: the operating system
schedules threads, and `std`'s locks are handed on. Weak fairness of `OpenStep`:
`deploy/veldb.service` has `Restart=on-failure`. Strong fairness of `FollowStep`:
`follow` loops for ever over every error, and the mutex it needs at the primary is
free again and again. Nobody is obliged to send a request, to take a snapshot or
to crash. `Converges` is stated for a primary that is left alone at last.

## What is proved

For every value of the constants, with no assumption but the named ASSUMEs that the
modules state of them, and which TLC evaluates in every run: there is a client and a
table, bounds are numbers, a schema has columns and no name twice, values hold what their
type says, INSERTs of the APIs name no columns, an hour is whole minutes and a day whole
hours, a register holds a number, and (for `MemoryBounded`, which counts) clients, tables
and INSERTs are finitely many.

| module | theorem | states |
|---|---|---|
| `Database_proofs` | `TypeCorrect`, `DatabaseTypes` | types; what every thread knows where it stands |
| | `LogIsNumbered`, `TruncationIsSafe`, `SnapshotsOnlyAdvance` | `WalNumbered`, `ResetDropsOnlyCovered`, `SnapshotsAdvance` |
| | `LogImplemented` | every step of `Database` is a step of `AtomicLog` or none |
| | `InvariantHolds`, `AckedChangesSurvive` | `IInv`, `AckedSurvive` |
| | `FilesHold` | `FilesInv`, from `DecodingHolds` and `RowsHold` |
| | `OpenAlwaysSucceeds`, `FilesRebuildMemory`, `RowsServedOnce` | `OpenSucceeds`, `RecoveryExact`, `NoRowTwice` |
| `Wal_proofs` | `WalInvariant`, `WalTypes`, `AckedSurvives`, `LogNumbered` | `IInv`, `TypeOK`, `AckedReadable`, `ReadableNumbered` |
| | `PollsLeaveTheFile`, `FileImplementsLog` | `PollsOnlyRead`; the file implements `AtomicLog` |
| `Replication_proofs` | `PrimaryIsDatabase` | a primary with a replica is a `Database`: `RSpec => Spec` |
| | `ReplicaTypes`, `ReplicationInvariant` | `RTypeOK`, `RInv` |
| | `ReplicaShowsPrefix`, `ReplicaNeverGoesBack` | `ReplicaIsPrefix`, `ReplicaAdvances` |
| `Requests_proofs` | `PipelineInvariant` | `PipelineInv`, from `RequestsInvariant` (`IInv`) and `LogReadsBack` (`ReplayInv`) |
| | `RequestTypes`, `ColumnsKept`, `LimitHolds`, `RestartReadsBack` | `TypeOK`, `NamedColumnsKept`, `MemoryBounded`, `RecoveryExact` |
| `Like_proofs` | `AnswersMeaning`, `LikeInvariant` | `MatchesMeaning`, `IInv` |
| | `LikeTypes`, `EveryTurnAdvances` | `TypeOK`, `LoopsAdvance` |
| `Tables_proofs` | `TablesInvariant`, `TypesHold` | `IInv`, `TypeOK` |
| | `RowsReadBack`, `RecoveryIsExact`, `StartSucceeds` | `RowsComeBack`, `RecoveryExact`, `AlwaysStarts` |
| `Scalars_proofs` | `DatesAreGregorian` | `civil_from_days` gives the date that counting from 1970 gives |
| | `PartsAreMeant`, `CutsAreMeant` | EXTRACT and `date_trunc` yield what is meant |
| | `DistanceIsMeant` | the kernels yield the distances meant |

**Database: numbering.** The log is consecutive, the live counter follows its last frame,
a snapshot in progress has the LSN of that last frame (`Numbering`). The last part is what
the WAL mutex buys: no step appends while `snapper.pc # "idle"`.

**Database: survival.** That acknowledged changes are visible (`AckedSurvive`)
says nothing of the files, so it does not survive a crash. `IInv` therefore splits
it: what is acknowledged is *stored*, in the snapshot or in a frame above its LSN
(`AckedStored`); what is stored is *served*, by a running process and, up to `pos`,
by one that recovers (`StoredServed`). A snapshot keeps the first: everything
acknowledged is in a handle it collected (`AckedCaptured`) and in that handle's
rows, and the log it drops is below its LSN (`Numbering`). Recovery keeps the
second only if replaying a CREATE never empties a table with rows in it:
`CreatesComeFirst`, for records that are in the log, and `PendingCreateEmpty`, for
those on their way to it. `PendingInsertServed` says that a row is in its table
before its record is in the log, and `HandlesOK` that a name never dropped still
points to the handle a thread or a snapshot holds. The last three are where
`~conflicted` is needed, `Numbering` is where `~rewound` is.

**Database: recovery.** `RecoveryExact` relates the *value* of a replay to memory, not
only what it contains: at any moment the catalogue that a replay of the log on the
snapshot would build, and the one that readers see, differ by exactly the changes on their
way to the log. It is close to inductive as it stands; `Decoding` adds what a step needs
to know: requests on one table that are under way together are INSERTs (`RequestsApart`),
each finds the table as it left it, every name in memory is in the files and in the
handles a snapshot copies unless its CREATE is under way, a copied handle is current
unless a DROP is, and an `open` in progress has made of the first `pos` frames what a
replay makes of them. That every record finds its table, and so that `open` never fails,
is one more conjunct of the same invariant (`FilesDecode`): a record that did not apply
would end the replay that exactness speaks of. A failed append leaves memory and files
apart for good, and exactness ends with it (`leftover`); decoding goes on, for a row or a
DROP that never was logged takes no table from a later record. Only a CREATE does, until a
snapshot has the table or a start has forgotten it (`~unbacked`, with `NamesStored`: every
name in memory is in the files or its CREATE is under way). The replay is a recursive function; the
lemmas on it (`RecoveredAppend`, `RecoveredCovered`, ...) say how it changes with the log
and with the snapshot.

**Database: rows.** `NoRowTwice` needs to know where a row may be. `RowsInv` gives each row
one place: nowhere before it is put into its table, then in one handle and no file until
its record is appended (unless a snapshot `straddled` it), then in one frame; a frame that
a replay would apply holds a row the snapshot does not.

**Wal.** `IInv` says what each method knows at each write: header and whole frames up to
the cursor, and the counter one ahead of the last frame or, behind a failed append, equal
to it (`WholeUnlessTorn`, `CounterAhead`). A write that stopped half way breaks this for
good, so the invariant does not describe the damage but only that it stays: the cursor is
past it, and whatever is written there makes no frame whole (`SpoiledIfTorn`). Behind a
power loss the file is any member of `kept`, so numbering and what was promised are stated
of all of `kept` (`AllNumbered`, `PromisedKept`), and the promised frames lie below the
cursor, where no write reaches them (`PromisedBehind`). `FileImplementsLog` then maps each
step to one of `AtomicLog` or none; a kill inside `append` or `reset` is where that log
loses its frame or is cleared.

**Replication.** Every step of the follow loop and of the handlers it calls is a step of
`Database` or leaves it alone (`PrimaryIsDatabase`), so what is proved of the database holds
of a primary. `ReplicaIsPrefix` compares the replica with the `ledger`, the list of
everything ever logged; `RInv` therefore ties the primary to it first. A record's LSN is its
place in the ledger, on disk and in the counter (`LedgerNumbers`: where `~rewound` is
needed), and what a restart would make of the files is what the ledger adds up to
(`LedgerExact`), each change finding its table (`LedgerDecodes`). A snapshot holds the WAL
mutex, but what it copies is memory, which may differ from the files by the changes that are
on their way to the log: a CREATE or INSERT of these is `straddled`, a DROP `caught`.
`PendingDrops`, `PendingCreates` and `CollectedNewest` say just enough of them that the copy
is, without these two, the replay of the files (`CapturedIsRecovered`) and so the ledger up
to its LSN. For the replica's side it is then left that a snapshot on its way and a batch on
its way are pieces of the ledger (`ReplyExact`, `BatchLogged`), the latter starting at the
next record or behind a gap, that LSNs asked for are in it (`ReplicaBehind`), and that the
tables are those of the ledger at `at` (`ReplicaShows`, until an early write lands late). By
`LedgerDecodes` every record of a batch applies to such tables, so under these conditions
and `~strayed` `PullFails` never happens. `ReplicaNeverGoesBack` rests on the
order of LSNs alone: a snapshot is as new as the ledger when it was asked for, and the
handlers apply only the record behind `applied`.

**Requests.** Each thread acts on what it saw at up to four moments. `ThreadsOK` says for
each place what is still true of it: the values of a request that nobody spoiled are meant
for the columns of the table that has its name *now*, the handle at the insertion is that
table, and its size is that of an INSERT. `MemoryBounded` is about all threads together:
a thread *may insert* if it has passed the check, or if what it has counted and what the
tables it still has to count hold now would let it pass (`MayPass`). While it counts,
tables only grow, so nobody becomes one of them but by starting to count below the limit,
when there is room for every thread; whoever inserts stops being one. Hence the cells in
use and one INSERT for each thread that may insert stay below the bound (`RoomLeft`).

**Requests: the log.** `RecoveryExact` speaks of a quiet server; in between, a table holds
the rows of INSERTs that are past `InsertMany` and whose records are not in the log
(`Unlogged`), a created table may be in memory alone, a dropped one in the log alone.
`ReplayInv` says that nothing else differs (`LogReads`). Two things make a record read back
as its rows. All rows in a record have one value per column, so reading them one behind the
other finds each where it was written (`FlatRows`). And each value has the type of the
column it is read by: an integer for a float column was widened when its INSERT was planned
(`Widened`), it stays with the column it is meant for when it is reordered, so that
`Table::insert`, which would widen it in memory only, has nothing left to widen
(`WidenedStored`).

**Like.** What a pattern means is a recursive function of two places, in the text and in the
pattern (`Meanings`), and its pieces are another of one place (`Pieces`). That such functions
exist is proved first, by induction on how much is left of text and pattern, then how a
meaning changes along a run of characters (`RunTakes`) and along `%` (`StarsTake`). `IInv`
says of each loop that what is left to find is as good as the whole. In `match_chars` a match
from the cursors or from behind the last `%` makes one of the whole (`NothingInvented`), and
if there is one at all, one goes on from the cursors or gives the last `%` more of the text
(`NothingMissed`): earlier `%` need never be tried again, because the characters between two
are taken one for one (`OneStar`, `LaterMatch`). This half needs a text without `%`; for
another the code may take a `%` of the pattern for a character (*Divergences* 13). With pieces
the first place where one is found will do, because a `%` follows it (`FirstPlaceWillDo`); the
last one, which no `%` follows, is the one that is looked for at the end.

**Tables.** In memory, `Push` must leave alone what a column holds: a vector ends where the
next begins because all have `Dim` numbers, a string because its offset does, and offsets
never point behind the buffer, even when they have wrapped (`LaidOut`). A row is pushed to
all columns or to none, so a refused batch leaves `Aligned` columns (`RowIn`, `ManyIn`).
On disk, what is read depends on where reading stands: the lemmas from `RunBack` to
`TableBack` say that each reader, begun where its writer began, gives the value back and
stops where the writer stopped (`Got`), so that items chain (`Chained`, `AllBack`) through
values, rows, batches and columns. Two things do not read back as they were. An integer in a
float column gives another float, but a value of the column's type all the same
(`ReadBackFits`); every record is therefore a batch that `insert_many` takes, which is why a
start never stops at one (`FilesRead`). A string column whose offsets wrapped out of order
is refused with its whole snapshot (`TableBack` says exactly when): `AlwaysStarts` holds for
`OffsetsFit`. As data only grow between two restarts, a table that fits now fitted at
the snapshot. `IInv` is an invariant of the run `tables` too, when it is added to
`Tables_codec.cfg`.

**What expressions compute.** `Query` needs recursion over expressions and is out of reach,
the arithmetic under it is not. *Calendar*: a day of an era of 400 years has one place, a
century, four years, a year and a day (`Placed`), whose bounds say that only the last of
them is a day too long; the divisions of `civil_from_days` find it (`Era`, `Month`). That
place, counted from March, is the one that the days before years and months give, counted
from January (`MarchLies`, `MarchMonths`): `DatesAreGregorian`, for every day there is. The
reference that TLC evaluates looks for the year near the quotient by 365 and finds it
within a million days of 1970 (`YearNear`), which is why `PartsAreMeant` says so for the
parts of a date; hours, minutes and what is cut off need no such bound, only that an hour
is whole minutes and a day whole hours. *Vectors*: a total is defined place by place
(`Running`), and is additive (`TotalUnion`); every sum of the community modules' fold is
one (`SumIsTotal`), whatever it chooses first. The registers then meet each place of the
whole blocks at one number of one register (`MetOnce`, `AllMet`), and the tail the others.

`NaturalFacts` states induction for sets of numbers instead of predicates (the library's
take an operator as a parameter, which no installed prover can instantiate), proved from
the well-foundedness of `<`. With it the replay, `Max`, years and sums are reasoned about.

**Only model-checked**: liveness, fairness and with it `Converges`, `RequestsFinish` and
`SnapshotFinishes` (out of the prover's reach); `Expressions`, `Planning` and `Query`, and
with them `AnswersRight`, `VerdictsRight` and the types of `Query`: they use RECURSIVE
operators and stay with TLC.

One attempt at a proof changed the model: that a snapshot served to a replica is the state
as of its LSN is false for a table whose DROP is not logged yet. `ReplicaIsPrefix` used to
be stated up to such tables; TLC then showed that the replica may stay that way, and double
rows (*Divergences* 12). The property is exact now, under `~caught`.

## Divergences

What the code does and a reader of its comments would not expect. 1, 4, 5 and 14 have a
run that finds them (expect "violation"); for the others a property names the
condition that leaves them out, or the model has the step and says so.

*Database, log and snapshot*

1. **The numbering starts over** (`storage.rs:180`, run `rewind`). `Wal::open`
   numbers from the last frame, or from 1 if there is none, whatever the snapshot's
   LSN. After a snapshot and a restart new records get LSNs at or below it, and the
   next start skips them. `db.rs:287` promises that only what survives a restart is
   acknowledged. Condition: `rewound`.
2. **A CREATE that is logged late** (`db.rs:249`). The table exists before its
   record does. Its first rows, of another client, may be logged before the CREATE,
   and then `open` fails on an INSERT for a table it does not know; or they may be
   in a snapshot, and then the CREATE is replayed over it and puts an empty table
   in its place. Condition: `conflicted`.
3. **A row twice** (`db.rs:306`). A snapshot between `insert_inner` and `log` holds
   the row, and the record that follows has a higher LSN: it is replayed on top.
   `tests/persistence.rs:48` says "not one row lost and not one doubled", of a
   sequential case. Condition: `straddled`.
4. **A batch that failed half way stays** (`table.rs:139`). Rows before the one that
   does not fit remain visible and are not logged: they are gone after a restart.
   HTTP and gRPC check a batch against the schema first; an SQL literal of the wrong
   type is found only here. Likewise a row whose record could not be encoded because
   the table was dropped meanwhile. Conditions: `leftover`, `rejected`.
   **An append that fails** (`db.rs:221`) does the same to any request: its
   client is told of the error, memory stays changed and the server goes on. A row is gone
   after a restart, a dropped table back. A CREATE is worse: INSERTs into the table find it
   in memory, are logged and acknowledged, and the next `open` refuses the directory at the
   first of them, for it knows no such table. A snapshot before that restart heals it.
   Conditions: `leftover`, and `unbacked` for the CREATE.
5. **A short write** (`storage.rs:207`, run `wal_shortwrite`). A `write_all` that
   fails leaves part of a frame; the next append writes behind it, is answered Ok, and
   is cut off by the next open. Conditions: `torn`, `atRisk`.
6. **A failed fsync** (`storage.rs:209`) leaves a whole frame whose LSN is used again
   by the next append (`ReadableNumbered` allows this one repetition). A replica that
   polled in between has that LSN already and skips the acknowledged record that
   follows. The next fsync need not write what the failed one did not. Conditions:
   `unsynced`, `lost`.
7. **A failed reset** (`storage.rs:224`) may leave a file without a header while the
   server goes on (the snapshot task only prints the error); appends to it are
   acknowledged, and the next open refuses the file. Conditions: `torn`, `atRisk`.
8. **A kill between the two header words** (`storage.rs:147-151`), in `open` or in
   `reset`, leaves a file that is neither empty nor a log: the next start refuses it.
   No record is lost by it. State: `pc = "refused"`.
9. **Values in other columns** (`db.rs:411`, `http.rs:136`). The values of an INSERT are
   put in order by the schema of one moment and inserted into the table of a later one:
   if the table was dropped and created with other columns in between, they end in the
   wrong columns when the types happen to fit. Condition: `spoiled`.
10. **The memory limit** (`db.rs:294`) is checked by each thread for itself, so it is
    passed by up to one INSERT for each (`MemoryBounded`).

*Replication*

11. **A quiet replica** (`replication.rs:42`, README.md:569-570). A gap is seen at the
    next record. If a snapshot empties the log and nothing is written after it, a replica
    that was behind gets an empty answer and stays behind. Condition: a record in the
    log in `Settled`.
12. **A primary that renumbers** (`replication.rs:77`): after 1. a replica may ask
    for records behind an LSN of the old numbering and silently skip new ones, or take
    them for the next. Condition: `rewound`. **A batch applied again and again**
    (`replication.rs:50`). `snapshot_bytes` may copy the tables between the moment a DROP
    takes a table away and the moment its record is logged; the replica then has no such
    table. If the primary dies before it logs the DROP, the table is back when it has
    started again, and an INSERT into it is logged. On the replica that record does not
    apply: the batch fails there, `follow` leaves `applied` where it was, and every
    further poll brings the same batch. The records before the one that fails are applied
    each time, and their rows are doubled, tripled and so on, until a snapshot of the
    primary truncates its log. `replication.rs:7-8` and README.md:567-568 say
    that a replica cannot apply anything else than its primary did, README.md:569-570 that
    it resynchronises and does not diverge quietly. No crash of the replica and no lost message is needed. Conditions:
    `caught`, and a failed batch counts in `MaxBreaks`. The races 2. and 3. on the primary
    make the replica differ from it as they make recovery differ. Condition: `RClean`.
    **An early write** (`replication.rs:64`): a client that is served before `follow` has
    run may write to a replica; if the write lands behind the first synchronisation it
    stays, until the next one. If it is a CREATE or a DROP, a record of the primary for
    that table does not apply, and the batch that holds it is applied again and again as
    above, from `applied` on each time: the replica goes back. Condition: `strayed`.

*Queries and columns*

13. **`%` in the text** (`like.rs:84`): `'%'` is tested as an equal character before it
    is tested as a wildcard. `MatchesMeaning` states the exception.
14. **Ungrouped columns** (`exec.rs:977`, run `query_ungrouped`): a column that is neither
    grouped nor aggregated is refused only when its index is past the columns of the
    groups; otherwise it names one of these. Condition: `AllGrounded`.
15. **ORDER BY a constant expression** (`exec.rs:876`) panics on two rows: `cmp_arr`
    indexes an array of one value. **A column as unit of `date_trunc`** (`exec.rs:621`): the
    unit of the first selected row is used for all rows, and a selection without rows, left
    by WHERE, HAVING or LIMIT 0 or an empty table, panics; so does a unit that is a key of
    GROUP BY, a literal one included. ORDER BY a vector keeps the order of the table
    (`exec.rs:880`). GROUP BY a vector is refused only if there are rows (`exec.rs:1022`).
    **DISTINCT** in an aggregate other than COUNT (`exec.rs:1106`) gives a count, and
    COUNT(DISTINCT vector) is at most 1 (`exec.rs:1074`). Condition for all: `Legal`.
16. **A reference read as another item** (`sql.rs:404`). `bind_output_ref` pairs the
    items of the SELECT text with the bound ones also behind a `*`: `SELECT *, a+b ...
    ORDER BY a+b` sorts by the second column. Texts are compared without case, those of
    string literals too. Condition: `ReadAsAnotherItem` in `Legal`. **A CASE of numbers
    without ELSE** (`sql.rs:590`) ends in an empty string and is refused, although the
    comment says that the type will be taken from THEN; `CaseType` says so.
17. **A stale plan** (`db.rs:360`): a SELECT whose table was dropped and created again
    between plan and run is answered from the new table by the column numbers of the
    old one. Condition: `replaced`; that it does not panic is `VerdictsRight`.
18. **32-bit offsets** (`column.rs:137`): 4 GiB of strings in a column wrap them. The
    frame's length (`storage.rs:202`) has the same width. Condition: `OffsetsFit`.
19. **An integer in a float column** is logged with the bits of an integer
    (`codec.rs:98`) and read back as a float. Only a caller of the library can do it;
    the three front ends widen first. Condition: `narrowed`.
20. Read while modelling and not in a model: `parse_size` refuses `3GB`, which its
    comment gives as an example (`bin/server.rs:157`); CAST of an INT to INT goes
    through a float and loses digits past 2^53 (`exec.rs:495`).

`Clean` of `DatabaseInv` is 1. and 2.; what is said of decoding adds the CREATE of 4.
(`unbacked`). `RClean` of `Replication` is 1. to 4. and the DROP of 12.; what is said of the
replica's tables and of its going back adds the early write (`strayed`).

## What is not modelled, and why

*Numbers.* Fractions, NaN, division, AVG, floor, ceil, round, sqrt and the cosine
distance: rounding is out of TLC's reach, so floats are whole. SUM is compared with its
meaning where saturating row by row and at the end agree: no sum of the instances
saturates and comes back. What one operator or function computes for one row (`NodeValue`,
`Wrap`) is shared by the execution and the meaning: the comparison is about references,
broadcasting, rewriting, grouping and ordering; the calendar and the distances have a
meaning of their own.
*Queries.* CAST to a string and values read from strings, the spellings of names and functions, the refusals of syntax
that is not supported, the parser (a library), the thread pool for large selections.
SELECT beside writers: a query holds its table's read lock from its first row to its
last, so it reads one state of `Database`. SHOW TABLES and DESCRIBE only read.
*Files.* A frame that is half written or never synced, followed by requests and restarts
of the whole database: `Wal` has the frame, `Database` a log of whole frames. Names and schemas in the files, the CRC of a snapshot (checked before anything
is believed), frames of more than 4 GiB, the loss of `wal.log` itself with a directory
that was never synced. *Server.* Reading the command line and `parse_size`; the order in
which the tasks end; a replica with a data directory of its own, and a snapshot asked of
a replica; health and schema pages and the JSON of answers, which change nothing.
*Command line, benchmark, packaging*: no state of the database.

## Plan

Done, in this order: `Database` with its proofs, `Wal`, `Replication`, `Like`, `Query`,
`Tables`; then failing fsyncs and resets in `Wal`, early writes in `Replication`,
`Requests`, `Planning` with the names and types of a query, `Calendar` and `Vectors`; then
appends that fail in `Database` and `Requests`, early DROPs in `Replication`, and units of
`date_trunc` that are expressions.

Proofs so far: `Database` (types, numbering, survival, then replay and rows), `Wal` with
its refinement, `Requests` (values, memory limit, then the log), `Replication`, `Like`,
`Tables`, `Calendar` and `Vectors`. Every safety property of a run is proved but those of
`Query`.

Next: `Query` itself, which takes a form of its expressions without RECURSIVE operators.

## Running

In this directory: `tlc -config Database_requests.cfg MCDatabase` (and likewise for
every run in PROJECT.json, which names module and configuration), `tlapm
Tables_proofs.tla` (and likewise for each `*_proofs` module and `NaturalFacts`) for the
proofs. With two workers most runs end within a minute,
the longest (`replica_live`) takes two.
