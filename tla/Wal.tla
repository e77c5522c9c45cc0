--------------------------------- MODULE Wal ---------------------------------
(***************************************************************************)
(* The file behind src/src/storage.rs's Wal, one write at a time: its two  *)
(* header words, frames that may be torn, the handle's cursor, fsync, the  *)
(* steps of reset, kill -9 and power loss between any two of them, errors  *)
(* of write and fsync, and records_after, which opens the live file again. *)
(*                                                                         *)
(* A cell of the file stands for the bytes of one unit that the code        *)
(* checks: a header word, the first or the second part of a frame, or the   *)
(* zeros of a hole.  A frame carries the number of the append that wrote it *)
(* as its payload; CRC-32 tells a frame from anything else.                 *)
(***************************************************************************)
EXTENDS LogNumbers, FiniteSetsExt

CONSTANTS
    MaxAppends,     \* bound: calls of append
    MaxResets,      \* bound: calls of reset
    MaxDeaths,      \* bound: deaths of the process
    MaxFaults       \* bound: writes and fsyncs that return an error

ASSUME LimitsAssumption ==
    MaxAppends \in Nat /\ MaxResets \in Nat /\ MaxDeaths \in Nat /\ MaxFaults \in Nat

Attempts == 1..MaxAppends

Magic   == [part |-> "magic",   lsn |-> 0, change |-> 0]
Version == [part |-> "version", lsn |-> 0, change |-> 0]
Hole    == [part |-> "hole",    lsn |-> 0, change |-> 0]
Cells   == {Magic, Version, Hole}
           \cup [part : {"head", "tail"}, lsn : Nat, change : Attempts]

VARIABLES
    durability, \* Wal.durability: "fsync" or "buffered"; never changes
    harsh,      \* may power fail and writes return errors, or only the process die
    pc,         \* what the holder of the Wal is doing; "closed" when no process runs
    file,       \* the file as the operating system shows it
    kept,       \* what a power loss may leave of it: every state since the last fsync
    cursor,     \* where the handle writes next
    nextLsn,    \* Wal.next_lsn
    attempt,    \* how many appends were called; the number of the current one
    resets, deaths, faults,
    acked,      \* history: appends that returned Ok
    covered,    \* history: appends that a snapshot held when reset was called
    torn,       \* history: a failed write left half a frame or half a header behind
    unsynced,   \* history: an fsync failed since the last reset that went through
    lost,       \* history: power took what no fsync had promised to keep
    atRisk      \* history: appends that returned Ok while the file was torn

setting == <<durability, harsh>>
handle == <<cursor, nextLsn>>
limits == <<resets, deaths, faults>>
damage == <<torn, unsynced, lost, atRisk>>
vars   == <<setting, pc, file, kept, handle, attempt, limits, acked, covered, damage>>

-----------------------------------------------------------------------------
(* What Wal::open makes of a file.                                         *)

HeaderOk(f) == Len(f) >= 2 /\ f[1] = Magic /\ f[2] = Version

\* The i-th frame is whole: its second part follows its first.
FrameAt(f, i) ==
    /\ 2 * i + 2 <= Len(f)
    /\ f[2 * i + 1].part = "head" /\ f[2 * i + 2] = [f[2 * i + 1] EXCEPT !.part = "tail"]

\* A slip: a frame that ends exactly where the file does would count as torn.
GoodFramesButLast(f) ==
    IF HeaderOk(f)
    THEN Max({n \in 0..Len(f) : \A i \in 1..n : FrameAt(f, i) /\ 2 * i + 2 < Len(f)})
    ELSE 0

\* Reading stops at the first frame that is not.
GoodFrames(f) ==
    IF HeaderOk(f) THEN Max({n \in 0..Len(f) : \A i \in 1..n : FrameAt(f, i)}) ELSE 0

Records(f) ==
    [i \in 1..GoodFrames(f) |-> [lsn |-> f[2 * i + 1].lsn, change |-> f[2 * i + 1].change]]

\* A slip: the damaged tail would stay in the file.
UncutFile(f) == f

\* set_len to the end of the last whole frame.
Truncated(f) == SubSeq(f, 1, 2 + 2 * GoodFrames(f))

\* A slip: open would leave the handle behind the header.
CursorBehindHeader(f) == 2

\* seek(SeekFrom::End(0)).
CursorAfterOpen(f) == Len(f)

\* write_all of one cell at position at; the file system fills a gap with zeros.
Written(f, at, cell) ==
    [k \in 1..(IF at >= Len(f) THEN at + 1 ELSE Len(f)) |->
        IF k = at + 1 THEN cell ELSE IF k <= Len(f) THEN f[k] ELSE Hole]

-----------------------------------------------------------------------------
\* The file becomes f; a power loss may leave this state or an earlier one.
FileBecomes(f) == file' = f /\ kept' = kept \cup {f}

Put(cell) == FileBecomes(Written(file, cursor, cell)) /\ cursor' = cursor + 1

\* fsync makes the present state the only one a power loss can leave; behind an
\* fsync that failed it returns Ok and promises nothing of what was there before.
Synced == kept' = (IF unsynced THEN kept ELSE {file}) /\ UNCHANGED file

Init ==
    /\ durability \in {"fsync", "buffered"} /\ harsh \in BOOLEAN
    /\ pc = "closed" /\ file = <<>> /\ kept = {<<>>} /\ cursor = 0 /\ nextLsn = 1
    /\ attempt = 0 /\ resets = 0 /\ deaths = 0 /\ faults = 0
    /\ acked = {} /\ covered = {}
    /\ torn = FALSE /\ unsynced = FALSE /\ lost = FALSE /\ atRisk = {}

-----------------------------------------------------------------------------
(* Wal::open by a process that starts.                                     *)

OpenEmpty ==
    /\ pc = "closed" /\ file = <<>>
    /\ pc' = "openMagic" /\ cursor' = 0
    /\ UNCHANGED <<setting, file, kept, nextLsn, attempt, limits, acked, covered, damage>>

OpenMagic ==
    /\ pc = "openMagic" /\ pc' = "openVersion"
    /\ Put(Magic)
    /\ UNCHANGED <<setting, nextLsn, attempt, limits, acked, covered, damage>>

OpenVersion ==
    /\ pc = "openVersion" /\ pc' = "ready"
    /\ Put(Version)
    /\ nextLsn' = 1
    /\ torn' = FALSE
    /\ UNCHANGED <<setting, attempt, limits, acked, covered, unsynced, lost, atRisk>>

OpenExisting ==
    /\ pc = "closed" /\ file # <<>> /\ HeaderOk(file)
    /\ pc' = "ready"
    /\ FileBecomes(Truncated(file))
    /\ cursor' = CursorAfterOpen(Truncated(file))
    /\ nextLsn' = NextLsnOf(Records(file))
    /\ torn' = FALSE
    /\ UNCHANGED <<setting, attempt, limits, acked, covered, unsynced, lost, atRisk>>

\* "does not look like a WAL of veldb": the database does not start.
OpenRefuses ==
    /\ pc = "closed" /\ file # <<>> /\ ~HeaderOk(file)
    /\ pc' = "refused"
    /\ UNCHANGED <<setting, file, kept, handle, attempt, limits, acked, covered, damage>>

-----------------------------------------------------------------------------
(* Wal::append: one write_all of the frame, fsync, and only then the number *)
(* is used up and the caller told Ok.                                      *)

Frame(part, n) == [part |-> part, lsn |-> nextLsn, change |-> n]

AppendHead ==
    /\ pc = "ready" /\ attempt < MaxAppends
    /\ attempt' = attempt + 1
    /\ pc' = "append"
    /\ Put(Frame("head", attempt + 1))
    /\ UNCHANGED <<setting, nextLsn, limits, acked, covered, damage>>

AppendTail ==
    /\ pc = "append" /\ pc' = "written"
    /\ Put(Frame("tail", attempt))
    /\ UNCHANGED <<setting, nextLsn, attempt, limits, acked, covered, damage>>

\* A slip: the caller would be told Ok before the fsync.
AppendOkUnsynced ==
    /\ pc = "written" /\ pc' = "ready"
    /\ UNCHANGED <<file, kept>>
    /\ nextLsn' = nextLsn + 1
    /\ acked' = acked \cup {attempt}
    /\ atRisk' = IF torn THEN atRisk \cup {attempt} ELSE atRisk
    /\ UNCHANGED <<setting, cursor, attempt, limits, covered, torn, unsynced, lost>>

AppendOk ==
    /\ pc = "written" /\ pc' = "ready"
    /\ IF durability = "fsync" THEN Synced ELSE UNCHANGED <<file, kept>>
    /\ nextLsn' = nextLsn + 1
    /\ acked' = acked \cup {attempt}
    /\ atRisk' = IF torn THEN atRisk \cup {attempt} ELSE atRisk
    /\ UNCHANGED <<setting, cursor, attempt, limits, covered, torn, unsynced, lost>>

\* write_all, or the fsync after it, returns an error (a full disk, a device
\* error): append returns it, and nobody takes back what was written.
AppendFails ==
    /\ \/ pc = "append"
       \/ pc = "written" /\ durability = "fsync"
    /\ harsh /\ faults < MaxFaults /\ faults' = faults + 1
    /\ pc' = "ready"
    /\ torn' = (torn \/ pc = "append") /\ unsynced' = (unsynced \/ pc = "written")
    /\ UNCHANGED <<setting, file, kept, handle, attempt, resets, deaths, acked, covered, lost, atRisk>>

-----------------------------------------------------------------------------
(* Wal::reset, called when a snapshot holds everything the log says.       *)

\* A slip: the handle would stay where it was.
ResetTruncateNoSeek ==
    /\ pc = "ready" /\ resets < MaxResets
    /\ resets' = resets + 1
    /\ pc' = "resetMagic"
    /\ FileBecomes(<<>>)
    /\ covered' = covered \cup acked
    /\ lost' = FALSE
    /\ UNCHANGED <<setting, handle, attempt, deaths, faults, acked, torn, unsynced, atRisk>>

ResetTruncate ==
    /\ pc = "ready" /\ resets < MaxResets
    /\ resets' = resets + 1
    /\ pc' = "resetMagic"
    /\ FileBecomes(<<>>)
    /\ cursor' = 0
    /\ covered' = covered \cup acked
    /\ lost' = FALSE
    /\ UNCHANGED <<setting, nextLsn, attempt, deaths, faults, acked, torn, unsynced, atRisk>>

ResetMagic ==
    /\ pc = "resetMagic" /\ pc' = "resetVersion"
    /\ Put(Magic)
    /\ UNCHANGED <<setting, nextLsn, attempt, limits, acked, covered, damage>>

ResetVersion ==
    /\ pc = "resetVersion" /\ pc' = "resetSync"
    /\ Put(Version)
    /\ torn' = FALSE
    /\ UNCHANGED <<setting, nextLsn, attempt, limits, acked, covered, unsynced, lost, atRisk>>

ResetSync ==
    /\ pc = "resetSync" /\ pc' = "ready"
    /\ kept' = {file} /\ UNCHANGED file
    /\ unsynced' = FALSE
    /\ UNCHANGED <<setting, handle, attempt, limits, acked, covered, torn, lost, atRisk>>

\* A write or the fsync returns an error: snapshot fails, the server goes on.
ResetFails ==
    /\ pc \in {"resetMagic", "resetVersion", "resetSync"}
    /\ harsh /\ faults < MaxFaults /\ faults' = faults + 1
    /\ pc' = "ready"
    /\ torn' = (torn \/ pc # "resetSync") /\ unsynced' = (unsynced \/ pc = "resetSync")
    /\ UNCHANGED <<setting, file, kept, handle, attempt, resets, deaths, acked, covered, lost, atRisk>>

-----------------------------------------------------------------------------
\* Wal::records_after, under the mutex of the live Wal: a second Wal::open of
\* the same path, which may write a header or cut a tail behind the live cursor.
ReadRecords ==
    /\ pc = "ready"
    /\ CASE file = <<>>    -> FileBecomes(<<Magic, Version>>)
         [] HeaderOk(file) -> FileBecomes(Truncated(file))
         [] OTHER          -> UNCHANGED <<file, kept>>
    /\ UNCHANGED <<setting, pc, handle, attempt, limits, acked, covered, damage>>

-----------------------------------------------------------------------------
\* kill -9 leaves the file as it is, a power loss any state since the last fsync.
Death ==
    /\ pc \notin {"closed", "refused"} /\ deaths < MaxDeaths
    /\ deaths' = deaths + 1
    /\ pc' = "closed" /\ cursor' = 0 /\ nextLsn' = 1
    /\ \/ UNCHANGED <<file, kept, lost>>
       \/ /\ harsh /\ \E f \in kept : file' = f /\ kept' = {f}
          /\ lost' = (lost \/ durability = "buffered" \/ unsynced)
    /\ UNCHANGED <<setting, attempt, resets, faults, acked, covered, torn, unsynced, atRisk>>

\* A Wal nobody calls, or a file the server refuses, stays as it is.
Rest == pc \in {"ready", "refused"} /\ UNCHANGED vars

Next ==
    \/ OpenEmpty \/ OpenMagic \/ OpenVersion \/ OpenExisting \/ OpenRefuses
    \/ AppendHead \/ AppendTail \/ AppendOk \/ AppendFails
    \/ ResetTruncate \/ ResetMagic \/ ResetVersion \/ ResetSync \/ ResetFails
    \/ ReadRecords \/ Death \/ Rest

Spec == Init /\ [][Next]_vars

-----------------------------------------------------------------------------
(* Properties. *)

\* Every variable keeps its type, and the handle never stands past the end of
\* the file, where a write would leave a hole: storage.rs's Wal and its file.
TypeOK ==
    /\ durability \in {"fsync", "buffered"} /\ harsh \in BOOLEAN
    /\ pc \in {"closed", "refused", "openMagic", "openVersion", "ready", "append", "written",
               "resetMagic", "resetVersion", "resetSync"}
    /\ file \in Seq(Cells) /\ \A f \in kept : f \in Seq(Cells)
    /\ cursor \in Nat /\ nextLsn \in Nat \ {0} /\ attempt \in 0..MaxAppends
    /\ resets \in 0..MaxResets /\ deaths \in 0..MaxDeaths /\ faults \in 0..MaxFaults
    /\ acked \subseteq Attempts /\ covered \subseteq Attempts
    /\ torn \in BOOLEAN /\ unsynced \in BOOLEAN /\ lost \in BOOLEAN
    /\ atRisk \subseteq acked
    /\ ~torn /\ pc # "closed" => cursor <= Len(file)

\* What reading a file yields.
Readable(f) == {Records(f)[i].change : i \in 1..GoodFrames(f)}

\* Whatever append answered Ok to and no snapshot holds is read back by recovery
\* and by a replica's poll, across kill -9 at any point of append and reset, and
\* across power loss with fsync; also when an fsync or a reset fails and the server
\* goes on.  Two things are not promised: what was appended behind a write that
\* stopped half way, until a reset or a restart made the file whole again, and,
\* once power failed, what only an fsync behind a failed fsync had secured.
AckedReadable == ~lost => (acked \ covered) \ atRisk \subseteq Readable(file)

\* The frames recovery reads are numbered without a gap, torn tails, kills in the
\* middle of append and reset, failed writes and polls included.  Only a frame whose
\* append reported an error (its fsync failed) shares its number with the next.
ReadableNumbered ==
    \A i, j \in 1..GoodFrames(file) : j = i + 1 =>
        LET frames == Records(file) IN
        \/ frames[j].lsn = frames[i].lsn + 1
        \/ frames[j].lsn = frames[i].lsn /\ frames[i].change \notin acked

\* A poll of a replica never changes the file under the live handle: the tail
\* that records_after would cut is never there while the process serves, unless
\* a write stopped half way.
PollsOnlyRead == [][~torn /\ pc = "ready" /\ pc' = "ready" => file' = file]_vars

\* While only the process can die and no write fails, the file implements the
\* log the rest of the code believes in: every step of Wal's methods, torn frames,
\* half reset files and recovery included, is a step of AtomicLog or none.
Log == INSTANCE AtomicLog WITH
    Payloads <- Attempts,
    up       <- pc \notin {"closed", "refused", "openMagic", "openVersion"},
    log      <- Records(file),
    nextLsn  <- IF pc = "written" THEN nextLsn + 1
                ELSE IF pc \in {"closed", "refused", "openMagic", "openVersion"} THEN 1
                ELSE nextLsn

LogSpec == Log!Init /\ [][~harsh => Log!Next]_(Log!vars)
=============================================================================
