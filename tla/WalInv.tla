------------------------------- MODULE WalInv -------------------------------
(***************************************************************************)
(* The inductive invariant behind AckedReadable, ReadableNumbered,         *)
(* PollsOnlyRead and LogSpec, in named parts.  TLC checks IInv on a small  *)
(* instance, Wal_proofs proves it for all of them.                         *)
(***************************************************************************)
EXTENDS Wal

\* The handle is in use: its cursor means something.
Live == pc \notin {"closed", "refused"}

\* Header and whole frames up to the last cell.
WholeLog(f) == HeaderOk(f) /\ Len(f) = 2 * GoodFrames(f) + 2

\* ... but for the first part of a frame that is being written.
HalfFrame(f) == HeaderOk(f) /\ Len(f) = 2 * GoodFrames(f) + 3

LastFrame == Records(file)[GoodFrames(file)]

\* The number of an append is used once, cells bear numbers of appends that were
\* called, and the append in progress has not been answered.
AttemptsOK ==
    /\ file \in kept
    /\ acked \subseteq 1..attempt
    /\ pc \in {"append", "written"} => attempt \in Attempts \ acked
    /\ \A f \in kept : \A k \in 1..Len(f) : f[k].change <= attempt

\* While a header is written the file holds nothing else, and a handle nobody
\* uses stands at the beginning.
HeaderSteps ==
    /\ pc \in {"closed", "refused", "openMagic", "resetMagic"} => cursor = 0
    /\ pc \in {"openMagic", "resetMagic"} => file = <<>>
    /\ pc \in {"openVersion", "resetVersion"} => file = <<Magic>> /\ cursor = 1
    /\ pc = "resetSync" => file = <<Magic, Version>> /\ cursor = 2 /\ ~torn
    /\ ~harsh => ~torn /\ ~unsynced

\* The counter is one ahead of the last frame, or names it, when the append of
\* that frame failed.
CounterAhead ==
    \/ GoodFrames(file) = 0
    \/ LastFrame.lsn = nextLsn - 1
    \/ LastFrame.lsn = nextLsn /\ LastFrame.change \notin acked /\ harsh

\* A file no write stopped half way in: whole frames, and the handle at the end.
WholeUnlessTorn ==
    /\ pc = "ready" /\ ~torn => WholeLog(file) /\ cursor = Len(file) /\ CounterAhead
    /\ pc = "append" /\ ~torn =>
          /\ HalfFrame(file) /\ cursor = Len(file) /\ CounterAhead
          /\ file[cursor] = Frame("head", attempt)
          /\ GoodFrames(file) > 0 => LastFrame.change < attempt
    /\ pc = "written" /\ ~torn =>
          /\ WholeLog(file) /\ cursor = Len(file) /\ GoodFrames(file) > 0
          /\ LastFrame = [lsn |-> nextLsn, change |-> attempt]

\* Where a write stopped half way the handle has gone past the damage: nothing it
\* will write makes the header good or one more frame whole.
Spoiled ==
    \/ pc = "ready" /\ cursor < 2
    \/ cursor >= 1 /\ Len(file) >= 1 /\ file[1] # Magic
    \/ cursor >= 2 /\ Len(file) >= 2 /\ file[2] # Version
    \/ /\ HeaderOk(file)
       /\ \/ pc = "ready" /\ cursor = 2 * GoodFrames(file) + 3
          \/ cursor >= 2 * GoodFrames(file) + 4

SpoiledIfTorn == torn /\ pc \in {"ready", "append", "written"} => Spoiled

\* The numbers of the frames of f follow one another; a number comes twice only
\* when the append of the first of the two frames was not answered Ok.
Numbered(f) ==
    \A i \in 1..(GoodFrames(f) - 1) :
        LET this == Records(f)[i] next == Records(f)[i + 1] IN
        \/ next.lsn = this.lsn + 1
        \/ next.lsn = this.lsn /\ this.change \notin acked /\ this.change < attempt /\ harsh

AllNumbered == \A f \in kept : Numbered(f)

\* What AckedReadable promises.
Promised == IF lost THEN {} ELSE (acked \ covered) \ atRisk

\* The handle stands behind every frame that is promised: no write touches it.
PromisedBehind ==
    Live => \A c \in Promised :
        \E i \in 1..GoodFrames(file) : Records(file)[i].change = c /\ 2 * i + 2 <= cursor

\* Whatever the file, or a power loss, would show is what was promised.
PromisedKept ==
    /\ Promised \subseteq Readable(file)
    /\ durability = "fsync" /\ ~unsynced => \A f \in kept : Promised \subseteq Readable(f)

\* The inductive invariant.
IInv ==
    /\ TypeOK /\ AttemptsOK /\ HeaderSteps /\ WholeUnlessTorn /\ SpoiledIfTorn
    /\ AllNumbered /\ PromisedBehind /\ PromisedKept
=============================================================================
