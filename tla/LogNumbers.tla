----------------------------- MODULE LogNumbers -----------------------------
(* How the frames of a log are numbered: src/src/storage.rs.  A log is a     *)
(* sequence of records with a field lsn.                                     *)
EXTENDS Integers, Sequences

\* A slip: open would number by the count of the frames and not by the last one.
NextLsnOfCount(log) == Len(log) + 1

\* Wal::open derives the next LSN from the last frame that survived, and from
\* nothing else: an empty log starts again at 1.
NextLsnOf(log) == IF log = <<>> THEN 1 ELSE log[Len(log)].lsn + 1

\* The LSNs of a log follow one another without a gap.
Dense(log) == \A i \in 1..(Len(log) - 1) : log[i + 1].lsn = log[i].lsn + 1

\* The frames above an LSN, in their order.
FramesAbove(log, lsn) ==
    LET kept[i \in 0..Len(log)] ==
            IF i = 0 THEN <<>>
            ELSE IF log[i].lsn > lsn THEN Append(kept[i - 1], log[i]) ELSE kept[i - 1]
    IN  kept[Len(log)]

\* A slip: the record the reader has already would be sent again.
RecordsFrom(log, after) == FramesAbove(log, after - 1)

\* Wal::records_after.
RecordsAfter(log, after) == FramesAbove(log, after)
=============================================================================
