----------------------------- MODULE Wal_proofs -----------------------------
(***************************************************************************)
(* Proofs about Wal, for every number of appends, resets, deaths and       *)
(* faults: types, what recovery reads, how it is numbered, what a poll may *)
(* do to the file, and that the file implements AtomicLog.                 *)
(***************************************************************************)
EXTENDS WalInv, NaturalFacts

Entries == [lsn : Nat, change : Attempts]

-----------------------------------------------------------------------------
(* Facts about files. *)

\* The header words and the filler are cells; only the parts of a frame carry a
\* number and an append (encode_record and write_header).
LEMMA CellFields ==
  /\ Magic \in Cells /\ Version \in Cells /\ Hole \in Cells
  /\ Magic.part = "magic" /\ Version.part = "version" /\ Hole.part = "hole"
  /\ Magic # Version
  /\ \A c \in Cells : c.part \in {"head", "tail"} => c.lsn \in Nat /\ c.change \in Attempts
  BY DEF Cells, Magic, Version, Hole

\* What a write of cell at place at makes of f: one place changes, and what lies
\* between it and the end is filled (write_all at the cursor).
IsWritten(w, f, at, cell) ==
    /\ w \in Seq(Cells) /\ Len(w) = (IF at >= Len(f) THEN at + 1 ELSE Len(f))
    /\ w[at + 1] = cell
    /\ \A k \in 1..Len(f) : k # at + 1 => w[k] = f[k]
    /\ \A k \in (Len(f) + 1)..at : w[k] = Hole

\* The same where the place is the end.
IsExtended(w, f, at, cell) ==
    /\ w \in Seq(Cells) /\ Len(w) = at + 1 /\ w[at + 1] = cell
    /\ \A k \in 1..at : w[k] = f[k]

LEMMA WrittenIs ==
  ASSUME NEW f \in Seq(Cells), NEW at \in Nat, NEW cell \in Cells
  PROVE  IsWritten(Written(f, at, cell), f, at, cell)
  <1> DEFINE n == IF at >= Len(f) THEN at + 1 ELSE Len(f)
  <1>1. n \in Nat  OBVIOUS
  <1>2. \A k \in 1..n : (IF k = at + 1 THEN cell ELSE IF k <= Len(f) THEN f[k] ELSE Hole) \in Cells
    BY CellFields
  <1> QED  BY <1>1, <1>2 DEF Written, IsWritten

\* A write at the end makes the file one cell longer.
LEMMA WrittenAtEnd ==
  ASSUME NEW f \in Seq(Cells), NEW at \in Nat, at = Len(f), NEW cell \in Cells
  PROVE  IsExtended(Written(f, at, cell), f, at, cell)
  <1> PICK w : w = Written(f, at, cell)  OBVIOUS
  <1>1. IsWritten(w, f, at, cell)  BY WrittenIs
  <1>2. w \in Seq(Cells) /\ w[at + 1] = cell /\ Len(w) = at + 1  BY <1>1 DEF IsWritten
  <1>3. \A k \in 1..at : w[k] = f[k]
    <2>1. \A k \in 1..at : k \in 1..Len(f) /\ k # at + 1  OBVIOUS
    <2> QED  BY <1>1, <2>1 DEF IsWritten
  <1>4. IsExtended(w, f, at, cell)  BY <1>2, <1>3 DEF IsExtended
  <1> QED  BY <1>4

\* GoodFrames counts the whole frames in front of the first that is not
\* (read_records).
LEMMA GoodFramesAre ==
  ASSUME NEW f \in Seq(Cells)
  PROVE  /\ GoodFrames(f) \in Nat
         /\ \A i \in 1..GoodFrames(f) : FrameAt(f, i)
         /\ HeaderOk(f) => ~FrameAt(f, GoodFrames(f) + 1) /\ 2 * GoodFrames(f) + 2 <= Len(f)
         /\ ~HeaderOk(f) => GoodFrames(f) = 0
  <1>1. CASE ~HeaderOk(f)  BY <1>1 DEF GoodFrames
  <1>2. CASE HeaderOk(f)
    <2> DEFINE S == {n \in 0..Len(f) : \A i \in 1..n : FrameAt(f, i)}
    <2>1. Len(f) \in Nat /\ Len(f) >= 2 /\ S \in SUBSET (0..Len(f)) /\ 0 \in S
      BY <1>2 DEF HeaderOk
    <2>2. GoodFrames(f) = Max(S)  BY <1>2 DEF GoodFrames
    <2> DEFINE g == GoodFrames(f)
    <2>3. g \in S /\ \A x \in S : x <= g  BY <2>1, <2>2, MaxOf
    <2>4. g \in Nat /\ \A i \in 1..g : FrameAt(f, i)  BY <2>3
    <2>5. 2 * g + 2 <= Len(f)
      <3>1. CASE g = 0  BY <2>1, <3>1
      <3>2. CASE g # 0
        <4>1. FrameAt(f, g)  BY <2>4, <3>2
        <4> QED  BY <4>1 DEF FrameAt
      <3> QED  BY <3>1, <3>2
    <2>6. ~FrameAt(f, g + 1)
      <3> SUFFICES ASSUME FrameAt(f, g + 1) PROVE FALSE  OBVIOUS
      <3>1. \A i \in 1..(g + 1) : FrameAt(f, i)  BY <2>4
      <3>2. g + 1 \in 0..Len(f)  BY <2>1, <2>4 DEF FrameAt
      <3>3. g + 1 \in S  BY <3>1, <3>2
      <3> QED  BY <2>3, <2>4, <3>3
    <2> QED  BY <1>2, <2>4, <2>5, <2>6
  <1> QED  BY <1>1, <1>2

\* ... so every run of whole frames behind a good header is counted.
LEMMA GoodFramesReach ==
  ASSUME NEW f \in Seq(Cells), HeaderOk(f), NEW n \in Nat, \A i \in 1..n : FrameAt(f, i)
  PROVE  /\ n <= GoodFrames(f)
         /\ ~FrameAt(f, n + 1) => GoodFrames(f) = n
  <1>1. GoodFrames(f) \in Nat /\ ~FrameAt(f, GoodFrames(f) + 1)
        /\ \A i \in 1..GoodFrames(f) : FrameAt(f, i)
    BY GoodFramesAre
  <1>2. n <= GoodFrames(f)
    <2> SUFFICES ASSUME GoodFrames(f) < n PROVE FALSE  BY <1>1
    <2>1. GoodFrames(f) + 1 \in 1..n  BY <1>1
    <2> QED  BY <1>1, <2>1
  <1>3. ~FrameAt(f, n + 1) => GoodFrames(f) = n
    <2> SUFFICES ASSUME n < GoodFrames(f) PROVE FrameAt(f, n + 1)  BY <1>1, <1>2
    <2>1. n + 1 \in 1..GoodFrames(f)  BY <1>1
    <2> QED  BY <1>1, <2>1
  <1> QED  BY <1>2, <1>3

\* What recovery reads are numbers and appends.
LEMMA RecordsAre ==
  ASSUME NEW f \in Seq(Cells)
  PROVE  /\ Records(f) \in Seq(Entries)
         /\ Len(Records(f)) = GoodFrames(f)
         /\ \A i \in 1..GoodFrames(f) :
               /\ Records(f)[i] = [lsn |-> f[2 * i + 1].lsn, change |-> f[2 * i + 1].change]
               /\ 2 * i + 2 <= Len(f) /\ 2 * i + 1 \in 1..Len(f) /\ f[2 * i + 1].part = "head"
               /\ Records(f)[i] \in Entries
  <1>1. GoodFrames(f) \in Nat /\ \A i \in 1..GoodFrames(f) : FrameAt(f, i)  BY GoodFramesAre
  <1>2. ASSUME NEW i \in 1..GoodFrames(f)
        PROVE  /\ 2 * i + 2 <= Len(f) /\ 2 * i + 1 \in 1..Len(f) /\ f[2 * i + 1].part = "head"
               /\ f[2 * i + 1] \in Cells
    <2>1. i \in Nat /\ i >= 1 /\ FrameAt(f, i)  BY <1>1
    <2>2. 2 * i + 2 <= Len(f) /\ f[2 * i + 1].part = "head"  BY <2>1 DEF FrameAt
    <2>3. 2 * i + 1 \in 1..Len(f)  BY <2>1, <2>2
    <2> QED  BY <2>2, <2>3
  <1>3. ASSUME NEW i \in 1..GoodFrames(f)
        PROVE  [lsn |-> f[2 * i + 1].lsn, change |-> f[2 * i + 1].change] \in Entries
    BY <1>2, CellFields DEF Entries
  <1> DEFINE n == GoodFrames(f)
            entry(i) == [lsn |-> f[2 * i + 1].lsn, change |-> f[2 * i + 1].change]
  <1>4. Records(f) = [i \in 1..n |-> entry(i)]  BY DEF Records
  <1>5. n \in Nat /\ \A i \in 1..n : entry(i) \in Entries  BY <1>1, <1>3
  <1>6. Records(f) \in Seq(Entries) /\ Len(Records(f)) = n /\ \A i \in 1..n : Records(f)[i] = entry(i)
    <2> HIDE DEF n, entry
    <2> QED  BY <1>4, <1>5
  <1> QED  BY <1>2, <1>5, <1>6

\* Two files that agree on their whole frames are read alike.
LEMMA SameRecords ==
  ASSUME NEW f \in Seq(Cells), NEW g \in Seq(Cells), GoodFrames(f) = GoodFrames(g),
         \A i \in 1..GoodFrames(f) : f[2 * i + 1] = g[2 * i + 1]
  PROVE  Records(f) = Records(g)
  BY DEF Records

\* A file without a whole frame is read as an empty log.
LEMMA NothingRead ==
  ASSUME NEW f \in Seq(Cells), GoodFrames(f) = 0
  PROVE  Records(f) = <<>> /\ Readable(f) = {}
  <1>1. Records(f) \in Seq(Entries) /\ Len(Records(f)) = 0  BY RecordsAre
  <1>2. Readable(f) = {}  BY DEF Readable
  <1> QED  BY <1>1, <1>2

\* So are an empty file, half a header and a header alone.
LEMMA HeadersRead ==
  /\ <<>> \in Seq(Cells) /\ <<Magic>> \in Seq(Cells) /\ <<Magic, Version>> \in Seq(Cells)
  /\ ~HeaderOk(<<>>) /\ ~HeaderOk(<<Magic>>) /\ HeaderOk(<<Magic, Version>>)
  /\ GoodFrames(<<>>) = 0 /\ GoodFrames(<<Magic>>) = 0 /\ GoodFrames(<<Magic, Version>>) = 0
  <1>1. /\ <<>> \in Seq(Cells) /\ <<Magic>> \in Seq(Cells) /\ <<Magic, Version>> \in Seq(Cells)
        /\ ~HeaderOk(<<>>) /\ ~HeaderOk(<<Magic>>) /\ HeaderOk(<<Magic, Version>>)
    BY CellFields DEF HeaderOk
  <1>2. ~FrameAt(<<Magic, Version>>, 0 + 1)  BY DEF FrameAt
  <1>3. GoodFrames(<<Magic, Version>>) = 0
    <2>1. \A i \in 1..0 : FrameAt(<<Magic, Version>>, i)  OBVIOUS
    <2> QED  BY <1>1, <1>2, <2>1, GoodFramesReach
  <1>4. GoodFrames(<<>>) = 0 /\ GoodFrames(<<Magic>>) = 0  BY <1>1, GoodFramesAre
  <1> QED  BY <1>1, <1>3, <1>4

\* The two writes of a header make it.
LEMMA HeaderWritten ==
  ASSUME NEW f \in Seq(Cells), NEW at \in Nat
  PROVE  /\ f = <<>> /\ at = 0 => Written(f, at, Magic) = <<Magic>>
         /\ f = <<Magic>> /\ at = 1 => Written(f, at, Version) = <<Magic, Version>>
  <1>1. ASSUME f = <<>>, at = 0 PROVE Written(f, at, Magic) = <<Magic>>
    <2> DEFINE w == Written(f, at, Magic)
    <2>1. /\ w \in Seq(Cells) /\ Len(w) = (IF at >= Len(f) THEN at + 1 ELSE Len(f))
          /\ w[at + 1] = Magic
      <3>1. f \in Seq(Cells) /\ at \in Nat  BY <1>1
      <3>2. IsWritten(w, f, at, Magic)  BY <3>1, CellFields, WrittenIs
      <3> QED  BY <3>2 DEF IsWritten
    <2> HIDE DEF w
    <2>2. w \in Seq(Cells) /\ Len(w) = 1 /\ w[1] = Magic  BY <1>1, <2>1
    <2> QED  BY <2>2 DEF w
  <1>2. ASSUME f = <<Magic>>, at = 1 PROVE Written(f, at, Version) = <<Magic, Version>>
    <2> DEFINE w == Written(f, at, Version)
    <2>1. /\ w \in Seq(Cells) /\ Len(w) = (IF at >= Len(f) THEN at + 1 ELSE Len(f))
          /\ w[at + 1] = Version
          /\ \A k \in 1..Len(f) : k # at + 1 => w[k] = f[k]
      <3>1. f \in Seq(Cells) /\ at \in Nat  BY <1>2
      <3>2. IsWritten(w, f, at, Version)  BY <3>1, CellFields, WrittenIs
      <3> QED  BY <3>2 DEF IsWritten
    <2> HIDE DEF w
    <2>2. Len(f) = 1 /\ f[1] = Magic  BY <1>2
    <2>3. w \in Seq(Cells) /\ Len(w) = 2 /\ w[1] = Magic /\ w[2] = Version
      BY <1>2, <2>1, <2>2
    <2>4. w = <<Magic, Version>>  BY <2>3
    <2> QED  BY <2>4 DEF w
  <1> QED  BY <1>1, <1>2

-----------------------------------------------------------------------------
(* What a write, and what a truncation does to the frames. *)

\* Truncating takes away what is not read (Wal::open's set_len).
LEMMA TruncatedIs ==
  ASSUME NEW f \in Seq(Cells), HeaderOk(f)
  PROVE  /\ Truncated(f) \in Seq(Cells) /\ WholeLog(Truncated(f))
         /\ GoodFrames(Truncated(f)) = GoodFrames(f)
         /\ Records(Truncated(f)) = Records(f)
         /\ \A k \in 1..Len(Truncated(f)) : k <= Len(f) /\ Truncated(f)[k] = f[k]
         /\ WholeLog(f) => Truncated(f) = f
  <1> DEFINE g == GoodFrames(f)
             n == 2 + 2 * g
             t == Truncated(f)
  <1>1. /\ g \in Nat /\ 2 * g + 2 <= Len(f) /\ ~FrameAt(f, g + 1)
        /\ \A i \in 1..g : FrameAt(f, i)
    BY GoodFramesAre
  <1>2. n \in Nat /\ n >= 2 /\ n <= Len(f)  BY <1>1
  <1>3. t = SubSeq(f, 1, n)  BY DEF Truncated
  <1> HIDE DEF n, t
  <1>4. /\ t \in Seq(Cells) /\ Len(t) = n
        /\ \A k \in 1..n : t[k] = f[k]
    BY <1>2, <1>3
  <1>5. HeaderOk(t)  BY <1>2, <1>4 DEF HeaderOk
  <1>6. ASSUME NEW i \in 1..g PROVE FrameAt(t, i)
    <2>1. i \in Nat /\ i >= 1 /\ i <= g /\ FrameAt(f, i)  BY <1>1
    <2>2. 2 * i + 2 <= n /\ 2 * i + 1 \in 1..n /\ 2 * i + 2 \in 1..n  BY <1>1, <2>1 DEF n
    <2>3. t[2 * i + 1] = f[2 * i + 1] /\ t[2 * i + 2] = f[2 * i + 2]  BY <1>4, <2>2
    <2> QED  BY <1>4, <2>1, <2>2, <2>3 DEF FrameAt
  <1>7. ~FrameAt(t, g + 1)  BY <1>1, <1>4 DEF FrameAt, n
  <1>8. GoodFrames(t) = g  BY <1>1, <1>4, <1>5, <1>6, <1>7, GoodFramesReach
  <1>9. Records(t) = Records(f)
    <2>1. \A i \in 1..g : 2 * i + 1 \in 1..n  BY <1>1 DEF n
    <2> QED  BY <1>4, <1>8, <2>1, SameRecords
  <1>10. WholeLog(t)  BY <1>4, <1>5, <1>8, <1>1 DEF WholeLog, n
  <1>11. ASSUME WholeLog(f) PROVE t = f
    <2>1. Len(f) = n  BY <1>11, <1>1 DEF WholeLog, n
    <2> QED  BY <1>4, <2>1
  <1> QED  BY <1>2, <1>4, <1>8, <1>9, <1>10, <1>11 DEF t

\* A write leaves alone every frame that ends where the handle stands or before
\* (Wal's single file handle).
LEMMA WriteBehind ==
  ASSUME NEW f \in Seq(Cells), NEW at \in Nat, NEW cell \in Cells, HeaderOk(f),
         NEW n \in 0..GoodFrames(f), 2 * n + 2 <= at
  PROVE  /\ HeaderOk(Written(f, at, cell)) /\ n <= GoodFrames(Written(f, at, cell))
         /\ \A k \in 1..(2 * n + 2) : Written(f, at, cell)[k] = f[k]
         /\ \A i \in 1..n : Records(Written(f, at, cell))[i] = Records(f)[i]
  <1> DEFINE w == Written(f, at, cell)
             g == GoodFrames(f)
  <1>1. /\ w \in Seq(Cells)
        /\ Len(w) = (IF at >= Len(f) THEN at + 1 ELSE Len(f))
        /\ \A k \in 1..Len(f) : k # at + 1 => w[k] = f[k]
    <2>1. IsWritten(w, f, at, cell)  BY WrittenIs
    <2> QED  BY <2>1 DEF IsWritten
  <1>2. g \in Nat /\ 2 * g + 2 <= Len(f) /\ \A i \in 1..g : FrameAt(f, i)  BY GoodFramesAre
  <1> HIDE DEF w, g
  <1>3. n \in Nat /\ n <= g  BY <1>2 DEF g
  <1>4. \A k \in 1..(2 * n + 2) : w[k] = f[k] /\ k \in 1..Len(f)  BY <1>1, <1>2, <1>3
  <1>5. Len(w) >= Len(f)  BY <1>1
  <1>6. HeaderOk(w)
    <2>1. 1 \in 1..(2 * n + 2) /\ 2 \in 1..(2 * n + 2)  BY <1>3
    <2> QED  BY <1>1, <1>4, <1>5, <2>1 DEF HeaderOk
  <1>7. ASSUME NEW i \in 1..n PROVE FrameAt(w, i) /\ w[2 * i + 1] = f[2 * i + 1]
    <2>1. i \in Nat /\ i >= 1 /\ i <= n /\ FrameAt(f, i)  BY <1>2, <1>3
    <2>2. 2 * i + 1 \in 1..(2 * n + 2) /\ 2 * i + 2 \in 1..(2 * n + 2)  BY <1>3, <2>1
    <2>3. w[2 * i + 1] = f[2 * i + 1] /\ w[2 * i + 2] = f[2 * i + 2]  BY <1>4, <2>2
    <2> QED  BY <1>1, <1>5, <2>1, <2>3 DEF FrameAt
  <1>8. n <= GoodFrames(w)  BY <1>1, <1>3, <1>6, <1>7, GoodFramesReach
  <1>9. \A i \in 1..n : Records(w)[i] = Records(f)[i]
    <2>1. GoodFrames(w) \in Nat  BY <1>1, GoodFramesAre
    <2>2. \A i \in 1..n : i \in 1..GoodFrames(w) /\ i \in 1..GoodFrames(f)
      <3> DEFINE gw == GoodFrames(w)
      <3> HIDE DEF gw
      <3>1. gw \in Nat /\ n <= gw  BY <1>8, <2>1 DEF gw
      <3>2. \A i \in 1..n : i \in 1..gw /\ i \in 1..g  BY <1>2, <1>3, <3>1
      <3> QED  BY <3>2 DEF g, gw
    <2>3. \A i \in 1..n : /\ Records(w)[i] = [lsn |-> w[2 * i + 1].lsn, change |-> w[2 * i + 1].change]
                          /\ Records(f)[i] = [lsn |-> f[2 * i + 1].lsn, change |-> f[2 * i + 1].change]
      BY <1>1, <2>2, RecordsAre
    <2> QED  BY <1>7, <2>3
  <1> QED  BY <1>4, <1>6, <1>8, <1>9 DEF w

\* The first part of a frame behind a whole log: nothing more is read yet.
LEMMA HeadWritten ==
  ASSUME NEW f \in Seq(Cells), WholeLog(f), NEW at \in Nat, at = Len(f),
         NEW cell \in Cells, cell.part = "head"
  PROVE  /\ HalfFrame(Written(f, at, cell))
         /\ Len(Written(f, at, cell)) = at + 1
         /\ Written(f, at, cell)[at + 1] = cell
         /\ Records(Written(f, at, cell)) = Records(f)
         /\ GoodFrames(Written(f, at, cell)) = GoodFrames(f)
  <1> DEFINE w == Written(f, at, cell)
             g == GoodFrames(f)
  <1>1. g \in Nat /\ at = 2 * g + 2 /\ at \in Nat /\ HeaderOk(f)
        /\ \A i \in 1..g : FrameAt(f, i)
    BY GoodFramesAre DEF WholeLog
  <1>2. /\ w \in Seq(Cells) /\ Len(w) = at + 1 /\ w[at + 1] = cell
        /\ \A k \in 1..at : w[k] = f[k]
    <2>1. IsExtended(w, f, at, cell)  BY WrittenAtEnd
    <2> QED  BY <2>1 DEF IsExtended
  <1>3. g \in 0..GoodFrames(f) /\ 2 * g + 2 <= at  BY <1>1
  <1>4. /\ HeaderOk(w) /\ g <= GoodFrames(w) /\ \A k \in 1..(2 * g + 2) : w[k] = f[k]
    BY <1>1, <1>3, WriteBehind
  <1> HIDE DEF w, g
  <1>5. GoodFrames(w) \in Nat /\ 2 * GoodFrames(w) + 2 <= Len(w)  BY <1>2, <1>4, GoodFramesAre
  <1>6. GoodFrames(w) = g  BY <1>1, <1>2, <1>4, <1>5
  <1>7. Records(w) = Records(f)
    <2>1. \A i \in 1..g : w[2 * i + 1] = f[2 * i + 1]  BY <1>1, <1>4
    <2> QED  BY <1>2, <1>6, <2>1, SameRecords DEF g
  <1>8. HalfFrame(w)  BY <1>1, <1>2, <1>4, <1>6 DEF HalfFrame
  <1> QED  BY <1>2, <1>6, <1>7, <1>8 DEF w, g

\* The second part: one more record is read.
LEMMA TailWritten ==
  ASSUME NEW f \in Seq(Cells), HalfFrame(f), NEW at \in Nat, at = Len(f), f[at].part = "head",
         NEW cell \in Cells, cell.part = "tail", cell.lsn = f[at].lsn, cell.change = f[at].change
  PROVE  /\ WholeLog(Written(f, at, cell))
         /\ Len(Written(f, at, cell)) = at + 1
         /\ Records(Written(f, at, cell))
              = Append(Records(f), [lsn |-> f[at].lsn, change |-> f[at].change])
         /\ GoodFrames(Written(f, at, cell)) = GoodFrames(f) + 1
  <1> DEFINE w == Written(f, at, cell)
             g == GoodFrames(f)
             entry == [lsn |-> f[at].lsn, change |-> f[at].change]
  <1>1. g \in Nat /\ at = 2 * g + 3 /\ at \in Nat /\ HeaderOk(f)
        /\ \A i \in 1..g : FrameAt(f, i)
    BY GoodFramesAre DEF HalfFrame
  <1>2. /\ w \in Seq(Cells) /\ Len(w) = at + 1 /\ w[at + 1] = cell
        /\ \A k \in 1..at : w[k] = f[k]
    <2>1. IsExtended(w, f, at, cell)  BY WrittenAtEnd
    <2> QED  BY <2>1 DEF IsExtended
  <1>3. g \in 0..GoodFrames(f) /\ 2 * g + 2 <= at  BY <1>1
  <1>4. /\ HeaderOk(w) /\ g <= GoodFrames(w)
        /\ \A i \in 1..g : Records(w)[i] = Records(f)[i]
    BY <1>1, <1>3, WriteBehind
  <1> HIDE DEF w, g
  <1>5. GoodFrames(w) \in Nat /\ 2 * GoodFrames(w) + 2 <= Len(w)
        /\ \A i \in 1..GoodFrames(w) : FrameAt(w, i)
    BY <1>2, <1>4, GoodFramesAre
  <1>6. w[2 * (g + 1) + 1] = f[at] /\ w[2 * (g + 1) + 2] = cell
    <2>1. 2 * (g + 1) + 1 = at /\ 2 * (g + 1) + 2 = at + 1 /\ at \in 1..Len(f)  BY <1>1
    <2>2. w[at] = f[at] /\ w[at + 1] = cell  BY <1>2, <2>1
    <2> QED  BY <2>1, <2>2
  <1>7. FrameAt(w, g + 1)
    <2>1. 2 * (g + 1) + 2 = at + 1  BY <1>1
    <2>2. f[at] \in Cells
      <3>1. at \in 1..Len(f)  BY <1>1
      <3> QED  BY <3>1
    <2>3. f[at] \in [part : {"head", "tail"}, lsn : Nat, change : Attempts]
          /\ cell \in [part : {"head", "tail"}, lsn : Nat, change : Attempts]
      BY <2>2 DEF Cells, Magic, Version, Hole
    <2>4. cell = [f[at] EXCEPT !.part = "tail"]  BY <2>3
    <2> QED  BY <1>2, <1>6, <2>1, <2>4 DEF FrameAt
  <1>8. \A i \in 1..(g + 1) : FrameAt(w, i)
    <2>1. \A i \in 1..g : FrameAt(w, i)  BY <1>1, <1>4, <1>5
    <2> QED  BY <1>1, <1>7, <2>1
  <1>9. g + 1 <= GoodFrames(w)
    <2>1. g + 1 \in Nat  BY <1>1
    <2> QED  BY <1>2, <1>4, <1>8, <2>1, GoodFramesReach
  <1>10. GoodFrames(w) = g + 1  BY <1>1, <1>2, <1>5, <1>9
  <1>11. /\ Records(w) \in Seq(Entries) /\ Len(Records(w)) = g + 1
         /\ Records(w)[g + 1] = entry
    <2>1. g + 1 \in 1..GoodFrames(w)  BY <1>1, <1>10
    <2>2. Records(w) \in Seq(Entries) /\ Len(Records(w)) = g + 1  BY <1>2, <1>10, RecordsAre
    <2>3. Records(w)[g + 1] = [lsn |-> w[2 * (g + 1) + 1].lsn, change |-> w[2 * (g + 1) + 1].change]
      BY <1>2, <2>1, RecordsAre
    <2> QED  BY <1>6, <2>2, <2>3
  <1>12. Records(f) \in Seq(Entries) /\ Len(Records(f)) = g  BY RecordsAre DEF g
  <1> HIDE DEF entry
  <1>13. Records(w) = Append(Records(f), entry)
    BY <1>1, <1>4, <1>11, <1>12
  <1>14. WholeLog(w)  BY <1>1, <1>2, <1>4, <1>10 DEF WholeLog
  <1> QED  BY <1>2, <1>10, <1>13, <1>14 DEF w, g, entry

\* A write that starts with a header that is not good, or makes it so, leaves
\* nothing to read.
LEMMA WriteNoHeader ==
  ASSUME NEW f \in Seq(Cells), NEW at \in Nat, NEW cell \in Cells,
         \/ at = 0 /\ cell # Magic
         \/ at = 1 /\ cell # Version
         \/ at >= 1 /\ Len(f) >= 1 /\ f[1] # Magic
         \/ at >= 2 /\ Len(f) >= 2 /\ f[2] # Version
  PROVE  /\ ~HeaderOk(Written(f, at, cell)) /\ GoodFrames(Written(f, at, cell)) = 0
         /\ \/ Len(Written(f, at, cell)) >= 1 /\ Written(f, at, cell)[1] # Magic
            \/ /\ at >= 1 /\ Len(Written(f, at, cell)) >= 2
               /\ Written(f, at, cell)[2] # Version
  <1> DEFINE w == Written(f, at, cell)
  <1>1. /\ w \in Seq(Cells) /\ w[at + 1] = cell
        /\ Len(w) = (IF at >= Len(f) THEN at + 1 ELSE Len(f))
        /\ \A k \in 1..Len(f) : k # at + 1 => w[k] = f[k]
    <2>1. IsWritten(w, f, at, cell)  BY WrittenIs
    <2> QED  BY <2>1 DEF IsWritten
  <1> HIDE DEF w
  <1>2. Len(w) >= Len(f) /\ Len(w) >= at + 1 /\ Len(f) \in Nat  BY <1>1
  <1>3. \/ Len(w) >= 1 /\ w[1] # Magic
        \/ at >= 1 /\ Len(w) >= 2 /\ w[2] # Version
    <2>1. CASE at = 0 /\ cell # Magic
      <3>1. w[0 + 1] # Magic  BY <1>1, <2>1
      <3> QED  BY <1>2, <2>1, <3>1
    <2>2. CASE at = 1 /\ cell # Version
      <3>1. w[1 + 1] # Version  BY <1>1, <2>2
      <3> QED  BY <1>2, <2>2, <3>1
    <2>3. CASE at >= 1 /\ Len(f) >= 1 /\ f[1] # Magic
      <3>1. 1 \in 1..Len(f) /\ 1 # at + 1  BY <1>2, <2>3
      <3> QED  BY <1>1, <1>2, <2>3, <3>1
    <2>4. CASE at >= 2 /\ Len(f) >= 2 /\ f[2] # Version
      <3>1. 2 \in 1..Len(f) /\ 2 # at + 1  BY <1>2, <2>4
      <3> QED  BY <1>1, <1>2, <2>4, <3>1
    <2> QED  BY <2>1, <2>2, <2>3, <2>4
  <1>4. ~HeaderOk(w)  BY <1>3 DEF HeaderOk
  <1>5. GoodFrames(w) = 0  BY <1>1, <1>4, GoodFramesAre
  <1> QED  BY <1>3, <1>4, <1>5 DEF w

\* A write behind the first frame that is not whole does not complete it.
LEMMA WriteBeyond ==
  ASSUME NEW f \in Seq(Cells), HeaderOk(f), NEW at \in Nat, NEW cell \in Cells,
         \/ at = 2 * GoodFrames(f) + 3 /\ cell.part = "head"
         \/ at >= 2 * GoodFrames(f) + 4
  PROVE  /\ HeaderOk(Written(f, at, cell))
         /\ GoodFrames(Written(f, at, cell)) = GoodFrames(f)
         /\ Records(Written(f, at, cell)) = Records(f)
  <1> DEFINE w == Written(f, at, cell)
             g == GoodFrames(f)
  <1>1. /\ w \in Seq(Cells) /\ w[at + 1] = cell
        /\ Len(w) = (IF at >= Len(f) THEN at + 1 ELSE Len(f))
        /\ \A k \in 1..Len(f) : k # at + 1 => w[k] = f[k]
        /\ \A k \in (Len(f) + 1)..at : w[k] = Hole
    <2>1. IsWritten(w, f, at, cell)  BY WrittenIs
    <2> QED  BY <2>1 DEF IsWritten
  <1>2. /\ g \in Nat /\ 2 * g + 2 <= Len(f) /\ ~FrameAt(f, g + 1)
        /\ \A i \in 1..g : FrameAt(f, i)
    BY GoodFramesAre
  <1>3. g \in 0..GoodFrames(f) /\ 2 * g + 2 <= at  BY <1>2
  <1>4. /\ HeaderOk(w) /\ g <= GoodFrames(w) /\ \A k \in 1..(2 * g + 2) : w[k] = f[k]
    BY <1>3, WriteBehind
  <1>5. \/ at = 2 * g + 3 /\ cell.part = "head"
        \/ at >= 2 * g + 4
    OBVIOUS
  <1> HIDE DEF w, g
  <1>6. GoodFrames(w) \in Nat /\ \A i \in 1..GoodFrames(w) : FrameAt(w, i)
    BY <1>1, GoodFramesAre
  <1>7. ~FrameAt(w, g + 1)
    <2> SUFFICES ASSUME FrameAt(w, g + 1) PROVE FALSE  OBVIOUS
    <2>1. 2 * (g + 1) + 1 = 2 * g + 3 /\ 2 * (g + 1) + 2 = 2 * g + 4  BY <1>2
    <2>2. w[2 * g + 3].part = "head" /\ w[2 * g + 4] = [w[2 * g + 3] EXCEPT !.part = "tail"]
      BY <2>1 DEF FrameAt
    <2>3. w[2 * g + 4].part = "tail"
      <3>1. 2 * g + 4 <= Len(w)  BY <2>1 DEF FrameAt
      <3>2. 2 * g + 3 \in 1..Len(w)  BY <1>1, <1>2, <3>1
      <3>3. w[2 * g + 3] \in Cells  BY <1>1, <3>2
      <3> QED  BY <2>2, <3>3 DEF Cells, Magic, Version, Hole
    <2>4. CASE at = 2 * g + 3
      <3>1. at + 1 = 2 * g + 4  BY <1>2, <2>4
      <3>2. cell.part = "head"  BY <1>2, <1>5, <2>4
      <3> QED  BY <1>1, <2>3, <3>1, <3>2
    <2>5. CASE at >= 2 * g + 4 /\ Len(f) < 2 * g + 4
      <3>1. 2 * g + 4 \in (Len(f) + 1)..at  BY <1>2, <2>5
      <3>2. w[2 * g + 4] = Hole  BY <1>1, <3>1
      <3> QED  BY <2>3, <3>2, CellFields
    <2>6. CASE at >= 2 * g + 4 /\ Len(f) >= 2 * g + 4
      <3>1. /\ 2 * g + 3 \in 1..Len(f) /\ 2 * g + 3 # at + 1
            /\ 2 * g + 4 \in 1..Len(f) /\ 2 * g + 4 # at + 1
        BY <1>2, <2>6
      <3>2. w[2 * g + 3] = f[2 * g + 3] /\ w[2 * g + 4] = f[2 * g + 4]  BY <1>1, <3>1
      <3>3. FrameAt(f, g + 1)  BY <2>1, <2>2, <2>6, <3>2 DEF FrameAt
      <3> QED  BY <1>2, <3>3
    <2>7. Len(f) \in Nat  OBVIOUS
    <2> QED  BY <1>2, <1>5, <2>4, <2>5, <2>6, <2>7
  <1>8. GoodFrames(w) = g
    <2>1. \A i \in 1..g : FrameAt(w, i)  BY <1>2, <1>4, <1>6
    <2> QED  BY <1>1, <1>2, <1>4, <1>7, <2>1, GoodFramesReach
  <1>9. Records(w) = Records(f)
    <2>1. \A i \in 1..g : w[2 * i + 1] = f[2 * i + 1]  BY <1>2, <1>4
    <2> QED  BY <1>1, <1>8, <2>1, SameRecords DEF g
  <1> QED  BY <1>4, <1>8, <1>9 DEF w, g

-----------------------------------------------------------------------------
(* What the invariant says of one write. *)

\* The pieces of the state, and their types.
LEMMA StateIs ==
  ASSUME TypeOK
  PROVE  /\ file \in Seq(Cells) /\ cursor \in Nat /\ nextLsn \in Nat /\ nextLsn >= 1
         /\ attempt \in Nat /\ MaxAppends \in Nat /\ Len(file) \in Nat
         /\ GoodFrames(file) \in Nat
         /\ acked \subseteq Attempts /\ covered \subseteq Attempts /\ atRisk \subseteq acked
  BY LimitsAssumption, GoodFramesAre DEF TypeOK

\* A frame's parts are cells.
LEMMA FrameIs ==
  ASSUME TypeOK, NEW n \in Attempts
  PROVE  /\ Frame("head", n) \in Cells /\ Frame("tail", n) \in Cells
         /\ Frame("head", n).part = "head" /\ Frame("tail", n).part = "tail"
         /\ Frame("head", n).lsn = nextLsn /\ Frame("tail", n).lsn = nextLsn
         /\ Frame("head", n).change = n /\ Frame("tail", n).change = n
         /\ Frame("head", n) # Magic /\ Frame("head", n) # Version
  BY StateIs DEF Frame, Cells, Magic, Version

\* Numbering does not suffer from appends that are called or answered.
LEMMA NumberedStays ==
  ASSUME NEW f, Numbered(f), GoodFrames(f) \in Nat, attempt \in Nat, attempt' \in Nat,
         attempt <= attempt', acked' \subseteq acked \cup {attempt}, harsh' = harsh,
         \A i \in 1..GoodFrames(f) : Records(f)[i].change \in Nat
  PROVE  Numbered(f)'
  <1> DEFINE rs == Records(f)
             g == GoodFrames(f)
  <1>1. SUFFICES ASSUME NEW i \in 1..(g - 1)
                 PROVE  \/ rs[i + 1].lsn = rs[i].lsn + 1
                        \/ /\ rs[i + 1].lsn = rs[i].lsn /\ rs[i].change \notin acked'
                           /\ rs[i].change < attempt' /\ harsh'
    BY DEF Numbered
  <1>2. \/ rs[i + 1].lsn = rs[i].lsn + 1
        \/ /\ rs[i + 1].lsn = rs[i].lsn /\ rs[i].change \notin acked
           /\ rs[i].change < attempt /\ harsh
    BY <1>1 DEF Numbered
  <1>3. rs[i].change \in Nat
    <2>1. i \in 1..g  BY <1>1
    <2> QED  BY <2>1
  <1> HIDE DEF rs, g
  <1> QED  BY <1>2, <1>3

\* Every state that a power loss may leave is numbered well after a step, if what
\* comes anew is read like one of the old states, or as nothing.
LEMMA AllNumberedNext ==
  ASSUME TypeOK, AllNumbered, attempt' \in Nat, attempt <= attempt',
         acked' \subseteq acked \cup {attempt}, harsh' = harsh,
         \A f \in kept' :
            \/ f \in kept
            \/ GoodFrames(f) = 0
            \/ \E h \in kept : GoodFrames(f) = GoodFrames(h) /\ Records(f) = Records(h)
            \/ Numbered(f)'
  PROVE  AllNumbered'
  <1>1. ASSUME NEW f \in kept PROVE Numbered(f)'
    <2>1. f \in Seq(Cells) /\ Numbered(f)  BY DEF AllNumbered, TypeOK
    <2>2. GoodFrames(f) \in Nat  BY <2>1, GoodFramesAre
    <2>3. \A i \in 1..GoodFrames(f) : Records(f)[i].change \in Nat
      <3>1. \A i \in 1..GoodFrames(f) : Records(f)[i] \in Entries  BY <2>1, RecordsAre
      <3>2. \A e \in Entries : e.change \in Nat  BY DEF Entries, Attempts
      <3> QED  BY <3>1, <3>2
    <2>4. attempt \in Nat  BY StateIs
    <2> QED  BY <2>1, <2>2, <2>3, <2>4, NumberedStays
  <1>2. ASSUME NEW f \in kept', GoodFrames(f) = 0 PROVE Numbered(f)'
    <2>1. \A i \in 1..(0 - 1) : FALSE  OBVIOUS
    <2> QED  BY <1>2, <2>1 DEF Numbered
  <1>3. ASSUME NEW f \in kept', NEW h \in kept,
               GoodFrames(f) = GoodFrames(h), Records(f) = Records(h)
        PROVE  Numbered(f)'
    <2>1. Numbered(h)'  BY <1>1
    <2> QED  BY <1>3, <2>1 DEF Numbered
  <1> QED  BY <1>1, <1>2, <1>3 DEF AllNumbered

\* A write keeps what is promised: all of it lies behind the handle.
LEMMA PutKeepsPromised ==
  ASSUME IInv, Live, NEW cell \in Cells, Put(cell), Promised' = Promised,
         UNCHANGED <<durability, unsynced>>
  PROVE  PromisedBehind' /\ PromisedKept'
  <1> DEFINE w == Written(file, cursor, cell)
  <1>1. /\ file \in Seq(Cells) /\ cursor \in Nat /\ w \in Seq(Cells)
        /\ file' = w /\ kept' = kept \cup {w} /\ cursor' = cursor + 1
        /\ GoodFrames(file) \in Nat /\ GoodFrames(w) \in Nat
    BY StateIs, WrittenIs, GoodFramesAre DEF IInv, Put, FileBecomes, IsWritten
  <1>2. ASSUME NEW c \in Promised
        PROVE  \E i \in 1..GoodFrames(w) : Records(w)[i].change = c /\ 2 * i + 2 <= cursor + 1
    <2>1. PICK i \in 1..GoodFrames(file) : Records(file)[i].change = c /\ 2 * i + 2 <= cursor
      BY DEF IInv, PromisedBehind
    <2>2. i \in Nat /\ i >= 1 /\ i \in 0..GoodFrames(file)  BY <1>1
    <2>3. HeaderOk(file)
      <3>1. GoodFrames(file) # 0  BY <1>1, <2>2
      <3> QED  BY <1>1, <3>1, GoodFramesAre
    <2>4. i <= GoodFrames(w) /\ \A j \in 1..i : Records(w)[j] = Records(file)[j]
      BY <1>1, <2>1, <2>2, <2>3, WriteBehind
    <2>5. i \in 1..GoodFrames(w) /\ i \in 1..i
      <3> DEFINE g == GoodFrames(w)
      <3>1. g \in Nat /\ i <= g  BY <1>1, <2>4
      <3> HIDE DEF g
      <3>2. i \in 1..g /\ i \in 1..i  BY <2>2, <3>1
      <3> QED  BY <3>2 DEF g
    <2>6. Records(w)[i].change = c  BY <2>1, <2>4, <2>5
    <2>7. 2 * i + 2 <= cursor + 1  BY <1>1, <2>1, <2>2
    <2> QED  BY <2>5, <2>6, <2>7
  <1> HIDE DEF w
  <1>3. PromisedBehind'  BY <1>1, <1>2 DEF PromisedBehind
  <1>4. Promised \subseteq Readable(w)  BY <1>2 DEF Readable
  <1>5. PromisedKept'  BY <1>1, <1>4 DEF IInv, PromisedKept
  <1> QED  BY <1>3, <1>5

\* Where the handle has gone past the damage a frame changes nothing that is read.
LEMMA SpoiledPut ==
  ASSUME TypeOK, Spoiled, NEW cell \in Cells, Put(cell),
         \/ pc = "ready" /\ cell.part = "head"
         \/ pc = "append" /\ cell.part = "tail",
         pc' # "ready"
  PROVE  /\ Spoiled'
         /\ \/ GoodFrames(file') = 0
            \/ GoodFrames(file') = GoodFrames(file) /\ Records(file') = Records(file)
  <1>1. /\ file \in Seq(Cells) /\ cursor \in Nat /\ GoodFrames(file) \in Nat
        /\ file' = Written(file, cursor, cell) /\ cursor' = cursor + 1
    BY StateIs DEF Put, FileBecomes
  <1>2. cell # Magic /\ cell # Version /\ ~(cell.part = "head" /\ cell.part = "tail")
    BY CellFields
  <1>3. CASE \/ cursor = 0 /\ cell # Magic
             \/ cursor = 1 /\ cell # Version
             \/ cursor >= 1 /\ Len(file) >= 1 /\ file[1] # Magic
             \/ cursor >= 2 /\ Len(file) >= 2 /\ file[2] # Version
    <2>1. /\ GoodFrames(file') = 0
          /\ \/ Len(file') >= 1 /\ file'[1] # Magic
             \/ cursor >= 1 /\ Len(file') >= 2 /\ file'[2] # Version
      BY <1>1, <1>3, WriteNoHeader
    <2>2. cursor' >= 1 /\ (cursor >= 1 => cursor' >= 2)  BY <1>1
    <2> QED  BY <2>1, <2>2 DEF Spoiled
  <1>4. CASE /\ HeaderOk(file)
             /\ \/ cursor = 2 * GoodFrames(file) + 3 /\ cell.part = "head"
                \/ cursor >= 2 * GoodFrames(file) + 4
    <2>1. /\ HeaderOk(file') /\ GoodFrames(file') = GoodFrames(file)
          /\ Records(file') = Records(file)
      BY <1>1, <1>4, WriteBeyond
    <2>2. cursor' >= 2 * GoodFrames(file) + 4  BY <1>1, <1>4
    <2> QED  BY <2>1, <2>2 DEF Spoiled
  <1>5. pc = "ready" /\ cursor < 2 => cursor = 0 \/ cursor = 1  BY <1>1
  <1> QED  BY <1>2, <1>3, <1>4, <1>5 DEF Spoiled

-----------------------------------------------------------------------------
(* The invariant, method by method. *)

\* The empty directory satisfies the invariant.
LEMMA InitOK == Init => IInv
  <1> SUFFICES ASSUME Init PROVE IInv  OBVIOUS
  <1>1. Promised = {}  BY DEF Init, Promised
  <1>2. TypeOK
    <2>1. file \in Seq(Cells) /\ \A f \in kept : f \in Seq(Cells)  BY HeadersRead DEF Init
    <2>2. /\ attempt \in 0..MaxAppends /\ resets \in 0..MaxResets
          /\ deaths \in 0..MaxDeaths /\ faults \in 0..MaxFaults
      BY LimitsAssumption DEF Init
    <2>3. /\ durability \in {"fsync", "buffered"} /\ pc = "closed"
          /\ cursor \in Nat /\ nextLsn \in Nat \ {0}
          /\ acked = {} /\ covered = {} /\ atRisk = {}
      BY DEF Init
    <2>4. harsh \in BOOLEAN /\ torn \in BOOLEAN /\ unsynced \in BOOLEAN /\ lost \in BOOLEAN
      BY DEF Init
    <2> QED  BY <2>1, <2>2, <2>3, <2>4 DEF TypeOK
  <1>3. AttemptsOK /\ HeaderSteps /\ WholeUnlessTorn /\ SpoiledIfTorn
    BY DEF Init, AttemptsOK, HeaderSteps, WholeUnlessTorn, SpoiledIfTorn
  <1>4. AllNumbered
    <2>1. GoodFrames(<<>>) = 0  BY HeadersRead
    <2>2. 1..(0 - 1) = {}  OBVIOUS
    <2>3. Numbered(<<>>)  BY <2>1, <2>2 DEF Numbered
    <2> QED  BY <2>3 DEF Init, AllNumbered
  <1>5. PromisedBehind /\ PromisedKept  BY <1>1 DEF PromisedBehind, PromisedKept
  <1> QED  BY <1>2, <1>3, <1>4, <1>5 DEF IInv

\* Wal::open of a file that is not there.
LEMMA StepOpenEmpty == ASSUME IInv, OpenEmpty PROVE IInv'
  <1> USE DEF OpenEmpty, setting, handle, limits, damage
  <1>1. Promised' = Promised /\ Promised = {}
    <2>1. Readable(<<>>) = {}  BY HeadersRead, NothingRead
    <2> QED  BY <2>1 DEF IInv, PromisedKept, Promised
  <1>2. TypeOK'  BY DEF IInv, TypeOK
  <1>3. AttemptsOK'  BY DEF IInv, AttemptsOK
  <1>4. HeaderSteps'  BY DEF IInv, HeaderSteps
  <1>5. WholeUnlessTorn' /\ SpoiledIfTorn'  BY DEF WholeUnlessTorn, SpoiledIfTorn
  <1>6. AllNumbered'  BY DEF IInv, AllNumbered, Numbered
  <1>7. PromisedBehind' /\ PromisedKept'  BY <1>1 DEF PromisedBehind, PromisedKept
  <1> QED  BY <1>2, <1>3, <1>4, <1>5, <1>6, <1>7 DEF IInv

LEMMA StepOpenMagic == ASSUME IInv, OpenMagic PROVE IInv'
  <1> USE DEF OpenMagic, setting, limits, damage
  <1>0. /\ TypeOK /\ file = <<>> /\ cursor = 0 /\ Live  BY DEF IInv, HeaderSteps, Live
  <1>1. file' = <<Magic>> /\ kept' = kept \cup {<<Magic>>} /\ cursor' = 1
    <2>1. file \in Seq(Cells) /\ cursor \in Nat  BY <1>0, StateIs
    <2>2. Written(file, cursor, Magic) = <<Magic>>  BY <1>0, <2>1, HeaderWritten
    <2> QED  BY <1>0, <2>2 DEF Put, FileBecomes
  <1>2. TypeOK'
    <2>1. file' \in Seq(Cells) /\ Len(file') = 1  BY <1>1, HeadersRead
    <2>2. \A f \in kept' : f \in Seq(Cells)  BY <1>0, <1>1, <2>1 DEF TypeOK
    <2>3. cursor' \in Nat /\ cursor' <= Len(file')  BY <1>1, <2>1
    <2> QED  BY <1>0, <2>1, <2>2, <2>3 DEF TypeOK
  <1>3. AttemptsOK'
    <2>1. \A k \in 1..Len(<<Magic>>) : <<Magic>>[k].change <= attempt
      BY <1>0, StateIs DEF Magic
    <2> QED  BY <1>1, <2>1 DEF IInv, AttemptsOK
  <1>4. HeaderSteps'  BY <1>1 DEF IInv, HeaderSteps
  <1>5. WholeUnlessTorn' /\ SpoiledIfTorn'  BY DEF WholeUnlessTorn, SpoiledIfTorn
  <1>6. AllNumbered'
    <2>1. \A i \in 1..(0 - 1) : FALSE  OBVIOUS
    <2>2. Numbered(<<Magic>>)  BY <2>1, HeadersRead DEF Numbered
    <2>3. \A f \in kept : Numbered(f)'  BY DEF IInv, AllNumbered, Numbered
    <2>4. Numbered(<<Magic>>)'  BY <2>2 DEF Numbered
    <2> QED  BY <1>1, <2>3, <2>4 DEF AllNumbered
  <1>7. PromisedBehind' /\ PromisedKept'
    <2>1. Promised' = Promised  BY DEF Promised
    <2> QED  BY <1>0, <2>1, PutKeepsPromised, CellFields
  <1> QED  BY <1>2, <1>3, <1>4, <1>5, <1>6, <1>7 DEF IInv

LEMMA StepOpenVersion == ASSUME IInv, OpenVersion PROVE IInv'
  <1> USE DEF OpenVersion, setting, limits
  <1>0. /\ TypeOK /\ file = <<Magic>> /\ cursor = 1 /\ Live  BY DEF IInv, HeaderSteps, Live
  <1>1. /\ file' = <<Magic, Version>> /\ kept' = kept \cup {<<Magic, Version>>}
        /\ cursor' = 2
    <2>1. file \in Seq(Cells) /\ cursor \in Nat  BY <1>0, StateIs
    <2>2. Written(file, cursor, Version) = <<Magic, Version>>  BY <1>0, <2>1, HeaderWritten
    <2> QED  BY <1>0, <2>2 DEF Put, FileBecomes
  <1>2. TypeOK'
    <2>1. file' \in Seq(Cells) /\ Len(file') = 2  BY <1>1, HeadersRead
    <2>2. \A f \in kept' : f \in Seq(Cells)  BY <1>0, <1>1, <2>1 DEF TypeOK
    <2>3. cursor' \in Nat /\ cursor' <= Len(file')  BY <1>1, <2>1
    <2>4. pc' = "ready" /\ nextLsn' \in Nat \ {0} /\ torn' = FALSE  OBVIOUS
    <2> QED  BY <1>0, <2>1, <2>2, <2>3, <2>4 DEF TypeOK
  <1>3. AttemptsOK'
    <2>1. \A k \in 1..Len(<<Magic, Version>>) : <<Magic, Version>>[k].change <= attempt
      BY <1>0, StateIs DEF Magic, Version
    <2> QED  BY <1>1, <2>1 DEF IInv, AttemptsOK
  <1>4. HeaderSteps'  BY <1>1 DEF IInv, HeaderSteps
  <1>5. WholeUnlessTorn'
    <2>1. GoodFrames(file') = 0 /\ HeaderOk(file') /\ Len(file') = 2  BY <1>1, HeadersRead
    <2>2. WholeLog(file')  BY <2>1 DEF WholeLog
    <2>3. CounterAhead'  BY <2>1 DEF CounterAhead
    <2> QED  BY <1>1, <2>1, <2>2, <2>3 DEF WholeUnlessTorn
  <1>6. SpoiledIfTorn'  BY DEF SpoiledIfTorn
  <1>7. AllNumbered'
    <2>1. \A i \in 1..(0 - 1) : FALSE  OBVIOUS
    <2>2. Numbered(<<Magic, Version>>)'  BY <2>1, HeadersRead DEF Numbered
    <2>3. \A f \in kept : Numbered(f)'  BY DEF IInv, AllNumbered, Numbered
    <2> QED  BY <1>1, <2>2, <2>3 DEF AllNumbered
  <1>8. PromisedBehind' /\ PromisedKept'
    <2>1. Promised' = Promised  BY DEF Promised
    <2> QED  BY <1>0, <2>1, PutKeepsPromised, CellFields
  <1> QED  BY <1>2, <1>3, <1>4, <1>5, <1>6, <1>7, <1>8 DEF IInv

\* Wal::open of a file it has written before, or of one it refuses.
LEMMA StepOpenExisting == ASSUME IInv, OpenExisting PROVE IInv'
  <1> USE DEF OpenExisting, setting, limits
  <1> DEFINE t == Truncated(file)
             g == GoodFrames(file)
  <1>0. TypeOK /\ HeaderOk(file) /\ file \in Seq(Cells) /\ g \in Nat  BY StateIs DEF IInv
  <1>1. /\ t \in Seq(Cells) /\ WholeLog(t) /\ GoodFrames(t) = g /\ Records(t) = Records(file)
        /\ \A k \in 1..Len(t) : k <= Len(file) /\ t[k] = file[k]
        /\ Len(t) = 2 * g + 2
    BY <1>0, TruncatedIs DEF WholeLog
  <1>2. /\ file' = t /\ kept' = kept \cup {t} /\ cursor' = Len(t)
        /\ nextLsn' = NextLsnOf(Records(file)) /\ pc' = "ready" /\ torn' = FALSE
    BY DEF FileBecomes, CursorAfterOpen
  <1>3. /\ Records(file) \in Seq(Entries) /\ Len(Records(file)) = g
        /\ \A i \in 1..g : Records(file)[i] \in Entries
    BY <1>0, RecordsAre
  <1> HIDE DEF t, g
  <1>4. /\ nextLsn' \in Nat \ {0}
        /\ g > 0 => Records(file)[g].lsn = nextLsn' - 1
    <2>1. CASE g = 0
      <3>1. Records(file) = <<>>  BY <1>3, <2>1
      <3> QED  BY <1>2, <2>1, <3>1 DEF NextLsnOf
    <2>2. CASE g # 0
      <3>1. g \in 1..g /\ Records(file) # <<>>  BY <1>0, <1>3, <2>2 DEF g
      <3>2. Records(file)[g].lsn \in Nat  BY <1>3, <3>1 DEF Entries
      <3>3. nextLsn' = Records(file)[g].lsn + 1  BY <1>2, <1>3, <3>1 DEF NextLsnOf
      <3> QED  BY <3>2, <3>3
    <2> QED  BY <2>1, <2>2
  <1>5. TypeOK'
    <2>1. file' \in Seq(Cells) /\ \A f \in kept' : f \in Seq(Cells)
      BY <1>0, <1>1, <1>2 DEF TypeOK
    <2>2. cursor' \in Nat /\ cursor' <= Len(file')  BY <1>0, <1>1, <1>2 DEF g
    <2> QED  BY <1>0, <1>2, <1>4, <2>1, <2>2 DEF TypeOK
  <1>6. AttemptsOK'
    <2>1. \A k \in 1..Len(file) : file[k].change <= attempt  BY DEF IInv, AttemptsOK
    <2>2. \A k \in 1..Len(t) : t[k].change <= attempt
      <3>1. \A k \in 1..Len(t) : k \in 1..Len(file)  BY <1>0, <1>1
      <3> QED  BY <1>1, <2>1, <3>1
    <2> QED  BY <1>2, <2>2 DEF IInv, AttemptsOK
  <1>7. HeaderSteps'  BY <1>2 DEF IInv, HeaderSteps
  <1>8. WholeUnlessTorn'
    <2>1. CounterAhead'
      <3>1. GoodFrames(file') = g /\ Records(file') = Records(file)  BY <1>1, <1>2
      <3>2. LastFrame' = Records(file)[g]  BY <3>1 DEF LastFrame
      <3> QED  BY <1>0, <1>4, <3>1, <3>2 DEF CounterAhead, g
    <2> QED  BY <1>1, <1>2, <2>1 DEF WholeUnlessTorn
  <1>9. SpoiledIfTorn'  BY <1>2 DEF SpoiledIfTorn
  <1>10. AllNumbered'
    <2>1. attempt' \in Nat /\ attempt <= attempt'  BY <1>0, StateIs
    <2>2. file \in kept /\ AllNumbered  BY DEF IInv, AttemptsOK
    <2> QED  BY <1>0, <1>1, <1>2, <2>1, <2>2, AllNumberedNext DEF g
  <1>11. Promised' = Promised  BY DEF Promised
  <1>12. Promised \subseteq Readable(file)  BY DEF IInv, PromisedKept
  <1>13. PromisedBehind'
    <2>1. \A c \in Promised : \E i \in 1..g : Records(file)[i].change = c
      BY <1>12 DEF Readable, g
    <2>2. \A i \in 1..g : 2 * i + 2 <= Len(t)  BY <1>0, <1>1 DEF g
    <2> QED  BY <1>1, <1>2, <1>11, <2>1, <2>2 DEF PromisedBehind
  <1>14. PromisedKept'
    <2>1. Readable(t) = Readable(file)  BY <1>1 DEF Readable, g
    <2> QED  BY <1>2, <1>11, <1>12, <2>1 DEF IInv, PromisedKept
  <1> QED  BY <1>5, <1>6, <1>7, <1>8, <1>9, <1>10, <1>13, <1>14 DEF IInv

LEMMA StepOpenRefuses == ASSUME IInv, OpenRefuses PROVE IInv'
  <1> USE DEF OpenRefuses, setting, handle, limits, damage
  <1>1. Promised' = Promised  BY DEF Promised
  <1>2. TypeOK'
    <2>1. cursor <= Len(file)  BY StateIs DEF IInv, HeaderSteps
    <2> QED  BY <2>1 DEF IInv, TypeOK
  <1>3. AttemptsOK' /\ HeaderSteps'  BY DEF IInv, AttemptsOK, HeaderSteps
  <1>4. WholeUnlessTorn' /\ SpoiledIfTorn'  BY DEF WholeUnlessTorn, SpoiledIfTorn
  <1>5. AllNumbered'  BY DEF IInv, AllNumbered, Numbered
  <1>6. PromisedBehind' /\ PromisedKept'
    BY <1>1 DEF IInv, PromisedBehind, PromisedKept, Live
  <1> QED  BY <1>2, <1>3, <1>4, <1>5, <1>6 DEF IInv

\* Wal::append: the frame is written in two parts, and either may be the last that
\* reaches the file.
LEMMA StepAppendHead == ASSUME IInv, AppendHead PROVE IInv'
  <1> USE DEF AppendHead, setting, limits, damage
  <1> DEFINE n == attempt + 1
             cell == Frame("head", n)
             w == Written(file, cursor, cell)
  <1>0. /\ TypeOK /\ Live /\ n \in Attempts /\ attempt \in Nat
        /\ file \in Seq(Cells) /\ cursor \in Nat /\ GoodFrames(file) \in Nat
    BY StateIs DEF IInv, Live, Attempts
  <1>1. /\ cell \in Cells /\ cell.part = "head" /\ cell.lsn = nextLsn /\ cell.change = n
        /\ cell # Magic /\ cell # Version
    BY <1>0, FrameIs
  <1>2. /\ Put(cell) /\ file' = w /\ kept' = kept \cup {w} /\ cursor' = cursor + 1
        /\ attempt' = n /\ pc' = "append"
    BY DEF Put, FileBecomes
  <1>3. /\ w \in Seq(Cells) /\ w[cursor + 1] = cell
        /\ Len(w) = (IF cursor >= Len(file) THEN cursor + 1 ELSE Len(file))
        /\ \A k \in 1..Len(file) : k # cursor + 1 => w[k] = file[k]
        /\ \A k \in (Len(file) + 1)..cursor : w[k] = Hole
    <2> HIDE DEF cell, n
    <2>1. file \in Seq(Cells) /\ cursor \in Nat /\ cell \in Cells  BY <1>0, <1>1
    <2>2. IsWritten(w, file, cursor, cell)  BY <2>1, WrittenIs
    <2> QED  BY <2>2 DEF IsWritten
  <1>4. ~torn => WholeLog(file) /\ cursor = Len(file) /\ CounterAhead
    BY DEF IInv, WholeUnlessTorn
  <1>5. ~torn =>
          /\ HalfFrame(w) /\ Len(w) = cursor + 1
          /\ Records(w) = Records(file) /\ GoodFrames(w) = GoodFrames(file)
    <2> HIDE DEF cell, n
    <2> QED  BY <1>0, <1>1, <1>4, HeadWritten
  <1>6. torn => /\ Spoiled'
                /\ \/ GoodFrames(w) = 0
                   \/ GoodFrames(w) = GoodFrames(file) /\ Records(w) = Records(file)
    <2>1. torn => Spoiled  BY DEF IInv, SpoiledIfTorn
    <2> HIDE DEF cell, n
    <2>2. pc = "ready" /\ cell.part = "head" /\ pc' # "ready"  BY <1>1
    <2> QED  BY <1>0, <1>1, <1>2, <2>1, <2>2, SpoiledPut
  <1>7. \A k \in 1..Len(w) : w[k].change <= n
    <2> SUFFICES ASSUME NEW k \in 1..Len(w) PROVE w[k].change <= n  OBVIOUS
    <2>1. CASE k = cursor + 1  BY <1>0, <1>1, <1>3, <2>1
    <2>2. CASE k # cursor + 1 /\ k \in 1..Len(file)
      <3>1. file[k].change <= attempt /\ w[k] = file[k]  BY <1>3, <2>2 DEF IInv, AttemptsOK
      <3>2. file[k].change \in Int
        <4>1. file[k] \in Cells  BY <1>0, <2>2
        <4> QED  BY <4>1 DEF Cells, Magic, Version, Hole, Attempts
      <3> QED  BY <1>0, <3>1, <3>2
    <2>3. CASE k # cursor + 1 /\ k \notin 1..Len(file)
      <3>1. k \in (Len(file) + 1)..cursor  BY <1>0, <1>3, <2>3
      <3> QED  BY <1>0, <1>3, <3>1 DEF Hole
    <2> QED  BY <2>1, <2>2, <2>3
  <1>8. w[cursor + 1] = [part |-> "head", lsn |-> nextLsn, change |-> n]
    BY <1>3 DEF Frame
  <1>9. ~torn => CounterAhead' /\ (GoodFrames(w) > 0 => LastFrame'.change < n)
    <2> SUFFICES ASSUME ~torn PROVE CounterAhead' /\ (GoodFrames(w) > 0 => LastFrame'.change < n)
      OBVIOUS
    <2>1. LastFrame' = LastFrame  BY <1>2, <1>5 DEF LastFrame
    <2>2. CounterAhead'  BY <1>2, <1>4, <1>5, <2>1 DEF CounterAhead
    <2>3. GoodFrames(file) > 0 => LastFrame.change <= attempt /\ LastFrame.change \in Int
      <3> SUFFICES ASSUME GoodFrames(file) > 0
                   PROVE  LastFrame.change <= attempt /\ LastFrame.change \in Int
        OBVIOUS
      <3>1. GoodFrames(file) \in 1..GoodFrames(file)  BY <1>0
      <3> DEFINE m == 2 * GoodFrames(file) + 1
      <3>2. LastFrame = [lsn |-> file[m].lsn, change |-> file[m].change] /\ m \in 1..Len(file)
            /\ LastFrame \in Entries
        BY <1>0, <3>1, RecordsAre DEF LastFrame
      <3>3. file[m].change <= attempt  BY <3>2 DEF IInv, AttemptsOK
      <3> QED  BY <3>2, <3>3 DEF Entries, Attempts
    <2>4. GoodFrames(w) > 0 => LastFrame'.change < n
      BY <1>0, <1>5, <2>1, <2>3
    <2> QED  BY <2>2, <2>4
  <1>10. n = attempt'  BY <1>2
  <1> HIDE DEF cell, w, n
  <1>11. TypeOK'
    <2>1. /\ file' \in Seq(Cells) /\ \A f \in kept' : f \in Seq(Cells)
      BY <1>0, <1>2, <1>3 DEF TypeOK
    <2>2. cursor' \in Nat /\ (~torn => cursor' <= Len(file'))
      BY <1>0, <1>2, <1>3, <1>5
    <2>3. attempt' \in 0..MaxAppends  BY <1>0, <1>2, StateIs DEF Attempts
    <2> QED  BY <1>0, <1>2, <2>1, <2>2, <2>3 DEF TypeOK
  <1>12. AttemptsOK'
    <2>1. acked \subseteq 1..attempt /\ \A f \in kept : \A k \in 1..Len(f) : f[k].change <= attempt
      BY DEF IInv, AttemptsOK
    <2>2. acked \subseteq 1..n /\ n \notin acked  BY <1>0, <2>1 DEF n
    <2>3. \A f \in kept : \A k \in 1..Len(f) : f[k].change <= n
      <3> SUFFICES ASSUME NEW f \in kept, NEW k \in 1..Len(f) PROVE f[k].change <= n  OBVIOUS
      <3>1. f[k].change <= attempt  BY <2>1
      <3>2. f[k].change \in Int
        <4>1. f[k] \in Cells  BY <1>0 DEF TypeOK
        <4> QED  BY <4>1 DEF Cells, Magic, Version, Hole, Attempts
      <3> QED  BY <1>0, <3>1, <3>2 DEF n
    <2> QED  BY <1>0, <1>2, <1>7, <2>2, <2>3 DEF AttemptsOK
  <1>13. HeaderSteps'  BY <1>2 DEF IInv, HeaderSteps
  <1>14. WholeUnlessTorn'
    <2>1. ~torn => HalfFrame(file') /\ cursor' = Len(file') /\ CounterAhead'
      BY <1>2, <1>5, <1>9
    <2>2. file'[cursor'] = Frame("head", attempt)'
      BY <1>2, <1>8, <1>10 DEF Frame
    <2>3. ~torn => (GoodFrames(file') > 0 => LastFrame'.change < attempt')
      BY <1>2, <1>9, <1>10
    <2> QED  BY <1>2, <2>1, <2>2, <2>3 DEF WholeUnlessTorn
  <1>15. SpoiledIfTorn'  BY <1>2, <1>6 DEF SpoiledIfTorn
  <1>16. AllNumbered'
    <2>1. attempt' \in Nat /\ attempt <= attempt'  BY <1>0, <1>10 DEF n
    <2>2. file \in kept /\ AllNumbered  BY DEF IInv, AttemptsOK
    <2>3. \/ GoodFrames(w) = 0
          \/ GoodFrames(w) = GoodFrames(file) /\ Records(w) = Records(file)
      BY <1>5, <1>6
    <2> QED  BY <1>0, <1>2, <2>1, <2>2, <2>3, AllNumberedNext
  <1>17. PromisedBehind' /\ PromisedKept'
    <2>1. Promised' = Promised  BY DEF Promised
    <2> QED  BY <1>0, <1>1, <1>2, <2>1, PutKeepsPromised
  <1> QED  BY <1>11, <1>12, <1>13, <1>14, <1>15, <1>16, <1>17 DEF IInv

LEMMA StepAppendTail == ASSUME IInv, AppendTail PROVE IInv'
  <1> USE DEF AppendTail, setting, limits, damage
  <1> DEFINE cell == Frame("tail", attempt)
             w == Written(file, cursor, cell)
             g == GoodFrames(file)
             entry == [lsn |-> nextLsn, change |-> attempt]
  <1>0. /\ TypeOK /\ Live /\ attempt \in Attempts /\ attempt \notin acked /\ attempt \in Nat
        /\ file \in Seq(Cells) /\ cursor \in Nat /\ g \in Nat /\ nextLsn \in Nat
    BY StateIs DEF IInv, Live, AttemptsOK
  <1>1. /\ cell \in Cells /\ cell.part = "tail" /\ cell.lsn = nextLsn /\ cell.change = attempt
    BY <1>0, FrameIs
  <1>2. /\ Put(cell) /\ file' = w /\ kept' = kept \cup {w} /\ cursor' = cursor + 1
        /\ pc' = "written"
    BY DEF Put, FileBecomes
  <1>3. /\ w \in Seq(Cells) /\ w[cursor + 1] = cell
        /\ Len(w) = (IF cursor >= Len(file) THEN cursor + 1 ELSE Len(file))
        /\ \A k \in 1..Len(file) : k # cursor + 1 => w[k] = file[k]
        /\ \A k \in (Len(file) + 1)..cursor : w[k] = Hole
    <2> HIDE DEF cell
    <2>1. file \in Seq(Cells) /\ cursor \in Nat /\ cell \in Cells  BY <1>0, <1>1
    <2>2. IsWritten(w, file, cursor, cell)  BY <2>1, WrittenIs
    <2> QED  BY <2>2 DEF IsWritten
  <1>4. ~torn => /\ HalfFrame(file) /\ cursor = Len(file) /\ CounterAhead
                 /\ file[cursor] = Frame("head", attempt)
                 /\ g > 0 => LastFrame.change < attempt
    BY DEF IInv, WholeUnlessTorn
  <1>5. ~torn => /\ WholeLog(w) /\ Len(w) = cursor + 1
                 /\ Records(w) = Append(Records(file), entry) /\ GoodFrames(w) = g + 1
    <2> SUFFICES ASSUME ~torn
                 PROVE  /\ WholeLog(w) /\ Len(w) = cursor + 1
                        /\ Records(w) = Append(Records(file), entry) /\ GoodFrames(w) = g + 1
      OBVIOUS
    <2>1. /\ file[cursor].part = "head" /\ file[cursor].lsn = nextLsn
          /\ file[cursor].change = attempt
      BY <1>0, <1>4, FrameIs
    <2>2. HalfFrame(file) /\ cursor = Len(file)  BY <1>4
    <2> HIDE DEF cell
    <2> QED  BY <1>0, <1>1, <2>1, <2>2, TailWritten
  <1>6. torn => /\ Spoiled'
                /\ \/ GoodFrames(w) = 0
                   \/ GoodFrames(w) = g /\ Records(w) = Records(file)
    <2>1. torn => Spoiled  BY DEF IInv, SpoiledIfTorn
    <2> HIDE DEF cell
    <2>2. pc = "append" /\ cell.part = "tail" /\ pc' # "ready"  BY <1>1
    <2> QED  BY <1>0, <1>1, <1>2, <2>1, <2>2, SpoiledPut
  <1>7. \A k \in 1..Len(w) : w[k].change <= attempt
    <2> SUFFICES ASSUME NEW k \in 1..Len(w) PROVE w[k].change <= attempt  OBVIOUS
    <2>1. CASE k = cursor + 1  BY <1>0, <1>1, <1>3, <2>1
    <2>2. CASE k # cursor + 1 /\ k \in 1..Len(file)
      BY <1>3, <2>2 DEF IInv, AttemptsOK
    <2>3. CASE k # cursor + 1 /\ k \notin 1..Len(file)
      <3>1. k \in (Len(file) + 1)..cursor  BY <1>0, <1>3, <2>3
      <3> QED  BY <1>0, <1>3, <3>1 DEF Hole
    <2> QED  BY <2>1, <2>2, <2>3
  <1>8. ~torn => LastFrame' = entry
    <2> SUFFICES ASSUME ~torn PROVE Records(w)[g + 1] = entry  BY <1>2, <1>5 DEF LastFrame
    <2>1. Records(file) \in Seq(Entries) /\ Len(Records(file)) = g  BY <1>0, RecordsAre
    <2> QED  BY <1>5, <2>1
  <1> HIDE DEF cell, w
  <1>9. TypeOK'
    <2>1. file' \in Seq(Cells) /\ \A f \in kept' : f \in Seq(Cells)
      BY <1>0, <1>2, <1>3 DEF TypeOK
    <2>2. cursor' \in Nat /\ (~torn => cursor' <= Len(file'))
      BY <1>0, <1>2, <1>3, <1>5
    <2> QED  BY <1>0, <1>2, <2>1, <2>2 DEF TypeOK
  <1>10. AttemptsOK'  BY <1>0, <1>2, <1>7 DEF IInv, AttemptsOK
  <1>11. HeaderSteps'  BY <1>2 DEF IInv, HeaderSteps
  <1>12. WholeUnlessTorn'
    <2>1. ~torn => /\ WholeLog(file') /\ cursor' = Len(file') /\ GoodFrames(file') > 0
                   /\ LastFrame' = [lsn |-> nextLsn', change |-> attempt']
      BY <1>0, <1>2, <1>5, <1>8
    <2> QED  BY <1>2, <2>1 DEF WholeUnlessTorn
  <1>13. SpoiledIfTorn'  BY <1>2, <1>6 DEF SpoiledIfTorn
  <1>14. ~torn => Numbered(w)
    <2> SUFFICES ASSUME ~torn, NEW i \in 1..g
                 PROVE  \/ Records(w)[i + 1].lsn = Records(w)[i].lsn + 1
                        \/ /\ Records(w)[i + 1].lsn = Records(w)[i].lsn
                           /\ Records(w)[i].change \notin acked
                           /\ Records(w)[i].change < attempt /\ harsh
      <3>1. ~torn => GoodFrames(w) - 1 = g  BY <1>0, <1>5
      <3> HIDE DEF g
      <3>2. ~torn => 1..(GoodFrames(w) - 1) = 1..g  BY <3>1
      <3> QED  BY <3>2, Zenon DEF Numbered
    <2>1. Records(file) \in Seq(Entries) /\ Len(Records(file)) = g  BY <1>0, RecordsAre
    <2>2. Records(w)[i] = Records(file)[i]  BY <1>5, <2>1
    <2>3. CASE i = g
      <3>1. Records(w)[i + 1] = entry /\ LastFrame = Records(file)[i] /\ g > 0
        BY <1>5, <2>1, <2>3 DEF LastFrame
      <3>2. \/ LastFrame.lsn = nextLsn - 1
            \/ LastFrame.lsn = nextLsn /\ LastFrame.change \notin acked /\ harsh
        BY <1>4, <3>1 DEF CounterAhead
      <3>3. LastFrame.change < attempt  BY <1>4, <3>1
      <3>4. Records(w)[i].lsn = LastFrame.lsn /\ Records(w)[i].change = LastFrame.change
        BY <2>2, <3>1
      <3>5. entry.lsn = nextLsn /\ entry.change = attempt  OBVIOUS
      <3>6. Records(w)[i + 1].lsn = nextLsn /\ nextLsn \in Nat  BY <1>0, <3>1, <3>5
      <3> HIDE DEF entry
      <3>7. CASE LastFrame.lsn = nextLsn - 1
        <4>1. Records(w)[i + 1].lsn = Records(w)[i].lsn + 1  BY <3>4, <3>6, <3>7
        <4> QED  BY <4>1
      <3>8. CASE LastFrame.lsn # nextLsn - 1
        <4>1. Records(w)[i + 1].lsn = Records(w)[i].lsn  BY <3>2, <3>4, <3>6, <3>8
        <4> QED  BY <3>2, <3>3, <3>4, <3>8, <4>1
      <3> QED  BY <3>7, <3>8
    <2>4. CASE i # g
      <3>1. i + 1 \in 1..g /\ i \in 1..(g - 1)
        <4>1. PICK m \in Nat : m = g  BY <1>0
        <4>2. i \in 1..m /\ i # m  BY <2>4, <4>1
        <4>3. i + 1 \in 1..m /\ i \in 1..(m - 1)  BY <4>2
        <4> QED  BY <4>1, <4>3
      <3>2. Records(w)[i + 1] = Records(file)[i + 1]
        <4>1. i + 1 \in 1..Len(Records(file))  BY <2>1, <3>1
        <4>2. Records(w) = Append(Records(file), entry)  BY <1>5
        <4> HIDE DEF entry, w, g
        <4>3. PICK r \in Seq(Entries) : r = Records(file)  BY <2>1
        <4>4. \A j \in 1..Len(r) : Append(r, entry)[j] = r[j]  OBVIOUS
        <4> QED  BY <4>1, <4>2, <4>3, <4>4
      <3>3. Numbered(file)  BY DEF IInv, AllNumbered, AttemptsOK
      <3> QED  BY <2>2, <3>1, <3>2, <3>3 DEF Numbered
    <2> QED  BY <2>3, <2>4
  <1>15. AllNumbered'
    <2>1. attempt' \in Nat /\ attempt <= attempt'  BY <1>0
    <2>2. file \in kept /\ AllNumbered  BY DEF IInv, AttemptsOK
    <2>3. \A f \in kept' :
            \/ f \in kept
            \/ GoodFrames(f) = 0
            \/ \E h \in kept : GoodFrames(f) = GoodFrames(h) /\ Records(f) = Records(h)
            \/ Numbered(f)'
      BY <1>2, <1>6, <1>14, <2>2 DEF Numbered
    <2> QED  BY <1>0, <2>1, <2>2, <2>3, AllNumberedNext
  <1>16. PromisedBehind' /\ PromisedKept'
    <2>1. Promised' = Promised  BY DEF Promised
    <2> QED  BY <1>0, <1>1, <1>2, <2>1, PutKeepsPromised
  <1> QED  BY <1>9, <1>10, <1>11, <1>12, <1>13, <1>15, <1>16 DEF IInv

\* Only now is append's caller told Ok, behind the fsync if there is one.
LEMMA StepAppendOk == ASSUME IInv, AppendOk PROVE IInv'
  <1> USE DEF AppendOk, setting, limits
  <1>0. /\ TypeOK /\ Live /\ attempt \in Attempts /\ attempt \notin acked /\ attempt \in Nat
        /\ file \in Seq(Cells) /\ file \in kept /\ GoodFrames(file) \in Nat
        /\ nextLsn \in Nat /\ pc' = "ready" /\ file' = file
    BY StateIs DEF IInv, Live, AttemptsOK, Synced
  <1>1. \/ kept' = kept
        \/ durability = "fsync" /\ ~unsynced /\ kept' = {file}
    BY DEF Synced
  <1>2. kept' \subseteq kept /\ file \in kept'  BY <1>0, <1>1
  <1>3. ~torn => /\ WholeLog(file) /\ cursor = Len(file) /\ GoodFrames(file) > 0
                 /\ LastFrame = [lsn |-> nextLsn, change |-> attempt]
    BY DEF IInv, WholeUnlessTorn
  <1>4. TypeOK'
    <2>1. \A f \in kept' : f \in Seq(Cells)  BY <1>0, <1>2 DEF TypeOK
    <2>2. nextLsn' \in Nat \ {0}  BY <1>0
    <2>3. acked' \subseteq Attempts /\ atRisk' \subseteq acked'  BY <1>0 DEF TypeOK
    <2>4. ~torn /\ pc # "closed" => cursor <= Len(file)  BY <1>0 DEF TypeOK
    <2> QED  BY <1>0, <2>1, <2>2, <2>3, <2>4 DEF TypeOK
  <1>5. AttemptsOK'
    <2>1. acked' \subseteq 1..attempt'
      <3>1. attempt \in 1..attempt  BY <1>0 DEF Attempts
      <3>2. acked \subseteq 1..attempt  BY DEF IInv, AttemptsOK
      <3> QED  BY <3>1, <3>2
    <2>2. \A f \in kept' : \A k \in 1..Len(f) : f[k].change <= attempt'
      BY <1>2 DEF IInv, AttemptsOK
    <2> QED  BY <1>0, <1>2, <2>1, <2>2 DEF AttemptsOK
  <1>6. HeaderSteps'  BY <1>0 DEF IInv, HeaderSteps
  <1>7. WholeUnlessTorn'
    <2>1. ~torn => CounterAhead'
      <3>1. ~torn => LastFrame.lsn = nextLsn' - 1  BY <1>0, <1>3
      <3>2. LastFrame' = LastFrame  BY <1>0 DEF LastFrame
      <3> QED  BY <3>1, <3>2 DEF CounterAhead
    <2> QED  BY <1>0, <1>3, <2>1 DEF WholeUnlessTorn
  <1>8. SpoiledIfTorn'
    BY <1>0 DEF IInv, SpoiledIfTorn, Spoiled
  <1>9. AllNumbered'
    <2>1. attempt' \in Nat /\ attempt <= attempt'  BY <1>0
    <2> QED  BY <1>0, <1>2, <2>1, AllNumberedNext DEF IInv
  <1>10. Promised' \subseteq Promised \cup {attempt} /\ (attempt \in Promised' => ~torn)
    BY <1>0 DEF Promised
  <1>11. ~torn => \E i \in 1..GoodFrames(file) :
                     Records(file)[i].change = attempt /\ 2 * i + 2 <= cursor
    <2> DEFINE g == GoodFrames(file)
    <2>1. g \in Nat /\ (~torn => g > 0 /\ cursor = 2 * g + 2 /\ Records(file)[g].change = attempt)
      BY <1>0, <1>3 DEF WholeLog, LastFrame
    <2> HIDE DEF g
    <2>2. ~torn => g \in 1..g /\ 2 * g + 2 <= cursor  BY <2>1
    <2> QED  BY <2>1, <2>2 DEF g
  <1>12. PromisedBehind'
    BY <1>0, <1>10, <1>11 DEF IInv, PromisedBehind
  <1>13. PromisedKept'
    <2>1. attempt \in Promised' => attempt \in Readable(file)  BY <1>10, <1>11 DEF Readable
    <2>2. Promised' \subseteq Readable(file)  BY <1>10, <2>1 DEF IInv, PromisedKept
    <2>3. ASSUME durability = "fsync", ~unsynced
          PROVE  \A f \in kept' : Promised' \subseteq Readable(f)
      <3>1. kept' = {file}  BY <2>3 DEF Synced
      <3> QED  BY <2>2, <3>1
    <2> QED  BY <1>0, <2>2, <2>3 DEF PromisedKept
  <1> QED  BY <1>4, <1>5, <1>6, <1>7, <1>8, <1>9, <1>12, <1>13 DEF IInv

\* A write or an fsync of append that returns an error.
LEMMA StepAppendFails == ASSUME IInv, AppendFails PROVE IInv'
  <1> USE DEF AppendFails, setting, handle
  <1>0. /\ TypeOK /\ Live /\ attempt \notin acked /\ attempt \in Nat /\ cursor \in Nat
        /\ GoodFrames(file) \in Nat
        /\ pc' = "ready" /\ file' = file /\ kept' = kept /\ cursor' = cursor
    BY StateIs DEF IInv, Live, AttemptsOK
  <1>1. TypeOK'
    <2>1. torn' \in BOOLEAN /\ unsynced' \in BOOLEAN  OBVIOUS
    <2>2. faults' \in 0..MaxFaults  BY <1>0, LimitsAssumption DEF TypeOK
    <2> QED  BY <1>0, <2>1, <2>2 DEF TypeOK
  <1>2. AttemptsOK'  BY <1>0 DEF IInv, AttemptsOK
  <1>3. HeaderSteps'  BY <1>0 DEF IInv, HeaderSteps
  <1>4. WholeUnlessTorn'
    <2> SUFFICES ASSUME ~torn'
                 PROVE  WholeLog(file) /\ cursor = Len(file) /\ CounterAhead'
      BY <1>0 DEF WholeUnlessTorn
    <2>1. pc = "written" /\ ~torn  OBVIOUS
    <2>2. /\ WholeLog(file) /\ cursor = Len(file) /\ GoodFrames(file) > 0
          /\ LastFrame = [lsn |-> nextLsn, change |-> attempt]
      BY <2>1 DEF IInv, WholeUnlessTorn
    <2>3. LastFrame' = LastFrame  BY <1>0 DEF LastFrame
    <2>4. LastFrame.lsn = nextLsn /\ LastFrame.change \notin acked /\ harsh  BY <1>0, <2>2
    <2>5. CounterAhead'  BY <2>3, <2>4 DEF CounterAhead
    <2> QED  BY <2>2, <2>5
  <1>5. SpoiledIfTorn'
    <2> SUFFICES ASSUME torn' PROVE Spoiled'  BY DEF SpoiledIfTorn
    <2>1. CASE torn
      <3>1. Spoiled  BY <2>1 DEF IInv, SpoiledIfTorn
      <3> QED  BY <1>0, <3>1 DEF Spoiled
    <2>2. CASE ~torn
      <3>1. pc = "append"  BY <2>2
      <3>2. HalfFrame(file) /\ cursor = Len(file)  BY <2>2, <3>1 DEF IInv, WholeUnlessTorn
      <3>3. HeaderOk(file) /\ cursor = 2 * GoodFrames(file) + 3  BY <3>2 DEF HalfFrame
      <3> QED  BY <1>0, <3>3 DEF Spoiled
    <2> QED  BY <2>1, <2>2
  <1>6. AllNumbered'  BY <1>0 DEF IInv, AllNumbered, Numbered
  <1>7. PromisedBehind' /\ PromisedKept'
    <2>1. Promised' = Promised  BY DEF Promised
    <2>2. PromisedBehind'  BY <1>0, <2>1 DEF IInv, PromisedBehind
    <2>3. PromisedKept'  BY <1>0, <2>1 DEF IInv, PromisedKept
    <2> QED  BY <2>2, <2>3
  <1> QED  BY <1>1, <1>2, <1>3, <1>4, <1>5, <1>6, <1>7 DEF IInv

\* Wal::reset: what a snapshot holds is promised no longer, the file is truncated,
\* and the handle follows it.
LEMMA StepResetTruncate == ASSUME IInv, ResetTruncate PROVE IInv'
  <1> USE DEF ResetTruncate, setting
  <1>0. /\ TypeOK /\ attempt \in Nat /\ pc' = "resetMagic" /\ file' = <<>> /\ cursor' = 0
        /\ kept' = kept \cup {<<>>} /\ Len(<<>>) = 0
    BY StateIs DEF IInv, FileBecomes
  <1>1. TypeOK'
    <2>1. file' \in Seq(Cells) /\ \A f \in kept' : f \in Seq(Cells)
      BY <1>0, HeadersRead DEF TypeOK
    <2>2. resets' \in 0..MaxResets  BY <1>0, LimitsAssumption DEF TypeOK
    <2>3. cursor' \in Nat /\ cursor' <= Len(file')  BY <1>0
    <2>4. covered' \subseteq Attempts /\ lost' \in BOOLEAN  BY <1>0 DEF TypeOK
    <2> QED  BY <1>0, <2>1, <2>2, <2>3, <2>4 DEF TypeOK
  <1>2. AttemptsOK'
    <2>1. \A k \in 1..Len(<<>>) : FALSE  OBVIOUS
    <2> QED  BY <1>0, <2>1 DEF IInv, AttemptsOK
  <1>3. HeaderSteps'  BY <1>0 DEF IInv, HeaderSteps
  <1>4. WholeUnlessTorn' /\ SpoiledIfTorn'  BY <1>0 DEF WholeUnlessTorn, SpoiledIfTorn
  <1>5. AllNumbered'
    <2>1. attempt' \in Nat /\ attempt <= attempt'  BY <1>0
    <2> QED  BY <1>0, <2>1, HeadersRead, AllNumberedNext DEF IInv
  <1>6. PromisedBehind' /\ PromisedKept'
    <2>1. Promised' = {}  BY DEF Promised
    <2> QED  BY <2>1 DEF PromisedBehind, PromisedKept
  <1> QED  BY <1>1, <1>2, <1>3, <1>4, <1>5, <1>6 DEF IInv

LEMMA StepResetMagic == ASSUME IInv, ResetMagic PROVE IInv'
  <1> USE DEF ResetMagic, setting, limits, damage
  <1>0. /\ TypeOK /\ file = <<>> /\ cursor = 0 /\ Live /\ attempt \in Nat
    BY StateIs DEF IInv, HeaderSteps, Live
  <1>1. file' = <<Magic>> /\ kept' = kept \cup {<<Magic>>} /\ cursor' = 1
    <2>1. file \in Seq(Cells) /\ cursor \in Nat  BY <1>0, StateIs
    <2>2. Written(file, cursor, Magic) = <<Magic>>  BY <1>0, <2>1, HeaderWritten
    <2> QED  BY <1>0, <2>2 DEF Put, FileBecomes
  <1>2. TypeOK'
    <2>1. file' \in Seq(Cells) /\ Len(file') = 1  BY <1>1, HeadersRead
    <2>2. \A f \in kept' : f \in Seq(Cells)  BY <1>0, <1>1, <2>1 DEF TypeOK
    <2>3. cursor' \in Nat /\ cursor' <= Len(file')  BY <1>1, <2>1
    <2> QED  BY <1>0, <2>1, <2>2, <2>3 DEF TypeOK
  <1>3. AttemptsOK'
    <2>1. \A k \in 1..Len(<<Magic>>) : <<Magic>>[k].change <= attempt
      BY <1>0 DEF Magic
    <2> QED  BY <1>1, <2>1 DEF IInv, AttemptsOK
  <1>4. HeaderSteps'  BY <1>1 DEF IInv, HeaderSteps
  <1>5. WholeUnlessTorn' /\ SpoiledIfTorn'  BY DEF WholeUnlessTorn, SpoiledIfTorn
  <1>6. AllNumbered'
    <2>1. attempt' \in Nat /\ attempt <= attempt'  BY <1>0
    <2> QED  BY <1>0, <1>1, <2>1, HeadersRead, AllNumberedNext DEF IInv
  <1>7. PromisedBehind' /\ PromisedKept'
    <2>1. Promised' = Promised  BY DEF Promised
    <2> QED  BY <1>0, <2>1, PutKeepsPromised, CellFields
  <1> QED  BY <1>2, <1>3, <1>4, <1>5, <1>6, <1>7 DEF IInv

LEMMA StepResetVersion == ASSUME IInv, ResetVersion PROVE IInv'
  <1> USE DEF ResetVersion, setting, limits
  <1>0. /\ TypeOK /\ file = <<Magic>> /\ cursor = 1 /\ Live /\ attempt \in Nat
    BY StateIs DEF IInv, HeaderSteps, Live
  <1>1. /\ file' = <<Magic, Version>> /\ kept' = kept \cup {<<Magic, Version>>}
        /\ cursor' = 2
    <2>1. file \in Seq(Cells) /\ cursor \in Nat  BY <1>0, StateIs
    <2>2. Written(file, cursor, Version) = <<Magic, Version>>  BY <1>0, <2>1, HeaderWritten
    <2> QED  BY <1>0, <2>2 DEF Put, FileBecomes
  <1>2. TypeOK'
    <2>1. file' \in Seq(Cells) /\ Len(file') = 2  BY <1>1, HeadersRead
    <2>2. \A f \in kept' : f \in Seq(Cells)  BY <1>0, <1>1, <2>1 DEF TypeOK
    <2>3. cursor' \in Nat /\ cursor' <= Len(file')  BY <1>1, <2>1
    <2>4. pc' = "resetSync" /\ torn' = FALSE  OBVIOUS
    <2> QED  BY <1>0, <2>1, <2>2, <2>3, <2>4 DEF TypeOK
  <1>3. AttemptsOK'
    <2>1. \A k \in 1..Len(<<Magic, Version>>) : <<Magic, Version>>[k].change <= attempt
      BY <1>0 DEF Magic, Version
    <2> QED  BY <1>1, <2>1 DEF IInv, AttemptsOK
  <1>4. HeaderSteps'  BY <1>1 DEF IInv, HeaderSteps
  <1>5. WholeUnlessTorn' /\ SpoiledIfTorn'  BY DEF WholeUnlessTorn, SpoiledIfTorn
  <1>6. AllNumbered'
    <2>1. attempt' \in Nat /\ attempt <= attempt'  BY <1>0
    <2> QED  BY <1>0, <1>1, <2>1, HeadersRead, AllNumberedNext DEF IInv
  <1>7. PromisedBehind' /\ PromisedKept'
    <2>1. Promised' = Promised  BY DEF Promised
    <2> QED  BY <1>0, <2>1, PutKeepsPromised, CellFields
  <1> QED  BY <1>2, <1>3, <1>4, <1>5, <1>6, <1>7 DEF IInv

LEMMA StepResetSync == ASSUME IInv, ResetSync PROVE IInv'
  <1> USE DEF ResetSync, setting, handle, limits
  <1>0. /\ TypeOK /\ attempt \in Nat /\ file = <<Magic, Version>> /\ cursor = 2 /\ ~torn
        /\ file \in kept /\ file' = file /\ kept' = {file} /\ pc' = "ready" /\ Live
    BY StateIs DEF IInv, HeaderSteps, AttemptsOK, Live
  <1>1. TypeOK'  BY <1>0 DEF TypeOK
  <1>2. AttemptsOK'  BY <1>0 DEF IInv, AttemptsOK
  <1>3. HeaderSteps'  BY <1>0 DEF IInv, HeaderSteps
  <1>4. WholeUnlessTorn'
    <2>1. GoodFrames(file) = 0 /\ HeaderOk(file) /\ Len(file) = 2  BY <1>0, HeadersRead
    <2>2. WholeLog(file)  BY <2>1 DEF WholeLog
    <2>3. CounterAhead'  BY <1>0, <2>1 DEF CounterAhead
    <2> QED  BY <1>0, <2>1, <2>2, <2>3 DEF WholeUnlessTorn
  <1>5. SpoiledIfTorn'  BY <1>0 DEF SpoiledIfTorn
  <1>6. AllNumbered'
    <2>1. attempt' \in Nat /\ attempt <= attempt'  BY <1>0
    <2> QED  BY <1>0, <2>1, AllNumberedNext DEF IInv
  <1>7. PromisedBehind' /\ PromisedKept'
    <2>1. Promised' = Promised  BY DEF Promised
    <2>2. PromisedBehind'  BY <1>0, <2>1 DEF IInv, PromisedBehind
    <2>3. PromisedKept'  BY <1>0, <2>1 DEF IInv, PromisedKept
    <2> QED  BY <2>2, <2>3
  <1> QED  BY <1>1, <1>2, <1>3, <1>4, <1>5, <1>6, <1>7 DEF IInv

\* A write or the fsync of reset that returns an error.
LEMMA StepResetFails == ASSUME IInv, ResetFails PROVE IInv'
  <1> USE DEF ResetFails, setting, handle
  <1>0. /\ TypeOK /\ Live /\ attempt \in Nat /\ cursor \in Nat /\ GoodFrames(file) \in Nat
        /\ pc' = "ready" /\ file' = file /\ kept' = kept /\ cursor' = cursor
    BY StateIs DEF IInv, Live
  <1>1. TypeOK'
    <2>1. torn' \in BOOLEAN /\ unsynced' \in BOOLEAN  OBVIOUS
    <2>2. faults' \in 0..MaxFaults  BY <1>0, LimitsAssumption DEF TypeOK
    <2> QED  BY <1>0, <2>1, <2>2 DEF TypeOK
  <1>2. AttemptsOK'  BY <1>0 DEF IInv, AttemptsOK
  <1>3. HeaderSteps'  BY <1>0 DEF IInv, HeaderSteps
  <1>4. pc = "resetSync" => file = <<Magic, Version>> /\ cursor = 2
    BY DEF IInv, HeaderSteps
  <1>5. WholeUnlessTorn'
    <2> SUFFICES ASSUME ~torn'
                 PROVE  WholeLog(file) /\ cursor = Len(file) /\ CounterAhead'
      BY <1>0 DEF WholeUnlessTorn
    <2>1. file = <<Magic, Version>> /\ cursor = 2  BY <1>4
    <2>2. GoodFrames(file) = 0 /\ HeaderOk(file) /\ Len(file) = 2  BY <2>1, HeadersRead
    <2>3. WholeLog(file)  BY <2>2 DEF WholeLog
    <2>4. CounterAhead'  BY <1>0, <2>2 DEF CounterAhead
    <2> QED  BY <2>1, <2>2, <2>3, <2>4
  <1>6. SpoiledIfTorn'
    <2> SUFFICES ASSUME torn' PROVE Spoiled'  BY DEF SpoiledIfTorn
    <2>1. CASE pc = "resetSync"
      <3>1. ~torn  BY <2>1 DEF IInv, HeaderSteps
      <3> QED  BY <2>1, <3>1
    <2>2. CASE pc # "resetSync"
      <3>1. cursor < 2  BY <2>2 DEF IInv, HeaderSteps
      <3> QED  BY <1>0, <3>1 DEF Spoiled
    <2> QED  BY <2>1, <2>2
  <1>7. AllNumbered'  BY <1>0 DEF IInv, AllNumbered, Numbered
  <1>8. PromisedBehind' /\ PromisedKept'
    <2>1. Promised' = Promised  BY DEF Promised
    <2>2. PromisedBehind'  BY <1>0, <2>1 DEF IInv, PromisedBehind
    <2>3. PromisedKept'  BY <1>0, <2>1 DEF IInv, PromisedKept
    <2> QED  BY <2>2, <2>3
  <1> QED  BY <1>1, <1>2, <1>3, <1>5, <1>6, <1>7, <1>8 DEF IInv

\* Wal::records_after opens the live file again: it may write a header or cut a
\* tail, but never what the live handle relies on.
LEMMA StepReadRecords == ASSUME IInv, ReadRecords PROVE IInv'
  <1> USE DEF ReadRecords, setting, handle, limits, damage
  <1> DEFINE t == Truncated(file)
  <1>0. /\ TypeOK /\ Live /\ attempt \in Nat /\ cursor \in Nat /\ file \in Seq(Cells)
        /\ GoodFrames(file) \in Nat /\ file \in kept /\ Len(file) \in Nat
        /\ Promised \subseteq Readable(file)
    BY StateIs DEF IInv, Live, AttemptsOK, PromisedKept
  <1>1. Promised' = Promised  BY DEF Promised
  <1>2. CASE file' = file /\ kept' = kept
    <2>1. TypeOK' /\ AttemptsOK'  BY <1>2 DEF IInv, TypeOK, AttemptsOK
    <2>2. HeaderSteps'  BY <1>2 DEF IInv, HeaderSteps
    <2>3. WholeUnlessTorn'  BY <1>2 DEF IInv, WholeUnlessTorn, CounterAhead, LastFrame
    <2>4. SpoiledIfTorn'  BY <1>2 DEF IInv, SpoiledIfTorn, Spoiled
    <2>5. AllNumbered'  BY <1>2 DEF IInv, AllNumbered, Numbered
    <2>6. PromisedBehind' /\ PromisedKept'
      BY <1>1, <1>2 DEF IInv, PromisedBehind, PromisedKept, Live
    <2> QED  BY <2>1, <2>2, <2>3, <2>4, <2>5, <2>6 DEF IInv
  <1>3. CASE file = <<>> /\ file' = <<Magic, Version>> /\ kept' = kept \cup {<<Magic, Version>>}
    <2>0. Promised = {}
      <3>1. Readable(<<>>) = {}  BY HeadersRead, NothingRead
      <3> QED  BY <1>0, <1>3, <3>1
    <2>1. torn
      <3>1. ~WholeLog(file)  BY <1>3, HeadersRead DEF WholeLog
      <3> QED  BY <3>1 DEF IInv, WholeUnlessTorn
    <2>2. cursor < 2
      <3>1. Spoiled  BY <2>1 DEF IInv, SpoiledIfTorn
      <3>2. Len(file) = 0 /\ ~HeaderOk(file)  BY <1>3, HeadersRead
      <3> QED  BY <3>1, <3>2 DEF Spoiled
    <2>3. TypeOK'
      <3>1. file' \in Seq(Cells) /\ \A f \in kept' : f \in Seq(Cells)
        BY <1>0, <1>3, HeadersRead DEF TypeOK
      <3> QED  BY <1>0, <2>1, <3>1 DEF TypeOK
    <2>4. AttemptsOK'
      <3>1. \A k \in 1..Len(<<Magic, Version>>) : <<Magic, Version>>[k].change <= attempt
        BY <1>0 DEF Magic, Version
      <3> QED  BY <1>3, <3>1 DEF IInv, AttemptsOK
    <2>5. HeaderSteps'  BY DEF IInv, HeaderSteps
    <2>6. WholeUnlessTorn'  BY <2>1 DEF WholeUnlessTorn
    <2>7. SpoiledIfTorn'  BY <2>2 DEF SpoiledIfTorn, Spoiled
    <2>8. AllNumbered'
      <3>1. attempt' \in Nat /\ attempt <= attempt'  BY <1>0
      <3> QED  BY <1>0, <1>3, <3>1, HeadersRead, AllNumberedNext DEF IInv
    <2>9. PromisedBehind' /\ PromisedKept'
      BY <1>1, <2>0 DEF PromisedBehind, PromisedKept
    <2> QED  BY <2>3, <2>4, <2>5, <2>6, <2>7, <2>8, <2>9 DEF IInv
  <1>4. CASE HeaderOk(file) /\ file' = t /\ kept' = kept \cup {t}
    <2>0. /\ t \in Seq(Cells) /\ GoodFrames(t) = GoodFrames(file) /\ Records(t) = Records(file)
          /\ \A k \in 1..Len(t) : k <= Len(file) /\ t[k] = file[k]
          /\ WholeLog(t) /\ (WholeLog(file) => t = file)
      BY <1>0, <1>4, TruncatedIs
    <2>1. ~torn => t = file  BY <2>0 DEF IInv, WholeUnlessTorn
    <2> HIDE DEF t
    <2>2. TypeOK'
      <3>1. file' \in Seq(Cells) /\ \A f \in kept' : f \in Seq(Cells)
        BY <1>0, <1>4, <2>0 DEF TypeOK
      <3> QED  BY <1>0, <1>4, <2>1, <3>1 DEF TypeOK
    <2>3. AttemptsOK'
      <3>1. \A k \in 1..Len(t) : k \in 1..Len(file)  BY <1>0, <2>0
      <3>2. \A k \in 1..Len(t) : t[k].change <= attempt
        BY <2>0, <3>1 DEF IInv, AttemptsOK
      <3> QED  BY <1>0, <1>4, <3>2 DEF IInv, AttemptsOK
    <2>4. HeaderSteps'  BY DEF IInv, HeaderSteps
    <2>5. WholeUnlessTorn'
      BY <1>4, <2>1 DEF IInv, WholeUnlessTorn, CounterAhead, LastFrame
    <2>6. SpoiledIfTorn'
      <3> SUFFICES ASSUME torn PROVE Spoiled'  BY DEF SpoiledIfTorn
      <3>1. Spoiled  BY DEF IInv, SpoiledIfTorn
      <3>2. \/ cursor < 2
            \/ cursor = 2 * GoodFrames(file) + 3
            \/ cursor >= 2 * GoodFrames(file) + 4
        BY <1>4, <3>1 DEF Spoiled, HeaderOk
      <3>3. HeaderOk(file') /\ GoodFrames(file') = GoodFrames(file)
        BY <1>4, <2>0 DEF WholeLog
      <3> QED  BY <3>2, <3>3 DEF Spoiled
    <2>7. AllNumbered'
      <3>1. attempt' \in Nat /\ attempt <= attempt'  BY <1>0
      <3> QED  BY <1>0, <1>4, <2>0, <3>1, AllNumberedNext DEF IInv
    <2>8. PromisedBehind'
      BY <1>0, <1>1, <1>4, <2>0 DEF IInv, PromisedBehind
    <2>9. PromisedKept'
      <3>1. Readable(t) = Readable(file)  BY <2>0 DEF Readable
      <3> QED  BY <1>0, <1>1, <1>4, <3>1 DEF IInv, PromisedKept
    <2> QED  BY <2>2, <2>3, <2>4, <2>5, <2>6, <2>7, <2>8, <2>9 DEF IInv
  <1> QED  BY <1>2, <1>3, <1>4 DEF FileBecomes

\* kill -9, or a power loss, which may take back what no fsync has secured.
LEMMA StepDeath == ASSUME IInv, Death PROVE IInv'
  <1> USE DEF Death, setting
  <1>0. /\ TypeOK /\ attempt \in Nat /\ file \in kept
        /\ pc' = "closed" /\ cursor' = 0 /\ nextLsn' = 1
    BY StateIs DEF IInv, AttemptsOK
  <1>1. file' \in kept /\ file' \in kept' /\ kept' \subseteq kept  BY <1>0
  <1>2. lost' \in BOOLEAN
    <2>1. lost \in BOOLEAN  BY <1>0 DEF TypeOK
    <2> QED  BY <2>1
  <1>3. TypeOK'
    <2>1. file' \in Seq(Cells) /\ \A f \in kept' : f \in Seq(Cells)
      BY <1>0, <1>1 DEF TypeOK
    <2>2. deaths' \in 0..MaxDeaths  BY <1>0, LimitsAssumption DEF TypeOK
    <2> QED  BY <1>0, <1>2, <2>1, <2>2 DEF TypeOK
  <1>4. AttemptsOK'  BY <1>0, <1>1 DEF IInv, AttemptsOK
  <1>5. HeaderSteps'  BY <1>0 DEF IInv, HeaderSteps
  <1>6. WholeUnlessTorn' /\ SpoiledIfTorn'  BY <1>0 DEF WholeUnlessTorn, SpoiledIfTorn
  <1>7. AllNumbered'
    <2>1. attempt' \in Nat /\ attempt <= attempt'  BY <1>0
    <2> QED  BY <1>0, <1>1, <2>1, AllNumberedNext DEF IInv
  <1>8. PromisedBehind'  BY <1>0 DEF PromisedBehind, Live
  <1>9. PromisedKept'
    <2>1. CASE UNCHANGED <<file, kept, lost>>
      <3>1. Promised' = Promised  BY <2>1 DEF Promised
      <3> QED  BY <2>1, <3>1 DEF IInv, PromisedKept
    <2>2. CASE /\ kept' = {file'}
               /\ lost' = (lost \/ durability = "buffered" \/ unsynced)
      <3>1. Promised' \subseteq Readable(file')
        <4>1. CASE lost'  BY <4>1 DEF Promised
        <4>2. CASE ~lost'
          <5>1. ~lost /\ durability # "buffered" /\ ~unsynced  BY <2>2, <4>2
          <5>2. durability = "fsync"  BY <1>0, <5>1 DEF TypeOK
          <5>3. Promised' = Promised  BY <4>2, <5>1 DEF Promised
          <5> QED  BY <1>1, <5>1, <5>2, <5>3 DEF IInv, PromisedKept
        <4> QED  BY <4>1, <4>2
      <3> QED  BY <2>2, <3>1 DEF PromisedKept
    <2> QED  BY <2>1, <2>2
  <1> QED  BY <1>3, <1>4, <1>5, <1>6, <1>7, <1>8, <1>9 DEF IInv

LEMMA StepIdle == ASSUME IInv, UNCHANGED vars PROVE IInv'
  <1> USE DEF vars, setting, handle, limits, damage
  <1>1. TypeOK' /\ AttemptsOK'  BY DEF IInv, TypeOK, AttemptsOK
  <1>2. HeaderSteps'  BY DEF IInv, HeaderSteps
  <1>3. WholeUnlessTorn'  BY DEF IInv, WholeUnlessTorn, CounterAhead, LastFrame, Frame
  <1>4. SpoiledIfTorn'  BY DEF IInv, SpoiledIfTorn, Spoiled
  <1>5. AllNumbered'  BY DEF IInv, AllNumbered, Numbered
  <1>6. PromisedBehind' /\ PromisedKept'
    BY DEF IInv, PromisedBehind, PromisedKept, Live, Promised
  <1> QED  BY <1>1, <1>2, <1>3, <1>4, <1>5, <1>6 DEF IInv

-----------------------------------------------------------------------------
(* The theorems. *)

\* The invariant holds of every state of the file and its handle: every method of
\* Wal keeps it, a kill -9 or a power loss between any two writes included.
THEOREM WalInvariant == Spec => []IInv
  <1>1. IInv /\ [Next]_vars => IInv'
    <2> SUFFICES ASSUME IInv, [Next]_vars PROVE IInv'  OBVIOUS
    <2>1. CASE OpenEmpty \/ OpenMagic \/ OpenVersion \/ OpenExisting \/ OpenRefuses
      BY <2>1, StepOpenEmpty, StepOpenMagic, StepOpenVersion, StepOpenExisting, StepOpenRefuses
    <2>2. CASE AppendHead \/ AppendTail \/ AppendOk \/ AppendFails
      BY <2>2, StepAppendHead, StepAppendTail, StepAppendOk, StepAppendFails
    <2>3. CASE ResetTruncate \/ ResetMagic \/ ResetVersion \/ ResetSync \/ ResetFails
      BY <2>3, StepResetTruncate, StepResetMagic, StepResetVersion, StepResetSync, StepResetFails
    <2>4. CASE ReadRecords \/ Death \/ Rest \/ UNCHANGED vars
      BY <2>4, StepReadRecords, StepDeath, StepIdle DEF Rest
    <2> QED  BY <2>1, <2>2, <2>3, <2>4 DEF Next
  <1> QED  BY <1>1, InitOK, PTL DEF Spec

\* Every variable keeps its type, and the handle never stands past the end of a
\* file that no write stopped half way in.
THEOREM WalTypes == Spec => []TypeOK
  <1>1. IInv => TypeOK  BY DEF IInv
  <1> QED  BY <1>1, WalInvariant, PTL

\* Whatever append answered Ok to and no snapshot holds is read back (Wal::append,
\* Wal::reset, Wal::open).
THEOREM AckedSurvives == Spec => []AckedReadable
  <1>1. IInv => AckedReadable  BY DEF IInv, PromisedKept, Promised, AckedReadable
  <1> QED  BY <1>1, WalInvariant, PTL

\* What recovery reads is numbered without a gap (Wal::open, Wal::append).
THEOREM LogNumbered == Spec => []ReadableNumbered
  <1>1. IInv => ReadableNumbered
    <2> SUFFICES ASSUME IInv, NEW i \in 1..GoodFrames(file), NEW j \in 1..GoodFrames(file), j = i + 1
                 PROVE  \/ Records(file)[j].lsn = Records(file)[i].lsn + 1
                        \/ /\ Records(file)[j].lsn = Records(file)[i].lsn
                           /\ Records(file)[i].change \notin acked
      BY DEF ReadableNumbered
    <2>1. Numbered(file)  BY DEF IInv, AllNumbered, AttemptsOK
    <2>2. i \in 1..(GoodFrames(file) - 1)  BY StateIs DEF IInv
    <2> QED  BY <2>1, <2>2 DEF Numbered
  <1> QED  BY <1>1, WalInvariant, PTL

\* A poll changes nothing unless a write stopped half way (Wal::records_after).
THEOREM PollsLeaveTheFile == Spec => PollsOnlyRead
  <1>1. IInv /\ [Next]_vars => [~torn /\ pc = "ready" /\ pc' = "ready" => file' = file]_vars
    <2> SUFFICES ASSUME IInv, Next, ~torn, pc = "ready", pc' = "ready" PROVE file' = file
      OBVIOUS
    <2>1. WholeLog(file)  BY DEF IInv, WholeUnlessTorn
    <2>2. HeaderOk(file) /\ file \in Seq(Cells) /\ file # <<>>
      BY <2>1, StateIs, HeadersRead DEF IInv, WholeLog
    <2>3. Truncated(file) = file  BY <2>1, <2>2, TruncatedIs
    <2>4. CASE ReadRecords  BY <2>2, <2>3, <2>4 DEF ReadRecords, FileBecomes
    <2>5. CASE Rest  BY <2>5 DEF Rest, vars
    <2> QED
      BY <2>4, <2>5
      DEF Next, OpenEmpty, OpenMagic, OpenVersion, OpenExisting, OpenRefuses,
          AppendHead, AppendTail, AppendOk, AppendFails,
          ResetTruncate, ResetMagic, ResetVersion, ResetSync, ResetFails, Death
  <1> QED  BY <1>1, WalInvariant, PTL DEF Spec, PollsOnlyRead

-----------------------------------------------------------------------------
(* The file implements the log. *)

LEMMA LogInit == Init => Log!Init
  <1>1. Records(<<>>) = <<>>  BY HeadersRead, NothingRead
  <1> QED  BY <1>1 DEF Init, Log!Init

\* While no power fails and no write errs, a step of a method is one step of the
\* log or none: a record is there with the second part of its frame, the log is
\* empty with the truncation, open is done with the header.
LEMMA LogStep ==
  ASSUME IInv, Next, ~harsh
  PROVE  Log!Next \/ UNCHANGED Log!vars
  <1> DEFINE Down == {"closed", "refused", "openMagic", "openVersion"}
  <1>0. /\ TypeOK /\ ~torn /\ ~unsynced /\ file \in Seq(Cells) /\ nextLsn \in Nat
        /\ cursor \in Nat
    BY StateIs DEF IInv, HeaderSteps
  <1>1. /\ Records(<<>>) = <<>> /\ Records(<<Magic>>) = <<>> /\ Records(<<Magic, Version>>) = <<>>
    BY HeadersRead, NothingRead
  <1>2. ASSUME Records(file') = Records(file), pc \in Down, pc' \in Down PROVE UNCHANGED Log!vars
    BY <1>2 DEF Log!vars
  <1>3. CASE OpenEmpty  BY <1>2, <1>3 DEF OpenEmpty
  <1>4. CASE OpenRefuses  BY <1>2, <1>4 DEF OpenRefuses
  <1>5. CASE OpenMagic
    <2>1. file = <<>> /\ cursor = 0  BY <1>5 DEF OpenMagic, IInv, HeaderSteps
    <2>2. file' = <<Magic>>
      <3>1. Written(file, cursor, Magic) = <<Magic>>  BY <1>0, <2>1, HeaderWritten
      <3> QED  BY <1>5, <3>1 DEF OpenMagic, Put, FileBecomes
    <2>3. Records(file') = Records(file)  BY <1>1, <2>1, <2>2
    <2> QED  BY <1>2, <1>5, <2>3 DEF OpenMagic
  <1>6. CASE OpenVersion
    <2>1. file = <<Magic>> /\ cursor = 1  BY <1>6 DEF OpenVersion, IInv, HeaderSteps
    <2>2. file' = <<Magic, Version>>
      <3>1. Written(file, cursor, Version) = <<Magic, Version>>  BY <1>0, <2>1, HeaderWritten
      <3> QED  BY <1>6, <3>1 DEF OpenVersion, Put, FileBecomes
    <2>3. Records(file') = <<>> /\ Records(file) = <<>>  BY <1>1, <2>1, <2>2
    <2>4. Log!Open  BY <1>6, <2>3 DEF OpenVersion, Log!Open, Log!NextLsnOf
    <2> QED  BY <2>4 DEF Log!Next
  <1>7. CASE OpenExisting
    <2>1. Records(file') = Records(file)
      BY <1>0, <1>7, TruncatedIs DEF OpenExisting, FileBecomes
    <2>2. Log!Open
      BY <1>7, <2>1 DEF OpenExisting, Log!Open, Log!NextLsnOf, NextLsnOf
    <2> QED  BY <2>2 DEF Log!Next
  <1>8. CASE AppendHead
    <2> DEFINE cell == Frame("head", attempt + 1)
    <2>1. cell \in Cells /\ cell.part = "head"
      BY <1>0, <1>8, FrameIs, StateIs DEF AppendHead, Attempts
    <2>2. WholeLog(file) /\ cursor = Len(file)
      BY <1>0, <1>8 DEF AppendHead, IInv, WholeUnlessTorn
    <2>3. file' = Written(file, cursor, cell)  BY <1>8 DEF AppendHead, Put, FileBecomes
    <2> HIDE DEF cell
    <2>4. Records(file') = Records(file)  BY <1>0, <2>1, <2>2, <2>3, HeadWritten
    <2> QED  BY <1>8, <2>4 DEF AppendHead, Log!vars
  <1>9. CASE AppendTail
    <2> DEFINE cell == Frame("tail", attempt)
               entry == [lsn |-> nextLsn, change |-> attempt]
    <2>1. attempt \in Attempts  BY <1>9 DEF AppendTail, IInv, AttemptsOK
    <2>2. /\ cell \in Cells /\ cell.part = "tail" /\ cell.lsn = nextLsn
          /\ cell.change = attempt
      BY <1>0, <2>1, FrameIs
    <2>3. HalfFrame(file) /\ cursor = Len(file) /\ file[cursor] = Frame("head", attempt)
      BY <1>0, <1>9 DEF AppendTail, IInv, WholeUnlessTorn
    <2>4. /\ file[cursor].part = "head" /\ file[cursor].lsn = nextLsn
          /\ file[cursor].change = attempt
      BY <1>0, <2>1, <2>3, FrameIs
    <2>5. file' = Written(file, cursor, cell)  BY <1>9 DEF AppendTail, Put, FileBecomes
    <2> HIDE DEF cell
    <2>6. Records(file') = Append(Records(file), entry)
      BY <1>0, <2>2, <2>3, <2>4, <2>5, TailWritten
    <2>7. pc = "append" /\ pc' = "written" /\ nextLsn' = nextLsn  BY <1>9 DEF AppendTail
    <2>8. Log!Write(attempt)  BY <2>6, <2>7 DEF Log!Write
    <2> QED  BY <2>1, <2>8 DEF Log!Next
  <1>10. CASE AppendOk
    BY <1>10 DEF AppendOk, Synced, Log!vars
  <1>11. CASE AppendFails \/ ResetFails
    BY <1>11 DEF AppendFails, ResetFails
  <1>12. CASE ResetTruncate
    <2>1. Records(file') = <<>>  BY <1>1, <1>12 DEF ResetTruncate, FileBecomes
    <2>2. Log!Clear  BY <1>12, <2>1 DEF ResetTruncate, Log!Clear
    <2> QED  BY <2>2 DEF Log!Next
  <1>13. CASE ResetMagic
    <2>1. file = <<>> /\ cursor = 0  BY <1>13 DEF ResetMagic, IInv, HeaderSteps
    <2>2. file' = <<Magic>>
      <3>1. Written(file, cursor, Magic) = <<Magic>>  BY <1>0, <2>1, HeaderWritten
      <3> QED  BY <1>13, <3>1 DEF ResetMagic, Put, FileBecomes
    <2>3. Records(file') = Records(file)  BY <1>1, <2>1, <2>2
    <2> QED  BY <1>13, <2>3 DEF ResetMagic, Log!vars
  <1>14. CASE ResetVersion
    <2>1. file = <<Magic>> /\ cursor = 1  BY <1>14 DEF ResetVersion, IInv, HeaderSteps
    <2>2. file' = <<Magic, Version>>
      <3>1. Written(file, cursor, Version) = <<Magic, Version>>  BY <1>0, <2>1, HeaderWritten
      <3> QED  BY <1>14, <3>1 DEF ResetVersion, Put, FileBecomes
    <2>3. Records(file') = Records(file)  BY <1>1, <2>1, <2>2
    <2> QED  BY <1>14, <2>3 DEF ResetVersion, Log!vars
  <1>15. CASE ResetSync
    BY <1>15 DEF ResetSync, handle, Log!vars
  <1>16. CASE ReadRecords
    <2>1. WholeLog(file)  BY <1>0, <1>16 DEF ReadRecords, IInv, WholeUnlessTorn
    <2>2. HeaderOk(file) /\ file # <<>>  BY <2>1, HeadersRead DEF WholeLog
    <2>3. Truncated(file) = file  BY <1>0, <2>1, <2>2, TruncatedIs
    <2>4. file' = file  BY <1>16, <2>2, <2>3 DEF ReadRecords, FileBecomes
    <2> QED  BY <1>16, <2>4 DEF ReadRecords, handle, Log!vars
  <1>17. CASE Death
    <2>1. file' = file /\ pc' = "closed" /\ nextLsn' = 1  BY <1>17 DEF Death
    <2>2. CASE pc \in Down  BY <1>2, <2>1, <2>2
    <2>3. CASE pc \notin Down
      <3>1. Log!Die  BY <2>1, <2>3 DEF Log!Die
      <3> QED  BY <3>1 DEF Log!Next
    <2> QED  BY <2>2, <2>3
  <1>18. CASE Rest
    BY <1>18 DEF Rest, vars, handle, Log!vars
  <1> QED
    BY <1>3, <1>4, <1>5, <1>6, <1>7, <1>8, <1>9, <1>10, <1>11, <1>12, <1>13, <1>14, <1>15,
       <1>16, <1>17, <1>18
    DEF Next

\* Wal's file and handle implement AtomicLog, torn frames, half reset files and
\* recovery included, as long as only the process can die and no write fails.
THEOREM FileImplementsLog == Spec => LogSpec
  <1>1. IInv /\ [Next]_vars => [~harsh => Log!Next]_(Log!vars)
    <2> SUFFICES ASSUME IInv, [Next]_vars, ~harsh PROVE Log!Next \/ UNCHANGED Log!vars
      OBVIOUS
    <2>1. CASE Next  BY <2>1, LogStep
    <2>2. CASE UNCHANGED vars  BY <2>2 DEF vars, handle, Log!vars
    <2> QED  BY <2>1, <2>2
  <1> QED  BY <1>1, LogInit, WalInvariant, PTL DEF Spec, LogSpec
=============================================================================
