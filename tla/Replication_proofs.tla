-------------------------- MODULE Replication_proofs --------------------------
(***************************************************************************)
(* A replica shows the primary as of one LSN and never goes back: the      *)
(* proofs of RTypeOK, ReplicaIsPrefix and ReplicaAdvances from the         *)
(* invariant of ReplicationInv.  The primary of Replication is Database    *)
(* (PrimaryIsDatabase), so all that is proved of that holds here.          *)
(***************************************************************************)
EXTENDS ReplicationInv, Database_proofs

-----------------------------------------------------------------------------
(* The ledger, change by change. *)

\* f holds what the first n changes come to, one after the other.
Follows(changes, n, f) ==
    f[0] = EmptyView /\ \A i \in 1..n : f[i] = Apply(f[i - 1], changes[i])

\* There is but one such function.
LEMMA FollowsOne ==
  ASSUME NEW changes, NEW n \in Nat, NEW f, NEW g,
         Follows(changes, n, f), Follows(changes, n, g)
  PROVE  f[n] = g[n]
  <1>1. Alike(n, f, g)  BY DEF Follows, Alike
  <1>2. \A i \in 0..n : f[i] = g[i]  BY <1>1, RecursionAgrees
  <1> QED  BY <1>2

\* The recursion behind After.
LEMMA AfterIs ==
  ASSUME NEW changes \in Seq(Changes), NEW n \in Nat, n <= Len(changes)
  PROVE  \E f : Follows(changes, n, f) /\ After(changes, n) = f[n] /\ f[n] \in Views
  <1> DEFINE step == [i \in 1..n |-> [view \in Views |-> Apply(view, changes[i])]]
             Is(f) == f = [i \in 0..n |-> IF i = 0 THEN EmptyView
                                          ELSE Apply(f[i - 1], changes[i])]
             g == CHOOSE f : Is(f)
  <1>1. EmptyView \in Views  BY NoRowsTyped DEF EmptyView, Views
  <1>2. ASSUME NEW view \in Views, NEW i \in 1..n
        PROVE  step[i][view] = Apply(view, changes[i]) /\ step[i][view] \in Views
    <2>1. changes[i] \in Changes  OBVIOUS
    <2>2. step[i][view] = Apply(view, changes[i])  OBVIOUS
    <2> HIDE DEF step
    <2> QED  BY <2>1, <2>2, ApplyTyped
  <1>3. \A view \in Views : \A i \in 1..n : step[i][view] \in Views  BY <1>2
  <1> HIDE DEF step
  <1>4. PICK f : f \in [0..n -> Views] /\ Builds(f, n, EmptyView, step)
    BY <1>1, <1>3, Recursion
  <1>5. \A i \in 1..n : f[i] = Apply(f[i - 1], changes[i])
    <2> SUFFICES ASSUME NEW i \in 1..n PROVE f[i] = Apply(f[i - 1], changes[i])  OBVIOUS
    <2>1. f[i - 1] \in Views  BY <1>4
    <2> QED  BY <1>2, <1>4, <2>1 DEF Builds
  <1>6. f[0] = EmptyView  BY <1>4 DEF Builds
  <1>7. \A i \in 0..n : f[i] = IF i = 0 THEN EmptyView ELSE Apply(f[i - 1], changes[i])
    BY <1>5, <1>6
  <1>8. f = [i \in 0..n |-> f[i]]  BY <1>4
  <1>9. Is(f)  BY <1>7, <1>8
  <1>10. Is(g)  BY <1>9
  <1>11. After(changes, n) = g[n]  BY DEF After
  <1> HIDE DEF g
  <1>12. \A i \in 0..n : g[i] = IF i = 0 THEN EmptyView ELSE Apply(g[i - 1], changes[i])
    BY <1>10
  <1>13. Follows(changes, n, f) /\ Follows(changes, n, g)  BY <1>5, <1>6, <1>12 DEF Follows
  <1>14. f[n] = g[n]  BY <1>13, FollowsOne
  <1> QED  BY <1>4, <1>11, <1>13, <1>14

\* After no change there is nothing.
LEMMA AfterNothing ==
  ASSUME NEW changes \in Seq(Changes)
  PROVE  After(changes, 0) = EmptyView
  <1>1. 0 \in Nat /\ 0 <= Len(changes)  OBVIOUS
  <1>2. PICK f : Follows(changes, 0, f) /\ After(changes, 0) = f[0]  BY <1>1, AfterIs
  <1> QED  BY <1>2 DEF Follows

\* Changes with a common beginning come to the same after it.
LEMMA AfterSame ==
  ASSUME NEW a \in Seq(Changes), NEW b \in Seq(Changes), NEW n \in Nat,
         n <= Len(a), n <= Len(b), \A i \in 1..n : a[i] = b[i]
  PROVE  After(a, n) = After(b, n) /\ After(a, n) \in Views
  <1>1. PICK f : Follows(a, n, f) /\ After(a, n) = f[n] /\ f[n] \in Views  BY AfterIs
  <1>2. PICK g : Follows(b, n, g) /\ After(b, n) = g[n]  BY AfterIs
  <1>3. Follows(a, n, g)  BY <1>2 DEF Follows
  <1>4. f[n] = g[n]  BY <1>1, <1>3, FollowsOne
  <1> QED  BY <1>1, <1>2, <1>4

\* One change more.
LEMMA AfterNext ==
  ASSUME NEW changes \in Seq(Changes), NEW n \in Nat, n < Len(changes)
  PROVE  After(changes, n + 1) = Apply(After(changes, n), changes[n + 1])
  <1>1. n + 1 \in Nat /\ n + 1 <= Len(changes) /\ n <= Len(changes)  OBVIOUS
  <1>2. PICK f : Follows(changes, n, f) /\ After(changes, n) = f[n]  BY <1>1, AfterIs
  <1>3. PICK g : Follows(changes, n + 1, g) /\ After(changes, n + 1) = g[n + 1]
    BY <1>1, AfterIs
  <1>4. Follows(changes, n, g)  BY <1>3 DEF Follows
  <1>5. f[n] = g[n]  BY <1>2, <1>4, FollowsOne
  <1>6. g[n + 1] = Apply(g[n], changes[n + 1])
    <2>1. n + 1 \in 1..(n + 1) /\ (n + 1) - 1 = n  OBVIOUS
    <2> QED  BY <1>3, <2>1 DEF Follows
  <1> QED  BY <1>2, <1>3, <1>5, <1>6

-----------------------------------------------------------------------------
(* The records of a poll. *)

\* f holds what a filter has kept of each beginning of frames.
Keeps(frames, lsn, n, f) ==
    /\ f[0] = <<>>
    /\ \A i \in 1..n :
          f[i] = IF frames[i].lsn > lsn THEN Append(f[i - 1], frames[i]) ELSE f[i - 1]

\* The recursion behind FramesAbove.
LEMMA FramesAboveIs ==
  ASSUME NEW frames \in Seq(Frames), NEW lsn
  PROVE  \E f : Keeps(frames, lsn, Len(frames), f) /\ FramesAbove(frames, lsn) = f[Len(frames)]
  <1> DEFINE n == Len(frames)
             step == [i \in 1..n |-> [kept \in Seq(Frames) |->
                        IF frames[i].lsn > lsn THEN Append(kept, frames[i]) ELSE kept]]
             Is(f) == f = [i \in 0..n |->
                             IF i = 0 THEN <<>>
                             ELSE IF frames[i].lsn > lsn THEN Append(f[i - 1], frames[i])
                                  ELSE f[i - 1]]
             g == CHOOSE f : Is(f)
  <1>1. n \in Nat /\ <<>> \in Seq(Frames)  OBVIOUS
  <1>2. ASSUME NEW kept \in Seq(Frames), NEW i \in 1..n
        PROVE  /\ step[i][kept] = IF frames[i].lsn > lsn THEN Append(kept, frames[i]) ELSE kept
               /\ step[i][kept] \in Seq(Frames)
    <2>1. frames[i] \in Frames  OBVIOUS
    <2>2. step[i][kept] = IF frames[i].lsn > lsn THEN Append(kept, frames[i]) ELSE kept
      OBVIOUS
    <2> HIDE DEF step
    <2> QED  BY <2>1, <2>2
  <1>3. \A kept \in Seq(Frames) : \A i \in 1..n : step[i][kept] \in Seq(Frames)  BY <1>2
  <1> HIDE DEF step, n
  <1>4. PICK f : f \in [0..n -> Seq(Frames)] /\ Builds(f, n, <<>>, step)
    BY <1>1, <1>3, Recursion
  <1>5. ASSUME NEW i \in 1..n
        PROVE  f[i] = IF frames[i].lsn > lsn THEN Append(f[i - 1], frames[i]) ELSE f[i - 1]
    <2>1. f[i - 1] \in Seq(Frames)  BY <1>1, <1>4
    <2> QED  BY <1>2, <1>4, <2>1 DEF Builds
  <1>6. f[0] = <<>>  BY <1>4 DEF Builds
  <1>7. \A i \in 0..n : f[i] = IF i = 0 THEN <<>>
                                ELSE IF frames[i].lsn > lsn THEN Append(f[i - 1], frames[i])
                                     ELSE f[i - 1]
    BY <1>1, <1>5, <1>6
  <1>8. f = [i \in 0..n |-> f[i]]  BY <1>4
  <1>9. Is(f)  BY <1>7, <1>8
  <1>10. Is(g)  BY <1>9
  <1>11. FramesAbove(frames, lsn) = g[n]  BY DEF FramesAbove, n
  <1> HIDE DEF g
  <1>12. \A i \in 0..n : g[i] = IF i = 0 THEN <<>>
                                 ELSE IF frames[i].lsn > lsn THEN Append(g[i - 1], frames[i])
                                      ELSE g[i - 1]
    BY <1>10
  <1>13. Keeps(frames, lsn, n, g)  BY <1>1, <1>12 DEF Keeps
  <1> QED  BY <1>11, <1>13 DEF n

\* What a poll gets of a numbered log is records of it behind the reader, numbered too.
LEMMA PolledRecords ==
  ASSUME NEW frames \in Seq(Frames), NEW lsn \in Int,
         \A i \in 1..Len(frames) : frames[i].lsn = frames[1].lsn + i - 1,
         NEW records, records = RecordsAfter(frames, lsn)
  PROVE  /\ records \in Seq(Frames)
         /\ \A i \in 1..Len(records) :
              /\ records[i].lsn > lsn /\ records[i].lsn = records[1].lsn + i - 1
              /\ \E j \in 1..Len(frames) : records[i] = frames[j]
  <1>1. PICK f : Keeps(frames, lsn, Len(frames), f) /\ records = f[Len(frames)]
    BY FramesAboveIs DEF RecordsAfter
  <1> DEFINE n == Len(frames)
             Part(r, k) ==
                /\ r \in Seq(Frames)
                /\ \A i \in 1..Len(r) :
                     /\ r[i].lsn > lsn /\ r[i].lsn = r[1].lsn + i - 1
                     /\ \E j \in 1..n : r[i] = frames[j]
                /\ r # <<>> => k # 0 /\ r[Len(r)].lsn = frames[k].lsn
             S == {k \in Nat : k <= n => Part(f[k], k)}
  <1>2. n \in Nat /\ \A i \in 1..n : frames[i] \in Frames /\ frames[i].lsn \in Nat
    <2>1. \A i \in 1..n : frames[i] \in Frames  OBVIOUS
    <2>2. \A frame \in Frames : frame.lsn \in Nat  BY DEF Frames
    <2> QED  BY <2>1, <2>2
  <1>3. Part(<<>>, 0)  OBVIOUS
  <1>4. ASSUME NEW k \in Nat, k + 1 <= n, NEW r, Part(r, k)
        PROVE  Part(IF frames[k + 1].lsn > lsn THEN Append(r, frames[k + 1]) ELSE r, k + 1)
    <2>1. /\ k + 1 \in 1..n /\ frames[k + 1] \in Frames /\ frames[k + 1].lsn \in Nat
          /\ r \in Seq(Frames) /\ Len(r) \in Nat
      BY <1>2, <1>4
    <2>2. r # <<>> => /\ k \in 1..n /\ frames[k].lsn \in Nat
                      /\ frames[k + 1].lsn = frames[k].lsn + 1
                      /\ r[Len(r)].lsn = frames[k].lsn /\ Len(r) \in 1..Len(r)
      <3> SUFFICES ASSUME r # <<>>
                   PROVE  /\ k \in 1..n /\ frames[k].lsn \in Nat
                          /\ frames[k + 1].lsn = frames[k].lsn + 1
                          /\ r[Len(r)].lsn = frames[k].lsn /\ Len(r) \in 1..Len(r)
        OBVIOUS
      <3>1. k # 0 /\ r[Len(r)].lsn = frames[k].lsn  BY <1>4
      <3>2. k \in 1..n /\ 1 \in 1..n  BY <1>4, <3>1
      <3>3. frames[k].lsn \in Nat /\ frames[1].lsn \in Nat  BY <1>2, <3>2
      <3>4. frames[k + 1].lsn = frames[1].lsn + k /\ frames[k].lsn = frames[1].lsn + k - 1
        BY <2>1, <3>2
      <3>5. Len(r) \in 1..Len(r)  BY <2>1
      <3> QED  BY <3>1, <3>2, <3>3, <3>4, <3>5
    <2>3. CASE ~(frames[k + 1].lsn > lsn)
      <3>1. r = <<>>
        <4> SUFFICES ASSUME r # <<>> PROVE FALSE  OBVIOUS
        <4>1. r[Len(r)].lsn > lsn  BY <1>4, <2>2
        <4> QED  BY <2>1, <2>2, <2>3, <4>1
      <3> QED  BY <2>3, <3>1
    <2>4. CASE frames[k + 1].lsn > lsn
      <3> DEFINE s == Append(r, frames[k + 1])
      <3>1. /\ s \in Seq(Frames) /\ Len(s) = Len(r) + 1 /\ s[Len(r) + 1] = frames[k + 1]
            /\ \A i \in 1..Len(r) : s[i] = r[i]
        BY <2>1
      <3> HIDE DEF s
      <3>2. ASSUME NEW i \in 1..Len(s)
            PROVE  /\ s[i].lsn > lsn /\ s[i].lsn = s[1].lsn + i - 1
                   /\ \E j \in 1..n : s[i] = frames[j]
        <4>1. CASE i \in 1..Len(r)
          <5>1. s[i] = r[i] /\ s[1] = r[1]  BY <2>1, <3>1, <4>1
          <5> QED  BY <1>4, <4>1, <5>1
        <4>2. CASE i = Len(r) + 1 /\ r = <<>>
          <5>1. i = 1 /\ s[i] = frames[k + 1]  BY <3>1, <4>2
          <5> QED  BY <2>1, <2>4, <5>1
        <4>3. CASE i = Len(r) + 1 /\ r # <<>>
          <5>1. s[i] = frames[k + 1] /\ s[1] = r[1]  BY <2>1, <2>2, <3>1, <4>3
          <5>2. r[Len(r)].lsn = r[1].lsn + Len(r) - 1  BY <1>4, <2>2, <4>3
          <5>3. r[1] \in Frames  BY <2>1, <4>3
          <5>4. r[1].lsn \in Nat  BY <5>3 DEF Frames
          <5>5. s[i].lsn = s[1].lsn + i - 1
            <6> DEFINE first == r[1].lsn
                       last == r[Len(r)].lsn
                       new == frames[k + 1].lsn
                       m == Len(r)
            <6>0. /\ new = last + 1 /\ last = first + m - 1
                  /\ first \in Nat /\ last \in Nat /\ m \in Nat
              BY <2>1, <2>2, <4>3, <5>2, <5>4
            <6>1. new = first + m
              <7> HIDE DEF new, last, first, m
              <7> QED  BY <6>0
            <6>2. i - 1 = Len(r) /\ s[i].lsn = frames[k + 1].lsn /\ s[1].lsn = r[1].lsn
              BY <2>1, <4>3, <5>1
            <6> QED  BY <2>1, <4>3, <5>4, <6>1, <6>2
          <5> QED  BY <2>1, <2>4, <5>1, <5>5
        <4> QED  BY <2>1, <3>1, <4>1, <4>2, <4>3
      <3>3. s[Len(s)].lsn = frames[k + 1].lsn /\ k + 1 # 0  BY <3>1
      <3>4. Part(s, k + 1)  BY <3>1, <3>2, <3>3
      <3> QED  BY <2>4, <3>4 DEF s
    <2> QED  BY <2>3, <2>4
  <1> HIDE DEF Part
  <1>5. 0 \in S  BY <1>1, <1>3 DEF Keeps
  <1>6. ASSUME NEW k \in Nat, k \in S PROVE k + 1 \in S
    <2> SUFFICES ASSUME k + 1 <= n PROVE Part(f[k + 1], k + 1)  OBVIOUS
    <2>1. k + 1 \in 1..n /\ (k + 1) - 1 = k /\ Part(f[k], k)  BY <1>2, <1>6
    <2>2. f[k + 1] = IF frames[k + 1].lsn > lsn THEN Append(f[k], frames[k + 1]) ELSE f[k]
      BY <1>1, <2>1 DEF Keeps
    <2> QED  BY <1>4, <2>1, <2>2
  <1> HIDE DEF S
  <1>7. n \in S  BY <1>2, <1>5, <1>6, Induction
  <1>8. Part(records, n)  BY <1>1, <1>2, <1>7 DEF S
  <1> QED  BY <1>8 DEF Part

-----------------------------------------------------------------------------
(* The primary. *)

\* What happens to a replica is no step of its primary, and what the primary does is
\* one of Database.
LEMMA PrimarySteps ==
  ASSUME [RNext]_rvars
  PROVE  [Next]_vars
  <1>1. CASE PrimaryStep  BY <1>1 DEF PrimaryStep, Next
  <1>2. CASE ServeSnapshot  BY <1>2 DEF ServeSnapshot, Next
  <1>3. CASE FollowStep
    BY <1>3 DEF FollowStep, FollowStarts, AskSnapshot, LoadSnapshot, AskWal, PullGap, PullFails,
       PullApply, PullDone, SnapshotLost, Next
  <1>4. CASE EarlyStep \/ ReplicaDies
    BY <1>4 DEF EarlyStep, EarlyWrite, EarlyWriteLands, ReplicaDies
  <1>5. CASE UNCHANGED rvars  BY <1>5 DEF rvars
  <1> QED  BY <1>1, <1>2, <1>3, <1>4, <1>5 DEF RNext

\* The primary that a replica follows is Database: with replicas or without, what
\* is proved of that holds of it (http.rs's two handlers and db.rs's snapshot_bytes
\* and wal_since change nothing but the holder of the WAL mutex).
THEOREM PrimaryIsDatabase == RSpec => Spec
  <1>1. RInit => Init  BY DEF RInit
  <1>2. [RNext]_rvars => [Next]_vars  BY PrimarySteps
  <1> QED  BY <1>1, <1>2, PTL DEF RSpec, Spec

LEMMA PrimaryInvariant == RSpec => [](Base /\ Decoding /\ Exactness)
  BY PrimaryIsDatabase, ReplayInvariant, PTL

\* A name that exists keeps pointing to the last handle made for it.
LEMMA NewestHandlesNext ==
  ASSUME TypeInv, NewestHandles, [Next]_vars
  PROVE  NewestHandles'
  <1> USE DEF TypeInv
  <1> SUFFICES ASSUME NEW t \in Tables PROVE tables'[t] \in {0, gen'[t]}
    BY DEF NewestHandles
  <1>1. tables \in [Tables -> 0..MaxGen] /\ gen \in [Tables -> 0..MaxGen]  BY DEF TypeOK
  <1>2. tables[t] \in {0, gen[t]}  BY DEF NewestHandles
  <1>3. ASSUME NEW c \in Clients, NEW u \in Tables, CreateTable(c, u)
        PROVE  tables'[t] \in {0, gen'[t]}
    BY <1>1, <1>2, <1>3 DEF CreateTable
  <1>4. ASSUME NEW c \in Clients, NEW u \in Tables, DropTable(c, u)
        PROVE  tables'[t] \in {0, gen'[t]}
    BY <1>1, <1>2, <1>4 DEF DropTable
  <1>5. ASSUME NEW view, Install(view) PROVE tables'[t] \in {0, gen'[t]}
    BY <1>5 DEF Install
  <1>6. CASE Crash  BY <1>6 DEF Crash
  <1>7. CASE OpenSnapshot  BY <1>5, <1>7 DEF OpenSnapshot
  <1>8. CASE OpenApply  BY <1>5, <1>8 DEF OpenApply
  <1>9. ASSUME UNCHANGED <<tables, gen>> PROVE tables'[t] \in {0, gen'[t]}  BY <1>2, <1>9
  <1>10. \/ \E c \in Clients : \E u \in Tables : CreateTable(c, u) \/ DropTable(c, u)
         \/ OpenSnapshot \/ OpenApply \/ Crash
         \/ UNCHANGED <<tables, gen>>
    BY DEF Next, LocalStep, vars, mem, Request, ClientStep, SnapshotStep, OpenStep, Rest,
       InsertLookup, InsertMany, InsertManyRejects, Encode, AppendWal, AppendFails, SnapshotLock,
       SnapshotCollect, SnapshotGuard, SnapshotWrite, SnapshotReset, SnapshotFails, BytesLock,
       BytesEncode, OpenSkip, OpenFails, OpenDone
  <1> QED  BY <1>3, <1>4, <1>6, <1>7, <1>8, <1>9, <1>10

-----------------------------------------------------------------------------
(* Types and the order of the follow loop. *)

\* A snapshot holds a catalogue.
LEMMA CapturedTyped ==
  ASSUME TypeOK
  PROVE  Captured \in Views
  <1>1. heap \in [Handles -> Bags] /\ snapper.handles \in SUBSET Handles  BY DEF TypeOK
  <1>2. \A h \in Handles : h[1] \in Tables  BY DEF Handles
  <1>3. ASSUME NEW t \in Tables PROVE Captured.rows[t] \in Bags
    <2>1. CASE \E h \in snapper.handles : h[1] = t
      <3>1. (CHOOSE h \in snapper.handles : h[1] = t) \in Handles  BY <1>1, <2>1
      <3> QED  BY <1>1, <2>1, <3>1 DEF Captured
    <2>2. CASE ~ \E h \in snapper.handles : h[1] = t
      BY <2>2, NoRowsTyped DEF Captured
    <2> QED  BY <2>1, <2>2
  <1>4. Captured.rows = [t \in Tables |-> Captured.rows[t]]  BY DEF Captured
  <1>5. Captured.rows \in [Tables -> Bags]  BY <1>3, <1>4
  <1>6. Captured.names \in SUBSET Tables  BY <1>1, <1>2 DEF Captured
  <1>7. Captured = [names |-> Captured.names, rows |-> Captured.rows]  BY DEF Captured
  <1> QED  BY <1>5, <1>6, <1>7 DEF Views

\* A write of a client of the replica leaves a catalogue.
LEMMA EarlyTyped ==
  ASSUME RTypeOK, NEW t \in Tables, EarlyWriteLands(t)
  PROVE  rview' \in Views
  <1>1. rview.names \in SUBSET Tables /\ rview.rows \in [Tables -> Bags]
        /\ rview = [names |-> rview.names, rows |-> rview.rows]
    BY DEF RTypeOK, Views
  <1>2. AddRow(rview.rows[t], 1) \in Bags
    <2> DEFINE bag == rview.rows[t]
    <2>1. bag \in [Rows -> Nat]  BY <1>1 DEF Bags
    <2> HIDE DEF bag
    <2>2. ASSUME NEW r \in Rows PROVE AddRow(bag, 1)[r] \in Nat
      BY <2>1 DEF AddRow
    <2>3. AddRow(bag, 1) = [r \in Rows |-> AddRow(bag, 1)[r]]  BY <2>1 DEF AddRow
    <2>4. AddRow(bag, 1) \in [Rows -> Nat]  BY <2>2, <2>3
    <2> QED  BY <2>4 DEF Bags, bag
  <1>3. CASE rview' = [rview EXCEPT !.rows[t] = AddRow(@, 1)]
    <2> DEFINE more == [rview.rows EXCEPT ![t] = AddRow(rview.rows[t], 1)]
    <2>1. rview' = [rview EXCEPT !.rows = more]  BY <1>3
    <2>2. more \in [Tables -> Bags]  BY <1>1, <1>2
    <2> HIDE DEF more
    <2>3. rview' = [names |-> rview.names, rows |-> more]  BY <1>1, <2>1
    <2> QED  BY <1>1, <2>2, <2>3 DEF Views
  <1>4. CASE rview' = [rview EXCEPT !.names = @ \cup {t}]
    BY <1>1, <1>4 DEF Views
  <1>5. CASE rview' = [names |-> rview.names \ {t}, rows |-> [rview.rows EXCEPT ![t] = NoRows]]
    <2> DEFINE less == [rview.rows EXCEPT ![t] = NoRows]
    <2>1. less \in [Tables -> Bags]  BY <1>1, NoRowsTyped
    <2> HIDE DEF less
    <2>2. rview' = [names |-> rview.names \ {t}, rows |-> less]  BY <1>5 DEF less
    <2> QED  BY <1>1, <2>1, <2>2 DEF Views
  <1> QED  BY <1>3, <1>4, <1>5 DEF EarlyWriteLands

\* The records that are left when the first is handled.
LEMMA BatchTail ==
  ASSUME batch \in Seq(Frames), batch # <<>>,
         \A i \in 1..Len(batch) : batch[i].lsn = batch[1].lsn + i - 1
  PROVE  /\ Head(batch) = batch[1] /\ 1 \in 1..Len(batch)
         /\ Head(batch) \in Frames /\ Head(batch).lsn \in Nat /\ Head(batch).change \in Changes
         /\ Tail(batch) \in Seq(Frames) /\ Len(Tail(batch)) = Len(batch) - 1
         /\ \A i \in 1..Len(Tail(batch)) :
              /\ i + 1 \in 1..Len(batch) /\ Tail(batch)[i] = batch[i + 1]
              /\ Tail(batch)[i].lsn = Tail(batch)[1].lsn + i - 1
              /\ Tail(batch)[i].lsn > Head(batch).lsn
  <1>1. /\ Head(batch) = batch[1] /\ Head(batch) \in Frames /\ Tail(batch) \in Seq(Frames)
        /\ Len(batch) \in Nat /\ Len(Tail(batch)) = Len(batch) - 1 /\ 1 \in 1..Len(batch)
    OBVIOUS
  <1>2. Head(batch).lsn \in Nat /\ Head(batch).change \in Changes  BY <1>1 DEF Frames
  <1>3. \A i \in 1..Len(Tail(batch)) :
          i + 1 \in 1..Len(batch) /\ Tail(batch)[i] = batch[i + 1]
    OBVIOUS
  <1> DEFINE rest == Tail(batch)
             first == Head(batch).lsn
  <1>4. ASSUME NEW i \in 1..Len(rest)
        PROVE  rest[i].lsn = rest[1].lsn + i - 1 /\ rest[i].lsn > first
    <2>1. 1 \in 1..Len(rest)  BY <1>1
    <2>2. i + 1 \in 1..Len(batch) /\ 2 \in 1..Len(batch)  BY <1>1, <2>1
    <2>3. rest[i].lsn = first + i  BY <1>1, <1>2, <1>3, <2>2
    <2>4. rest[1].lsn = first + 1
      <3>1. rest[1] = batch[2]  BY <1>3, <2>1
      <3>2. batch[2].lsn = batch[1].lsn + 2 - 1  BY <2>2
      <3> QED  BY <1>1, <1>2, <3>1, <3>2
    <2>5. first \in Nat  BY <1>2
    <2> HIDE DEF rest, first
    <2> QED  BY <2>3, <2>4, <2>5
  <1> QED  BY <1>1, <1>2, <1>3, <1>4

\* A replica that has just started, and one that has loaded a snapshot.
LEMMA EmptyTyped == EmptyView \in Views /\ NoReply \in [lsn : Nat, view : Views]
  <1>1. EmptyView \in Views  BY NoRowsTyped DEF EmptyView, Views
  <1> QED  BY <1>1 DEF NoReply

\* Every step keeps the types, and the order of the follow loop.
LEMMA FollowNext ==
  ASSUME TypeInv, TypeInv', Numbering, RTypeOK, FollowOrder, [RNext]_rvars
  PROVE  RTypeOK' /\ FollowOrder'
  <1> USE BreaksAssumption DEF TypeInv
  <1>0. <<>> \in Seq(Frames) /\ Len(<<>>) = 0 /\ 1..0 = {}  OBVIOUS
  <1>1. \A frame \in Frames : frame.lsn \in Nat /\ frame.change \in Changes  BY DEF Frames
  <1>2. ASSUME PrimaryStep PROVE RTypeOK' /\ FollowOrder'
    <2>1. ledger' \in Seq(Changes)
      <3>1. ledger \in Seq(Changes) /\ log \in Seq(Frames) /\ log' \in Seq(Frames)
        BY DEF RTypeOK, TypeOK
      <3>2. CASE Len(log') > Len(log)
        <4>1. Len(log') \in 1..Len(log')  BY <3>1, <3>2
        <4>2. log'[Len(log')] \in Frames  BY <3>1, <4>1
        <4>3. log'[Len(log')].change \in Changes  BY <1>1, <4>2
        <4>4. ledger' = Append(ledger, log'[Len(log')].change)  BY <1>2, <3>2 DEF PrimaryStep
        <4> QED  BY <3>1, <4>3, <4>4
      <3>3. CASE ~(Len(log') > Len(log))
        <4>1. ledger' = ledger  BY <1>2, <3>3 DEF PrimaryStep
        <4> QED  BY <3>1, <4>1
      <3> QED  BY <3>2, <3>3
    <2>2. caught' \in BOOLEAN
      <3>1. PICK b \in BOOLEAN : caught' = (caught \/ b)
        BY <1>2, Zenon DEF PrimaryStep
      <3> QED  BY <3>1 DEF RTypeOK
    <2>3. UNCHANGED <<rpc, applied, rview, reply, batch, at, breaks, early, strayed>>
      BY <1>2 DEF PrimaryStep, replica, strays
    <2> QED  BY <2>1, <2>2, <2>3 DEF RTypeOK, FollowOrder
  <1>3. ASSUME AskSnapshot PROVE RTypeOK' /\ FollowOrder'
    BY <1>3 DEF AskSnapshot, RTypeOK, FollowOrder, strays, past
  <1>4. ASSUME ServeSnapshot PROVE RTypeOK' /\ FollowOrder'
    <2>1. caught' \in BOOLEAN
      <3>1. PICK b \in BOOLEAN : caught' = (caught \/ b)
        BY <1>4, Zenon DEF ServeSnapshot
      <3> QED  BY <3>1 DEF RTypeOK
    <2>2. reply' \in [lsn : Nat, view : Views]
      <3>1. [lsn |-> snapper.lsn, view |-> Captured] \in [lsn : Nat, view : Views]
        BY CapturedTyped DEF TypeOK
      <3> QED  BY <1>4, <3>1 DEF ServeSnapshot, RTypeOK
    <2>3. UNCHANGED <<applied, rview, batch, at, breaks, early, strayed, ledger>>
      BY <1>4 DEF ServeSnapshot, strays
    <2>4. rpc' = rpc \/ (rpc = "wait" /\ rpc' = "load")  BY <1>4 DEF ServeSnapshot
    <2> QED  BY <2>1, <2>2, <2>3, <2>4 DEF RTypeOK, FollowOrder
  <1>5. ASSUME FollowStarts PROVE RTypeOK' /\ FollowOrder'
    BY <1>5 DEF FollowStarts, RTypeOK, FollowOrder, strays, past
  <1>6. ASSUME LoadSnapshot PROVE RTypeOK' /\ FollowOrder'
    <2>1. UNCHANGED <<batch, breaks, early, ledger, caught>> /\ reply' = NoReply
      BY <1>6 DEF LoadSnapshot, past
    <2>2. rview' \in Views /\ at' \in Nat /\ applied' = at' /\ strayed' = FALSE /\ rpc' = "ask"
      BY <1>6 DEF LoadSnapshot, Loaded, LoadedLsn, RTypeOK
    <2>3. batch = <<>>  BY <1>6 DEF LoadSnapshot, FollowOrder
    <2> QED  BY <1>0, <2>1, <2>2, <2>3, EmptyTyped DEF RTypeOK, FollowOrder
  <1>7. ASSUME AskWal PROVE RTypeOK' /\ FollowOrder'
    <2>1. /\ UNCHANGED <<applied, rview, reply, breaks, early, strayed, ledger, caught>>
          /\ rpc' = "apply" /\ at' = applied /\ applied # None
          /\ batch' = RecordsAfter(log, applied)
      BY <1>7 DEF AskWal, past, strays
    <2>2. applied \in Nat /\ applied \in Int  BY <2>1 DEF RTypeOK
    <2>3. log \in Seq(Frames) /\ \A i \in 1..Len(log) : log[i].lsn = log[1].lsn + i - 1
      BY DEF TypeOK, Numbering
    <2>4. /\ batch' \in Seq(Frames)
          /\ \A i \in 1..Len(batch') :
                batch'[i].lsn > applied /\ batch'[i].lsn = batch'[1].lsn + i - 1
      BY <2>1, <2>2, <2>3, PolledRecords
    <2> QED  BY <2>1, <2>2, <2>4 DEF RTypeOK, FollowOrder
  <1>8. ASSUME PullGap PROVE RTypeOK' /\ FollowOrder'
    BY <1>8 DEF PullGap, RTypeOK, FollowOrder, past, strays
  <1>9. ASSUME PullFails PROVE RTypeOK' /\ FollowOrder'
    BY <1>9 DEF PullFails, RTypeOK, FollowOrder, past, strays
  <1>10. ASSUME PullApply PROVE RTypeOK' /\ FollowOrder'
    <2>1. /\ UNCHANGED <<rpc, applied, reply, breaks, early, strayed, ledger, caught>>
          /\ rpc = "apply" /\ batch # <<>> /\ batch' = Tail(batch) /\ at' = Head(batch).lsn
          /\ rview' = Apply(rview, Head(batch).change)
      BY <1>10 DEF PullApply, past, strays
    <2>2. batch \in Seq(Frames) /\ \A i \in 1..Len(batch) : batch[i].lsn = batch[1].lsn + i - 1
      BY DEF RTypeOK, FollowOrder
    <2>3. /\ Head(batch).lsn \in Nat /\ Head(batch).lsn > at /\ batch' \in Seq(Frames)
          /\ \A i \in 1..Len(batch') :
                batch'[i].lsn > at' /\ batch'[i].lsn = batch'[1].lsn + i - 1
      BY <2>1, <2>2, BatchTail DEF RTypeOK
    <2>4. rview' \in Views  BY <2>1, <2>2, BatchTail, ApplyTyped DEF RTypeOK
    <2>5. applied # None /\ applied <= at'  BY <2>1, <2>3 DEF RTypeOK, None
    <2> QED  BY <2>1, <2>3, <2>4, <2>5 DEF RTypeOK, FollowOrder
  <1>11. ASSUME PullDone PROVE RTypeOK' /\ FollowOrder'
    BY <1>11 DEF PullDone, RTypeOK, FollowOrder, past, strays
  <1>12. ASSUME SnapshotLost PROVE RTypeOK' /\ FollowOrder'
    <2>1. /\ UNCHANGED <<applied, rview, batch, at, early, strayed, ledger, caught>>
          /\ rpc' = "ask" /\ reply' = NoReply
          /\ breaks' \in 0..MaxBreaks /\ breaks' >= breaks /\ rpc # "apply"
      BY <1>12 DEF SnapshotLost, past, strays, RTypeOK
    <2> QED  BY <2>1, EmptyTyped DEF RTypeOK, FollowOrder
  <1>13. ASSUME EarlyWrite PROVE RTypeOK' /\ FollowOrder'
    BY <1>13 DEF EarlyWrite, RTypeOK, FollowOrder, past
  <1>14. ASSUME NEW t \in Tables, EarlyWriteLands(t) PROVE RTypeOK' /\ FollowOrder'
    <2>1. /\ UNCHANGED <<rpc, applied, reply, batch, at, breaks, ledger, caught>>
          /\ strayed' = TRUE /\ early > 0 /\ early' = early - 1
      BY <1>14 DEF EarlyWriteLands, past
    <2> QED  BY <1>14, <2>1, EarlyTyped DEF RTypeOK, FollowOrder
  <1>15. ASSUME ReplicaDies PROVE RTypeOK' /\ FollowOrder'
    <2>1. /\ UNCHANGED <<ledger, caught>>
          /\ rpc' = "start" /\ applied' = None /\ rview' = EmptyView /\ reply' = NoReply
          /\ batch' = <<>> /\ at' = 0 /\ early' = 0 /\ strayed' = FALSE
          /\ breaks' \in 0..MaxBreaks /\ 0 <= breaks' /\ 0 \in 0..MaxBreaks
      BY <1>15 DEF ReplicaDies, past, RTypeOK
    <2>2. RTypeOK'
      <3>1. ledger \in Seq(Changes) /\ caught \in BOOLEAN  BY DEF RTypeOK
      <3>2. \A i \in 1..Len(batch') : batch'[i].lsn > at'  BY <1>0, <2>1
      <3> QED  BY <1>0, <2>1, <3>1, <3>2, EmptyTyped DEF RTypeOK
    <2>3. FollowOrder'  BY <1>0, <2>1 DEF FollowOrder
    <2> QED  BY <2>2, <2>3
  <1>16. ASSUME UNCHANGED rvars PROVE RTypeOK' /\ FollowOrder'
    BY <1>16 DEF rvars, replica, strays, past, RTypeOK, FollowOrder
  <1> QED
    BY <1>2, <1>3, <1>4, <1>5, <1>6, <1>7, <1>8, <1>9, <1>10, <1>11, <1>12, <1>13, <1>14,
       <1>15, <1>16
    DEF RNext, FollowStep, EarlyStep

Typed == RTypeOK /\ FollowOrder /\ NewestHandles

LEMMA TypedInit == RInit => Typed
  <1> SUFFICES ASSUME RInit PROVE Typed  OBVIOUS
  <1> USE BreaksAssumption
  <1>0. <<>> \in Seq(Frames) /\ <<>> \in Seq(Changes) /\ Len(<<>>) = 0 /\ 1..0 = {}  OBVIOUS
  <1>1. /\ rpc = "start" /\ applied = None /\ rview = EmptyView /\ reply = NoReply
        /\ batch = <<>> /\ at = 0 /\ breaks = 0 /\ ledger = <<>>
        /\ early = 0 /\ strayed = FALSE /\ caught = FALSE
    BY DEF RInit
  <1>2. 0 \in 0..MaxBreaks  OBVIOUS
  <1>3. \A i \in 1..Len(batch) : batch[i].lsn > at  BY <1>0, <1>1
  <1>4. RTypeOK  BY <1>0, <1>1, <1>2, <1>3, EmptyTyped DEF RTypeOK
  <1>5. FollowOrder  BY <1>0, <1>1 DEF FollowOrder
  <1>6. NewestHandles  BY DEF RInit, Init, NewestHandles
  <1> QED  BY <1>4, <1>5, <1>6 DEF Typed

LEMMA TypedNext == Base /\ Base' /\ Typed /\ [RNext]_rvars => Typed'
  BY FollowNext, NewestHandlesNext, PrimarySteps DEF Base, Typed

LEMMA TypedHolds == RSpec => []Typed
  <1>1. RSpec => []Base  BY PrimaryInvariant, PTL
  <1> QED  BY <1>1, TypedInit, TypedNext, PTL DEF RSpec

\* Every variable of the replica keeps its type, and what is left of a batch lies
\* ahead of the replica (replication.rs's follow and pull_once).
THEOREM ReplicaTypes == RSpec => []RTypeOK
  <1>1. Typed => RTypeOK  BY DEF Typed
  <1> QED  BY <1>1, TypedHolds, PTL

-----------------------------------------------------------------------------
(* How the ledger grows. *)

\* The histories that spoil a behaviour are never unsaid.
LEMMA RCleanBack ==
  ASSUME TypeInv, RTypeOK, [RNext]_rvars, RClean'
  PROVE  RClean /\ Clean /\ Clean'
  <1>1. [Next]_vars  BY PrimarySteps
  <1>2. Clean'  BY DEF RClean, Clean
  <1>3. Clean  BY <1>1, <1>2, CleanBack
  <1>4. ~straddled /\ ~leftover
    <2>1. TypeOK  BY DEF TypeInv
    <2>2. ~straddled' /\ ~leftover'  BY DEF RClean
    <2> QED  BY <1>1, <2>1, <2>2, SpoiledStays
  <1>5. PICK b \in BOOLEAN : caught' = (caught \/ b)
    <2>1. caught \in BOOLEAN  BY DEF RTypeOK
    <2>2. CASE PrimaryStep  BY <2>2, Zenon DEF PrimaryStep
    <2>3. CASE ServeSnapshot  BY <2>3, Zenon DEF ServeSnapshot
    <2>4. CASE UNCHANGED caught  BY <2>1, <2>4
    <2>5. PrimaryStep \/ ServeSnapshot \/ UNCHANGED caught
      BY DEF RNext, FollowStep, FollowStarts, AskSnapshot, LoadSnapshot, AskWal, PullGap,
         PullFails, PullApply, PullDone, SnapshotLost, EarlyStep, EarlyWrite, EarlyWriteLands,
         ReplicaDies, past, rvars
    <2> QED  BY <2>2, <2>3, <2>4, <2>5
  <1>6. ~caught  BY <1>5 DEF RClean, RTypeOK
  <1> QED  BY <1>2, <1>3, <1>4, <1>6 DEF RClean, Clean

\* What c is about to log.
ChangeOf(c) == [kind |-> op[c].kind, table |-> op[c].table, row |-> op[c].row]

\* A record that is logged goes into the ledger, and nothing else does.
LEMMA LedgerSteps ==
  ASSUME TypeInv, RTypeOK, [RNext]_rvars
  PROVE  \/ \E c \in Clients : /\ AppendWal(c) /\ PrimaryStep /\ ChangeOf(c) \in Changes
                               /\ ledger' = Append(ledger, ChangeOf(c))
         \/ /\ ledger' = ledger
            /\ (SnapshotWrite /\ PrimaryStep) \/ SnapshotReset \/ UNCHANGED <<log, image>>
  <1> USE DEF TypeInv
  <1>1. log \in Seq(Frames)  BY DEF TypeOK
  <1>2. CASE PrimaryStep
    <2>1. [Next]_vars  BY PrimarySteps
    <2>2. ASSUME NEW c \in Clients, AppendWal(c)
          PROVE  ChangeOf(c) \in Changes /\ ledger' = Append(ledger, ChangeOf(c))
      <3> DEFINE f == [lsn |-> nextLsn, change |-> ChangeOf(c)]
      <3>1. ChangeOf(c) \in Changes /\ f \in Frames /\ log' = Append(log, f)
        BY <2>2, AppendedFrame DEF ChangeOf
      <3>2. f.change = ChangeOf(c)  OBVIOUS
      <3> HIDE DEF f
      <3>3. Len(log') = Len(log) + 1 /\ log'[Len(log')] = f  BY <1>1, <3>1
      <3>4. Len(log') > Len(log)  BY <1>1, <3>3
      <3> QED  BY <1>2, <3>1, <3>2, <3>3, <3>4 DEF PrimaryStep
    <2>3. ASSUME SnapshotWrite \/ SnapshotReset \/ UNCHANGED <<log, image>>
          PROVE  ledger' = ledger
      <3>1. log' = log \/ log' = <<>>  BY <2>3 DEF SnapshotWrite, SnapshotReset
      <3>2. Len(<<>>) = 0 /\ Len(log) \in Nat  BY <1>1
      <3>3. ~(Len(log') > Len(log))  BY <3>1, <3>2
      <3> QED  BY <1>2, <3>3 DEF PrimaryStep
    <2> QED  BY <1>2, <2>1, <2>2, <2>3, FileSteps
  <1>3. CASE ~PrimaryStep
    BY <1>3 DEF RNext, ServeSnapshot, BytesEncode, BytesLock, FollowStep, FollowStarts,
       AskSnapshot, LoadSnapshot, AskWal, PullGap, PullFails, PullApply, PullDone, SnapshotLost,
       EarlyStep, EarlyWrite, EarlyWriteLands, ReplicaDies, past, rvars, vars, disk
  <1> QED  BY <1>2, <1>3

\* What was in it stays, and so do the states of the primary it tells of.
LEMMA LedgerGrows ==
  ASSUME TypeInv, RTypeOK, RTypeOK', [RNext]_rvars
  PROVE  /\ Len(ledger) \in Nat /\ Len(ledger') \in Nat /\ Len(ledger) <= Len(ledger')
         /\ \A i \in 1..Len(ledger) : ledger'[i] = ledger[i]
         /\ \A n \in 0..Len(ledger) :
               After(ledger', n) = After(ledger, n) /\ After(ledger, n) \in Views
  <1>1. ledger \in Seq(Changes) /\ ledger' \in Seq(Changes)  BY DEF RTypeOK
  <1>2. /\ Len(ledger) \in Nat /\ Len(ledger') \in Nat /\ Len(ledger) <= Len(ledger')
        /\ \A i \in 1..Len(ledger) : ledger'[i] = ledger[i]
    <2>1. CASE \E c \in Clients : ledger' = Append(ledger, ChangeOf(c)) /\ ChangeOf(c) \in Changes
      BY <1>1, <2>1
    <2>2. CASE ledger' = ledger  BY <1>1, <2>2
    <2> QED  BY <2>1, <2>2, LedgerSteps
  <1>3. ASSUME NEW n \in 0..Len(ledger)
        PROVE  After(ledger', n) = After(ledger, n) /\ After(ledger, n) \in Views
    <2>1. n \in Nat /\ n <= Len(ledger) /\ n <= Len(ledger')  BY <1>2
    <2>2. \A i \in 1..n : ledger[i] = ledger'[i]  BY <1>2, <2>1
    <2> QED  BY <1>1, <2>1, <2>2, AfterSame
  <1> QED  BY <1>2, <1>3

\* What the lemmas below take of a state: all that holds in any behaviour, and that
\* no race was recorded.
Known == Base /\ Decoding /\ Exactness /\ Typed /\ RClean

\* Records are numbered as the ledger goes, in memory and on disk (Wal::append,
\* Wal::reset, Wal::open).
LEMMA LedgerNumbersNext ==
  ASSUME Known, Base', Typed', LedgerNumbers, [RNext]_rvars, RClean'
  PROVE  LedgerNumbers'
  <1> USE DEF Base, TypeInv
  <1>1. /\ RTypeOK /\ RTypeOK' /\ [Next]_vars /\ ~rewound /\ ~rewound'
    BY PrimarySteps DEF Known, Typed, RClean
  <1>2. /\ TypeInv /\ Numbering /\ Numbering'
        /\ log \in Seq(Frames) /\ Len(log) \in Nat /\ nextLsn \in Nat /\ image.lsn \in Nat
    <2>1. TypeInv /\ Numbering /\ Numbering'  BY DEF Known
    <2>2. log \in Seq(Frames) /\ nextLsn \in Nat /\ image \in [lsn : Nat, view : Views]
      BY <2>1 DEF TypeOK
    <2> QED  BY <2>1, <2>2
  <1>3. Len(ledger) \in Nat  BY <1>1, <1>2, LedgerGrows
  <1>4. ASSUME NEW c \in Clients, AppendWal(c), ledger' = Append(ledger, ChangeOf(c))
        PROVE  LedgerNumbers'
    <2> DEFINE f == [lsn |-> nextLsn, change |-> ChangeOf(c)]
    <2>1. /\ ChangeOf(c) \in Changes /\ f \in Frames /\ log' = Append(log, f)
          /\ f.change = ChangeOf(c) /\ f.lsn = nextLsn
      BY <1>2, <1>4, AppendedFrame DEF ChangeOf
    <2>2. phase = "up" /\ nextLsn' = nextLsn + 1 /\ nextLsn = Len(ledger) + 1
      BY <1>2, <1>4 DEF AppendWal, ThreadsOK, LedgerNumbers
    <2> HIDE DEF f
    <2>3. /\ Len(log') = Len(log) + 1 /\ log'[Len(log) + 1] = f /\ log' # <<>>
          /\ \A i \in 1..Len(log) : log'[i] = log[i]
      BY <1>2, <2>1
    <2>4. /\ Len(ledger') = Len(ledger) + 1 /\ ledger'[Len(ledger) + 1] = ChangeOf(c)
          /\ \A i \in 1..Len(ledger) : ledger'[i] = ledger[i]
      BY <1>1, <1>4, <2>1 DEF RTypeOK
    <2>5. ASSUME NEW i \in 1..Len(log')
          PROVE  log'[i].lsn \in 1..Len(ledger') /\ log'[i].change = ledger'[log'[i].lsn]
      <3>1. CASE i \in 1..Len(log)
        <4>1. /\ log'[i] = log[i] /\ log[i].lsn \in 1..Len(ledger)
              /\ log[i].change = ledger[log[i].lsn]
          BY <2>3, <3>1 DEF LedgerNumbers
        <4> QED  BY <1>3, <2>4, <4>1
      <3>2. CASE i = Len(log) + 1  BY <1>3, <2>1, <2>2, <2>3, <2>4, <3>2
      <3> QED  BY <1>2, <2>3, <3>1, <3>2
    <2>6. nextLsn' = Len(ledger') + 1  BY <1>3, <2>2, <2>4
    <2>7. log'[Len(log')].lsn = Len(ledger')  BY <1>3, <2>1, <2>2, <2>3, <2>4
    <2> QED  BY <2>3, <2>5, <2>6, <2>7 DEF LedgerNumbers
  <1>5. ASSUME ledger' = ledger, SnapshotWrite PROVE LedgerNumbers'
    <2>1. /\ phase = "up" /\ log' = log /\ nextLsn' = nextLsn /\ image'.lsn = snapper.lsn
          /\ snapper.pc # "idle"
      BY <1>2, <1>5 DEF SnapshotWrite, ThreadsOK
    <2>2. image'.lsn = Len(ledger)
      BY <1>2, <1>3, <2>1 DEF Numbering, LedgerNumbers
    <2> QED  BY <1>5, <2>1, <2>2 DEF LedgerNumbers
  <1>6. ASSUME ledger' = ledger, SnapshotReset PROVE LedgerNumbers'
    <2>1. /\ phase = "up" /\ log' = <<>> /\ nextLsn' = nextLsn /\ image' = image
          /\ snapper.pc = "reset"
      BY <1>2, <1>6 DEF SnapshotReset, ThreadsOK
    <2>2. image.lsn = Len(ledger)
      BY <1>2, <1>3, <2>1 DEF Numbering, LedgerNumbers
    <2>3. Len(<<>>) = 0 /\ 1..0 = {}  OBVIOUS
    <2> QED  BY <1>6, <2>1, <2>2, <2>3 DEF LedgerNumbers
  <1>7. ASSUME ledger' = ledger, UNCHANGED <<log, image>> PROVE LedgerNumbers'
    <2>1. phase' \in {"up", "loading"} => nextLsn' = Len(ledger) + 1
      <3>1. CASE OpenSnapshot
        <4>1. nextLsn' = NextLsnOf(log) /\ ~(NextLsnOf(log) <= image.lsn)
          BY <1>1, <3>1 DEF OpenSnapshot
        <4>2. CASE log = <<>>
          <5>1. NextLsnOf(log) = 1 /\ image.lsn = Len(ledger)
            BY <4>2 DEF NextLsnOf, LedgerNumbers
          <5> QED  BY <1>2, <1>3, <4>1, <5>1
        <4>3. CASE log # <<>>
          BY <4>1, <4>3 DEF NextLsnOf, LedgerNumbers
        <4> QED  BY <4>2, <4>3
      <3>2. CASE Crash  BY <3>2 DEF Crash
      <3>3. CASE nextLsn' = nextLsn /\ (phase' \in {"up", "loading"} => phase \in {"up", "loading"})
        BY <3>3 DEF LedgerNumbers
      <3>4. CASE \E c \in Clients : AppendWal(c)
        <4>1. PICK f \in Frames : log' = Append(log, f)  BY <1>2, <3>4, AppendedFrame
        <4>2. Len(log') = Len(log) + 1  BY <1>2, <4>1
        <4> QED  BY <1>2, <1>7, <4>2
      <3> QED
        <4>1. ASSUME NEW c \in Clients, Request(c)
              PROVE  nextLsn' = nextLsn /\ phase' = phase
          BY <4>1 DEF Request, CreateTable, DropTable, InsertLookup
        <4>2. ASSUME NEW c \in Clients,
                     InsertMany(c) \/ InsertManyRejects(c) \/ Encode(c) \/ AppendFails(c)
              PROVE  nextLsn' = nextLsn /\ phase' = phase
          BY <4>2 DEF InsertMany, InsertManyRejects, Encode, AppendFails
        <4>3. ASSUME \/ SnapshotLock \/ SnapshotStep \/ SnapshotFails
                     \/ BytesLock \/ BytesEncode
              PROVE  nextLsn' = nextLsn /\ phase' = phase
          BY <4>3
          DEF SnapshotStep, SnapshotLock, SnapshotCollect, SnapshotGuard, SnapshotWrite,
              SnapshotReset, SnapshotFails, BytesLock, BytesEncode
        <4>4. ASSUME OpenSkip \/ OpenApply \/ OpenFails \/ OpenDone
              PROVE  nextLsn' = nextLsn /\ phase = "loading"
          BY <4>4 DEF OpenSkip, OpenApply, OpenFails, OpenDone
        <4>5. ASSUME Rest \/ UNCHANGED vars PROVE nextLsn' = nextLsn /\ phase' = phase
          BY <4>5 DEF Rest, vars
        <4> QED
          BY <1>1, <3>1, <3>2, <3>3, <3>4, <4>1, <4>2, <4>3, <4>4, <4>5
          DEF Next, LocalStep, ClientStep, OpenStep
    <2> QED  BY <1>7, <2>1 DEF LedgerNumbers
  <1> QED  BY <1>1, <1>2, <1>4, <1>5, <1>6, <1>7, LedgerSteps

\* The handles snapshot copies are the last ones: a CREATE that would make another
\* waits for the DROP that took the table away (Database::snapshot collects first).
LEMMA CollectedNewestNext ==
  ASSUME Known, CollectedNewest, [Next]_vars, Clean'
  PROVE  CollectedNewest'
  <1> USE DEF Base, TypeInv
  <1>1. /\ TypeOK /\ TypeInv /\ NewestHandles /\ HandlesCurrent
        /\ gen \in [Tables -> 0..MaxGen] /\ tables \in [Tables -> 0..MaxGen]
        /\ snapper.handles \in SUBSET Handles
    BY DEF Known, Typed, Decoding, RClean, Clean, TypeOK
  <1>2. CASE SnapshotCollect
    <2>1. gen' = gen /\ snapper'.handles = {HandleOf(t) : t \in View.names}
      BY <1>1, <1>2 DEF SnapshotCollect, mem, TypeOK
    <2>2. \A t \in View.names : t \in Tables /\ tables[t] = gen[t]
      BY <1>1 DEF View, NewestHandles
    <2>3. \A h \in snapper'.handles : h[2] = gen'[h[1]]  BY <2>1, <2>2 DEF HandleOf
    <2> QED  BY <2>3 DEF CollectedNewest
  <1>3. ASSUME NEW c \in Clients, NEW t \in Tables, CreateTable(c, t) PROVE CollectedNewest'
    <2>1. snapper' = snapper /\ tables[t] = 0 /\ gen' = [gen EXCEPT ![t] = gen[t] + 1] /\ ~InFlight(c)
      BY <1>3 DEF CreateTable, Serve, InFlight
    <2>2. ~InsertLookup(c, t)  BY <1>1, <1>3, RequestStarts DEF Starts
    <2>3. t \notin Doing("drop")
      BY <1>1, <1>3, <2>1, <2>2, StartsApart DEF Doing
    <2> SUFFICES ASSUME snapper.pc \in {"guard", "reset"}, NEW h \in snapper.handles
                 PROVE  h[2] = gen'[h[1]]
      BY <2>1 DEF CollectedNewest
    <2>4. h[1] \in Tables /\ h[2] \in Gens /\ h[2] = gen[h[1]]
      BY <1>1 DEF Handles, CollectedNewest
    <2>5. h[1] # t  BY <1>1, <2>1, <2>3, <2>4 DEF HandlesCurrent, Gens
    <2> QED  BY <1>1, <2>1, <2>4, <2>5
  <1>4. ASSUME gen' = gen, snapper'.pc \in {"guard", "reset"} =>
                  snapper.pc \in {"guard", "reset"} /\ snapper'.handles = snapper.handles
        PROVE  CollectedNewest'
    BY <1>4 DEF CollectedNewest
  <1>5. ASSUME snapper'.pc \notin {"guard", "reset"} PROVE CollectedNewest'
    BY <1>5 DEF CollectedNewest
  <1>6. CASE OpenSnapshot \/ OpenApply
    <2>1. snapper' = snapper /\ phase # "up"  BY <1>6 DEF OpenSnapshot, OpenApply
    <2>2. snapper.pc = "idle"  BY <1>1, <2>1, NobodyWhenDown
    <2> QED  BY <1>5, <2>1, <2>2
  <1>7. CASE Crash  BY <1>5, <1>7 DEF Crash, NoSnapper
  <1>8. CASE SnapshotLock \/ SnapshotReset \/ SnapshotFails \/ BytesLock \/ BytesEncode
    <2>1. CASE SnapshotLock  BY <1>5, <2>1 DEF SnapshotLock, NoSnapper
    <2>2. CASE BytesLock  BY <1>5, <2>2 DEF BytesLock, NoSnapper
    <2>3. CASE SnapshotReset \/ SnapshotFails \/ BytesEncode
      BY <1>5, <2>3 DEF SnapshotReset, SnapshotFails, BytesEncode, NoSnapper
    <2> QED  BY <1>8, <2>1, <2>2, <2>3
  <1>9. CASE SnapshotWrite \/ \E h \in Handles : SnapshotGuard(h)
    <2>1. /\ gen' = gen /\ snapper.pc \in {"guard", "reset"} /\ snapper'.handles = snapper.handles
      BY <1>1, <1>9 DEF SnapshotWrite, SnapshotGuard, mem, TypeOK
    <2> QED  BY <1>4, <2>1
  <1>10. ASSUME UNCHANGED <<gen, snapper>> PROVE CollectedNewest'  BY <1>4, <1>10
  <1> QED
    BY <1>2, <1>3, <1>6, <1>7, <1>8, <1>9, <1>10
    DEF Next, LocalStep, vars, mem, Request, ClientStep, SnapshotStep, OpenStep, Rest,
        DropTable, InsertLookup, InsertMany, InsertManyRejects, Encode, AppendWal, AppendFails,
        OpenSkip, OpenFails, OpenDone

-----------------------------------------------------------------------------
(* The files and what the ledger adds up to. *)

\* What recovery would yield now.
Files == Recovered(image, log).view

Told == /\ LedgerNumbers /\ LedgerExact /\ LedgerDecodes
        /\ PendingDrops /\ PendingCreates /\ CollectedNewest

LEMMA FilesTyped ==
  ASSUME Base
  PROVE  Files \in Views /\ Tidy(Files) /\ Files.names \in SUBSET Tables
         /\ Files.rows \in [Tables -> [Rows -> Nat]]
         /\ Files = [names |-> Files.names, rows |-> Files.rows]
  <1>1. Files \in Views /\ Tidy(Files)
    BY ImageTidy, RecoveredTyped DEF Base, TypeInv, HandlesOK, TypeOK, Files
  <1> QED  BY <1>1 DEF Views, Bags

\* A snapshot that runs neither ahead of a record nor behind a DROP copies what
\* recovery would yield: it changes nothing but the form of the files.
LEMMA CapturedIsRecovered ==
  ASSUME Known, Told, snapper.pc = "guard", ~CapturedUnlogged, ~CatchesDrop
  PROVE  Captured = Files
  <1> USE DEF Base, TypeInv
  <1>1. /\ TypeOK /\ ThreadsOK /\ RequestsApart /\ RequestTables /\ NamesCaptured
        /\ HandlesCurrent /\ NewestHandles /\ phase = "up"
        /\ PendingDrops /\ PendingCreates /\ CollectedNewest
    BY DEF Known, Typed, Decoding, RClean, Clean, ThreadsOK, Told
  <1>2. Exact(Files)
    BY <1>1 DEF Known, Exactness, RClean, Clean, Files
  <1>3. /\ Captured \in Views /\ Captured.rows \in [Tables -> [Rows -> Nat]]
        /\ Captured.names \in SUBSET Tables
        /\ Captured = [names |-> Captured.names, rows |-> Captured.rows]
    BY <1>1, CapturedTyped DEF Views, Bags
  <1>4. Exact(Captured)
    <2>1. PICK v : v = Files  OBVIOUS
    <2> QED  BY <1>1, <1>2, <2>1, ExactWrite DEF Known
  <1>5. /\ Tidy(Files) /\ Files.names \in SUBSET Tables
        /\ Files.rows \in [Tables -> [Rows -> Nat]]
        /\ Files = [names |-> Files.names, rows |-> Files.rows]
    BY FilesTyped DEF Known
  <1>6. \A t \in Tables : t \in Captured.names <=> \E h \in snapper.handles : h[1] = t
    BY DEF Captured
  <1>7. ASSUME NEW t \in Tables
        PROVE  (t \in Captured.names <=> t \in Files.names) /\ Captured.rows[t] = Files.rows[t]
    <2>1. CASE t \in Doing("drop")
      <3>1. PICK d \in Clients : InFlight(d) /\ op[d].kind = "drop" /\ op[d].table = t
        BY <2>1 DEF Doing
      <3>2. Unlogged(d)  BY <1>1, <3>1 DEF InFlight, Unlogged, ThreadsOK
      <3>3. PICK h \in snapper.handles : h[1] = t  BY <3>1, <3>2 DEF CatchesDrop
      <3>4. t \in Files.names /\ heap[<<t, gen[t]>>] = Files.rows[t]
        BY <1>1, <3>1, <3>2 DEF PendingDrops, Files
      <3> DEFINE k == CHOOSE x \in snapper.handles : x[1] = t
      <3>5. k \in snapper.handles /\ k[1] = t  BY <3>3
      <3>6. Captured.rows[t] = heap[k]  BY <3>3 DEF Captured
      <3> HIDE DEF k
      <3>7. k \in Handles /\ k[2] = gen[t]  BY <1>1, <3>5 DEF TypeOK, CollectedNewest
      <3>8. k = <<t, gen[t]>>  BY <3>5, <3>7 DEF Handles
      <3> QED  BY <1>6, <3>3, <3>4, <3>6, <3>8
    <2>2. CASE t \in Doing("create")
      <3>1. PICK d \in Clients : InFlight(d) /\ op[d].kind = "create" /\ op[d].table = t
        BY <2>2 DEF Doing
      <3>2. Unlogged(d)  BY <1>1, <3>1 DEF InFlight, Unlogged, ThreadsOK
      <3>3. tables[t] = op[d].gen  BY <1>1, <3>1 DEF RequestTables
      <3>4. <<t, op[d].gen>> \notin snapper.handles  BY <3>1, <3>2 DEF CapturedUnlogged
      <3>5. t \notin Doing("drop")  BY <1>1, <3>1 DEF Doing, RequestsApart
      <3>6. ASSUME NEW h \in snapper.handles, h[1] = t PROVE FALSE
        <4>1. h = <<h[1], h[2]>>  BY <1>1 DEF TypeOK, Handles
        <4>2. tables[t] = h[2]  BY <1>1, <3>5, <3>6 DEF HandlesCurrent
        <4> QED  BY <3>3, <3>4, <3>6, <4>1, <4>2
      <3>7. t \notin Files.names  BY <1>1, <3>1, <3>2 DEF PendingCreates, Files
      <3>8. Files.rows[t] = NoRows  BY <1>5, <3>7 DEF Tidy
      <3>9. Captured.rows[t] = NoRows  BY <3>6 DEF Captured
      <3> QED  BY <1>6, <3>6, <3>7, <3>8, <3>9
    <2>3. CASE t \notin Doing("drop") \cup Doing("create")
      <3>1. t \in Captured.names <=> t \in Files.names
        BY <1>2, <1>4, <2>3 DEF Exact, ExactName
      <3>2. ASSUME NEW r \in Rows PROVE Captured.rows[t][r] = Files.rows[t][r]
        <4>1. View.rows[t][r] = Captured.rows[t][r] + IF PendingRow(t, r) THEN 1 ELSE 0
          BY <1>4, <2>3 DEF Exact, ExactRows
        <4>2. View.rows[t][r] = Files.rows[t][r] + IF PendingRow(t, r) THEN 1 ELSE 0
          BY <1>2, <2>3 DEF Exact, ExactRows
        <4>3. Captured.rows[t][r] \in Nat /\ Files.rows[t][r] \in Nat  BY <1>3, <1>5
        <4> QED  BY <4>1, <4>2, <4>3
      <3>3. Captured.rows[t] \in [Rows -> Nat] /\ Files.rows[t] \in [Rows -> Nat]
        BY <1>3, <1>5
      <3>4. Captured.rows[t] = Files.rows[t]  BY <3>2, <3>3
      <3> QED  BY <3>1, <3>4
    <2> QED  BY <2>1, <2>2, <2>3
  <1>8. Captured.names = Files.names  BY <1>3, <1>5, <1>7
  <1>9. Captured.rows = Files.rows  BY <1>3, <1>5, <1>7
  <1> QED  BY <1>3, <1>5, <1>8, <1>9

\* The files change by the record that is logged, and else not at all.
LEMMA FilesNext ==
  ASSUME Known, Told, [RNext]_rvars, RClean'
  PROVE  \/ \E c \in Clients :
              /\ AppendWal(c) /\ ChangeOf(c) \in Changes /\ ledger' = Append(ledger, ChangeOf(c))
              /\ Decodable(Files, ChangeOf(c)) /\ Files' = Apply(Files, ChangeOf(c))
         \/ ledger' = ledger /\ Files' = Files /\ \A c \in Clients : ~AppendWal(c)
  <1> USE DEF Base, TypeInv
  <1>1. /\ TypeInv /\ RTypeOK /\ Base /\ Clean /\ Numbering /\ log \in Seq(Frames)
        /\ RequestsApart /\ RequestTables /\ NamesStored /\ FilesDecode
    <2>1. Clean /\ ~leftover  BY DEF Known, RClean, Clean
    <2>2. (unbacked => leftover) /\ RequestsApart /\ RequestTables
      BY <2>1 DEF Known, Decoding
    <2>3. NamesStored /\ FilesDecode  BY <2>1, <2>2, Zenon DEF Known, Decoding
    <2> QED  BY <2>1, <2>2, <2>3 DEF Known, Typed, TypeOK
  <1>2. ASSUME NEW c \in Clients, AppendWal(c)
        PROVE  Decodable(Files, ChangeOf(c)) /\ Files' = Apply(Files, ChangeOf(c))
               /\ log' # log /\ Len(log') = Len(log) + 1
    <2>1. PICK change \in Changes :
            /\ change.kind = op[c].kind /\ change.table = op[c].table /\ change.row = op[c].row
            /\ Decodable(Files, change)
            /\ Recovered(image', log') = [ok |-> TRUE, view |-> Apply(Files, change)]
      BY <1>1, <1>2, AppendRecovered DEF Files
    <2>2. change = ChangeOf(c)
      <3>1. change = [kind |-> change.kind, table |-> change.table, row |-> change.row]
        BY DEF Changes
      <3> QED  BY <2>1, <3>1 DEF ChangeOf
    <2>3. Files' = Recovered(image', log').view  BY DEF Files
    <2>4. PICK f \in Frames : log' = Append(log, f)  BY <1>1, <1>2, AppendedFrame
    <2>5. Len(log') = Len(log) + 1 /\ Len(log) \in Nat  BY <1>1, <2>4
    <2>6. log' # log  BY <2>5
    <2> QED  BY <2>1, <2>2, <2>3, <2>5, <2>6
  <1>3. CASE ledger' = ledger /\ SnapshotWrite /\ PrimaryStep
    <2>1. /\ snapper.pc = "guard" /\ snapper'.pc = "reset" /\ log' = log
          /\ straddled' = (straddled \/ CapturedUnlogged)
      BY <1>1, <1>3 DEF SnapshotWrite, TypeOK
    <2>2. ~CapturedUnlogged  BY <2>1 DEF RClean
    <2>3. ~CatchesDrop
      <3>1. caught' = (caught \/ (snapper.pc = "guard" /\ snapper'.pc = "reset" /\ CatchesDrop))
        BY <1>3 DEF PrimaryStep
      <3> QED  BY <2>1, <3>1 DEF RClean
    <2>4. Captured = Files  BY <2>1, <2>2, <2>3, CapturedIsRecovered
    <2>5. Recovered(image', log').view = Captured  BY <1>1, <1>3, WriteRecovered
    <2>6. Files' = Files  BY <2>4, <2>5 DEF Files
    <2> QED  BY <1>2, <1>3, <2>1, <2>6
  <1>4. CASE ledger' = ledger /\ SnapshotReset
    <2>1. Recovered(image', log') = Recovered(image, log)  BY <1>1, <1>4, ResetRecovered
    <2>2. Files' = Files  BY <2>1 DEF Files
    <2>3. Len(log') = 0 /\ Len(log) \in Nat  BY <1>1, <1>4 DEF SnapshotReset
    <2>4. \A c \in Clients : ~AppendWal(c)  BY <1>2, <2>3
    <2> QED  BY <1>4, <2>2, <2>4
  <1>5. CASE ledger' = ledger /\ UNCHANGED <<log, image>>
    <2>1. Files' = Files  BY <1>5 DEF Files
    <2> QED  BY <1>2, <1>5, <2>1
  <1> QED  BY <1>1, <1>2, <1>3, <1>4, <1>5, LedgerSteps

\* Recovery and the ledger stay together, and what is logged finds its table.
LEMMA LedgerExactNext ==
  ASSUME Known, Typed', Told, [RNext]_rvars, RClean'
  PROVE  LedgerExact' /\ LedgerDecodes'
  <1>1. /\ TypeInv /\ RTypeOK /\ RTypeOK' /\ ledger \in Seq(Changes) /\ ledger' \in Seq(Changes)
        /\ LedgerExact /\ LedgerDecodes
    BY DEF Known, Base, Typed, RTypeOK, Told
  <1>2. /\ Len(ledger) \in Nat /\ Len(ledger') \in Nat
        /\ \A i \in 1..Len(ledger) : ledger'[i] = ledger[i]
        /\ \A n \in 0..Len(ledger) : After(ledger', n) = After(ledger, n)
    BY <1>1, LedgerGrows
  <1>3. Files = After(ledger, Len(ledger))  BY <1>1 DEF LedgerExact, ViewAt, Files
  <1>4. \A n \in 0..(Len(ledger) - 1) : Decodable(After(ledger, n), ledger[n + 1])
    BY <1>1 DEF LedgerDecodes, ViewAt
  <1>5. ASSUME NEW n \in 0..(Len(ledger) - 1)
        PROVE  Decodable(After(ledger', n), ledger'[n + 1])
    <2>1. n \in 0..Len(ledger) /\ n + 1 \in 1..Len(ledger)  BY <1>2
    <2> QED  BY <1>2, <1>4, <2>1
  <1>6. CASE ledger' = ledger /\ Files' = Files
    <2>1. LedgerExact'  BY <1>1, <1>6 DEF LedgerExact, ViewAt, Files
    <2>2. LedgerDecodes'  BY <1>1, <1>6 DEF LedgerDecodes, ViewAt
    <2> QED  BY <2>1, <2>2
  <1>7. ASSUME NEW change \in Changes, ledger' = Append(ledger, change), Decodable(Files, change),
               Files' = Apply(Files, change)
        PROVE  LedgerExact' /\ LedgerDecodes'
    <2> DEFINE n == Len(ledger)
    <2>1. n \in Nat /\ Len(ledger') = n + 1 /\ ledger'[n + 1] = change /\ n < Len(ledger')
      BY <1>1, <1>7
    <2>2. After(ledger', n) = Files  BY <1>2, <1>3, <2>1
    <2>3. After(ledger', n + 1) = Apply(After(ledger', n), ledger'[n + 1])
      <3> HIDE DEF n
      <3> QED  BY <1>1, <2>1, AfterNext
    <2>4. LedgerExact'
      <3>1. Files' = After(ledger', Len(ledger'))  BY <1>7, <2>1, <2>2, <2>3
      <3> QED  BY <3>1 DEF LedgerExact, ViewAt, Files
    <2>5. \A m \in 0..(Len(ledger') - 1) : Decodable(After(ledger', m), ledger'[m + 1])
      BY <1>5, <1>7, <2>1, <2>2
    <2>6. LedgerDecodes'  BY <2>5 DEF LedgerDecodes, ViewAt
    <2> QED  BY <2>4, <2>6
  <1>8. ASSUME NEW c \in Clients, ChangeOf(c) \in Changes, ledger' = Append(ledger, ChangeOf(c)),
               Decodable(Files, ChangeOf(c)), Files' = Apply(Files, ChangeOf(c))
        PROVE  LedgerExact' /\ LedgerDecodes'
    <2>1. PICK change \in Changes : change = ChangeOf(c)  BY <1>8
    <2> QED  BY <1>7, <1>8, <2>1
  <1> QED  BY <1>6, <1>8, FilesNext

\* A record leaves the other tables alone (Database::apply).
LEMMA ApplyElsewhere ==
  ASSUME NEW view \in Views, NEW change \in Changes, NEW t \in Tables, t # change.table
  PROVE  /\ t \in Apply(view, change).names <=> t \in view.names
         /\ Apply(view, change).rows[t] = view.rows[t]
  <1>1. view.rows \in [Tables -> Bags]  BY DEF Views
  <1> DEFINE after == Apply(view, change)
  <1>2. CASE change.kind = "create"
    <2>1. after.names = view.names \cup {change.table}
          /\ after.rows = [view.rows EXCEPT ![change.table] = NoRows]
      BY <1>2, Applied
    <2> HIDE DEF after
    <2>2. after.rows[t] = view.rows[t]  BY <1>1, <2>1
    <2> QED  BY <2>1, <2>2 DEF after
  <1>3. CASE change.kind = "drop"
    <2>1. after.names = view.names \ {change.table}
          /\ after.rows = [view.rows EXCEPT ![change.table] = NoRows]
      BY <1>3, Applied
    <2> HIDE DEF after
    <2>2. after.rows[t] = view.rows[t]  BY <1>1, <2>1
    <2> QED  BY <2>1, <2>2 DEF after
  <1>4. CASE change.kind = "insert"
    <2>1. after.names = view.names
          /\ after.rows = [view.rows EXCEPT ![change.table]
                             = AddRow(view.rows[change.table], change.row)]
      BY <1>4, Applied
    <2> HIDE DEF after
    <2>2. after.rows[t] = view.rows[t]  BY <1>1, <2>1
    <2> QED  BY <2>1, <2>2 DEF after
  <1> QED  BY <1>2, <1>3, <1>4, Applied

\* A DDL that waits for the log has just begun or waited before.
LEMMA WaitingDDL ==
  ASSUME TypeInv, [Next]_vars, NEW c \in Clients, Unlogged(c)', op'[c].kind # "insert"
  PROVE  \/ \E t \in Tables : CreateTable(c, t) \/ DropTable(c, t)
         \/ op'[c] = op[c] /\ Unlogged(c) /\ InFlight(c) /\ ~AppendWal(c)
  <1> USE DEF TypeInv
  <1>1. Unlogged(c) => InFlight(c)  BY DEF Unlogged, InFlight
  <1>2. ASSUME NEW d \in Clients, Request(d)
        PROVE  \/ \E t \in Tables : CreateTable(c, t) \/ DropTable(c, t)
               \/ op'[c] = op[c] /\ Unlogged(c)
    <2>1. PICK t \in Tables : CreateTable(d, t) \/ DropTable(d, t) \/ InsertLookup(d, t)
      BY <1>2 DEF Request
    <2>2. CASE d # c
      BY <2>1, <2>2 DEF CreateTable, DropTable, InsertLookup, TypeOK, Unlogged
    <2>3. CASE d = c
      <3>1. ~InsertLookup(c, t)  BY <2>3 DEF InsertLookup, TypeOK, Unlogged
      <3> QED  BY <2>1, <2>3, <3>1
    <2> QED  BY <2>2, <2>3
  <1>3. ASSUME NEW d \in Clients, ClientStep(d)
        PROVE  op'[c] = op[c] /\ Unlogged(c)
    <2>1. CASE d = c
      <3>1. Moves(c) \/ Ends(c)  BY <1>3, <2>1, RequestMoves DEF ClientStep
      <3>2. Unlogged(c)' => InFlight(c)'  BY DEF Unlogged, InFlight
      <3>3. Moves(c)  BY <3>1, <3>2 DEF Ends
      <3>4. op'[c] = op[c]  BY <3>3 DEF Moves
      <3>5. ~InsertMany(c)  BY <3>4 DEF InsertMany, PushRow, ThreadsOK
      <3>6. ~InsertManyRejects(c) /\ ~AppendWal(c) /\ ~AppendFails(c)
        <4>1. InsertManyRejects(c) \/ AppendWal(c) \/ AppendFails(c) => ~InFlight(c)'
          BY RequestMoves DEF Ends
        <4> QED  BY <3>2, <4>1
      <3>7. Encode(c)  BY <1>3, <2>1, <3>5, <3>6 DEF ClientStep
      <3> QED  BY <3>4, <3>7 DEF Encode, Unlogged
    <2>2. CASE d # c
      <3>1. Moves(d) \/ Ends(d)  BY <1>3, RequestMoves DEF ClientStep
      <3>2. pc'[c] = pc[c] /\ op'[c] = op[c]  BY <2>2, <3>1 DEF Moves, Ends, Others
      <3> QED  BY <3>2 DEF Unlogged
    <2> QED  BY <2>1, <2>2
  <1>4. ASSUME NobodyIn' PROVE FALSE
    BY <1>4 DEF NobodyIn, InFlight, Unlogged
  <1>5. ASSUME UNCHANGED <<pc, op>> PROVE op'[c] = op[c] /\ Unlogged(c)
    BY <1>5 DEF Unlogged
  <1>6. AppendWal(c) => ~Unlogged(c)'
    <2>1. AppendWal(c) => ~InFlight(c)'  BY RequestMoves DEF Ends
    <2> QED  BY <2>1 DEF Unlogged, InFlight
  <1> QED  BY <1>1, <1>2, <1>3, <1>4, <1>5, <1>6, ThreadsRest

\* The files keep what they say of the table of a waiting DDL.
LEMMA WaitingFiles ==
  ASSUME Known, Told, [RNext]_rvars, RClean', NEW c \in Clients, InFlight(c), ~AppendWal(c),
         op[c].kind # "insert"
  PROVE  /\ op[c].table \in Files'.names <=> op[c].table \in Files.names
         /\ Files'.rows[op[c].table] = Files.rows[op[c].table]
  <1>1. RequestsApart /\ Files \in Views /\ op[c].table \in Tables
    BY FilesTyped DEF Known, Base, TypeInv, Decoding, RClean, Clean, TypeOK, Ops
  <1>2. ASSUME NEW d \in Clients, AppendWal(d), ChangeOf(d) \in Changes,
               Files' = Apply(Files, ChangeOf(d))
        PROVE  /\ op[c].table \in Files'.names <=> op[c].table \in Files.names
               /\ Files'.rows[op[c].table] = Files.rows[op[c].table]
    <2>1. d # c /\ InFlight(d)  BY <1>2 DEF AppendWal, InFlight
    <2>2. op[c].table # op[d].table  BY <1>1, <2>1 DEF RequestsApart
    <2>3. op[c].table # ChangeOf(d).table  BY <2>2 DEF ChangeOf
    <2> QED  BY <1>1, <1>2, <2>3, ApplyElsewhere
  <1> QED  BY <1>2, FilesNext

\* A table that a DROP took away stays in memory, under the last handle of its
\* name, as the files have it until the DROP is logged (Database::drop_table).
LEMMA PendingDropsNext ==
  ASSUME Known, Told, [RNext]_rvars, RClean'
  PROVE  PendingDrops'
  <1> USE DEF Base, TypeInv
  <1>1. /\ TypeOK /\ TypeInv /\ RTypeOK /\ RequestsApart /\ NamesStored /\ NewestHandles
        /\ PendingDrops /\ Files \in Views /\ Files.rows \in [Tables -> [Rows -> Nat]]
        /\ heap \in [Handles -> Bags] /\ gen \in [Tables -> 0..MaxGen]
        /\ tables \in [Tables -> 0..MaxGen]
    BY FilesTyped DEF Known, Typed, Decoding, RClean, Clean, TypeOK, Told
  <1>2. [Next]_vars /\ Clean'  BY <1>1, PrimarySteps, RCleanBack
  <1> SUFFICES ASSUME NEW c \in Clients, Unlogged(c)', op'[c].kind = "drop"
               PROVE  /\ op'[c].table \in Files'.names /\ gen'[op'[c].table] \in Gens
                      /\ heap'[<<op'[c].table, gen'[op'[c].table]>>] = Files'.rows[op'[c].table]
    BY DEF PendingDrops, Files
  <1>3. ASSUME NEW t \in Tables, DropTable(c, t)
        PROVE  /\ op'[c].table \in Files'.names /\ gen'[op'[c].table] \in Gens
               /\ heap'[<<op'[c].table, gen'[op'[c].table]>>] = Files'.rows[op'[c].table]
    <2>1. /\ phase = "up" /\ tables[t] # 0 /\ op'[c].table = t /\ UNCHANGED <<heap, gen, log, image>>
          /\ ~InFlight(c)
      BY <1>1, <1>3 DEF DropTable, Serve, disk, InFlight, TypeOK
    <2>2. ~InsertLookup(c, t)  BY <1>1, <1>3, RequestStarts DEF Starts
    <2>3. \A d \in Clients : InFlight(d) => op[d].table # t
      BY <1>1, <1>2, <1>3, <2>1, <2>2, StartsApart
    <2>4. /\ t \notin Doing("create") /\ t \notin Doing("drop")
          /\ \A r \in Rows : ~PendingRow(t, r)
      BY <2>3 DEF Doing, PendingRow, Unlogged, InFlight
    <2>5. t \in Files.names  BY <1>1, <2>1, <2>4 DEF NamesStored, Files
    <2>6. /\ tables[t] = gen[t] /\ gen[t] \in Gens
          /\ <<t, gen[t]>> \in Handles /\ HandleOf(t) = <<t, gen[t]>>
      BY <1>1, <2>1, BoundsAssumption DEF NewestHandles, Handles, Gens, HandleOf
    <2>7. Exact(Files)  BY <2>1 DEF Known, Exactness, RClean, Clean, Files
    <2>8. View.rows[t] = heap[<<t, gen[t]>>]  BY <2>1, <2>6 DEF View
    <2>9. heap[<<t, gen[t]>>] \in [Rows -> Nat] /\ Files.rows[t] \in [Rows -> Nat]
      BY <1>1, <2>6 DEF Bags
    <2>10. ASSUME NEW r \in Rows PROVE heap[<<t, gen[t]>>][r] = Files.rows[t][r]
      <3>1. View.rows[t][r] = Files.rows[t][r] + IF PendingRow(t, r) THEN 1 ELSE 0
        BY <2>4, <2>7 DEF Exact, ExactRows
      <3>2. Files.rows[t][r] \in Nat  BY <2>9
      <3> QED  BY <2>4, <2>8, <3>1, <3>2
    <2>11. heap[<<t, gen[t]>>] = Files.rows[t]  BY <2>9, <2>10
    <2>12. Files' = Files  BY <2>1 DEF Files
    <2> QED  BY <2>1, <2>5, <2>6, <2>11, <2>12
  <1>4. ASSUME op'[c] = op[c], Unlogged(c), InFlight(c), ~AppendWal(c)
        PROVE  /\ op'[c].table \in Files'.names /\ gen'[op'[c].table] \in Gens
               /\ heap'[<<op'[c].table, gen'[op'[c].table]>>] = Files'.rows[op'[c].table]
    <2> DEFINE t == op[c].table
    <2>1. t \in Tables /\ op[c].kind = "drop"  BY <1>1, <1>4 DEF TypeOK, Ops
    <2>2. t \in Files.names /\ gen[t] \in Gens /\ heap[<<t, gen[t]>>] = Files.rows[t]
      BY <1>1, <1>4, <2>1 DEF PendingDrops, Files
    <2>3. (t \in Files'.names <=> t \in Files.names) /\ Files'.rows[t] = Files.rows[t]
      BY <1>4, <2>1, WaitingFiles
    <2>4. gen'[t] = gen[t] /\ heap'[<<t, gen[t]>>] = heap[<<t, gen[t]>>]
      <3>1. ASSUME NEW d \in Clients, NEW u \in Tables, CreateTable(d, u)
            PROVE  gen'[t] = gen[t] /\ heap'[<<t, gen[t]>>] = heap[<<t, gen[t]>>]
        <4>1. d # c  BY <1>4, <3>1 DEF CreateTable, Serve, InFlight
        <4>2. u # t  BY <1>1, <1>2, <1>4, <2>1, <3>1, <4>1, StartsApart
        <4>3. <<t, gen[t]>> \in Handles /\ <<t, gen[t]>> # <<u, gen[u] + 1>>
          BY <2>1, <2>2, <4>2 DEF Handles
        <4>4. /\ heap' = [heap EXCEPT ![<<u, gen[u] + 1>>] = NoRows]
              /\ gen' = [gen EXCEPT ![u] = @ + 1]
          BY <3>1 DEF CreateTable
        <4> QED  BY <1>1, <2>1, <4>2, <4>3, <4>4
      <3>2. ASSUME NEW d \in Clients, InsertMany(d)
            PROVE  gen'[t] = gen[t] /\ heap'[<<t, gen[t]>>] = heap[<<t, gen[t]>>]
        <4>1. InFlight(d) /\ op[d].kind = "insert"
          BY <1>1, <3>2 DEF InsertMany, PushRow, InFlight, ThreadsOK
        <4>2. op[d].table # t  BY <1>1, <1>4, <2>1, <4>1 DEF RequestsApart
        <4>3. <<t, gen[t]>> \in Handles  BY <2>1, <2>2 DEF Handles
        <4> QED  BY <1>1, <2>1, <3>2, <4>2, <4>3 DEF InsertMany, PushRow
      <3>3. ASSUME NEW d \in Clients, InsertManyRejects(d) PROVE FALSE
        BY <3>3 DEF InsertManyRejects, RClean
      <3>4. ASSUME UNCHANGED <<heap, gen>> PROVE heap'[<<t, gen'[t]>>] = heap[<<t, gen[t]>>]
        BY <3>4
      <3>5. CASE NobodyIn'  BY <3>5 DEF NobodyIn, InFlight, Unlogged
      <3>6. CASE \E d \in Clients : Request(d) \/ ClientStep(d)
        BY <3>1, <3>2, <3>3, <3>4, <3>6
        DEF Request, ClientStep, DropTable, InsertLookup, Encode, AppendWal, AppendFails, mem
      <3>7. CASE SnapshotLock \/ SnapshotStep \/ SnapshotFails \/ BytesLock \/ BytesEncode
                 \/ UNCHANGED vars
        BY <3>4, <3>7 DEF SnapshotLock, SnapshotStep, SnapshotCollect, SnapshotGuard,
           SnapshotWrite, SnapshotReset, SnapshotFails, BytesLock, BytesEncode, vars, mem
      <3> QED  BY <1>1, <1>2, <3>5, <3>6, <3>7, ThreadsRest
    <2> QED  BY <1>4, <2>2, <2>3, <2>4
  <1>5. ASSUME NEW t \in Tables, CreateTable(c, t) PROVE FALSE
    BY <1>1, <1>5 DEF CreateTable, TypeOK
  <1> QED  BY <1>1, <1>2, <1>3, <1>4, <1>5, WaitingDDL

\* A table whose CREATE waits for the log is not in the files
\* (Database::create_table).
LEMMA PendingCreatesNext ==
  ASSUME Known, Told, [RNext]_rvars, RClean'
  PROVE  PendingCreates'
  <1> USE DEF Base, TypeInv
  <1>1. TypeOK /\ TypeInv /\ RTypeOK /\ PendingCreates
    BY DEF Known, Typed, Told
  <1>2. [Next]_vars /\ Clean'  BY <1>1, PrimarySteps, RCleanBack
  <1> SUFFICES ASSUME NEW c \in Clients, Unlogged(c)', op'[c].kind = "create"
               PROVE  op'[c].table \notin Files'.names
    BY DEF PendingCreates, Files
  <1>3. ASSUME NEW t \in Tables, CreateTable(c, t) PROVE op'[c].table \notin Files'.names
    <2>1. /\ phase = "up" /\ tables[t] = 0 /\ op'[c].table = t /\ UNCHANGED <<log, image>>
          /\ ~InFlight(c)
      BY <1>1, <1>3 DEF CreateTable, Serve, disk, InFlight, TypeOK
    <2>2. ~InsertLookup(c, t)  BY <1>1, <1>3, RequestStarts DEF Starts
    <2>3. \A d \in Clients : InFlight(d) => op[d].table # t
      BY <1>1, <1>2, <1>3, <2>1, <2>2, StartsApart
    <2>4. t \notin Doing("drop")  BY <2>3 DEF Doing
    <2>5. Exact(Files)  BY <2>1 DEF Known, Exactness, RClean, Clean, Files
    <2>6. t \notin Files.names  BY <2>1, <2>4, <2>5 DEF Exact, ExactName
    <2>7. Files' = Files  BY <2>1 DEF Files
    <2> QED  BY <2>1, <2>6, <2>7
  <1>4. ASSUME op'[c] = op[c], Unlogged(c), InFlight(c), ~AppendWal(c)
        PROVE  op'[c].table \notin Files'.names
    BY <1>1, <1>4, WaitingFiles DEF PendingCreates, Files
  <1>5. ASSUME NEW t \in Tables, DropTable(c, t) PROVE FALSE
    BY <1>1, <1>5 DEF DropTable, TypeOK
  <1> QED  BY <1>1, <1>2, <1>3, <1>4, <1>5, WaitingDDL

\* All that ties the primary to its ledger.
LEMMA ToldNext ==
  ASSUME Known, Base', Typed', Told, [RNext]_rvars, RClean'
  PROVE  Told'
  <1>1. TypeInv /\ RTypeOK  BY DEF Known, Base, Typed
  <1>2. [Next]_vars /\ Clean'  BY <1>1, PrimarySteps, RCleanBack
  <1>3. LedgerNumbers'  BY LedgerNumbersNext DEF Told
  <1>4. CollectedNewest'  BY <1>2, CollectedNewestNext DEF Told
  <1> QED
    BY <1>3, <1>4, LedgerExactNext, PendingDropsNext, PendingCreatesNext DEF Told

-----------------------------------------------------------------------------
(* The replica and the ledger. *)

Follower == ReplyExact /\ BatchLogged /\ ReplicaBehind /\ ReplicaShows

\* The record a replica handles next is that of the ledger, and finds its table unless
\* a client of the replica wrote behind the synchronisation.
LEMMA NextRecord ==
  ASSUME Known, Told, Follower, rpc = "apply", batch # <<>>, ~Gap(Head(batch))
  PROVE  /\ at \in Nat /\ applied # None /\ at + 1 \in 1..Len(ledger) /\ at < Len(ledger)
         /\ Head(batch).lsn = at + 1 /\ Head(batch).change = ledger[at + 1]
         /\ Head(batch).change \in Changes
         /\ ~strayed => Decodable(rview, Head(batch).change)
  <1>1. /\ RTypeOK /\ FollowOrder /\ LedgerDecodes /\ BatchLogged /\ ReplicaShows
        /\ at \in Nat /\ batch \in Seq(Frames) /\ ledger \in Seq(Changes) /\ applied # None
    BY DEF Known, Typed, Told, Follower, RTypeOK
  <1>2. /\ Head(batch) = batch[1] /\ 1 \in 1..Len(batch) /\ Head(batch).change \in Changes
        /\ Head(batch).lsn = at + 1
    BY <1>1, BatchTail DEF FollowOrder, Gap
  <1>3. batch[1].lsn \in 1..Len(ledger) /\ batch[1].change = ledger[batch[1].lsn]
    BY <1>1, <1>2 DEF BatchLogged
  <1>4. at + 1 \in 1..Len(ledger) /\ Head(batch).change = ledger[at + 1]
    BY <1>2, <1>3
  <1>5. at \in 0..(Len(ledger) - 1) /\ at < Len(ledger)  BY <1>1, <1>4
  <1>6. Decodable(ViewAt(at), ledger[at + 1])  BY <1>1, <1>5 DEF LedgerDecodes
  <1>7. ~strayed => Decodable(rview, Head(batch).change)
    BY <1>1, <1>4, <1>6 DEF Decodable, ReplicaShows
  <1> QED  BY <1>1, <1>2, <1>4, <1>5, <1>7

\* What the primary does leaves the replica where it is in the ledger.
LEMMA FollowerWaits ==
  ASSUME Known, Typed', Follower, [RNext]_rvars, UNCHANGED replica
  PROVE  Follower'
  <1>1. /\ TypeInv /\ RTypeOK /\ RTypeOK' /\ ReplyExact /\ BatchLogged /\ ReplicaBehind
        /\ ReplicaShows /\ at \in Nat /\ reply.lsn \in Nat /\ FollowOrder
    BY DEF Known, Base, Typed, Follower, RTypeOK
  <1>2. /\ Len(ledger) \in Nat /\ Len(ledger') \in Nat /\ Len(ledger) <= Len(ledger')
        /\ \A i \in 1..Len(ledger) : ledger'[i] = ledger[i]
        /\ \A n \in 0..Len(ledger) : After(ledger', n) = After(ledger, n)
    BY <1>1, LedgerGrows
  <1>3. UNCHANGED <<rpc, applied, rview, reply, batch, at, strayed>>  BY DEF replica, strays
  <1>4. ReplyExact'
    <2> SUFFICES ASSUME rpc = "load"
                 PROVE  reply.lsn \in at..Len(ledger') /\ reply.view = After(ledger', reply.lsn)
      BY <1>3 DEF ReplyExact, ViewAt
    <2>1. reply.lsn \in at..Len(ledger) /\ reply.view = After(ledger, reply.lsn)
      BY <1>1 DEF ReplyExact, ViewAt
    <2> QED  BY <1>1, <1>2, <2>1
  <1>5. BatchLogged'
    <2> SUFFICES ASSUME NEW i \in 1..Len(batch)
                 PROVE  batch[i].lsn \in 1..Len(ledger') /\ batch[i].change = ledger'[batch[i].lsn]
      BY <1>3 DEF BatchLogged
    <2>1. batch[i].lsn \in 1..Len(ledger) /\ batch[i].change = ledger[batch[i].lsn]
      BY <1>1 DEF BatchLogged
    <2> QED  BY <1>2, <2>1
  <1>6. ReplicaBehind'  BY <1>1, <1>2, <1>3 DEF ReplicaBehind
  <1>7. ReplicaShows'
    <2>1. at \in 0..Len(ledger)  BY <1>1, <1>2 DEF ReplicaBehind
    <2>2. After(ledger', at) = After(ledger, at)  BY <1>2, <2>1
    <2> QED  BY <1>1, <1>3, <2>2 DEF ReplicaShows, ViewAt
  <1> QED  BY <1>4, <1>5, <1>6, <1>7 DEF Follower

\* A snapshot leaves with the state of the primary as of its LSN, which is that of
\* the end of the ledger (http.rs's replication_snapshot, Database::snapshot_bytes).
LEMMA ServedExactly ==
  ASSUME Known, Told, ReplicaBehind, ServeSnapshot, RClean'
  PROVE  /\ snapper.lsn = Len(ledger) /\ snapper.lsn \in at..Len(ledger)
         /\ Captured = After(ledger, snapper.lsn)
  <1>1. /\ RTypeOK /\ TypeOK /\ ThreadsOK /\ Numbering /\ LedgerNumbers /\ LedgerExact
        /\ ledger \in Seq(Changes) /\ at \in Nat /\ snapper.lsn \in Nat /\ nextLsn \in Nat
    BY DEF Known, Base, TypeInv, Typed, Told, RTypeOK, TypeOK
  <1>2. snapper.pc = "guard"  BY DEF ServeSnapshot, BytesEncode
  <1>3. phase = "up"  BY <1>1, <1>2 DEF ThreadsOK
  <1>4. snapper.lsn = Len(ledger)
    <2>1. snapper.lsn = nextLsn - 1  BY <1>1, <1>2 DEF Numbering
    <2>2. nextLsn = Len(ledger) + 1  BY <1>1, <1>3 DEF LedgerNumbers
    <2>3. Len(ledger) \in Nat  BY <1>1
    <2> QED  BY <1>1, <2>1, <2>2, <2>3
  <1>5. snapper.lsn \in at..Len(ledger)  BY <1>1, <1>4 DEF ReplicaBehind
  <1>6. ~CapturedUnlogged /\ ~CatchesDrop
    <2>1. caught' = (caught \/ CapturedUnlogged \/ CatchesDrop)  BY DEF ServeSnapshot
    <2>2. ~caught'  BY DEF RClean
    <2> QED  BY <2>1, <2>2, Zenon
  <1>7. Captured = Files  BY <1>2, <1>6, CapturedIsRecovered
  <1>8. Files = After(ledger, Len(ledger))  BY <1>1 DEF LedgerExact, ViewAt, Files
  <1> QED  BY <1>4, <1>5, <1>7, <1>8

\* Every step of the replica takes it further along the ledger or loads a state
\* from it (replication.rs's follow, bootstrap and pull_once).
LEMMA FollowerNext ==
  ASSUME Known, Typed', Told, Follower, [RNext]_rvars, RClean'
  PROVE  Follower'
  <1>1. /\ RTypeOK /\ FollowOrder /\ ReplyExact /\ BatchLogged /\ ReplicaBehind /\ ReplicaShows
        /\ at \in Nat /\ reply.lsn \in Nat /\ Len(ledger) \in Nat /\ applied \in Nat \cup {None}
        /\ batch \in Seq(Frames) /\ ledger \in Seq(Changes) /\ rview \in Views
    <2>1. RTypeOK /\ FollowOrder /\ ReplyExact /\ BatchLogged /\ ReplicaBehind /\ ReplicaShows
      BY DEF Known, Typed, Follower
    <2>2. /\ at \in Nat /\ reply.lsn \in Nat /\ applied \in Nat \cup {None}
          /\ batch \in Seq(Frames) /\ ledger \in Seq(Changes) /\ rview \in Views
      BY <2>1 DEF RTypeOK
    <2>3. Len(ledger) \in Nat  BY <2>2
    <2> QED  BY <2>1, <2>2, <2>3
  <1>2. Len(<<>>) = 0 /\ 1..0 = {}  OBVIOUS
  <1> USE DEF ViewAt
  <1>3. CASE PrimaryStep
    BY <1>3, FollowerWaits DEF PrimaryStep
  <1>4. CASE UNCHANGED rvars
    BY <1>4, FollowerWaits DEF rvars
  <1>5. CASE AskSnapshot
    BY <1>1, <1>5 DEF AskSnapshot, past, strays, Follower, ReplyExact, BatchLogged, ReplicaBehind,
       ReplicaShows
  <1>6. CASE ServeSnapshot
    <2>1. UNCHANGED <<applied, rview, batch, at, strayed, ledger>>
      BY <1>6 DEF ServeSnapshot, strays
    <2>2. CASE rpc = "wait"
      <3>1. rpc' = "load" /\ reply' = [lsn |-> snapper.lsn, view |-> Captured]
        BY <1>6, <2>2 DEF ServeSnapshot
      <3>2. reply'.lsn \in at..Len(ledger) /\ reply'.view = After(ledger, reply'.lsn)
        BY <1>1, <1>6, <3>1, ServedExactly
      <3> QED
        BY <1>1, <2>1, <3>1, <3>2 DEF Follower, ReplyExact, BatchLogged, ReplicaBehind, ReplicaShows
    <2>3. CASE rpc # "wait"
      <3>1. UNCHANGED <<rpc, reply>>  BY <1>6, <2>3 DEF ServeSnapshot
      <3> QED
        BY <1>1, <2>1, <3>1 DEF Follower, ReplyExact, BatchLogged, ReplicaBehind, ReplicaShows
    <2> QED  BY <2>2, <2>3
  <1>7. CASE FollowStarts
    BY <1>1, <1>7 DEF FollowStarts, FollowOrder, past, strays, Follower, ReplyExact, BatchLogged,
       ReplicaBehind, ReplicaShows
  <1>8. CASE LoadSnapshot
    <2>1. /\ rpc = "load" /\ rpc' = "ask" /\ rview' = reply.view /\ applied' = reply.lsn
          /\ at' = reply.lsn /\ UNCHANGED <<batch, ledger>>
      BY <1>8 DEF LoadSnapshot, Loaded, LoadedLsn, past
    <2>2. reply.lsn \in at..Len(ledger) /\ reply.view = After(ledger, reply.lsn)
      BY <1>1, <2>1 DEF ReplyExact
    <2>3. reply.lsn <= Len(ledger)  BY <1>1, <2>2
    <2> QED
      BY <1>1, <2>1, <2>2, <2>3 DEF Follower, ReplyExact, BatchLogged, ReplicaBehind, ReplicaShows
  <1>9. CASE AskWal
    <2>1. /\ rpc = "ask" /\ applied # None /\ rpc' = "apply" /\ at' = applied
          /\ batch' = RecordsAfter(log, applied)
          /\ UNCHANGED <<applied, rview, strayed, ledger>>
      BY <1>9 DEF AskWal, past, strays
    <2>2. /\ at' <= Len(ledger) /\ applied <= at'
          /\ ~strayed => rview = After(ledger, at')
      BY <1>1, <2>1 DEF ReplicaBehind, ReplicaShows, None
    <2>3. applied \in Int  BY <1>1, <2>1
    <2>4. /\ log \in Seq(Frames) /\ \A i \in 1..Len(log) : log[i].lsn = log[1].lsn + i - 1
          /\ LedgerNumbers
      BY DEF Known, Base, TypeInv, TypeOK, Numbering, Told
    <2>5. \A i \in 1..Len(batch') : \E j \in 1..Len(log) : batch'[i] = log[j]
      BY <2>1, <2>3, <2>4, PolledRecords
    <2>6. BatchLogged'  BY <2>1, <2>4, <2>5 DEF BatchLogged, LedgerNumbers
    <2>7. ReplicaBehind'
      <3>1. rpc' # "ask" /\ Len(ledger') = Len(ledger) /\ applied' = applied  BY <2>1
      <3> QED  BY <2>2, <3>1 DEF ReplicaBehind
    <2>8. ReplyExact'  BY <2>1 DEF ReplyExact
    <2>9. ReplicaShows'  BY <2>1, <2>2 DEF ReplicaShows
    <2> QED  BY <2>6, <2>7, <2>8, <2>9 DEF Follower
  <1>10. CASE PullGap
    BY <1>1, <1>2, <1>10 DEF PullGap, past, strays, Follower, ReplyExact, BatchLogged,
       ReplicaBehind, ReplicaShows, None
  <1>11. CASE PullFails
    <2>1. /\ rpc = "apply" /\ batch # <<>> /\ ~Gap(Head(batch))
          /\ ~Decodable(rview, Head(batch).change)
          /\ rpc' = "ask" /\ batch' = <<>>
          /\ UNCHANGED <<applied, rview, reply, at, strayed, ledger>>
      BY <1>11 DEF PullFails, past, strays
    <2>2. strayed  BY <2>1, NextRecord
    <2> QED
      BY <1>1, <1>2, <2>1, <2>2 DEF Follower, ReplyExact, BatchLogged, ReplicaBehind, ReplicaShows
  <1>12. CASE PullApply
    <2> DEFINE change == Head(batch).change
    <2>1. /\ rpc = "apply" /\ batch # <<>> /\ ~Gap(Head(batch))
          /\ rview' = Apply(rview, change) /\ at' = Head(batch).lsn /\ batch' = Tail(batch)
          /\ UNCHANGED <<rpc, applied, strayed, ledger>>
      BY <1>12 DEF PullApply, past, strays
    <2>2. /\ applied # None /\ at + 1 \in 1..Len(ledger) /\ at < Len(ledger)
          /\ at' = at + 1 /\ change = ledger[at + 1] /\ change \in Changes
      BY <2>1, NextRecord
    <2>3. After(ledger, at + 1) = Apply(After(ledger, at), change)
      BY <1>1, <2>2, AfterNext
    <2>4. BatchLogged'
      <3>1. \A i \in 1..Len(Tail(batch)) :
              i + 1 \in 1..Len(batch) /\ Tail(batch)[i] = batch[i + 1]
        BY <1>1, <2>1, BatchTail DEF FollowOrder
      <3> QED  BY <1>1, <2>1, <3>1 DEF BatchLogged
    <2>5. ReplicaShows'
      <3>1. ~strayed => rview = After(ledger, at)  BY <1>1, <2>2 DEF ReplicaShows
      <3> HIDE DEF change
      <3> QED  BY <2>1, <2>2, <2>3, <3>1 DEF ReplicaShows
    <2> QED
      BY <1>1, <2>1, <2>2, <2>4, <2>5 DEF Follower, ReplyExact, ReplicaBehind
  <1>13. CASE PullDone
    <2>1. /\ rpc = "apply" /\ rpc' = "ask" /\ applied' = at
          /\ UNCHANGED <<rview, reply, batch, at, strayed, ledger>>
      BY <1>13 DEF PullDone, past, strays
    <2>2. applied # None  BY <1>1, <2>1 DEF RTypeOK
    <2> QED
      BY <1>1, <2>1, <2>2 DEF Follower, ReplyExact, BatchLogged, ReplicaBehind, ReplicaShows
  <1>14. CASE SnapshotLost
    BY <1>1, <1>14 DEF SnapshotLost, FollowOrder, past, strays, Follower, ReplyExact, BatchLogged,
       ReplicaBehind, ReplicaShows
  <1>15. CASE EarlyWrite
    BY <1>1, <1>15 DEF EarlyWrite, past, Follower, ReplyExact, BatchLogged, ReplicaBehind,
       ReplicaShows
  <1>16. ASSUME NEW t \in Tables, EarlyWriteLands(t) PROVE Follower'
    <2>1. /\ UNCHANGED <<rpc, applied, reply, batch, at, ledger>> /\ strayed' = TRUE
      BY <1>16 DEF EarlyWriteLands, past
    <2> QED
      BY <1>1, <2>1 DEF Follower, ReplyExact, BatchLogged, ReplicaBehind, ReplicaShows
  <1>17. CASE ReplicaDies
    BY <1>1, <1>2, <1>17 DEF ReplicaDies, past, Follower, ReplyExact, BatchLogged, ReplicaBehind,
       ReplicaShows, None
  <1> QED
    BY <1>3, <1>4, <1>5, <1>6, <1>7, <1>8, <1>9, <1>10, <1>11, <1>12, <1>13, <1>14, <1>15,
       <1>16, <1>17
    DEF RNext, FollowStep, EarlyStep

-----------------------------------------------------------------------------
(* The theorems. *)

\* The empty primary and the empty replica.
LEMMA FollowInit == RInit => Told /\ Follower
  <1> SUFFICES ASSUME RInit PROVE Told /\ Follower  OBVIOUS
  <1>1. /\ rpc = "start" /\ applied = None /\ batch = <<>> /\ at = 0 /\ ledger = <<>>
        /\ log = <<>> /\ nextLsn = 1 /\ image = [lsn |-> 0, view |-> EmptyView]
        /\ snapper.pc = "idle" /\ \A c \in Clients : pc[c] = "idle"
    BY DEF RInit, Init, NoSnapper
  <1>2. <<>> \in Seq(Changes) /\ Len(<<>>) = 0 /\ 1..0 = {} /\ 0..(0 - 1) = {}  OBVIOUS
  <1>3. LedgerNumbers  BY <1>1, <1>2 DEF LedgerNumbers
  <1>4. LedgerExact
    <2>1. Recovered(image, log).view = EmptyView  BY <1>1, RecoveredNothing DEF Start
    <2>2. After(ledger, 0) = EmptyView  BY <1>1, <1>2, AfterNothing
    <2> QED  BY <1>1, <1>2, <2>1, <2>2 DEF LedgerExact, ViewAt
  <1>5. LedgerDecodes  BY <1>1, <1>2 DEF LedgerDecodes
  <1>6. PendingDrops /\ PendingCreates  BY <1>1 DEF PendingDrops, PendingCreates, Unlogged
  <1>7. CollectedNewest  BY <1>1 DEF CollectedNewest
  <1>8. Follower
    BY <1>1, <1>2 DEF Follower, ReplyExact, BatchLogged, ReplicaBehind, ReplicaShows, None
  <1> QED  BY <1>3, <1>4, <1>5, <1>6, <1>7, <1>8 DEF Told

\* Where no race was recorded, a primary and its replica stay with the ledger.
Behind == RClean => Told /\ Follower

LEMMA BehindNext ==
  ASSUME Base, Decoding, Exactness, Typed, Behind, Base', Typed', [RNext]_rvars
  PROVE  Behind'
  <1> SUFFICES ASSUME RClean' PROVE Told' /\ Follower'  BY DEF Behind
  <1>1. RClean  BY RCleanBack DEF Base, Typed
  <1>2. Known /\ Told /\ Follower  BY <1>1 DEF Known, Behind
  <1> QED  BY <1>2, ToldNext, FollowerNext

LEMMA BehindHolds == RSpec => []Behind
  <1>1. RInit => Behind  BY FollowInit DEF Behind
  <1>2. Base /\ Decoding /\ Exactness /\ Typed /\ Behind /\ Base' /\ Typed' /\ [RNext]_rvars
          => Behind'
    BY BehindNext
  <1> QED  BY <1>1, <1>2, PrimaryInvariant, TypedHolds, PTL DEF RSpec

\* The invariant of ReplicationInv is inductive, given those of DatabaseInv and
\* ReplayInv, and holds.
THEOREM ReplicationInvariant == RSpec => []RInv
  <1>1. Typed /\ Behind => RInv
    BY DEF Typed, Behind, Told, Follower, RInv
  <1> QED  BY <1>1, TypedHolds, BehindHolds, PTL

\* A replica that has synchronised shows exactly the state of the primary as of one
\* LSN, a prefix of all that was ever logged, through polls, gaps, full
\* synchronisations, lost answers and deaths on both sides (replication.rs's follow,
\* http.rs's handlers, Database::snapshot_bytes and wal_since).
THEOREM ReplicaShowsPrefix == RSpec => []ReplicaIsPrefix
  <1>1. RInv => ReplicaIsPrefix
    BY DEF RInv, ReplicaIsPrefix, ReplicaBehind, ReplicaShows
  <1> QED  BY <1>1, ReplicationInvariant, PTL

\* The replica never goes back in the primary's history while it lives, not even by
\* a full synchronisation after a gap, unless a write of its own clients landed behind
\* its synchronisation (follow's applied and pull_once's lsn).
THEOREM ReplicaNeverGoesBack == RSpec => ReplicaAdvances
  <1>1. ASSUME RInv, [RNext]_rvars, RClean, ~strayed', breaks' = breaks
        PROVE  at' >= at
    <2>1. RTypeOK /\ FollowOrder /\ ReplyExact /\ ReplicaBehind /\ at \in Nat /\ breaks \in Nat
          /\ reply.lsn \in Nat
      BY <1>1, BreaksAssumption DEF RInv, RTypeOK
    <2>2. CASE LoadSnapshot
      <3>1. rpc = "load" /\ at' = reply.lsn  BY <2>2 DEF LoadSnapshot, LoadedLsn
      <3>2. reply.lsn \in at..Len(ledger)  BY <2>1, <3>1 DEF ReplyExact
      <3> QED  BY <2>1, <3>1, <3>2
    <2>3. CASE AskWal
      <3>1. rpc = "ask" /\ applied # None /\ at' = applied /\ strayed' = strayed
        BY <2>3 DEF AskWal, strays
      <3>2. at' = at  BY <1>1, <2>1, <3>1 DEF ReplicaBehind
      <3> QED  BY <2>1, <3>2
    <2>4. CASE PullApply
      <3>1. batch # <<>> /\ at' = Head(batch).lsn  BY <2>4 DEF PullApply
      <3>2. Head(batch) = batch[1] /\ 1 \in 1..Len(batch) /\ Head(batch).lsn \in Nat
        BY <2>1, <3>1, BatchTail DEF RTypeOK, FollowOrder
      <3>3. batch[1].lsn > at  BY <2>1, <3>2 DEF RTypeOK
      <3> QED  BY <2>1, <3>1, <3>2, <3>3
    <2>5. CASE ReplicaDies  BY <1>1, <2>1, <2>5 DEF ReplicaDies
    <2>6. CASE UNCHANGED at  BY <2>1, <2>6
    <2> QED
      BY <1>1, <2>2, <2>3, <2>4, <2>5, <2>6
      DEF RNext, PrimaryStep, ServeSnapshot, FollowStep, FollowStarts, AskSnapshot, PullGap,
          PullFails, PullDone, SnapshotLost, EarlyStep, EarlyWrite, EarlyWriteLands, replica,
          rvars
  <1>2. RInv /\ [RNext]_rvars => [RClean /\ ~strayed' /\ breaks' = breaks => at' >= at]_rvars
    BY <1>1
  <1> QED  BY <1>2, ReplicationInvariant, PTL DEF RSpec, ReplicaAdvances
=============================================================================
