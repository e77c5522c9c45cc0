--------------------------- MODULE Database_proofs ---------------------------
(***************************************************************************)
(* Proofs about Database, for every set of clients and tables and every    *)
(* value of the bounds: types and numbering, the use of the log, survival  *)
(* of what was acknowledged, and last, from the invariants of ReplayInv,   *)
(* what a restart makes of the files.                                      *)
(***************************************************************************)
EXTENDS ReplayInv, NaturalFacts

-----------------------------------------------------------------------------
(* Facts about the data. *)

\* The bag of an empty table is a bag (Table::new).
LEMMA NoRowsTyped == NoRows \in Bags
  BY MaxRowsAssumption DEF NoRows, Bags, Rows

\* Putting a row in a bag yields a bag (Table::insert).
LEMMA AddRowTyped ==
  ASSUME NEW b \in Bags, NEW r \in Rows
  PROVE  AddRow(b, r) \in Bags
  BY DEF Bags, AddRow

\* The empty operation is an operation.
LEMMA NoOpTyped == NoOp \in Ops
  <1>1. (CHOOSE t \in Tables : TRUE) \in Tables  BY TablesAssumption
  <1>2. 0 \in 0..MaxGen /\ 0 \in 0..MaxRows  BY MaxRowsAssumption, BoundsAssumption
  <1> QED  BY <1>1, <1>2 DEF NoOp, Ops

\* It names no request.
LEMMA NoOpFields == NoOp.kind = "none" /\ NoOp.gen = 0 /\ NoOp.row = 0 /\ NoOp.table \in Tables
  <1>1. (CHOOSE t \in Tables : TRUE) \in Tables  BY TablesAssumption
  <1> QED  BY <1>1 DEF NoOp

\* Replaying a change leads from a view to a view (Database::apply).
LEMMA ApplyTyped ==
  ASSUME NEW view \in Views, NEW change \in Changes
  PROVE  Apply(view, change) \in Views
  <1>1. view.names \in SUBSET Tables /\ view.rows \in [Tables -> Bags]  BY DEF Views
  <1>2. change.table \in Tables  BY DEF Changes
  <1>3. CASE change.kind = "create"
    BY <1>1, <1>2, <1>3, NoRowsTyped DEF Apply, Views
  <1>4. CASE change.kind = "drop"
    BY <1>1, <1>2, <1>4, NoRowsTyped DEF Apply, Views
  <1>5. CASE change.kind = "insert"
    <2>1. change.row \in Rows  BY <1>5 DEF Changes
    <2>2. view.rows[change.table] \in Bags  BY <1>1, <1>2
    <2>3. AddRow(view.rows[change.table], change.row) \in Bags
      BY <2>1, <2>2, AddRowTyped
    <2> QED  BY <1>1, <1>2, <1>5, <2>3 DEF Apply, Views
  <1> QED  BY <1>3, <1>4, <1>5 DEF Changes

\* What readers see is a view.
LEMMA ViewTyped ==
  ASSUME TypeOK
  PROVE  View \in Views
  <1>1. \A t \in Tables : tables[t] # 0 => HandleOf(t) \in Handles
    BY BoundsAssumption DEF TypeOK, HandleOf, Handles, Gens
  <1>2. \A t \in Tables : tables[t] # 0 => heap[HandleOf(t)] \in Bags
    BY <1>1 DEF TypeOK
  <1> QED  BY <1>2, NoRowsTyped DEF View, Views

-----------------------------------------------------------------------------
(* Type correctness. *)

TypeInv == TypeOK /\ ThreadsOK

\* The catalogue that open installs is well typed.
LEMMA InstallTyped ==
  ASSUME NEW view \in Views, Install(view)
  PROVE  /\ tables' \in [Tables -> 0..MaxGen] /\ gen' \in [Tables -> 0..MaxGen]
         /\ heap' \in [Handles -> Bags]
  <1>1. 0 \in 0..MaxGen /\ 1 \in 0..MaxGen  BY BoundsAssumption
  <1>2. \A h \in Handles : h[1] \in Tables  BY DEF Handles
  <1> QED  BY <1>1, <1>2, NoRowsTyped DEF Install, Views

\* Wal::open numbers from 1 on.
LEMMA NextLsnTyped ==
  ASSUME log \in Seq(Frames)
  PROVE  NextLsnOf(log) \in Nat \ {0}
  <1>1. CASE log = <<>>  BY <1>1 DEF NextLsnOf
  <1>2. CASE log # <<>>
    <2>1. Len(log) \in 1..Len(log)  BY <1>2
    <2>2. log[Len(log)] \in Frames  BY <2>1
    <2> QED  BY <1>2, <2>2 DEF NextLsnOf, Frames
  <1> QED  BY <1>1, <1>2

\* The initial state is well typed.
LEMMA TypeInit == Init => TypeInv
  <1> SUFFICES ASSUME Init PROVE TypeInv  OBVIOUS
  <1>1. EmptyView \in Views  BY NoRowsTyped DEF EmptyView, Views
  <1>2. NoHeap \in [Handles -> Bags]  BY NoRowsTyped DEF NoHeap
  <1>3. 0 \in 0..MaxGen /\ 0 \in 0..MaxRows /\ 0 \in 0..MaxCrashes /\ 0 \in 0..MaxSnapshots
    BY MaxRowsAssumption, BoundsAssumption
  <1>5. image \in [lsn : Nat, view : Views] /\ log \in Seq(Frames) /\ nextLsn \in Nat \ {0}
    BY <1>1 DEF Init
  <1>6. TypeOK
    BY <1>2, <1>3, <1>5, NoOpTyped DEF Init, TypeOK, NoSnapper
  <1>4. ThreadsOK  BY DEF Init, ThreadsOK, NoOp, NoSnapper
  <1> QED  BY <1>4, <1>6 DEF TypeInv

\* Every step of the program keeps the types.
LEMMA TypeNext == TypeInv /\ [Next]_vars => TypeInv'
  <1> SUFFICES ASSUME TypeInv, [Next]_vars PROVE TypeInv'  OBVIOUS
  <1> USE DEF TypeInv
  <1>1. ASSUME NEW c \in Clients, NEW t \in Tables, CreateTable(c, t) PROVE TypeInv'
    <2>1. gen[t] + 1 \in 0..MaxGen /\ gen[t] + 1 \in Gens /\ <<t, gen[t] + 1>> \in Handles
      BY <1>1, BoundsAssumption DEF CreateTable, TypeOK, Handles, Gens
    <2>2. [kind |-> "create", table |-> t, gen |-> gen[t] + 1, row |-> 0] \in Ops
      BY <2>1, MaxRowsAssumption DEF Ops
    <2>3. conflicted' \in BOOLEAN  BY <1>1 DEF CreateTable, Serve, TypeOK
    <2>4. TypeOK'
      BY <1>1, <2>1, <2>2, <2>3, NoRowsTyped DEF CreateTable, TypeOK, disk, bounds
    <2>5. ThreadsOK'
      BY <1>1, <2>1 DEF CreateTable, Serve, TypeOK, ThreadsOK, disk
    <2> QED  BY <2>4, <2>5
  <1>2. ASSUME NEW c \in Clients, NEW t \in Tables, DropTable(c, t) PROVE TypeInv'
    <2>1. [kind |-> "drop", table |-> t, gen |-> 0, row |-> 0] \in Ops /\ 0 \in 0..MaxGen
      BY MaxRowsAssumption, BoundsAssumption DEF Ops
    <2>2. conflicted' \in BOOLEAN  BY <1>2 DEF DropTable, Serve, TypeOK
    <2>3. TypeOK'  BY <1>2, <2>1, <2>2 DEF DropTable, TypeOK, disk, bounds
    <2>4. ThreadsOK'  BY <1>2 DEF DropTable, Serve, TypeOK, ThreadsOK, disk
    <2> QED  BY <2>3, <2>4
  <1>3. ASSUME NEW c \in Clients, NEW t \in Tables, InsertLookup(c, t) PROVE TypeInv'
    <2>1. /\ issued + 1 \in Rows /\ issued + 1 \in 0..MaxRows
          /\ tables[t] \in 0..MaxGen /\ tables[t] \in Gens
      BY <1>3, MaxRowsAssumption, BoundsAssumption DEF InsertLookup, TypeOK, Rows, Gens
    <2>2. [kind |-> "insert", table |-> t, gen |-> tables[t], row |-> issued + 1] \in Ops
      BY <2>1 DEF Ops
    <2>3. conflicted' \in BOOLEAN  BY <1>3 DEF InsertLookup, Serve, TypeOK
    <2>4. TypeOK'  BY <1>3, <2>1, <2>2, <2>3 DEF InsertLookup, TypeOK, disk, mem
    <2>5. ThreadsOK'  BY <1>3, <2>1 DEF InsertLookup, Serve, TypeOK, ThreadsOK, disk
    <2> QED  BY <2>4, <2>5
  <1>4. ASSUME NEW c \in Clients, PushRow(c) PROVE heap' \in [Handles -> Bags]
    <2>1. op[c].row \in Rows /\ op[c].table \in Tables /\ op[c].gen \in Gens
      BY <1>4 DEF PushRow, TypeOK, ThreadsOK, Ops
    <2>2. heap[<<op[c].table, op[c].gen>>] \in Bags  BY <2>1 DEF TypeOK, Handles
    <2> QED  BY <1>4, <2>1, <2>2, AddRowTyped DEF PushRow, TypeOK
  <1>5. ASSUME NEW c \in Clients, InsertMany(c) PROVE TypeInv'
    <2>1. TypeOK'  BY <1>4, <1>5 DEF InsertMany, TypeOK, disk, bounds, history
    <2>2. ThreadsOK'  BY <1>5 DEF InsertMany, PushRow, TypeOK, ThreadsOK, disk
    <2> QED  BY <2>1, <2>2
  <1>6. ASSUME NEW c \in Clients, InsertManyRejects(c) PROVE TypeInv'
    <2>1. TypeOK'
      BY <1>4, <1>6, NoOpTyped DEF InsertManyRejects, Finish, TypeOK, disk, bounds
    <2>2. ThreadsOK'
      BY <1>6 DEF InsertManyRejects, Finish, TypeOK, ThreadsOK, disk, NoOp
    <2> QED  BY <2>1, <2>2
  <1>7. ASSUME NEW c \in Clients, Encode(c) PROVE TypeInv'
    <2>1. /\ pc' \in [Clients -> {"idle", "insert", "encode", "append"}]
          /\ op' \in [Clients -> Ops] /\ leftover' \in BOOLEAN
      <3>1. CASE tables[op[c].table] # 0  BY <1>7, <3>1 DEF Encode, TypeOK
      <3>2. CASE tables[op[c].table] = 0
        BY <1>7, <3>2, NoOpTyped, ZenonT(40) DEF Encode, Finish, TypeOK
      <3> QED  BY <3>1, <3>2
    <2>3. TypeOK'
      BY <1>7, <2>1 DEF Encode, TypeOK, disk, bounds, mem
    <2>2. ThreadsOK'
      <3>1. CASE tables[op[c].table] # 0
        BY <1>7, <3>1 DEF Encode, TypeOK, ThreadsOK, disk
      <3>2. CASE tables[op[c].table] = 0
        <4>1. Finish(c)  BY <1>7, <3>2 DEF Encode
        <4> QED  BY <1>7, <4>1, NoOpFields DEF Encode, Finish, TypeOK, ThreadsOK, disk
      <3> QED  BY <3>1, <3>2
    <2> QED  BY <2>2, <2>3
  <1>8. ASSUME NEW c \in Clients, AppendWal(c) PROVE TypeInv'
    <2> DEFINE change == [kind |-> op[c].kind, table |-> op[c].table, row |-> op[c].row]
    <2>1. change \in Changes
      BY <1>8 DEF AppendWal, TypeOK, ThreadsOK, Ops, Changes
    <2>2. [lsn |-> nextLsn, change |-> change] \in Frames  BY <2>1 DEF Frames, TypeOK
    <2>3. log' \in Seq(Frames) /\ nextLsn' \in Nat \ {0} /\ acked' \subseteq Changes
      BY <1>8, <2>1, <2>2 DEF AppendWal, TypeOK
    <2>4. TypeOK'
      BY <1>8, <2>3, NoOpTyped DEF AppendWal, Finish, TypeOK, mem, bounds
    <2>5. ThreadsOK'
      BY <1>8 DEF AppendWal, Finish, TypeOK, ThreadsOK, NoOp
    <2> QED  BY <2>4, <2>5
  <1>23. ASSUME NEW c \in Clients, AppendFails(c) PROVE TypeInv'
    <2>1. TypeOK'
      BY <1>23, NoOpTyped DEF AppendFails, Finish, TypeOK, disk, mem, bounds
    <2>2. ThreadsOK'
      BY <1>23 DEF AppendFails, Finish, TypeOK, ThreadsOK, disk, NoOp
    <2> QED  BY <2>1, <2>2
  <1>9. CASE SnapshotLock
    <2>1. /\ snapper' \in [pc : {"idle", "collect", "guard", "reset"},
                           to : {"disk", "replica"}, lsn : Nat,
                           handles : SUBSET Handles, guards : SUBSET Handles]
          /\ snaps' \in 0..MaxSnapshots
      <3>1. nextLsn - 1 \in Nat /\ snaps + 1 \in 0..MaxSnapshots
        BY <1>9, BoundsAssumption, SMTT(30) DEF SnapshotLock, TypeOK
      <3>2. snapper' = [pc |-> "collect", to |-> "disk", lsn |-> nextLsn - 1,
                         handles |-> {}, guards |-> {}]
        BY <1>9 DEF SnapshotLock, SnapshotLsn, NoSnapper
      <3> QED  BY <1>9, <3>1, <3>2 DEF SnapshotLock
    <2>2. TypeOK'
      BY <1>9, <2>1 DEF SnapshotLock, TypeOK, mem, threads, disk, history
    <2>3. ThreadsOK'
      BY <1>9 DEF SnapshotLock, NoSnapper, TypeOK, ThreadsOK, threads, disk
    <2> QED  BY <2>2, <2>3
  <1>10. CASE SnapshotCollect
    <2>1. {HandleOf(t) : t \in View.names} \subseteq Handles
      BY DEF View, HandleOf, Handles, TypeOK, Gens
    <2>2. TypeOK'
      BY <1>10, <2>1 DEF SnapshotCollect, TypeOK, mem, threads, disk, bounds, history
    <2>3. ThreadsOK'
      BY <1>10 DEF SnapshotCollect, TypeOK, ThreadsOK, threads, disk
    <2> QED  BY <2>2, <2>3
  <1>11. ASSUME NEW h \in Handles, SnapshotGuard(h) PROVE TypeInv'
    <2>1. snapper' \in [pc : {"idle", "collect", "guard", "reset"},
                        to : {"disk", "replica"}, lsn : Nat,
                        handles : SUBSET Handles, guards : SUBSET Handles]
      <3>1. snapper.guards \cup {h} \in SUBSET Handles  BY <1>11 DEF TypeOK
      <3>2. snapper' = [snapper EXCEPT !.guards = snapper.guards \cup {h}]
        BY <1>11 DEF SnapshotGuard
      <3> QED  BY <3>1, <3>2 DEF TypeOK
    <2>2. TypeOK'
      BY <1>11, <2>1 DEF SnapshotGuard, TypeOK, mem, threads, disk, bounds, history
    <2>3. ThreadsOK'
      BY <1>11 DEF SnapshotGuard, TypeOK, ThreadsOK, threads, disk
    <2> QED  BY <2>2, <2>3
  <1>12. CASE SnapshotWrite
    <2>1. Captured.names \subseteq Tables
      BY DEF Captured, TypeOK, Handles
    <2>2. ASSUME NEW t \in Tables, \E h \in snapper.handles : h[1] = t
          PROVE  heap[CHOOSE h \in snapper.handles : h[1] = t] \in Bags
      <3>1. (CHOOSE h \in snapper.handles : h[1] = t) \in snapper.handles  BY <2>2
      <3> QED  BY <3>1 DEF TypeOK
    <2>3. Captured \in Views
      BY <2>1, <2>2, NoRowsTyped DEF Captured, Views
    <2>4. TypeOK'
      BY <1>12, <2>3 DEF SnapshotWrite, TypeOK, mem, threads, bounds
    <2>5. ThreadsOK'
      BY <1>12 DEF SnapshotWrite, TypeOK, ThreadsOK, threads
    <2> QED  BY <2>4, <2>5
  <1>13. CASE SnapshotReset
    <2>1. TypeOK'
      BY <1>13 DEF SnapshotReset, NoSnapper, TypeOK, mem, threads, bounds, history
    <2>2. ThreadsOK'
      BY <1>13 DEF SnapshotReset, NoSnapper, TypeOK, ThreadsOK, threads
    <2> QED  BY <2>1, <2>2
  <1>14. CASE SnapshotFails \/ BytesEncode
    <2>1. TypeOK'
      BY <1>14 DEF SnapshotFails, BytesEncode, NoSnapper, TypeOK, mem, threads, disk, bounds,
         history
    <2>2. ThreadsOK'
      BY <1>14 DEF SnapshotFails, BytesEncode, NoSnapper, TypeOK, ThreadsOK, threads, disk
    <2> QED  BY <2>1, <2>2
  <1>22. CASE BytesLock
    <2>1. snapper' \in [pc : {"idle", "collect", "guard", "reset"},
                        to : {"disk", "replica"}, lsn : Nat,
                        handles : SUBSET Handles, guards : SUBSET Handles]
      <3>1. nextLsn - 1 \in Nat  BY DEF TypeOK
      <3>2. snapper' = [pc |-> "collect", to |-> "replica", lsn |-> nextLsn - 1,
                        handles |-> {}, guards |-> {}]
        BY <1>22 DEF BytesLock, SnapshotLsn, NoSnapper
      <3> QED  BY <3>1, <3>2
    <2>2. TypeOK'
      BY <1>22, <2>1 DEF BytesLock, TypeOK, mem, threads, disk, bounds, history
    <2>3. ThreadsOK'
      BY <1>22 DEF BytesLock, NoSnapper, TypeOK, ThreadsOK, threads, disk
    <2> QED  BY <2>2, <2>3
  <1>15. CASE Crash
    <2>1. NoHeap \in [Handles -> Bags]  BY NoRowsTyped DEF NoHeap
    <2>2. TypeOK'
      BY <1>15, <2>1, NoOpTyped, BoundsAssumption
      DEF Crash, NoSnapper, TypeOK, disk, history
    <2>3. ThreadsOK'
      BY <1>15 DEF Crash, NoSnapper, NoOp, TypeOK, ThreadsOK, disk
    <2> QED  BY <2>2, <2>3
  <1>16. CASE OpenSnapshot
    <2>1. image.view \in Views  BY DEF TypeOK
    <2>2. /\ tables' \in [Tables -> 0..MaxGen] /\ gen' \in [Tables -> 0..MaxGen]
          /\ heap' \in [Handles -> Bags]
      BY <1>16, <2>1, InstallTyped DEF OpenSnapshot
    <2>3. nextLsn' \in Nat \ {0}  BY <1>16, NextLsnTyped DEF OpenSnapshot, TypeOK
    <2>4. rewound' \in BOOLEAN  BY <1>16 DEF OpenSnapshot, TypeOK
    <2>5. TypeOK'
      BY <1>16, <2>2, <2>3, <2>4 DEF OpenSnapshot, TypeOK, threads, disk, bounds
    <2>6. ThreadsOK'
      BY <1>16 DEF OpenSnapshot, TypeOK, ThreadsOK, threads, disk
    <2> QED  BY <2>5, <2>6
  <1>17. CASE OpenSkip
    <2>1. TypeOK'
      BY <1>17 DEF OpenSkip, TypeOK, mem, threads, disk, bounds, history
    <2>2. ThreadsOK'
      BY <1>17 DEF OpenSkip, TypeOK, ThreadsOK, threads, disk
    <2> QED  BY <2>1, <2>2
  <1>18. CASE OpenApply
    <2>1. log[pos + 1] \in Frames
      BY <1>18 DEF OpenApply, TypeOK
    <2>2. Apply(View, log[pos + 1].change) \in Views
      BY <2>1, ViewTyped, ApplyTyped DEF Frames
    <2>3. /\ tables' \in [Tables -> 0..MaxGen] /\ gen' \in [Tables -> 0..MaxGen]
          /\ heap' \in [Handles -> Bags]
      BY <1>18, <2>2, InstallTyped DEF OpenApply
    <2>4. TypeOK'
      BY <1>18, <2>3 DEF OpenApply, TypeOK, threads, disk, bounds, history
    <2>5. ThreadsOK'
      BY <1>18 DEF OpenApply, TypeOK, ThreadsOK, threads, disk
    <2> QED  BY <2>4, <2>5
  <1>19. CASE OpenFails
    <2>1. TypeOK'
      BY <1>19 DEF OpenFails, TypeOK, mem, threads, disk, bounds, history
    <2>2. ThreadsOK'
      BY <1>19 DEF OpenFails, TypeOK, ThreadsOK, threads, disk
    <2> QED  BY <2>1, <2>2
  <1>20. CASE OpenDone
    <2>1. TypeOK'
      BY <1>20 DEF OpenDone, TypeOK, mem, threads, disk, bounds
    <2>2. ThreadsOK'
      BY <1>20 DEF OpenDone, TypeOK, ThreadsOK, threads, disk
    <2> QED  BY <2>1, <2>2
  <1>21. CASE UNCHANGED vars
    BY <1>21 DEF vars, mem, threads, disk, bounds, history, TypeOK, ThreadsOK
  <1> QED
    BY <1>1, <1>2, <1>3, <1>5, <1>6, <1>7, <1>8, <1>9, <1>10, <1>11, <1>12, <1>13,
       <1>14, <1>15, <1>16, <1>17, <1>18, <1>19, <1>20, <1>21, <1>22, <1>23
    DEF Next, LocalStep, Request, ClientStep, SnapshotStep, OpenStep, Rest

\* Spec keeps every variable in its type and every thread in a known place.
THEOREM TypeCorrect == Spec => []TypeInv
  <1>1. Init => TypeInv  BY TypeInit
  <1>2. TypeInv /\ [Next]_vars => TypeInv'  BY TypeNext
  <1> QED  BY <1>1, <1>2, PTL DEF Spec

\* Every variable of Database keeps its type.
THEOREM DatabaseTypes == Spec => []TypeOK
  <1>1. TypeInv => TypeOK  BY DEF TypeInv
  <1> QED  BY <1>1, TypeCorrect, PTL

-----------------------------------------------------------------------------
(* Numbering of the log. *)

\* What a frame of the log is made of.
LEMMA FrameTyped ==
  ASSUME TypeOK, NEW i \in 1..Len(log)
  PROVE  log[i] \in Frames /\ log[i].lsn \in Nat /\ log[i].change \in Changes
  <1>1. log[i] \in Frames  BY DEF TypeOK
  <1> QED  BY <1>1 DEF Frames

\* Appending a frame leaves the others in place (Wal::append).
LEMMA AppendFrame ==
  ASSUME log \in Seq(Frames), NEW f \in Frames, log' = Append(log, f)
  PROVE  /\ Len(log') = Len(log) + 1
         /\ \A i \in 1..Len(log) : log'[i] = log[i]
         /\ log'[Len(log) + 1] = f
         /\ log' # <<>>
  OBVIOUS

\* The frame a thread appends.
LEMMA AppendedFrame ==
  ASSUME TypeInv, NEW c \in Clients, AppendWal(c)
  PROVE  LET change == [kind |-> op[c].kind, table |-> op[c].table, row |-> op[c].row]
             f == [lsn |-> nextLsn, change |-> change]
         IN  /\ change \in Changes /\ f \in Frames
             /\ log' = Append(log, f) /\ acked' = acked \cup {change}
  BY DEF TypeInv, AppendWal, TypeOK, ThreadsOK, Ops, Changes, Frames

\* A fresh directory is numbered from 1.
LEMMA NumberingInit == Init => Numbering
  BY DEF Init, Numbering, NoSnapper

\* Every step keeps the log numbered without a gap, the live counter at its end
\* and, unless rewound, above the snapshot.
LEMMA NumberingNext == TypeInv /\ Numbering /\ [Next]_vars => Numbering'
  <1> SUFFICES ASSUME TypeInv, Numbering, [Next]_vars PROVE Numbering'  OBVIOUS
  <1> USE DEF TypeInv
  <1>0. log \in Seq(Frames) /\ nextLsn \in Nat \ {0} /\ image.lsn \in Nat
    BY DEF TypeOK
  <1>1. ASSUME UNCHANGED <<phase, snapper, log, image, nextLsn, rewound>> PROVE Numbering'
    BY <1>1 DEF Numbering
  <1>2. ASSUME NEW c \in Clients, NEW t \in Tables,
               CreateTable(c, t) \/ DropTable(c, t) \/ InsertLookup(c, t)
        PROVE  Numbering'
    BY <1>1, <1>2 DEF CreateTable, DropTable, InsertLookup, disk
  <1>3. ASSUME NEW c \in Clients,
               InsertMany(c) \/ InsertManyRejects(c) \/ Encode(c) \/ AppendFails(c)
        PROVE  Numbering'
    BY <1>1, <1>3 DEF InsertMany, InsertManyRejects, Encode, AppendFails, disk, history
  <1>4. ASSUME NEW c \in Clients, AppendWal(c) PROVE Numbering'
    <2> DEFINE f == [lsn |-> nextLsn,
                     change |-> [kind |-> op[c].kind, table |-> op[c].table, row |-> op[c].row]]
    <2>1. f \in Frames /\ f.lsn = nextLsn /\ log' = Append(log, f)
      BY <1>4, AppendedFrame
    <2> HIDE DEF f
    <2>2. /\ Len(log') = Len(log) + 1 /\ log'[Len(log) + 1] = f /\ log' # <<>>
          /\ \A i \in 1..Len(log) : log'[i] = log[i]
      BY <1>0, <2>1, AppendFrame
    <2>3. phase = "up" /\ snapper.pc = "idle" /\ nextLsn' = nextLsn + 1
          /\ UNCHANGED <<phase, snapper, image, rewound>>
      BY <1>4 DEF AppendWal, WalFree, ThreadsOK
    <2>4. \A i \in 1..Len(log') : log'[i].lsn = log'[1].lsn + i - 1
      <3>1. CASE log = <<>>  BY <2>1, <2>2, <3>1, <1>0
      <3>2. CASE log # <<>>
        <4>1. Len(log) \in Nat /\ Len(log) >= 1 /\ Len(log) \in 1..Len(log) /\ 1 \in 1..Len(log)
          BY <1>0, <3>2
        <4>5. log[1].lsn \in Nat  BY <4>1, FrameTyped
        <4>2. log'[1] = log[1]  BY <2>2, <4>1
        <4>3. nextLsn = log[1].lsn + Len(log)
          <5>1. log[Len(log)].lsn = log[1].lsn + Len(log) - 1  BY <4>1 DEF Numbering
          <5>2. nextLsn = log[Len(log)].lsn + 1  BY <2>3, <3>2 DEF Numbering
          <5> QED  BY <4>1, <4>5, <5>1, <5>2
        <4>4. ASSUME NEW i \in 1..Len(log') PROVE log'[i].lsn = log'[1].lsn + i - 1
          <5>1. CASE i \in 1..Len(log)  BY <2>2, <4>2, <5>1 DEF Numbering
          <5>2. CASE i = Len(log) + 1  BY <2>1, <2>2, <4>1, <4>2, <4>3, <4>5, <5>2
          <5> QED  BY <2>2, <4>1, <5>1, <5>2
        <4> QED  BY <4>4
      <3> QED  BY <3>1, <3>2
    <2>5. nextLsn' = log'[Len(log')].lsn + 1  BY <2>1, <2>2, <2>3
    <2>6. ~rewound => image.lsn < nextLsn'  BY <1>0, <2>3 DEF Numbering
    <2> QED  BY <2>3, <2>4, <2>5, <2>6 DEF Numbering
  <1>5. CASE SnapshotLock \/ BytesLock
    BY <1>5 DEF SnapshotLock, BytesLock, SnapshotLsn, WalFree, NoSnapper, Numbering, disk, history
  <1>6. CASE SnapshotCollect
    BY <1>6 DEF SnapshotCollect, Numbering, disk, history, TypeOK
  <1>7. ASSUME NEW h \in Handles, SnapshotGuard(h) PROVE Numbering'
    BY <1>7 DEF SnapshotGuard, Numbering, disk, history, TypeOK
  <1>8. CASE SnapshotWrite
    BY <1>0, <1>8 DEF SnapshotWrite, Numbering, TypeOK
  <1>9. CASE SnapshotReset
    BY <1>9 DEF SnapshotReset, NoSnapper, Numbering, history
  <1>10. CASE SnapshotFails \/ BytesEncode
    BY <1>10 DEF SnapshotFails, BytesEncode, NoSnapper, Numbering, disk, history
  <1>11. CASE Crash
    BY <1>11 DEF Crash, NoSnapper, Numbering, disk, history
  <1>12. CASE OpenSnapshot
    <2>1. /\ phase' = "loading" /\ nextLsn' = NextLsnOf(log)
          /\ rewound' = (rewound \/ NextLsnOf(log) <= image.lsn)
          /\ UNCHANGED <<log, image, snapper>>
      BY <1>12 DEF OpenSnapshot, disk
    <2>2. snapper.pc = "idle"  BY <1>12 DEF OpenSnapshot, ThreadsOK
    <2>3. NextLsnOf(log) \in Nat  BY <1>0, NextLsnTyped
    <2>4. log # <<>> => NextLsnOf(log) = log[Len(log)].lsn + 1  BY DEF NextLsnOf
    <2>5. phase' \in {"up", "loading"} /\ log' # <<>> => nextLsn' = log'[Len(log')].lsn + 1
      BY <2>1, <2>4
    <2>6. ~rewound' => image'.lsn < nextLsn'
      <3>1. ~rewound' => ~(NextLsnOf(log) <= image.lsn)  BY <2>1, Zenon
      <3>2. ~(NextLsnOf(log) <= image.lsn) => image.lsn < NextLsnOf(log)
        BY <1>0, <2>3
      <3>3. image' = image /\ nextLsn' = NextLsnOf(log)  BY <2>1
      <3> QED  BY <3>1, <3>2, <3>3, Zenon
    <2>7. \A i \in 1..Len(log') : log'[i].lsn = log'[1].lsn + i - 1  BY <2>1 DEF Numbering
    <2>8. snapper'.pc = "idle"  BY <2>1, <2>2
    <2> QED  BY <2>5, <2>6, <2>7, <2>8 DEF Numbering
  <1>13. CASE OpenSkip \/ OpenApply
    BY <1>1, <1>13 DEF OpenSkip, OpenApply, disk, history
  <1>14. CASE OpenFails \/ OpenDone
    BY <1>14 DEF OpenFails, OpenDone, Numbering, disk, history
  <1>15. CASE UNCHANGED vars
    BY <1>1, <1>15 DEF vars, disk, history
  <1> QED
    BY <1>2, <1>3, <1>4, <1>5, <1>6, <1>7, <1>8, <1>9, <1>10, <1>11, <1>12, <1>13, <1>14, <1>15
    DEF Next, LocalStep, Request, ClientStep, SnapshotStep, OpenStep, Rest

\* The numbering as WalNumbered states it.
LEMMA NumberedIsDense == TypeInv /\ Numbering => WalNumbered
  <1> SUFFICES ASSUME TypeInv, Numbering PROVE WalNumbered  OBVIOUS
  <1>1. log \in Seq(Frames)  BY DEF TypeInv, TypeOK
  <1>2. ASSUME NEW i \in 1..(Len(log) - 1) PROVE log[i + 1].lsn = log[i].lsn + 1
    <2>1. i \in 1..Len(log) /\ i + 1 \in 1..Len(log) /\ 1 \in 1..Len(log)  BY <1>1
    <2>2. log[1].lsn \in Nat  BY <2>1, FrameTyped DEF TypeInv
    <2> QED  BY <2>1, <2>2 DEF Numbering
  <1> QED  BY <1>2 DEF WalNumbered, Dense, Numbering

\* A snapshot that is about to empty the log covers all of it.
LEMMA ResetIsCovered == TypeInv /\ Numbering => ResetDropsOnlyCovered
  <1> SUFFICES ASSUME TypeInv, Numbering, snapper.pc = "reset",
                      NEW i \in 1..Len(log)
               PROVE  log[i].lsn <= image.lsn
    BY DEF ResetDropsOnlyCovered
  <1>1. log \in Seq(Frames) /\ nextLsn \in Nat /\ phase = "up"
    BY DEF TypeInv, TypeOK, ThreadsOK
  <1>2. log # <<>> /\ 1 \in 1..Len(log) /\ Len(log) \in 1..Len(log)  BY <1>1
  <1>3. log[1].lsn \in Nat  BY <1>2, FrameTyped DEF TypeInv
  <1>4. /\ log[i].lsn = log[1].lsn + i - 1
        /\ log[Len(log)].lsn = log[1].lsn + Len(log) - 1
        /\ nextLsn = log[Len(log)].lsn + 1 /\ image.lsn = nextLsn - 1
    BY <1>1, <1>2 DEF Numbering
  <1> QED  BY <1>1, <1>2, <1>3, <1>4

\* The frames of the log follow one another without a gap, whatever snapshots
\* and crashes happen, and a live process continues the numbering.
THEOREM LogIsNumbered == Spec => []WalNumbered
  <1>1. Init => TypeInv /\ Numbering  BY TypeInit, NumberingInit
  <1>2. TypeInv /\ Numbering /\ [Next]_vars => (TypeInv /\ Numbering)'
    BY TypeNext, NumberingNext
  <1>3. TypeInv /\ Numbering => WalNumbered  BY NumberedIsDense
  <1> QED  BY <1>1, <1>2, <1>3, PTL DEF Spec

\* Truncating the log after a snapshot never removes a frame the snapshot on
\* disk does not hold.
THEOREM TruncationIsSafe == Spec => []ResetDropsOnlyCovered
  <1>1. Init => TypeInv /\ Numbering  BY TypeInit, NumberingInit
  <1>2. TypeInv /\ Numbering /\ [Next]_vars => (TypeInv /\ Numbering)'
    BY TypeNext, NumberingNext
  <1>3. TypeInv /\ Numbering => ResetDropsOnlyCovered  BY ResetIsCovered
  <1> QED  BY <1>1, <1>2, <1>3, PTL DEF Spec

\* Only the rename of write_snapshot changes the snapshot, and it brings the LSN
\* the log had when the WAL mutex was taken.
LEMMA SnapshotLsnGrows ==
  ASSUME TypeInv, Numbering, [Next]_vars, ~rewound
  PROVE  image'.lsn >= image.lsn
  <1>1. image.lsn \in Nat /\ nextLsn \in Nat  BY DEF TypeInv, TypeOK
  <1>2. CASE SnapshotWrite
    <2>1. phase = "up" /\ snapper.pc = "guard"  BY <1>2 DEF SnapshotWrite, TypeInv, ThreadsOK
    <2>2. snapper.lsn = nextLsn - 1 /\ image.lsn < nextLsn  BY <2>1 DEF Numbering
    <2>3. image'.lsn = snapper.lsn  BY <1>2 DEF SnapshotWrite
    <2> QED  BY <1>1, <2>2, <2>3
  <1>3. CASE UNCHANGED image  BY <1>1, <1>3
  <1> QED
    BY <1>2, <1>3, ZenonT(40)
    DEF Next, LocalStep, vars, disk, Request, ClientStep, SnapshotStep, OpenStep, Rest,
        CreateTable, DropTable, InsertLookup, InsertMany, InsertManyRejects, Encode, AppendWal,
        AppendFails, SnapshotLock, SnapshotCollect, SnapshotGuard, SnapshotReset, SnapshotFails,
        BytesLock, BytesEncode, Crash, OpenSnapshot, OpenSkip, OpenApply, OpenFails, OpenDone

\* A new snapshot never takes the directory back to an earlier LSN, unless open
\* numbered the log at or below the snapshot (Database::snapshot, Wal::open).
THEOREM SnapshotsOnlyAdvance == Spec => SnapshotsAdvance
  <1>1. TypeInv /\ Numbering /\ [Next]_vars => [~rewound => image'.lsn >= image.lsn]_vars
    BY SnapshotLsnGrows
  <1>2. TypeInv /\ Numbering /\ [Next]_vars => (TypeInv /\ Numbering)'
    BY TypeNext, NumberingNext
  <1>3. Init => TypeInv /\ Numbering  BY TypeInit, NumberingInit
  <1> QED  BY <1>1, <1>2, <1>3, PTL DEF Spec, SnapshotsAdvance

-----------------------------------------------------------------------------
(* Handles. *)

\* A fresh directory has no handle in use.
LEMMA HandlesInit == Init => HandlesOK
  <1> SUFFICES ASSUME Init PROVE HandlesOK  OBVIOUS
  <1>1. GensOK
    BY NoOpFields DEF Init, GensOK
  <1>2. DropsRecorded /\ ThreadHandles /\ SnapshotHandles
    <2>1. \A c \in Clients : op[c].kind = "none"  BY NoOpFields DEF Init
    <2>2. Len(log) = 0 /\ snapper.handles = {}  BY DEF Init, NoSnapper
    <2> QED  BY <2>1, <2>2 DEF DropsRecorded, ThreadHandles, SnapshotHandles
  <1>3. ImageRows  BY DEF Init, ImageRows, EmptyView, NoRows
  <1> QED  BY <1>1, <1>2, <1>3 DEF HandlesOK

\* Every step keeps the handles of a name that was never dropped together.
LEMMA HandlesNext == TypeInv /\ HandlesOK /\ [Next]_vars => HandlesOK'
  <1> SUFFICES ASSUME TypeInv, HandlesOK, [Next]_vars PROVE HandlesOK'  OBVIOUS
  <1> USE DEF TypeInv, HandlesOK
  <1>1. ASSUME NEW c \in Clients, NEW t \in Tables, CreateTable(c, t) PROVE HandlesOK'
    <2>1. GensOK'
      <3>1. /\ gen[t] \in Nat /\ gen' = [gen EXCEPT ![t] = @ + 1]
            /\ tables' = [tables EXCEPT ![t] = gen[t] + 1]
            /\ op'[c].gen = gen[t] + 1 /\ op'[c].table = t
            /\ \A d \in Clients \ {c} : op'[d] = op[d]
        BY <1>1 DEF CreateTable, TypeOK
      <3>2. \A u \in Tables : gen'[u] = (IF u = t THEN gen[t] + 1 ELSE gen[u])
        BY <3>1 DEF TypeOK
      <3>3. \A u \in Tables : tables'[u] <= gen'[u]
        BY <3>1, <3>2 DEF TypeOK, GensOK
      <3>4. \A d \in Clients : op[d].table \in Tables /\ op[d].gen \in Nat
        BY SMTT(30) DEF TypeOK, Ops
      <3>5. \A u \in Tables : gen[u] \in Nat  BY DEF TypeOK
      <3>6. ASSUME NEW d \in Clients PROVE op'[d].gen <= gen'[op'[d].table]
        <4>1. CASE d = c  BY <3>1, <3>2, <4>1
        <4>2. CASE d # c
          <5>1. op'[d] = op[d] /\ op[d].gen <= gen[op[d].table]  BY <3>1, <4>2 DEF GensOK
          <5> QED  BY <3>1, <3>2, <3>4, <3>5, <5>1
        <4> QED  BY <4>1, <4>2
      <3> QED  BY <3>3, <3>6 DEF GensOK
    <2>2. DropsRecorded'  BY <1>1 DEF CreateTable, DropsRecorded, TypeOK, disk
    <2>3. ThreadHandles'
      BY <1>1, BoundsAssumption, SMTT(30)
      DEF CreateTable, ThreadHandles, ThreadsOK, TypeOK, Gens
    <2>4. SnapshotHandles'
      BY <1>1 DEF CreateTable, SnapshotHandles, TypeOK, Gens
    <2>5. ImageRows'  BY <1>1 DEF CreateTable, ImageRows, disk
    <2> QED  BY <2>1, <2>2, <2>3, <2>4, <2>5
  <1>2. ASSUME NEW c \in Clients, NEW t \in Tables, DropTable(c, t) PROVE HandlesOK'
    <2>1. GensOK'  BY <1>2 DEF DropTable, GensOK, TypeOK
    <2>2. DropsRecorded'  BY <1>2 DEF DropTable, DropsRecorded, TypeOK, disk
    <2>3. ThreadHandles'  BY <1>2 DEF DropTable, ThreadHandles, TypeOK
    <2>4. SnapshotHandles'  BY <1>2 DEF DropTable, SnapshotHandles, TypeOK
    <2>5. ImageRows'  BY <1>2 DEF DropTable, ImageRows, disk
    <2> QED  BY <2>1, <2>2, <2>3, <2>4, <2>5
  <1>3. ASSUME NEW c \in Clients, NEW t \in Tables, InsertLookup(c, t) PROVE HandlesOK'
    <2>1. GensOK'  BY <1>3 DEF InsertLookup, GensOK, TypeOK, mem
    <2>2. DropsRecorded'  BY <1>3 DEF InsertLookup, DropsRecorded, TypeOK, disk
    <2>3. ThreadHandles'  BY <1>3 DEF InsertLookup, ThreadHandles, TypeOK, mem
    <2>4. SnapshotHandles' /\ ImageRows'
      BY <1>3 DEF InsertLookup, SnapshotHandles, ImageRows, disk, mem
    <2> QED  BY <2>1, <2>2, <2>3, <2>4
  <1>4. ASSUME NEW c \in Clients, InsertMany(c) PROVE HandlesOK'
    BY <1>4 DEF InsertMany, GensOK, DropsRecorded, ThreadHandles, SnapshotHandles, ImageRows,
       disk, history
  \* A request that ends leaves the catalogue alone.
  <1>5. ASSUME NEW c \in Clients, UNCHANGED <<tables, gen, snapper, image, dropped>>,
               op' = op \/ Finish(c), DropsRecorded'
        PROVE  HandlesOK'
    <2>1. \A d \in Clients : op'[d] = op[d] \/ op'[d] = NoOp  BY <1>5 DEF Finish, TypeOK
    <2>2. GensOK'
      <3>1. \A t \in Tables : gen[t] \in Nat  BY DEF TypeOK
      <3>2. ASSUME NEW d \in Clients PROVE op'[d].gen <= gen[op'[d].table]
        BY <2>1, <3>1, NoOpFields DEF GensOK
      <3> QED  BY <1>5, <3>2 DEF GensOK
    <2>3. ThreadHandles'
      BY <1>5, <2>1, NoOpFields DEF ThreadHandles
    <2>4. SnapshotHandles' /\ ImageRows'  BY <1>5 DEF SnapshotHandles, ImageRows
    <2> QED  BY <1>5, <2>2, <2>3, <2>4
  <1>6. ASSUME NEW c \in Clients,
               InsertManyRejects(c) \/ Encode(c) \/ AppendFails(c)
        PROVE  HandlesOK'
    <2>1. DropsRecorded'
      <3>1. op' = op \/ Finish(c)  BY <1>6 DEF InsertManyRejects, Encode, AppendFails
      <3>2. \A d \in Clients : op'[d] = op[d] \/ op'[d] = NoOp  BY <3>1 DEF Finish, TypeOK
      <3> QED
        BY <1>6, <3>2, NoOpFields DEF InsertManyRejects, Encode, AppendFails, DropsRecorded, disk
    <2> QED  BY <1>5, <1>6, <2>1 DEF InsertManyRejects, Encode, AppendFails, disk, mem
  <1>7. ASSUME NEW c \in Clients, AppendWal(c) PROVE HandlesOK'
    <2>1. /\ log' = Append(log, [lsn |-> nextLsn, change |->
                [kind |-> op[c].kind, table |-> op[c].table, row |-> op[c].row]])
          /\ dropped' = dropped /\ Finish(c)
      BY <1>7 DEF AppendWal
    <2>2. DropsRecorded'
      BY <2>1, NoOpFields DEF Finish, DropsRecorded, TypeOK
    <2> QED  BY <1>5, <1>7, <2>2 DEF AppendWal, mem
  <1>8. ASSUME UNCHANGED <<tables, gen, op, log, dropped>>, SnapshotHandles', ImageRows'
        PROVE  HandlesOK'
    BY <1>8 DEF GensOK, DropsRecorded, ThreadHandles
  <1>9. CASE SnapshotLock \/ SnapshotFails \/ BytesLock \/ BytesEncode
    <2>1. snapper'.handles = {} /\ UNCHANGED <<tables, image, dropped>>
      <3>1. CASE SnapshotLock  BY <3>1 DEF SnapshotLock, NoSnapper, disk, mem, history
      <3>2. CASE SnapshotFails  BY <3>2 DEF SnapshotFails, NoSnapper, disk, mem, history
      <3>3. CASE BytesLock  BY <3>3 DEF BytesLock, NoSnapper, disk, mem, history
      <3>4. CASE BytesEncode  BY <3>4 DEF BytesEncode, NoSnapper, disk, mem, history
      <3> QED  BY <1>9, <3>1, <3>2, <3>3, <3>4
    <2>2. SnapshotHandles' /\ ImageRows'
      BY <2>1 DEF SnapshotHandles, ImageRows
    <2> QED  BY <1>8, <1>9, <2>2 DEF SnapshotLock, SnapshotFails, BytesLock, BytesEncode, mem,
           threads, disk, history
  <1>10. CASE SnapshotCollect
    <2>1. snapper'.handles = {HandleOf(t) : t \in View.names}
      BY <1>10 DEF SnapshotCollect, TypeOK
    <2>2. SnapshotHandles'
      BY <1>10, <2>1 DEF SnapshotCollect, SnapshotHandles, HandleOf, mem
    <2>3. ImageRows'  BY <1>10 DEF SnapshotCollect, ImageRows, disk
    <2> QED  BY <1>8, <1>10, <2>2, <2>3 DEF SnapshotCollect, mem, threads, disk, history
  <1>11. ASSUME NEW h \in Handles, SnapshotGuard(h) PROVE HandlesOK'
    <2>1. snapper'.handles = snapper.handles  BY <1>11 DEF SnapshotGuard, TypeOK
    <2>2. SnapshotHandles' /\ ImageRows'
      BY <1>11, <2>1 DEF SnapshotGuard, SnapshotHandles, ImageRows, disk, mem, history
    <2> QED  BY <1>8, <1>11, <2>2 DEF SnapshotGuard, mem, threads, disk, history
  <1>12. CASE SnapshotWrite
    <2>1. snapper'.handles = snapper.handles  BY <1>12 DEF SnapshotWrite, TypeOK
    <2>2. SnapshotHandles'  BY <1>12, <2>1 DEF SnapshotWrite, SnapshotHandles, mem
    <2>3. ASSUME NEW t \in Tables, NEW r \in Rows, Captured.rows[t][r] > 0
          PROVE  t \in Captured.names
      BY <2>3 DEF Captured, NoRows
    <2>4. ImageRows'  BY <1>12, <2>3 DEF SnapshotWrite, ImageRows
    <2> QED  BY <1>8, <1>12, <2>2, <2>4 DEF SnapshotWrite, mem, threads
  <1>13. CASE SnapshotReset
    BY <1>13 DEF SnapshotReset, NoSnapper, GensOK, DropsRecorded, ThreadHandles, SnapshotHandles,
       ImageRows, mem, threads, history
  <1>14. CASE Crash
    <2> QED
      BY <1>14, NoOpFields DEF Crash, NoSnapper, GensOK, DropsRecorded, ThreadHandles,
         SnapshotHandles, ImageRows, disk, history
  \* The catalogue of a process that is starting: nobody holds a handle yet.
  <1>15. ASSUME NEW view, Install(view), phase # "up",
                UNCHANGED <<op, snapper, log, image, dropped>>
         PROVE  HandlesOK'
    <2>1. \A c \in Clients : op[c].kind = "none" /\ op[c].gen = 0
      <3>1. \A c \in Clients : op[c] = NoOp  BY <1>15 DEF ThreadsOK
      <3> QED  BY <3>1, NoOpFields
    <2>2. snapper.handles = {}  BY <1>15 DEF ThreadsOK, NoSnapper
    <2>4. GensOK'  BY <1>15, <2>1 DEF Install, GensOK, TypeOK, Ops
    <2>5. DropsRecorded' /\ ThreadHandles' /\ SnapshotHandles' /\ ImageRows'
      BY <1>15, <2>1, <2>2
      DEF DropsRecorded, ThreadHandles, SnapshotHandles, ImageRows
    <2> QED  BY <2>4, <2>5
  <1>16. CASE OpenSnapshot \/ OpenApply
    BY <1>15, <1>16 DEF OpenSnapshot, OpenApply, threads, disk, history
  <1>17. CASE OpenSkip \/ OpenFails \/ OpenDone
    BY <1>17 DEF OpenSkip, OpenFails, OpenDone, GensOK, DropsRecorded, ThreadHandles,
       SnapshotHandles, ImageRows, mem, threads, disk, history
  <1>18. CASE UNCHANGED vars
    BY <1>18 DEF vars, GensOK, DropsRecorded, ThreadHandles, SnapshotHandles, ImageRows, mem,
       threads, disk, history
  <1> QED
    BY <1>1, <1>2, <1>3, <1>4, <1>6, <1>7, <1>9, <1>10, <1>11, <1>12, <1>13, <1>14, <1>16,
       <1>17, <1>18
    DEF Next, LocalStep, Request, ClientStep, SnapshotStep, OpenStep, Rest

-----------------------------------------------------------------------------
(* Database uses its log as AtomicLog allows: the refinement, for every      *)
(* number of clients, tables, rows, crashes and snapshots.                   *)

LEMMA RefinesInit == Init => Log!Init
  BY DEF Init, Log!Init

\* Every step of the database is one step of the log or none.
LEMMA RefinesStep ==
  ASSUME TypeInv, [Next]_vars
  PROVE  [Log!Next]_Log!vars
  <1> USE DEF TypeInv
  <1>1. ASSUME UNCHANGED <<phase, log, nextLsn>> PROVE UNCHANGED Log!vars
    BY <1>1 DEF Log!vars
  <1>2. ASSUME NEW c \in Clients, Request(c) PROVE UNCHANGED Log!vars
    BY <1>1, <1>2 DEF Request, CreateTable, DropTable, InsertLookup, disk
  <1>3. ASSUME NEW c \in Clients,
               InsertMany(c) \/ InsertManyRejects(c) \/ Encode(c) \/ AppendFails(c)
        PROVE  UNCHANGED Log!vars
    BY <1>1, <1>3 DEF InsertMany, InsertManyRejects, Encode, AppendFails, disk
  <1>4. ASSUME NEW c \in Clients, AppendWal(c) PROVE Log!Next
    <2> DEFINE change == [kind |-> op[c].kind, table |-> op[c].table, row |-> op[c].row]
    <2>1. phase = "up"  BY <1>4 DEF AppendWal, ThreadsOK
    <2>2. change \in Changes  BY <1>4, AppendedFrame DEF Frames
    <2>3. /\ log' = Append(log, [lsn |-> nextLsn, change |-> change])
          /\ nextLsn' = nextLsn + 1 /\ phase' = phase
      BY <1>4 DEF AppendWal
    <2> HIDE DEF change
    <2>4. Log!Write(change)  BY <2>1, <2>3 DEF Log!Write
    <2> QED  BY <2>2, <2>4 DEF Log!Next
  <1>5. CASE SnapshotLock \/ SnapshotCollect \/ (\E h \in Handles : SnapshotGuard(h))
             \/ SnapshotWrite \/ SnapshotFails \/ BytesLock \/ BytesEncode \/ OpenSkip
             \/ OpenApply
    BY <1>1, <1>5
    DEF SnapshotLock, SnapshotCollect, SnapshotGuard, SnapshotWrite, SnapshotFails, BytesLock,
        BytesEncode, OpenSkip, OpenApply, disk
  <1>6. CASE SnapshotReset
    <2>1. phase = "up" /\ phase' = phase /\ log' = <<>> /\ nextLsn' = nextLsn
      BY <1>6 DEF SnapshotReset, ThreadsOK
    <2> QED  BY <2>1 DEF Log!Next, Log!Clear
  <1>7. CASE Crash
    BY <1>7 DEF Crash, disk, Log!Next, Log!Die
  <1>8. CASE OpenSnapshot
    BY <1>8 DEF OpenSnapshot, disk, Log!Next, Log!Open, Log!NextLsnOf, NextLsnOf
  <1>9. CASE OpenFails
    BY <1>9 DEF OpenFails, disk, Log!Next, Log!Die
  <1>10. CASE OpenDone
    BY <1>10 DEF OpenDone, disk, Log!vars
  <1>11. CASE UNCHANGED vars
    BY <1>1, <1>11 DEF vars, disk
  <1> QED
    BY <1>2, <1>3, <1>4, <1>5, <1>6, <1>7, <1>8, <1>9, <1>10, <1>11
    DEF Next, LocalStep, ClientStep, SnapshotStep, OpenStep, Rest

\* Every behaviour of the database is one of the atomic log: frames are added one
\* at a time under the next number (Database::log), the log is emptied as a whole
\* (Database::snapshot), and only the counter is lost in a crash (Wal::open).
THEOREM LogImplemented == Spec => LogSpec
  <1>1. TypeInv /\ [Next]_vars => [Log!Next]_Log!vars  BY RefinesStep
  <1> QED  BY <1>1, RefinesInit, TypeCorrect, PTL DEF Spec, LogSpec, Log!Spec

-----------------------------------------------------------------------------
(***************************************************************************)
(* What Database acknowledged survives every snapshot and every crash: the *)
(* proof of AckedSurvive, one lemma for each part of Survival.             *)
(***************************************************************************)

Base == TypeInv /\ Numbering /\ HandlesOK

-----------------------------------------------------------------------------
(* Facts about views and about the files. *)

\* The histories that spoil a behaviour are never unsaid, and no name becomes
\* undropped.
LEMMA HistoriesStay ==
  ASSUME [Next]_vars
  PROVE  /\ conflicted = TRUE => conflicted' = TRUE
         /\ rewound = TRUE => rewound' = TRUE
         /\ straddled = TRUE => straddled' = TRUE
         /\ leftover = TRUE => leftover' = TRUE
  <1> DEFINE Same == /\ conflicted' = conflicted /\ rewound' = rewound
                     /\ straddled' = straddled /\ leftover' = leftover
             Stays == /\ conflicted = TRUE => conflicted' = TRUE
                      /\ rewound = TRUE => rewound' = TRUE
                      /\ straddled = TRUE => straddled' = TRUE
                      /\ leftover = TRUE => leftover' = TRUE
  <1>1. ASSUME NEW c \in Clients, NEW t \in Tables,
               CreateTable(c, t) \/ DropTable(c, t) \/ InsertLookup(c, t)
        PROVE  Stays
    <2>1. PICK k \in BOOLEAN : conflicted' = (conflicted \/ Overlaps(c, t, k))
      BY <1>1 DEF CreateTable, DropTable, InsertLookup, Serve
    <2>2. rewound' = rewound /\ straddled' = straddled /\ leftover' = leftover
      BY <1>1 DEF CreateTable, DropTable, InsertLookup
    <2> QED  BY <2>1, <2>2, Zenon
  <1>2. ASSUME NEW c \in Clients, InsertMany(c) \/ AppendWal(c) PROVE Same
    BY <1>2 DEF InsertMany, AppendWal, history
  <1>3. ASSUME NEW c \in Clients, InsertManyRejects(c) PROVE Stays
    BY <1>3 DEF InsertManyRejects
  <1>4. ASSUME NEW c \in Clients, Encode(c) \/ AppendFails(c) PROVE Stays
    BY <1>4 DEF Encode, AppendFails
  <1>5. ASSUME SnapshotLock \/ SnapshotCollect \/ BytesLock \/ BytesEncode PROVE Same
    BY <1>5 DEF SnapshotLock, SnapshotCollect, BytesLock, BytesEncode, history
  <1>6. ASSUME NEW h \in Handles, SnapshotGuard(h) PROVE Same
    BY <1>6 DEF SnapshotGuard, history
  <1>7. ASSUME SnapshotWrite PROVE Stays
    <2>1. /\ conflicted' = conflicted /\ rewound' = rewound /\ leftover' = leftover
          /\ straddled' = (straddled \/ CapturedUnlogged)
      BY <1>7 DEF SnapshotWrite
    <2> QED  BY <2>1, Zenon
  <1>8. ASSUME SnapshotReset \/ SnapshotFails \/ Crash PROVE Same
    BY <1>8 DEF SnapshotReset, SnapshotFails, Crash, history
  <1>9. ASSUME OpenSnapshot PROVE Stays
    <2>1. /\ conflicted' = conflicted /\ straddled' = straddled /\ leftover' = leftover
          /\ rewound' = (rewound \/ NextLsnOf(log) <= image.lsn)
      BY <1>9 DEF OpenSnapshot
    <2> QED  BY <2>1, Zenon
  <1>10. ASSUME OpenSkip \/ OpenApply \/ OpenFails \/ OpenDone PROVE Same
    BY <1>10 DEF OpenSkip, OpenApply, OpenFails, OpenDone, history
  <1>11. ASSUME UNCHANGED vars PROVE Same
    BY <1>11 DEF vars, history
  <1>12. Same => Stays  OBVIOUS
  <1> HIDE DEF Same, Stays
  <1>13. Stays
    BY <1>1, <1>2, <1>3, <1>4, <1>5, <1>6, <1>7, <1>8, <1>9, <1>10, <1>11, <1>12
    DEF Next, LocalStep, Request, ClientStep, SnapshotStep, OpenStep, Rest
  <1> QED  BY <1>13 DEF Stays

\* A behaviour they do not spoil was not spoilt before.
LEMMA CleanBack ==
  ASSUME TypeInv, [Next]_vars, Clean'
  PROVE  Clean /\ conflicted' = FALSE /\ rewound' = FALSE
  <1>1. /\ conflicted \in BOOLEAN /\ conflicted' \in BOOLEAN
        /\ rewound \in BOOLEAN /\ rewound' \in BOOLEAN
    BY TypeNext DEF TypeInv, TypeOK
  <1>2. conflicted' = FALSE /\ rewound' = FALSE  BY <1>1, Zenon DEF Clean
  <1>3. conflicted = FALSE /\ rewound = FALSE  BY <1>1, <1>2, HistoriesStay
  <1> QED  BY <1>2, <1>3, Zenon DEF Clean

\* A change that is visible, and is no DROP, has its table.
LEMMA ShownHasTable ==
  ASSUME TypeOK, NEW change \in Changes, change.kind # "drop", Shows(View, change)
  PROVE  tables[change.table] # 0
  <1>1. change.table \in Tables  BY DEF Changes
  <1>2. CASE change.kind = "create"  BY <1>1, <1>2 DEF Shows, View
  <1>3. CASE change.kind = "insert"
    <2>1. change.row \in Rows  BY <1>3 DEF Changes
    <2>2. View.rows[change.table][change.row] > 0  BY <1>3 DEF Shows
    <2>3. tables[change.table] = 0 => View.rows[change.table] = NoRows  BY <1>1 DEF View
    <2> QED  BY <2>1, <2>2, <2>3 DEF NoRows
  <1> QED  BY <1>2, <1>3 DEF Changes

\* What snapshot copies of a name that was never dropped is what readers see.
LEMMA CapturedRows ==
  ASSUME TypeOK, SnapshotHandles, NEW t \in Tables, t \notin dropped
  PROVE  /\ (\E h \in snapper.handles : h[1] = t)
            => /\ HandleOf(t) \in snapper.handles
               /\ tables[t] # 0 /\ t \in Captured.names
               /\ Captured.rows[t] = heap[HandleOf(t)] /\ Captured.rows[t] = View.rows[t]
         /\ ~(\E h \in snapper.handles : h[1] = t)
            => Captured.rows[t] = NoRows /\ t \notin Captured.names
  <1>1. ASSUME NEW h \in snapper.handles, h[1] = t PROVE h = HandleOf(t) /\ tables[t] # 0
    <2>1. PICK g \in Gens : h = <<t, g>>  BY <1>1 DEF TypeOK, Handles
    <2>2. tables[t] = g /\ g # 0  BY <1>1, <2>1 DEF SnapshotHandles, Gens
    <2> QED  BY <2>1, <2>2 DEF HandleOf
  <1>2. CASE \E h \in snapper.handles : h[1] = t
    <2>1. (CHOOSE h \in snapper.handles : h[1] = t) \in snapper.handles
          /\ (CHOOSE h \in snapper.handles : h[1] = t)[1] = t
      BY <1>2
    <2>2. (CHOOSE h \in snapper.handles : h[1] = t) = HandleOf(t) /\ tables[t] # 0
      BY <1>1, <2>1
    <2>3. HandleOf(t) \in snapper.handles  BY <2>1, <2>2
    <2>4. Captured.rows[t] = heap[HandleOf(t)]  BY <1>2, <2>2 DEF Captured
    <2>5. t \in Captured.names  BY <1>2 DEF Captured
    <2>6. View.rows[t] = heap[HandleOf(t)]  BY <2>2 DEF View
    <2> QED  BY <1>2, <2>2, <2>3, <2>4, <2>5, <2>6
  <1>3. CASE ~(\E h \in snapper.handles : h[1] = t)
    BY <1>3 DEF Captured
  <1> QED  BY <1>2, <1>3

\* Once the new snapshot is in place no frame of the log counts any more.
LEMMA NothingLoggedAbove ==
  ASSUME TypeInv, Numbering, phase = "up", NEW i \in 1..Len(log)
  PROVE  log[i].lsn <= nextLsn - 1
  <1>1. log \in Seq(Frames)  BY DEF TypeInv, TypeOK
  <1>2. log # <<>> /\ 1 \in 1..Len(log) /\ Len(log) \in 1..Len(log)  BY <1>1
  <1>3. log[1].lsn \in Nat  BY <1>2, FrameTyped DEF TypeInv
  <1>4. /\ log[i].lsn = log[1].lsn + i - 1
        /\ log[Len(log)].lsn = log[1].lsn + Len(log) - 1
        /\ nextLsn = log[Len(log)].lsn + 1
    BY <1>2 DEF Numbering
  <1> QED  BY <1>1, <1>3, <1>4

\* The catalogue that open installs is the view it was given.
LEMMA InstalledView ==
  ASSUME NEW view \in Views, Install(view)
  PROVE  View' = [names |-> view.names,
                  rows  |-> [t \in Tables |-> IF t \in view.names THEN view.rows[t] ELSE NoRows]]
  <1>1. \A t \in Tables : tables'[t] = IF t \in view.names THEN 1 ELSE 0  BY DEF Install
  <1>2. \A t \in Tables : heap'[<<t, 1>>] = view.rows[t]
    BY BoundsAssumption DEF Install, Handles, Gens
  <1>3. {t \in Tables : tables'[t] # 0} = view.names  BY <1>1 DEF Views
  <1>4. \A t \in Tables : t \in view.names => heap'[<<t, tables'[t]>>] = view.rows[t]
    BY <1>1, <1>2
  <1> QED  BY <1>1, <1>3, <1>4 DEF View, HandleOf

-----------------------------------------------------------------------------
(* The parts of Survival, one by one. *)

\* A row that is in a handle stays there, and the row that is pushed gets there.
LEMMA PushKeepsRows ==
  ASSUME TypeInv, NEW c \in Clients, PushRow(c), NEW h \in Handles, NEW r \in Rows
  PROVE  /\ heap[h][r] > 0 => heap'[h][r] > 0
         /\ h = <<op[c].table, op[c].gen>> /\ r = op[c].row => heap'[h][r] > 0
  <1> USE DEF TypeInv
  <1>1. heap[h] \in Bags /\ heap[h][r] \in Nat /\ op[c].row \in Rows
    BY DEF TypeOK, Bags, PushRow, ThreadsOK
  <1>2. CASE h = <<op[c].table, op[c].gen>>
    <2>1. heap'[h] = AddRow(heap[h], op[c].row)  BY <1>2 DEF PushRow, TypeOK
    <2> QED  BY <1>1, <1>2, <2>1 DEF AddRow, Bags
  <1>3. CASE h # <<op[c].table, op[c].gen>>
    BY <1>3 DEF PushRow, TypeOK
  <1> QED  BY <1>2, <1>3

\* A row on its way to the log stays in its table: a new handle is a new bag.
LEMMA PendingInsertServedNext ==
  ASSUME Base, PendingInsertServed, [Next]_vars
  PROVE  PendingInsertServed'
  <1> USE DEF Base, TypeInv
  <1>1. \A c \in Clients : Unlogged(c) /\ op[c].kind = "insert" =>
            /\ <<op[c].table, op[c].gen>> \in Handles
            /\ op[c].table \in Tables /\ op[c].row \in Rows
            /\ op[c].gen <= gen[op[c].table]
    BY DEF TypeOK, ThreadsOK, Ops, Handles, HandlesOK, GensOK
  <1>2. ASSUME NEW c \in Clients, NEW t \in Tables, CreateTable(c, t)
        PROVE  PendingInsertServed'
    <2>1. ASSUME NEW d \in Clients, Unlogged(d)', op'[d].kind = "insert"
          PROVE  heap'[<<op'[d].table, op'[d].gen>>][op'[d].row] > 0
      <3>1. d # c /\ op'[d] = op[d] /\ pc'[d] = pc[d]
        BY <1>2, <2>1 DEF CreateTable, TypeOK
      <3>2. Unlogged(d) /\ op[d].kind = "insert"  BY <2>1, <3>1 DEF Unlogged
      <3>5. op[d].gen <= gen[op[d].table]  BY <1>1, <3>2
      <3>6. gen[t] \in Nat /\ op[d].gen \in Nat  BY DEF TypeOK, Ops
      <3>3. <<op[d].table, op[d].gen>> # <<t, gen[t] + 1>>  BY <3>5, <3>6
      <3>4. heap'[<<op[d].table, op[d].gen>>] = heap[<<op[d].table, op[d].gen>>]
        BY <1>1, <1>2, <2>1, <3>1, <3>3 DEF CreateTable, TypeOK, Unlogged
      <3> QED  BY <2>1, <3>1, <3>4 DEF PendingInsertServed, Unlogged
    <2> QED  BY <2>1 DEF PendingInsertServed
  <1>5. ASSUME NEW c \in Clients, InsertMany(c) PROVE PendingInsertServed'
    <2>1. ASSUME NEW d \in Clients, Unlogged(d)', op'[d].kind = "insert"
          PROVE  heap'[<<op'[d].table, op'[d].gen>>][op'[d].row] > 0
      <3>1. op' = op /\ PushRow(c)  BY <1>5 DEF InsertMany
      <3>2. <<op[d].table, op[d].gen>> \in Handles /\ op[d].row \in Rows
        BY <2>1, <3>1 DEF TypeOK, ThreadsOK, Ops, Handles
      <3>3. d = c \/ Unlogged(d)  BY <1>5, <2>1 DEF InsertMany, Unlogged, TypeOK
      <3> QED  BY PushKeepsRows, <2>1, <3>1, <3>2, <3>3 DEF PendingInsertServed
    <2> QED  BY <2>1 DEF PendingInsertServed
  \* A request that fails, is logged or dies is pending no more.
  <1>6. ASSUME \A h \in Handles, r \in Rows : heap[h][r] > 0 => heap'[h][r] > 0,
               \A d \in Clients : Unlogged(d)' /\ op'[d].kind = "insert"
                                    => Unlogged(d) /\ op'[d] = op[d]
        PROVE  PendingInsertServed'
    <2>1. ASSUME NEW d \in Clients, Unlogged(d)', op'[d].kind = "insert"
          PROVE  heap'[<<op'[d].table, op'[d].gen>>][op'[d].row] > 0
      <3>1. Unlogged(d) /\ op'[d] = op[d] /\ op[d].kind = "insert"  BY <1>6, <2>1
      <3>2. <<op[d].table, op[d].gen>> \in Handles /\ op[d].row \in Rows
        BY <1>1, <3>1
      <3> QED  BY <1>6, <3>1, <3>2 DEF PendingInsertServed
    <2> QED  BY <2>1 DEF PendingInsertServed
  <1>3. ASSUME NEW c \in Clients, NEW t \in Tables, DropTable(c, t) \/ InsertLookup(c, t)
        PROVE  PendingInsertServed'
    <2>1. heap' = heap  BY <1>3 DEF DropTable, InsertLookup, mem
    <2>2. ASSUME NEW d \in Clients, Unlogged(d)', op'[d].kind = "insert"
          PROVE  Unlogged(d) /\ op'[d] = op[d]
      <3>1. CASE d = c
        BY <1>3, <2>2, <3>1 DEF DropTable, InsertLookup, Unlogged, TypeOK
      <3>2. CASE d # c
        BY <1>3, <2>2, <3>2 DEF DropTable, InsertLookup, Unlogged, TypeOK
      <3> QED  BY <3>1, <3>2
    <2> QED  BY <1>6, <2>1, <2>2
  <1>7. ASSUME NEW c \in Clients, InsertManyRejects(c) PROVE PendingInsertServed'
    <2>1. \A d \in Clients : Unlogged(d)' => Unlogged(d) /\ op'[d] = op[d]
      BY <1>7 DEF InsertManyRejects, Finish, Unlogged, TypeOK
    <2> QED  BY PushKeepsRows, <1>6, <1>7, <2>1 DEF InsertManyRejects
  <1>8. ASSUME NEW c \in Clients, Encode(c) \/ AppendFails(c) PROVE PendingInsertServed'
    <2>1. \A d \in Clients : Unlogged(d)' => Unlogged(d) /\ op'[d] = op[d]
      BY <1>8 DEF Encode, AppendFails, Finish, Unlogged, TypeOK
    <2>2. heap' = heap  BY <1>8 DEF Encode, AppendFails, mem
    <2> QED  BY <1>6, <2>1, <2>2
  <1>9. ASSUME NEW c \in Clients, AppendWal(c) PROVE PendingInsertServed'
    <2>1. \A d \in Clients : Unlogged(d)' => Unlogged(d) /\ op'[d] = op[d]
      BY <1>9 DEF AppendWal, Finish, Unlogged, TypeOK
    <2>2. heap' = heap  BY <1>9 DEF AppendWal, mem
    <2> QED  BY <1>6, <2>1, <2>2
  <1>10. ASSUME UNCHANGED <<heap, pc, op>> PROVE PendingInsertServed'
    BY <1>10 DEF PendingInsertServed, Unlogged
  <1>11. CASE SnapshotLock \/ SnapshotStep \/ SnapshotFails \/ BytesLock \/ BytesEncode
              \/ UNCHANGED vars
    BY <1>10, <1>11
    DEF SnapshotLock, SnapshotStep, SnapshotCollect, SnapshotGuard, SnapshotWrite,
        SnapshotReset, SnapshotFails, BytesLock, BytesEncode, vars, mem, threads
  <1>12. CASE Crash \/ OpenStep
    <2>1. \A c \in Clients : ~Unlogged(c)'
      BY <1>12
      DEF Crash, OpenStep, OpenSnapshot, OpenSkip, OpenApply, OpenFails, OpenDone, threads,
          Unlogged, ThreadsOK
    <2> QED  BY <2>1 DEF PendingInsertServed
  <1> QED
    BY <1>2, <1>3, <1>5, <1>7, <1>8, <1>9, <1>11, <1>12 DEF Next, LocalStep, Request,
       ClientStep, Rest

\* What was acknowledged stays in the snapshot or in the log.
LEMMA AckedStoredNext ==
  ASSUME Base, Survival, Clean, [Next]_vars, Clean'
  PROVE  AckedStored'
  <1> USE DEF Base, TypeInv
  <1>1. AckedStored /\ StoredServed /\ AckedCaptured  BY DEF Survival
  <1>2. ASSUME UNCHANGED <<acked, log, image>>, dropped \subseteq dropped' PROVE AckedStored'
    BY <1>1, <1>2 DEF AckedStored, Kept, Stored, LoggedUpTo, Shows
  <1>3. ASSUME NEW c \in Clients, Request(c) PROVE AckedStored'
    BY <1>2, <1>3 DEF Request, CreateTable, DropTable, InsertLookup, disk
  <1>4. ASSUME NEW c \in Clients,
               InsertMany(c) \/ InsertManyRejects(c) \/ Encode(c) \/ AppendFails(c)
        PROVE  AckedStored'
    BY <1>2, <1>4 DEF InsertMany, InsertManyRejects, Encode, AppendFails, disk, history
  <1>5. ASSUME NEW c \in Clients, AppendWal(c) PROVE AckedStored'
    <2> DEFINE change == [kind |-> op[c].kind, table |-> op[c].table, row |-> op[c].row]
               f == [lsn |-> nextLsn, change |-> change]
    <2>1. f \in Frames /\ log' = Append(log, f) /\ acked' = acked \cup {change}
          /\ f.lsn = nextLsn /\ f.change = change
      BY <1>5, AppendedFrame
    <2>2. image' = image /\ dropped' = dropped /\ nextLsn > image.lsn
      <3>1. phase = "up"  BY <1>5 DEF AppendWal, ThreadsOK
      <3>2. image.lsn < nextLsn  BY <3>1 DEF Numbering, Clean
      <3> QED  BY <1>5, <3>2 DEF AppendWal, TypeOK
    <2> HIDE DEF change, f
    <2>3. /\ Len(log') = Len(log) + 1 /\ log'[Len(log) + 1] = f
          /\ \A i \in 1..Len(log) : log'[i] = log[i]
      BY <2>1, AppendFrame DEF TypeOK
    <2>4. Len(log) \in Nat  BY DEF TypeOK
    <2>5. ASSUME NEW a, Stored(a) PROVE Stored(a)'
      <3>1. CASE Shows(image.view, a)  BY <2>2, <3>1 DEF Stored, Shows
      <3>2. CASE LoggedUpTo(a, Len(log))
        <4>1. PICK i \in 1..Len(log) : log[i].lsn > image.lsn /\ log[i].change = a
          BY <3>2 DEF LoggedUpTo
        <4>2. i \in 1..Len(log') /\ log'[i].lsn > image'.lsn /\ log'[i].change = a
          BY <2>2, <2>3, <2>4, <4>1
        <4>3. \E k \in 1..Len(log') : log'[k].lsn > image'.lsn /\ log'[k].change = a
          BY <4>2
        <4> QED  BY <4>3 DEF Stored, LoggedUpTo
      <3> QED  BY <2>5, <3>1, <3>2 DEF Stored
    <2>6. \E k \in 1..Len(log') : log'[k].lsn > image'.lsn /\ log'[k].change = change
      <3>1. Len(log) + 1 \in 1..Len(log')  BY <2>3, <2>4
      <3>2. log'[Len(log) + 1].lsn > image'.lsn /\ log'[Len(log) + 1].change = change
        BY <2>1, <2>2, <2>3
      <3>3. \E k \in 1..Len(log') : log'[k].lsn > image'.lsn /\ log'[k].change = change
        BY <3>1, <3>2
      <3> QED  BY <3>3
    <2>7. ASSUME NEW a \in acked', Kept(a)' PROVE Stored(a)'
      <3>1. CASE a \in acked
        <4>1. Stored(a)  BY <1>1, <2>2, <2>7, <3>1 DEF AckedStored, Kept
        <4> QED  BY <2>5, <4>1
      <3>2. CASE a = change  BY <2>6, <3>2 DEF Stored, LoggedUpTo
      <3> QED  BY <2>1, <2>7, <3>1, <3>2
    <2> QED  BY <2>7 DEF AckedStored
  <1>6. CASE SnapshotLock \/ SnapshotCollect \/ SnapshotFails \/ BytesLock \/ BytesEncode
    BY <1>2, <1>6 DEF SnapshotLock, SnapshotCollect, SnapshotFails, BytesLock, BytesEncode,
       disk, history
  <1>7. ASSUME NEW h \in Handles, SnapshotGuard(h) PROVE AckedStored'
    BY <1>2, <1>7 DEF SnapshotGuard, disk, history
  <1>8. CASE SnapshotWrite
    <2>1. ASSUME NEW a \in acked, Kept(a) PROVE Shows(Captured, a)
      <3>1. phase = "up" /\ snapper.pc = "guard" /\ a \in Changes /\ a.table \in Tables
        BY <1>8 DEF SnapshotWrite, ThreadsOK, TypeOK, Changes
      <3>2. Shows(View, a)  BY <1>1, <2>1, <3>1 DEF AckedStored, StoredServed
      <3>3. HandleOf(a.table) \in snapper.handles /\ HandleOf(a.table)[1] = a.table
        BY <1>1, <2>1, <3>1 DEF AckedCaptured, HandleOf
      <3>4. a.table \in Captured.names /\ Captured.rows[a.table] = View.rows[a.table]
        BY <2>1, <3>1, <3>3, CapturedRows DEF Kept, HandlesOK
      <3>5. CASE a.kind = "create"  BY <3>4, <3>5 DEF Shows
      <3>6. CASE a.kind = "insert"  BY <3>2, <3>4, <3>6 DEF Shows
      <3> QED  BY <2>1, <3>1, <3>5, <3>6 DEF Changes, Kept
    <2>2. image'.view = Captured /\ acked' = acked /\ dropped' = dropped
      BY <1>8 DEF SnapshotWrite
    <2> QED  BY <2>1, <2>2 DEF AckedStored, Stored, Kept, Shows
  <1>9. CASE SnapshotReset
    <2>1. \A i \in 1..Len(log) : log[i].lsn <= image.lsn
      BY <1>9, ResetIsCovered DEF SnapshotReset, ResetDropsOnlyCovered
    <2>2. \A i \in 1..Len(log) : ~(log[i].lsn > image.lsn)  BY <2>1, FrameTyped DEF TypeOK
    <2>3. image' = image /\ acked' = acked /\ dropped' = dropped
      BY <1>9 DEF SnapshotReset, history
    <2>4. \A a \in acked : Stored(a) => Shows(image.view, a)
      BY <2>2 DEF Stored, LoggedUpTo
    <2> QED  BY <1>1, <2>3, <2>4 DEF AckedStored, Stored, Kept, Shows
  <1>10. CASE Crash \/ OpenStep \/ UNCHANGED vars
    BY <1>2, <1>10
    DEF Crash, OpenStep, OpenSnapshot, OpenSkip, OpenApply, OpenFails, OpenDone, disk,
        history, vars
  <1> QED
    BY <1>3, <1>4, <1>5, <1>6, <1>7, <1>8, <1>9, <1>10
    DEF Next, LocalStep, ClientStep, SnapshotStep, Rest

\* A row in the files is in the table readers see.
LEMMA FilesAreServed ==
  ASSUME Base, StoredServed, phase = "up", NEW t \in Tables, t \notin dropped
  PROVE  /\ \A r \in Rows : image.view.rows[t][r] > 0 => tables[t] # 0 /\ heap[HandleOf(t)][r] > 0
         /\ ~NoInsertUpTo(t, Len(log)) => tables[t] # 0
  <1> USE DEF Base, TypeInv
  <1>1. ASSUME NEW r \in Rows, Stored([kind |-> "insert", table |-> t, row |-> r])
        PROVE  tables[t] # 0 /\ heap[HandleOf(t)][r] > 0
    <2> DEFINE a == [kind |-> "insert", table |-> t, row |-> r]
    <2>1. a \in Changes /\ Kept(a) /\ a.kind = "insert" /\ a.table = t /\ a.row = r
      BY DEF Changes, Kept
    <2>2. Shows(View, a)  BY <1>1, <2>1 DEF StoredServed
    <2>3. tables[t] # 0  BY <2>1, <2>2, ShownHasTable
    <2>4. View.rows[t][r] > 0  BY <2>1, <2>2 DEF Shows
    <2>5. View.rows[t] = heap[HandleOf(t)]  BY <2>3 DEF View
    <2> QED  BY <2>3, <2>4, <2>5
  <1>2. ASSUME NEW r \in Rows, image.view.rows[t][r] > 0
        PROVE  tables[t] # 0 /\ heap[HandleOf(t)][r] > 0
    <2>1. Shows(image.view, [kind |-> "insert", table |-> t, row |-> r])  BY <1>2 DEF Shows
    <2> QED  BY <1>1, <2>1 DEF Stored
  <1>3. ASSUME ~NoInsertUpTo(t, Len(log)) PROVE tables[t] # 0
    <2>1. PICK i \in 1..Len(log) :
            log[i].lsn > image.lsn /\ log[i].change.kind = "insert" /\ log[i].change.table = t
      BY <1>3 DEF NoInsertUpTo
    <2> DEFINE a == log[i].change
    <2>2. a \in Changes  BY FrameTyped
    <2>3. a.row \in Rows /\ a = [kind |-> "insert", table |-> t, row |-> a.row]
      BY <2>1, <2>2 DEF Changes
    <2>4. LoggedUpTo(a, Len(log))  BY <2>1 DEF LoggedUpTo
    <2>5. Stored([kind |-> "insert", table |-> t, row |-> a.row])  BY <2>3, <2>4 DEF Stored
    <2> QED  BY <1>1, <2>3, <2>5
  <1> QED  BY <1>2, <1>3

\* Nobody touches a table whose CREATE is still to be logged.
LEMMA PendingCreateEmptyNext ==
  ASSUME Base, Survival, Clean, [Next]_vars, Clean'
  PROVE  PendingCreateEmpty'
  <1> USE DEF Base, TypeInv
  <1> DEFINE Creating(d) == pc[d] = "append" /\ op[d].kind = "create" /\ op[d].table \notin dropped
  <1>1. StoredServed /\ PendingCreateEmpty  BY DEF Survival
  \* A table nobody touched stays so while its handle, its rows and the files do.
  <1>2. ASSUME NEW d \in Clients, NEW t \in Tables, op[d].table = t, op'[d] = op[d],
               Creating(d), tables'[t] = tables[t], UNCHANGED <<log, image>>,
               HandleOf(t) \in Handles => heap'[HandleOf(t)] = heap[HandleOf(t)],
               \A e \in Clients : op'[e].kind = "insert" => op'[e].table # t
        PROVE  Untouched(op[d].table)'
    <2>1. HandleOf(t)' = HandleOf(t) /\ Untouched(t)
      BY <1>1, <1>2 DEF HandleOf, PendingCreateEmpty
    <2>2. HandleOf(t) \in Handles
      <3>1. op[d].gen \in Gens  BY <1>2 DEF ThreadsOK
      <3>2. tables[t] = op[d].gen  BY <1>2 DEF HandlesOK, ThreadHandles
      <3> QED  BY <3>1, <3>2 DEF HandleOf, Handles
    <2> QED  BY <1>2, <2>1, <2>2 DEF Untouched, NoInsertUpTo
  <1>3. ASSUME NEW c \in Clients, NEW t \in Tables, CreateTable(c, t),
               NEW d \in Clients, Creating(d)'
        PROVE  Untouched(op[d].table)'
    <2>1. /\ tables[t] = 0 /\ phase = "up" /\ log' = log /\ image' = image /\ dropped' = dropped
          /\ op'[c].kind = "create" /\ op'[c].table = t
      BY <1>3 DEF CreateTable, Serve, disk, TypeOK
    <2>5. \A e \in Clients \ {c} : op'[e] = op[e] /\ pc'[e] = pc[e]
      BY <1>3 DEF CreateTable, TypeOK
    <2>6. gen[t] + 1 \in Gens
      BY <1>3, BoundsAssumption DEF CreateTable, TypeOK, Gens
    <2>2. ASSUME NEW e \in Clients, op[e].kind \in {"create", "insert"}, op[e].table = t
          PROVE  t \in dropped
      <3>1. op[e].gen # 0  BY <2>2 DEF ThreadsOK, Gens
      <3> QED  BY <2>1, <2>2, <3>1 DEF HandlesOK, ThreadHandles
    <2>3. CASE d = c
      <3>1. t \notin dropped  BY <1>3, <2>1, <2>3
      <3>2. (\A r \in Rows : image.view.rows[t][r] = 0) /\ NoInsertUpTo(t, Len(log))
        <4>1. \A r \in Rows : image.view.rows[t][r] \in Nat
          BY DEF TypeOK, Views, Bags
        <4> QED  BY <1>1, <2>1, <3>1, <4>1, FilesAreServed
      <3>3. HandleOf(t)' = <<t, gen[t] + 1>> /\ heap'[<<t, gen[t] + 1>>] = NoRows
        <4>1. <<t, gen[t] + 1>> \in Handles  BY <2>6 DEF Handles
        <4> QED  BY <1>3, <4>1 DEF CreateTable, HandleOf, TypeOK
      <3>4. \A e \in Clients : op'[e].kind = "insert" => op'[e].table # t
        BY <2>1, <2>2, <2>5, <3>1
      <3> QED
        BY <2>1, <2>3, <3>2, <3>3, <3>4 DEF Untouched, NoInsertUpTo, NoRows
    <2>4. CASE d # c
      <3>1. Creating(d) /\ op'[d] = op[d]  BY <1>3, <2>1, <2>4, <2>5
      <3>2. op[d].table \in Tables /\ op[d].table # t  BY <2>2, <3>1 DEF TypeOK, Ops
      <3>3. Untouched(op[d].table)  BY <1>1, <3>1 DEF PendingCreateEmpty
      <3>4. tables'[op[d].table] = tables[op[d].table]
            /\ \A h \in Handles : h[1] = op[d].table => heap'[h] = heap[h]
        BY <1>3, <3>2 DEF CreateTable, TypeOK
      <3>5. \A e \in Clients : op'[e].kind = "insert" => op'[e].table # op[d].table
        BY <2>1, <2>5, <3>3 DEF Untouched
      <3> QED  BY <1>2, <2>1, <3>1, <3>2, <3>4, <3>5 DEF HandleOf
    <2> QED  BY <2>3, <2>4
  <1>4. ASSUME NEW c \in Clients, NEW t \in Tables, DropTable(c, t),
               NEW d \in Clients, Creating(d)'
        PROVE  Untouched(op[d].table)'
    <2>1. /\ op'[c].kind = "drop" /\ log' = log /\ image' = image /\ heap' = heap
          /\ dropped' = dropped \cup {t} /\ tables' = [tables EXCEPT ![t] = 0]
          /\ \A e \in Clients \ {c} : op'[e] = op[e] /\ pc'[e] = pc[e]
      BY <1>4 DEF DropTable, disk, TypeOK
    <2>2. Creating(d) /\ op'[d] = op[d] /\ op[d].table \in Tables /\ op[d].table # t
      BY <1>4, <2>1 DEF TypeOK, Ops
    <2>3. tables'[op[d].table] = tables[op[d].table]  BY <2>1, <2>2 DEF TypeOK
    <2>4. \A e \in Clients : op'[e].kind = "insert" => op'[e].table # op[d].table
      BY <1>1, <2>1, <2>2 DEF PendingCreateEmpty, Untouched
    <2> QED  BY <1>2, <2>1, <2>2, <2>3, <2>4
  <1>5. ASSUME NEW c \in Clients, NEW t \in Tables, InsertLookup(c, t),
               NEW d \in Clients, Creating(d)'
        PROVE  Untouched(op[d].table)'
    <2>1. /\ op'[c].kind = "insert" /\ op'[c].table = t /\ log' = log /\ image' = image
          /\ heap' = heap /\ tables' = tables /\ dropped' = dropped
          /\ \A e \in Clients \ {c} : op'[e] = op[e] /\ pc'[e] = pc[e]
      BY <1>5 DEF InsertLookup, disk, mem, TypeOK
    <2>2. d # c /\ Creating(d) /\ op'[d] = op[d] /\ op[d].table \in Tables
      BY <1>5, <2>1 DEF TypeOK, Ops
    <2>3. op[d].table # t
      <3>1. ~Overlaps(c, t, FALSE)
        BY <1>5, CleanBack DEF InsertLookup, Serve
      <3> QED  BY <2>2, <3>1 DEF Overlaps, InFlight
    <2>4. \A e \in Clients : op'[e].kind = "insert" => op'[e].table # op[d].table
      BY <1>1, <2>1, <2>2, <2>3 DEF PendingCreateEmpty, Untouched
    <2> QED  BY <1>2, <2>1, <2>2, <2>4
  <1>6. ASSUME NEW c \in Clients, InsertMany(c) \/ InsertManyRejects(c),
               NEW d \in Clients, Creating(d)'
        PROVE  Untouched(op[d].table)'
    <2>1. /\ PushRow(c) /\ log' = log /\ image' = image /\ tables' = tables
          /\ dropped' = dropped /\ op[c].kind = "insert" /\ pc'[c] # "append"
          /\ \A e \in Clients \ {c} : op'[e] = op[e] /\ pc'[e] = pc[e]
      BY <1>6 DEF InsertMany, InsertManyRejects, PushRow, Finish, disk, ThreadsOK, history, TypeOK
    <2>2. op'[c] = op[c] \/ op'[c] = NoOp
      BY <1>6 DEF InsertMany, InsertManyRejects, Finish, TypeOK
    <2>3. d # c /\ Creating(d) /\ op'[d] = op[d] /\ op[d].table \in Tables
      BY <1>6, <2>1 DEF TypeOK, Ops
    <2>4. Untouched(op[d].table)  BY <1>1, <2>3 DEF PendingCreateEmpty
    <2>5. op[c].table # op[d].table  BY <2>1, <2>4 DEF Untouched
    <2>6. \A h \in Handles : h[1] = op[d].table => heap'[h] = heap[h]
      BY <2>1, <2>5 DEF PushRow, TypeOK
    <2>7. \A e \in Clients : op'[e].kind = "insert" => op'[e].table # op[d].table
      BY <2>1, <2>2, <2>4 DEF Untouched, NoOp
    <2> QED  BY <1>2, <2>1, <2>3, <2>6, <2>7 DEF HandleOf
  <1>7. ASSUME NEW c \in Clients, Encode(c) \/ AppendFails(c), NEW d \in Clients, Creating(d)'
        PROVE  Untouched(op[d].table)'
    <2>1. /\ UNCHANGED <<log, image, tables, heap, dropped>>
          /\ (op'[c] = op[c] /\ op[c].kind = "insert") \/ op'[c] = NoOp
          /\ \A e \in Clients \ {c} : op'[e] = op[e] /\ pc'[e] = pc[e]
      <3>1. CASE Encode(c)
        BY <3>1 DEF Encode, Finish, disk, mem, ThreadsOK, TypeOK
      <3>2. CASE AppendFails(c)
        BY <3>2 DEF AppendFails, Finish, disk, mem, TypeOK
      <3> QED  BY <1>7, <3>1, <3>2
    <2>2. d # c  BY <1>7, <2>1 DEF NoOp
    <2>3. Creating(d) /\ op'[d] = op[d] /\ op[d].table \in Tables
      BY <1>7, <2>1, <2>2 DEF TypeOK, Ops
    <2>4. \A e \in Clients : op'[e].kind = "insert" => op'[e].table # op[d].table
      BY <1>1, <2>1, <2>3 DEF PendingCreateEmpty, Untouched, NoOp
    <2> QED  BY <1>2, <2>1, <2>3, <2>4
  <1>8. ASSUME NEW c \in Clients, AppendWal(c), NEW d \in Clients, Creating(d)'
        PROVE  Untouched(op[d].table)'
    <2> DEFINE change == [kind |-> op[c].kind, table |-> op[c].table, row |-> op[c].row]
               f == [lsn |-> nextLsn, change |-> change]
    <2>1. /\ UNCHANGED <<image, tables, heap, dropped>> /\ op'[c] = NoOp /\ pc'[c] = "idle"
          /\ \A e \in Clients \ {c} : op'[e] = op[e] /\ pc'[e] = pc[e]
      BY <1>8 DEF AppendWal, Finish, mem, TypeOK
    <2>2. d # c /\ Creating(d) /\ op'[d] = op[d] /\ op[d].table \in Tables
      BY <1>8, <2>1 DEF TypeOK, Ops
    <2>3. Untouched(op[d].table)  BY <1>1, <2>2 DEF PendingCreateEmpty
    <2>4. op[c].kind = "insert" => op[c].table # op[d].table  BY <2>3 DEF Untouched
    <2>5. f \in Frames /\ log' = Append(log, f)  BY <1>8, AppendedFrame
    <2>6. ~(f.change.kind = "insert" /\ f.change.table = op[d].table)  BY <2>4
    <2> HIDE DEF change, f
    <2>7. /\ Len(log') = Len(log) + 1 /\ log'[Len(log) + 1] = f
          /\ \A i \in 1..Len(log) : log'[i] = log[i]
      BY <2>5, AppendFrame DEF TypeOK
    <2>8. Len(log) \in Nat  BY DEF TypeOK
    <2>9. \A i \in 1..Len(log') : ~(log'[i].lsn > image'.lsn /\ log'[i].change.kind = "insert"
                                      /\ log'[i].change.table = op[d].table)
      <3>1. \A i \in 1..Len(log') : i \in 1..Len(log) \/ i = Len(log) + 1  BY <2>7, <2>8
      <3> QED  BY <2>1, <2>3, <2>6, <2>7, <3>1 DEF Untouched, NoInsertUpTo
    <2>10. \A e \in Clients : op'[e].kind = "insert" => op'[e].table # op[d].table
      BY <2>1, <2>3 DEF Untouched, NoOp
    <2> QED  BY <2>1, <2>2, <2>3, <2>9, <2>10 DEF Untouched, NoInsertUpTo, HandleOf
  <1>9. ASSUME SnapshotWrite, NEW d \in Clients, Creating(d)' PROVE Untouched(op[d].table)'
    <2>1. /\ UNCHANGED <<tables, heap, log, pc, op, dropped>>
          /\ image' = [lsn |-> snapper.lsn, view |-> Captured]
          /\ snapper.pc = "guard" /\ phase = "up"
      BY <1>9 DEF SnapshotWrite, mem, threads, ThreadsOK
    <2>2. Creating(d) /\ op[d].table \in Tables  BY <1>9, <2>1 DEF TypeOK, Ops
    <2>3. Untouched(op[d].table)  BY <1>1, <2>2 DEF PendingCreateEmpty
    <2>4. Captured.rows[op[d].table] = heap[HandleOf(op[d].table)]
          \/ Captured.rows[op[d].table] = NoRows
      BY <2>2, CapturedRows DEF HandlesOK
    <2>5. \A r \in Rows : image'.view.rows[op[d].table][r] = 0
      BY <2>1, <2>3, <2>4 DEF Untouched, NoRows
    <2>6. \A i \in 1..Len(log) : ~(log[i].lsn > image'.lsn)
      <3>1. image'.lsn = nextLsn - 1  BY <2>1 DEF Numbering
      <3>2. \A i \in 1..Len(log) : log[i].lsn \in Nat  BY FrameTyped
      <3> QED  BY <2>1, <3>1, <3>2, NothingLoggedAbove DEF TypeOK
    <2> QED  BY <2>1, <2>3, <2>5, <2>6 DEF Untouched, NoInsertUpTo, HandleOf
  <1>10. ASSUME SnapshotReset, NEW d \in Clients, Creating(d)' PROVE Untouched(op[d].table)'
    <2>1. /\ UNCHANGED <<tables, heap, image, pc, op, dropped>> /\ Len(log') = 0
      BY <1>10 DEF SnapshotReset, mem, threads, history
    <2>2. Untouched(op[d].table)  BY <1>1, <1>10, <2>1 DEF PendingCreateEmpty
    <2>3. \A i \in 1..Len(log') : FALSE  BY <2>1
    <2> QED  BY <2>1, <2>2, <2>3 DEF Untouched, NoInsertUpTo, HandleOf
  <1>11. ASSUME UNCHANGED <<tables, heap, log, image, pc, op, dropped>> PROVE PendingCreateEmpty'
    BY <1>1, <1>11 DEF PendingCreateEmpty, Untouched, NoInsertUpTo, HandleOf
  <1>12. CASE SnapshotLock \/ SnapshotCollect \/ (\E h \in Handles : SnapshotGuard(h))
              \/ SnapshotFails \/ BytesLock \/ BytesEncode \/ UNCHANGED vars
    BY <1>11, <1>12
    DEF SnapshotLock, SnapshotCollect, SnapshotGuard, SnapshotFails, BytesLock, BytesEncode,
        vars, mem, threads, disk, history
  <1>13. CASE Crash \/ OpenStep
    <2>1. \A d \in Clients : pc'[d] # "append"
      BY <1>13
      DEF Crash, OpenStep, OpenSnapshot, OpenSkip, OpenApply, OpenFails, OpenDone, threads,
          ThreadsOK
    <2> QED  BY <2>1 DEF PendingCreateEmpty
  <1> QED
    BY <1>3, <1>4, <1>5, <1>6, <1>7, <1>8, <1>9, <1>10, <1>12, <1>13
    DEF Next, LocalStep, Request, ClientStep, SnapshotStep, Rest, PendingCreateEmpty

\* A CREATE record goes to the log before the rows of its table do.
LEMMA CreatesComeFirstNext ==
  ASSUME Base, Survival, Clean, [Next]_vars, Clean'
  PROVE  CreatesComeFirst'
  <1> USE DEF Base, TypeInv
  <1>1. CreatesComeFirst /\ PendingCreateEmpty  BY DEF Survival
  <1>2. ASSUME UNCHANGED <<log, image>>, dropped \subseteq dropped' PROVE CreatesComeFirst'
    BY <1>1, <1>2 DEF CreatesComeFirst, NoInsertUpTo
  <1>3. ASSUME NEW c \in Clients, Request(c) PROVE CreatesComeFirst'
    BY <1>2, <1>3 DEF Request, CreateTable, DropTable, InsertLookup, disk
  <1>4. ASSUME NEW c \in Clients,
               InsertMany(c) \/ InsertManyRejects(c) \/ Encode(c) \/ AppendFails(c)
        PROVE  CreatesComeFirst'
    BY <1>2, <1>4 DEF InsertMany, InsertManyRejects, Encode, AppendFails, disk, history
  <1>5. ASSUME NEW c \in Clients, AppendWal(c) PROVE CreatesComeFirst'
    <2> DEFINE change == [kind |-> op[c].kind, table |-> op[c].table, row |-> op[c].row]
               f == [lsn |-> nextLsn, change |-> change]
    <2>1. f \in Frames /\ log' = Append(log, f)  BY <1>5, AppendedFrame
    <2>2. f.change.kind = op[c].kind /\ f.change.table = op[c].table /\ pc[c] = "append"
          /\ image' = image /\ dropped' = dropped
      BY <1>5 DEF AppendWal
    <2> HIDE DEF change, f
    <2>3. /\ Len(log') = Len(log) + 1 /\ log'[Len(log) + 1] = f /\ Len(log) \in Nat
          /\ \A i \in 1..Len(log) : log'[i] = log[i]
      BY <2>1, AppendFrame DEF TypeOK
    <2>4. ASSUME NEW j \in 1..Len(log'), log'[j].change.kind = "create",
                 log'[j].change.table \notin dropped', log'[j].lsn > image'.lsn
          PROVE  /\ \A r \in Rows : image'.view.rows[log'[j].change.table][r] = 0
                 /\ \A i \in 1..(j - 1) :
                      ~(log'[i].lsn > image'.lsn /\ log'[i].change.kind = "insert"
                          /\ log'[i].change.table = log'[j].change.table)
      <3>1. \A i \in 1..(j - 1) : i \in 1..Len(log)  BY <2>3
      <3>2. CASE j \in 1..Len(log)
        BY <1>1, <2>2, <2>3, <2>4, <3>1, <3>2 DEF CreatesComeFirst, NoInsertUpTo
      <3>3. CASE j = Len(log) + 1
        <4>1. op[c].kind = "create" /\ log'[j].change.table = op[c].table
          BY <2>2, <2>3, <2>4, <3>3
        <4>2. Untouched(op[c].table)
          BY <1>1, <2>2, <2>4, <4>1 DEF PendingCreateEmpty
        <4> QED  BY <2>2, <2>3, <3>1, <4>1, <4>2 DEF Untouched, NoInsertUpTo
      <3> QED  BY <2>3, <3>2, <3>3
    <2> QED  BY <2>4 DEF CreatesComeFirst, NoInsertUpTo
  <1>6. CASE SnapshotWrite
    <2>1. log' = log /\ image'.lsn = nextLsn - 1 /\ phase = "up"
      BY <1>6 DEF SnapshotWrite, Numbering, ThreadsOK
    <2>2. \A i \in 1..Len(log) : log[i].lsn \in Nat /\ log[i].lsn <= nextLsn - 1
      BY <2>1, FrameTyped, NothingLoggedAbove
    <2>3. \A i \in 1..Len(log) : ~(log[i].lsn > image'.lsn)
      BY <2>1, <2>2 DEF TypeOK
    <2> QED  BY <2>1, <2>3 DEF CreatesComeFirst
  <1>7. CASE SnapshotReset
    <2>1. \A j \in 1..Len(log') : FALSE  BY <1>7 DEF SnapshotReset
    <2> QED  BY <2>1 DEF CreatesComeFirst
  <1>8. CASE SnapshotLock \/ SnapshotCollect \/ (\E h \in Handles : SnapshotGuard(h))
             \/ SnapshotFails \/ BytesLock \/ BytesEncode
    BY <1>2, <1>8 DEF SnapshotLock, SnapshotCollect, SnapshotGuard, SnapshotFails, BytesLock,
       BytesEncode, disk, history
  <1>9. CASE Crash \/ OpenStep \/ UNCHANGED vars
    BY <1>2, <1>9
    DEF Crash, OpenStep, OpenSnapshot, OpenSkip, OpenApply, OpenFails, OpenDone, disk,
        history, vars
  <1> QED
    BY <1>3, <1>4, <1>5, <1>6, <1>7, <1>8, <1>9 DEF Next, LocalStep, ClientStep, SnapshotStep,
       Rest

\* What it takes for a change to be visible, now and after the step.
LEMMA Served ==
  ASSUME NEW a \in Changes, a.kind # "drop"
  PROVE  /\ Shows(View, a)
              <=> /\ tables[a.table] # 0
                  /\ a.kind = "insert" => heap[HandleOf(a.table)][a.row] > 0
         /\ Shows(View', a)
              <=> /\ tables'[a.table] # 0
                  /\ a.kind = "insert" => heap'[<<a.table, tables'[a.table]>>][a.row] > 0
  <1>1. a.table \in Tables  BY DEF Changes
  <1>2. CASE a.kind = "create"  BY <1>1, <1>2 DEF Shows, View
  <1>3. CASE a.kind = "insert"
    <2>1. a.row \in Rows  BY <1>3 DEF Changes
    <2>2. NoRows[a.row] = 0  BY <2>1 DEF NoRows
    <2>3. Shows(View, a) <=> View.rows[a.table][a.row] > 0  BY <1>3 DEF Shows
    <2>4. Shows(View', a) <=> View'.rows[a.table][a.row] > 0  BY <1>3 DEF Shows
    <2>5. View.rows[a.table] = IF tables[a.table] = 0 THEN NoRows ELSE heap[HandleOf(a.table)]
      BY <1>1 DEF View
    <2>6. View'.rows[a.table]
            = IF tables'[a.table] = 0 THEN NoRows ELSE heap'[<<a.table, tables'[a.table]>>]
      BY <1>1 DEF View, HandleOf
    <2> QED  BY <1>3, <2>2, <2>3, <2>4, <2>5, <2>6
  <1> QED  BY <1>2, <1>3 DEF Changes

\* The handles that snapshot copies hold everything acknowledged.
LEMMA AckedCapturedNext ==
  ASSUME Base, Survival, Clean, [Next]_vars, Clean'
  PROVE  AckedCaptured'
  <1> USE DEF Base, TypeInv
  <1>1. AckedStored /\ StoredServed /\ AckedCaptured  BY DEF Survival
  <1>2. ASSUME NEW a \in acked, Kept(a), phase = "up"
        PROVE  a.table \in Tables /\ tables[a.table] # 0
    <2>1. a \in Changes /\ a.kind # "drop"  BY <1>2 DEF TypeOK, Kept
    <2>2. Shows(View, a)  BY <1>1, <1>2, <2>1 DEF AckedStored, StoredServed
    <2> QED  BY <2>1, <2>2, Served DEF Changes
  <1>3. ASSUME UNCHANGED <<acked, snapper, tables>>, dropped \subseteq dropped'
        PROVE  AckedCaptured'
    BY <1>1, <1>3 DEF AckedCaptured, Kept, HandleOf
  <1>4. ASSUME NEW c \in Clients, NEW t \in Tables, CreateTable(c, t) \/ DropTable(c, t)
        PROVE  AckedCaptured'
    <2>1. /\ UNCHANGED <<acked, snapper>> /\ dropped \subseteq dropped'
          /\ phase = "up" /\ (tables[t] = 0 \/ t \in dropped')
          /\ \A u \in Tables \ {t} : tables'[u] = tables[u]
      BY <1>4 DEF CreateTable, DropTable, Serve, TypeOK
    <2>2. ASSUME snapper.pc \in {"guard", "reset"}, NEW a \in acked, Kept(a)'
          PROVE  HandleOf(a.table)' \in snapper.handles
      <3>1. Kept(a)  BY <2>1, <2>2 DEF Kept
      <3>2. a.table \in Tables /\ tables[a.table] # 0  BY <1>2, <2>1, <2>2, <3>1
      <3>3. a.table # t  BY <2>1, <2>2, <3>2 DEF Kept
      <3>4. HandleOf(a.table)' = HandleOf(a.table)  BY <2>1, <3>2, <3>3 DEF HandleOf
      <3> QED  BY <1>1, <2>2, <3>1, <3>4 DEF AckedCaptured
    <2> QED  BY <2>1, <2>2 DEF AckedCaptured
  <1>5. ASSUME NEW c \in Clients, NEW t \in Tables, InsertLookup(c, t) PROVE AckedCaptured'
    BY <1>3, <1>5 DEF InsertLookup, mem
  <1>6. ASSUME NEW c \in Clients,
               InsertMany(c) \/ InsertManyRejects(c) \/ Encode(c) \/ AppendFails(c)
        PROVE  AckedCaptured'
    BY <1>3, <1>6 DEF InsertMany, InsertManyRejects, Encode, AppendFails, mem, history
  <1>7. ASSUME snapper'.pc \in {"idle", "collect"} PROVE AckedCaptured'
    BY <1>7 DEF AckedCaptured
  <1>8. ASSUME NEW c \in Clients, AppendWal(c) PROVE AckedCaptured'
    BY <1>7, <1>8 DEF AppendWal, WalFree
  <1>9. CASE SnapshotLock \/ SnapshotReset \/ SnapshotFails \/ BytesLock \/ BytesEncode \/ Crash
    <2>1. snapper'.pc \in {"idle", "collect"}
      <3>1. SnapshotReset \/ SnapshotFails \/ BytesEncode \/ Crash => snapper'.pc = "idle"
        BY DEF SnapshotReset, SnapshotFails, BytesEncode, Crash, NoSnapper
      <3>2. SnapshotLock \/ BytesLock => snapper'.pc = "collect"
        BY DEF SnapshotLock, BytesLock, NoSnapper
      <3> QED  BY <1>9, <3>1, <3>2
    <2> QED  BY <1>7, <2>1
  <1>10. CASE SnapshotCollect
    <2>1. /\ UNCHANGED <<acked, tables, dropped>> /\ phase = "up"
          /\ snapper'.handles = {HandleOf(t) : t \in View.names}
      BY <1>10 DEF SnapshotCollect, mem, history, ThreadsOK, TypeOK
    <2>2. ASSUME NEW a \in acked, Kept(a) PROVE HandleOf(a.table) \in snapper'.handles
      <3>1. a.table \in View.names  BY <1>2, <2>1, <2>2 DEF View
      <3> QED  BY <2>1, <3>1
    <2> QED  BY <2>1, <2>2 DEF AckedCaptured, Kept, HandleOf
  <1>11. ASSUME UNCHANGED <<acked, tables, dropped>>, snapper'.handles = snapper.handles,
                snapper.pc = "guard"
         PROVE  AckedCaptured'
    BY <1>1, <1>11 DEF AckedCaptured, Kept, HandleOf
  <1>12. ASSUME NEW h \in Handles, SnapshotGuard(h) PROVE AckedCaptured'
    BY <1>11, <1>12 DEF SnapshotGuard, mem, history, TypeOK
  <1>13. CASE SnapshotWrite
    BY <1>11, <1>13 DEF SnapshotWrite, mem, TypeOK
  <1>14. CASE OpenStep
    <2>1. snapper' = snapper /\ phase # "up"
      BY <1>14 DEF OpenStep, OpenSnapshot, OpenSkip, OpenApply, OpenFails, OpenDone
    <2>2. snapper.pc = "idle"  BY <2>1 DEF ThreadsOK
    <2> QED  BY <1>7, <2>1, <2>2
  <1>15. CASE UNCHANGED vars
    BY <1>3, <1>15 DEF vars, mem, history
  <1> QED
    BY <1>4, <1>5, <1>6, <1>8, <1>9, <1>10, <1>12, <1>13, <1>14, <1>15
    DEF Next, LocalStep, Request, ClientStep, SnapshotStep, Rest

\* Installing a view serves what it shows.
LEMMA InstalledServes ==
  ASSUME NEW view \in Views, Install(view), NEW a \in Changes, a.kind # "drop",
         Shows(view, a), a.kind = "insert" => a.table \in view.names
  PROVE  Shows(View', a)
  <1>1. a.table \in Tables  BY DEF Changes
  <1>2. View'.names = view.names
        /\ (a.table \in view.names => View'.rows[a.table] = view.rows[a.table])
    BY <1>1, InstalledView
  <1>3. CASE a.kind = "create"  BY <1>2, <1>3 DEF Shows
  <1>4. CASE a.kind = "insert"  BY <1>2, <1>4 DEF Shows
  <1> QED  BY <1>3, <1>4 DEF Changes

\* Replaying a record on a catalogue shows the record and, but for the rows of
\* a table it creates or drops, everything that was there.
LEMMA ApplyShows ==
  ASSUME NEW view \in Views, NEW rec \in Changes, Decodable(view, rec),
         NEW a \in Changes, a.kind # "drop"
  PROVE  /\ Shows(view, a) /\ (rec.table = a.table => rec.kind = "insert" \/ (rec.kind = "create" /\ a.kind = "create"))
              => Shows(Apply(view, rec), a)
         /\ a = rec => Shows(Apply(view, rec), a)
         /\ \A t \in Tables :
              t \in view.names /\ (rec.kind = "drop" => rec.table # t)
                => t \in Apply(view, rec).names
         /\ rec.kind = "insert" => rec.table \in Apply(view, rec).names
  <1>1. a.table \in Tables /\ rec.table \in Tables /\ view.rows \in [Tables -> Bags]
    BY DEF Changes, Views
  <1>2. CASE rec.kind = "create"
    <2>1. Apply(view, rec) = [names |-> view.names \cup {rec.table},
                              rows |-> [view.rows EXCEPT ![rec.table] = NoRows]]
      BY <1>2 DEF Apply
    <2> DEFINE after == Apply(view, rec)
    <2>2. /\ after.names = view.names \cup {rec.table}
          /\ rec.table # a.table => after.rows[a.table] = view.rows[a.table]
      BY <1>1, <2>1
    <2> HIDE DEF after
    <2>3. CASE a.kind = "create"  BY <1>1, <1>2, <2>2, <2>3 DEF Shows, after
    <2>4. CASE a.kind = "insert"  BY <1>1, <1>2, <2>2, <2>4 DEF Shows, after
    <2> QED  BY <2>3, <2>4 DEF Changes
  <1>3. CASE rec.kind = "drop"
    <2>1. Apply(view, rec) = [names |-> view.names \ {rec.table},
                              rows |-> [view.rows EXCEPT ![rec.table] = NoRows]]
      BY <1>3 DEF Apply
    <2> DEFINE after == Apply(view, rec)
    <2>2. /\ after.names = view.names \ {rec.table}
          /\ rec.table # a.table => after.rows[a.table] = view.rows[a.table]
      BY <1>1, <2>1
    <2> HIDE DEF after
    <2>3. CASE a.kind = "create"  BY <1>1, <1>3, <2>2, <2>3 DEF Shows, after
    <2>4. CASE a.kind = "insert"  BY <1>1, <1>3, <2>2, <2>4 DEF Shows, after
    <2> QED  BY <2>3, <2>4 DEF Changes
  <1>4. CASE rec.kind = "insert"
    <2>1. Apply(view, rec) = [names |-> view.names,
                              rows |-> [view.rows EXCEPT ![rec.table] = AddRow(view.rows[rec.table], rec.row)]]
      BY <1>4 DEF Apply
    <2>2. rec.table \in view.names /\ rec.row \in Rows  BY <1>4 DEF Decodable, Changes
    <2>3. \A r \in Rows : /\ view.rows[rec.table][r] > 0 => AddRow(view.rows[rec.table], rec.row)[r] > 0
                          /\ r = rec.row => AddRow(view.rows[rec.table], rec.row)[r] > 0
      BY <1>1, <2>2 DEF AddRow, Bags
    <2>4. a.kind = "create" /\ a.table \in view.names => Shows(Apply(view, rec), a)
      BY <2>1 DEF Shows
    <2>5. a.kind = "insert" => a.row \in Rows  BY DEF Changes
    <2>6. a.kind = "insert" /\ view.rows[a.table][a.row] > 0 => Shows(Apply(view, rec), a)
      BY <1>1, <2>1, <2>3, <2>5 DEF Shows
    <2>7. a = rec => Shows(Apply(view, rec), a)
      <3>1. SUFFICES ASSUME a = rec PROVE Shows(Apply(view, rec), rec)
        OBVIOUS
      <3>2. Apply(view, rec).rows[rec.table][rec.row] > 0  BY <1>1, <2>1, <2>2, <2>3
      <3> QED  BY <1>4, <3>2 DEF Shows
    <2>8. Shows(view, a) => Shows(Apply(view, rec), a)
      BY <2>4, <2>6 DEF Shows, Changes
    <2> QED  BY <1>4, <2>1, <2>2, <2>7, <2>8
  <1> QED  BY <1>2, <1>3, <1>4 DEF Changes

\* What the files hold is served, and what open has read of them is loaded.
LEMMA StoredServedNext ==
  ASSUME Base, Survival, Clean, [Next]_vars, Clean'
  PROVE  StoredServed'
  <1> USE DEF Base, TypeInv
  <1>1. /\ StoredServed /\ CreatesComeFirst /\ PendingInsertServed
      BY DEF Survival
  \* In a serving process: nothing enters the files that is not served, and
  \* nothing that is served goes away.
  <1>2. ASSUME phase = "up", phase' = "up",
               \A a \in Changes : Kept(a)' /\ Stored(a)' => Kept(a) /\ (Stored(a) \/ Shows(View, a)),
               \A a \in Changes : Kept(a)' /\ Shows(View, a) => Shows(View', a)
        PROVE  StoredServed'
    <2>1. \A a \in Changes : Kept(a)' /\ Stored(a)' => Shows(View', a)
      BY <1>1, <1>2 DEF StoredServed
    <2>2. \A a \in Changes : Kept(a)' /\ Stored(a)' => Shows(View, a)'
      BY <2>1 DEF Shows
    <2> QED  BY <1>2, <2>2 DEF StoredServed
  <1>3. ASSUME UNCHANGED <<log, image>>, dropped \subseteq dropped', NEW a \in Changes,
               Kept(a)', Stored(a)'
        PROVE  Kept(a) /\ Stored(a)
    BY <1>3 DEF Kept, Stored, LoggedUpTo, Shows
  <1>4. ASSUME UNCHANGED <<tables, heap>> PROVE View' = View
    BY <1>4 DEF View, HandleOf
  <1>5. ASSUME UNCHANGED <<phase, tables, heap, log, image>>, dropped \subseteq dropped',
               phase = "up"
        PROVE  StoredServed'
    BY <1>2, <1>3, <1>4, <1>5
  <1>6. ASSUME NEW c \in Clients, NEW t \in Tables, CreateTable(c, t) \/ DropTable(c, t)
        PROVE  StoredServed'
    <2>1. /\ UNCHANGED <<phase, log, image>> /\ dropped \subseteq dropped' /\ phase = "up"
          /\ (tables[t] = 0 \/ t \in dropped')
          /\ \A u \in Tables \ {t} : tables'[u] = tables[u]
      BY <1>6 DEF CreateTable, DropTable, Serve, disk, TypeOK
    <2>2. \A h \in Handles : h[1] # t => heap'[h] = heap[h]
      BY <1>6 DEF CreateTable, DropTable, TypeOK
    <2>3. ASSUME NEW a \in Changes, Kept(a)', Shows(View, a) PROVE Shows(View', a)
      <3>1. tables[a.table] # 0 /\ a.table \in Tables /\ a.kind # "drop"
        BY <2>3, Served DEF Kept, Changes
      <3>2. a.table # t  BY <2>1, <2>3, <3>1 DEF Kept
      <3>3. tables'[a.table] = tables[a.table]  BY <2>1, <3>1, <3>2
      <3>4. HandleOf(a.table) \in Handles
        BY <3>1, BoundsAssumption DEF HandleOf, Handles, Gens, TypeOK
      <3>5. heap'[HandleOf(a.table)] = heap[HandleOf(a.table)]
        BY <2>2, <3>2, <3>4 DEF HandleOf
      <3> QED  BY <2>3, <3>1, <3>3, <3>5, Served DEF HandleOf
    <2> QED  BY <1>2, <1>3, <2>1, <2>3
  <1>7. ASSUME NEW c \in Clients, NEW t \in Tables, InsertLookup(c, t) PROVE StoredServed'
    BY <1>5, <1>7 DEF InsertLookup, Serve, mem, disk
  <1>8. ASSUME NEW c \in Clients, InsertMany(c) \/ InsertManyRejects(c) PROVE StoredServed'
    <2>1. /\ UNCHANGED <<phase, log, image, tables, dropped>> /\ phase = "up" /\ PushRow(c)
      BY <1>8 DEF InsertMany, InsertManyRejects, PushRow, disk, history, ThreadsOK
    <2>2. ASSUME NEW a \in Changes, Kept(a)', Shows(View, a) PROVE Shows(View', a)
      <3>1. tables[a.table] # 0 /\ a.table \in Tables /\ a.kind # "drop"
            /\ (a.kind = "insert" => a.row \in Rows)
        BY <2>2, Served DEF Kept, Changes
      <3>2. HandleOf(a.table) \in Handles
        BY <3>1, BoundsAssumption DEF HandleOf, Handles, Gens, TypeOK
      <3>3. a.kind = "insert" => heap'[HandleOf(a.table)][a.row] > 0
        BY <2>1, <2>2, <3>1, <3>2, Served, PushKeepsRows
      <3> QED  BY <2>1, <3>1, <3>3, Served DEF HandleOf
    <2> QED  BY <1>2, <1>3, <2>1, <2>2
  <1>9. ASSUME NEW c \in Clients, Encode(c) \/ AppendFails(c) PROVE StoredServed'
    BY <1>5, <1>9 DEF Encode, AppendFails, mem, disk, ThreadsOK
  <1>10. ASSUME NEW c \in Clients, AppendWal(c) PROVE StoredServed'
    <2> DEFINE change == [kind |-> op[c].kind, table |-> op[c].table, row |-> op[c].row]
               f == [lsn |-> nextLsn, change |-> change]
    <2>1. /\ UNCHANGED <<phase, image, tables, heap, dropped>> /\ phase = "up"
          /\ pc[c] = "append"
      BY <1>10 DEF AppendWal, mem, ThreadsOK
    <2>2. f \in Frames /\ log' = Append(log, f) /\ f.change = change /\ change \in Changes
      BY <1>10, AppendedFrame DEF Frames
    <2>3. /\ change.kind = op[c].kind /\ change.table = op[c].table /\ change.row = op[c].row
      OBVIOUS
    <2>4. Kept(change) => Shows(View, change)
      <3>1. SUFFICES ASSUME Kept(change) PROVE Shows(View, change)
        OBVIOUS
      <3>2. change.kind \in {"create", "insert"}  BY <2>2, <3>1 DEF Kept, Changes
      <3>3. op[c].gen \in Gens /\ tables[op[c].table] = op[c].gen
        BY <2>3, <3>1, <3>2 DEF ThreadsOK, HandlesOK, ThreadHandles, Kept
      <3>4. op[c].kind = "insert" => heap[<<op[c].table, op[c].gen>>][op[c].row] > 0
        BY <1>1, <2>1 DEF PendingInsertServed, Unlogged
      <3> HIDE DEF change
      <3>5. tables[change.table] # 0  BY <2>3, <3>3 DEF Gens
      <3> QED  BY <2>2, <2>3, <3>2, <3>3, <3>4, <3>5, Served DEF HandleOf
    <2> HIDE DEF change, f
    <2>5. /\ Len(log') = Len(log) + 1 /\ log'[Len(log) + 1] = f /\ Len(log) \in Nat
          /\ \A i \in 1..Len(log) : log'[i] = log[i]
      BY <2>2, AppendFrame DEF TypeOK
    <2>6. ASSUME NEW a \in Changes, Kept(a)', Stored(a)'
          PROVE  Kept(a) /\ (Stored(a) \/ Shows(View, a))
      <3>1. Kept(a)  BY <2>1, <2>6 DEF Kept
      <3>2. CASE Shows(image.view, a)  BY <3>1, <3>2 DEF Stored
      <3>3. CASE ~Shows(image.view, a)
        <4>1. \E i \in 1..Len(log') : log'[i].lsn > image'.lsn /\ log'[i].change = a
          BY <2>1, <2>6, <3>3 DEF Stored, LoggedUpTo, Shows
        <4>2. PICK i \in 1..Len(log') : log'[i].lsn > image'.lsn /\ log'[i].change = a
          BY <4>1
        <4>3. CASE i \in 1..Len(log)
          BY <2>1, <2>5, <3>1, <4>2, <4>3 DEF Stored, LoggedUpTo
        <4>4. CASE i = Len(log) + 1
          BY <2>2, <2>4, <2>5, <3>1, <4>2, <4>4
        <4> QED  BY <2>5, <4>3, <4>4
      <3> QED  BY <3>2, <3>3
    <2> QED  BY <1>2, <1>4, <2>1, <2>6
  <1>11. CASE SnapshotLock \/ SnapshotCollect \/ (\E h \in Handles : SnapshotGuard(h))
              \/ SnapshotFails \/ BytesLock \/ BytesEncode
    <2>1. UNCHANGED <<phase, tables, heap, log, image, dropped>> /\ phase = "up"
      BY <1>11
      DEF SnapshotLock, SnapshotCollect, SnapshotGuard, SnapshotFails, BytesLock, BytesEncode,
          disk, mem, history, ThreadsOK
    <2> QED  BY <1>5, <2>1
  <1>12. CASE SnapshotWrite
    <2>1. /\ UNCHANGED <<phase, tables, heap, log, dropped>> /\ phase = "up"
          /\ image'.view = Captured /\ image'.lsn = nextLsn - 1
      BY <1>12 DEF SnapshotWrite, mem, Numbering, ThreadsOK
    <2>2. \A i \in 1..Len(log) : log[i].lsn \in Nat /\ log[i].lsn <= nextLsn - 1
      BY <2>1, FrameTyped, NothingLoggedAbove
    <2>3. \A i \in 1..Len(log) : ~(log[i].lsn > image'.lsn)  BY <2>1, <2>2 DEF TypeOK
    <2>4. ASSUME NEW a \in Changes, Kept(a)', Stored(a)' PROVE Kept(a) /\ Shows(View, a)
      <3>1. Kept(a) /\ a.table \in Tables  BY <2>1, <2>4 DEF Kept, Changes
      <3>2. Shows(Captured, a)  BY <2>1, <2>3, <2>4 DEF Stored, LoggedUpTo, Shows
      <3>3. CASE a.kind = "create"
        <4>1. a.table \in Captured.names  BY <3>2, <3>3 DEF Shows
        <4>2. tables[a.table] # 0  BY <3>1, <4>1, CapturedRows DEF HandlesOK, Kept
        <4> QED  BY <3>1, <3>3, <4>2, Served
      <3>4. CASE a.kind = "insert"
        <4>1. Captured.rows[a.table][a.row] > 0 /\ a.row \in Rows
          BY <3>2, <3>4 DEF Shows, Changes
        <4>2. Captured.rows[a.table] # NoRows  BY <4>1 DEF NoRows
        <4>3. tables[a.table] # 0 /\ Captured.rows[a.table] = heap[HandleOf(a.table)]
          BY <3>1, <4>2, CapturedRows DEF HandlesOK, Kept
        <4> QED  BY <3>1, <3>4, <4>1, <4>3, Served
      <3> QED  BY <3>1, <3>3, <3>4 DEF Changes, Kept
    <2> QED  BY <1>2, <1>4, <2>1, <2>4
  <1>13. CASE SnapshotReset
    <2>1. /\ UNCHANGED <<phase, tables, heap, image, dropped>> /\ phase = "up" /\ Len(log') = 0
      BY <1>13 DEF SnapshotReset, mem, history, ThreadsOK
    <2>2. ASSUME NEW a \in Changes, Kept(a)', Stored(a)' PROVE Kept(a) /\ Stored(a)
      <3>1. \A i \in 1..Len(log') : FALSE  BY <2>1
      <3> QED  BY <2>1, <2>2, <3>1 DEF Kept, Stored, LoggedUpTo, Shows
    <2> QED  BY <1>2, <1>4, <2>1, <2>2
  \* In open: what is loaded is what was read.
  <1>14. ASSUME phase' = "loading",
                \A a \in Changes : Kept(a)' /\ (Shows(image'.view, a) \/ LoggedUpTo(a, pos)')
                   => Shows(View', a)
         PROVE  StoredServed'
    <2>1. \A a \in Changes : Kept(a)' /\ (Shows(image.view, a)' \/ LoggedUpTo(a, pos)')
             => Shows(View, a)'
      BY <1>14 DEF Shows
    <2> QED  BY <1>14, <2>1 DEF StoredServed
  <1>15. CASE OpenSnapshot
    <2>1. /\ UNCHANGED <<log, image, dropped>> /\ phase' = "loading" /\ pos' = 0
          /\ Install(image.view) /\ image.view \in Views
      BY <1>15 DEF OpenSnapshot, disk, ThreadsOK, TypeOK
    <2>2. ASSUME NEW a \in Changes, Kept(a)', Shows(image'.view, a) \/ LoggedUpTo(a, pos)'
          PROVE  Shows(View', a)
      <3>1. Shows(image.view, a) /\ a.kind # "drop"
        BY <2>1, <2>2 DEF LoggedUpTo, Kept
      <3>2. a.kind = "insert" => a.table \in image.view.names
        BY <3>1 DEF HandlesOK, ImageRows, Shows, Changes
      <3> QED  BY <2>1, <3>1, <3>2, InstalledServes
    <2> QED  BY <1>14, <2>1, <2>2
  <1>16. CASE OpenSkip
    <2>1. /\ UNCHANGED <<log, image, dropped, tables, heap, phase>> /\ phase = "loading"
          /\ pos' = pos + 1 /\ pos + 1 \in 1..Len(log) /\ log[pos + 1].lsn <= image.lsn
          /\ pos \in Nat
      BY <1>16 DEF OpenSkip, Covered, disk, mem, history, TypeOK
    <2>2. ~(log[pos + 1].lsn > image.lsn)  BY <2>1, FrameTyped DEF TypeOK
    <2>3. ASSUME NEW a \in Changes, Kept(a)', Shows(image'.view, a) \/ LoggedUpTo(a, pos)'
          PROVE  Shows(View', a)
      <3>1. \A i \in 1..(pos + 1) : i \in 1..pos \/ i = pos + 1  BY <2>1
      <3>2. Shows(image.view, a) \/ LoggedUpTo(a, pos)
        BY <2>1, <2>2, <2>3, <3>1 DEF LoggedUpTo
      <3>3. Kept(a)  BY <2>1, <2>3 DEF Kept
      <3> QED  BY <1>1, <1>4, <2>1, <3>2, <3>3 DEF StoredServed
    <2> QED  BY <1>14, <2>1, <2>3
  <1>17. CASE OpenApply
    <2> DEFINE rec == log[pos + 1].change
               view == Apply(View, rec)
    <2>1. /\ UNCHANGED <<log, image, dropped, phase>> /\ phase = "loading"
          /\ pos' = pos + 1 /\ pos + 1 \in 1..Len(log) /\ pos \in Nat
          /\ Decodable(View, rec) /\ Install(view) /\ ~(log[pos + 1].lsn <= image.lsn)
      BY <1>17 DEF OpenApply, Covered, disk, history, TypeOK
    <2>2. rec \in Changes /\ log[pos + 1].lsn > image.lsn  BY <2>1, FrameTyped DEF TypeOK
    <2>3. View \in Views  BY ViewTyped
    <2>4. view \in Views  BY <2>1, <2>2, <2>3, ApplyTyped
    <2> HIDE DEF view
    <2>5. ASSUME NEW a \in Changes, Kept(a)', Shows(image'.view, a) \/ LoggedUpTo(a, pos)'
          PROVE  Shows(View', a)
      <3>1. \A i \in 1..(pos + 1) : i \in 1..pos \/ i = pos + 1  BY <2>1
      <3>2. Shows(image.view, a) \/ LoggedUpTo(a, pos) \/ a = rec
        BY <2>1, <2>5, <3>1 DEF LoggedUpTo
      <3>3. Kept(a) /\ a.kind # "drop" /\ a.table \in Tables
        BY <2>1, <2>5 DEF Kept, Changes
      <3>4. rec.kind = "drop" => rec.table # a.table
        BY <2>1, <3>3 DEF HandlesOK, DropsRecorded, Kept
      <3>5. CASE a = rec
        <4>1. Shows(view, a) /\ (rec.kind = "insert" => rec.table \in view.names)
          BY <2>1, <2>2, <2>3, <3>3, <3>5, ApplyShows DEF view
        <4> QED  BY <2>1, <2>4, <3>3, <3>5, <4>1, InstalledServes
      <3>6. CASE Shows(image.view, a) \/ LoggedUpTo(a, pos)
        <4>1. Shows(View, a)  BY <1>1, <2>1, <3>3, <3>6 DEF StoredServed
        <4>2. ~(rec.kind = "create" /\ rec.table = a.table /\ a.kind = "insert")
          <5>1. SUFFICES ASSUME rec.kind = "create", rec.table = a.table, a.kind = "insert"
                         PROVE  FALSE
            OBVIOUS
          <5>2. /\ \A r \in Rows : image.view.rows[a.table][r] = 0
                /\ NoInsertUpTo(a.table, pos)
            <6>1. (pos + 1) - 1 = pos  BY <2>1
            <6> QED  BY <1>1, <2>1, <2>2, <3>3, <5>1, <6>1 DEF CreatesComeFirst, Kept
          <5>3. ~Shows(image.view, a)  BY <5>1, <5>2 DEF Shows, Changes
          <5>4. ~LoggedUpTo(a, pos)  BY <5>1, <5>2 DEF LoggedUpTo, NoInsertUpTo
          <5> QED  BY <3>6, <5>3, <5>4
        <4>3. rec.kind \in {"create", "drop", "insert"} /\ a.kind \in {"create", "insert"}
          BY <2>2, <3>3 DEF Changes
        <4>4. Shows(view, a)
          BY <2>1, <2>2, <2>3, <3>3, <3>4, <4>1, <4>2, <4>3, ApplyShows DEF view
        <4>5. a.table \in View.names  BY <3>3, <4>1, ShownHasTable DEF View
        <4>6. a.table \in view.names
          BY <2>1, <2>2, <2>3, <3>3, <3>4, <4>5, ApplyShows DEF view
        <4> QED  BY <2>1, <2>4, <3>3, <4>4, <4>6, InstalledServes
      <3> QED  BY <3>2, <3>5, <3>6
    <2> QED  BY <1>14, <2>1, <2>5
  <1>18. CASE OpenDone
    <2>1. /\ UNCHANGED <<log, image, dropped, tables, heap>> /\ phase = "loading"
          /\ phase' = "up" /\ pos = Len(log)
      BY <1>18 DEF OpenDone, disk, mem, history
    <2>2. \A a \in Changes : Kept(a)' /\ Stored(a)' => Shows(View', a)
      BY <1>1, <1>3, <1>4, <2>1 DEF StoredServed, Stored
    <2>3. \A a \in Changes : Kept(a)' /\ Stored(a)' => Shows(View, a)'
      BY <2>2 DEF Shows
    <2> QED  BY <2>1, <2>3 DEF StoredServed
  <1>19. CASE Crash \/ OpenFails
    <2>1. phase' \in {"down", "failed"}  BY <1>19 DEF Crash, OpenFails
    <2> QED  BY <2>1 DEF StoredServed
  <1>20. CASE UNCHANGED vars
    <2>1. UNCHANGED <<phase, tables, heap, log, image, dropped, pos>>
      BY <1>20 DEF vars, mem, disk, history
    <2> QED
      BY <1>1, <2>1 DEF StoredServed, Kept, Stored, LoggedUpTo, Shows, View, HandleOf
  <1> QED
    BY <1>6, <1>7, <1>8, <1>9, <1>10, <1>11, <1>12, <1>13, <1>15, <1>16, <1>17, <1>18, <1>19, <1>20
    DEF Next, LocalStep, Request, ClientStep, SnapshotStep, OpenStep, Rest

-----------------------------------------------------------------------------
(* The theorem. *)

LEMMA SurvivalInit == Init => Survival
  <1> SUFFICES ASSUME Init PROVE Survival
    OBVIOUS
  <1>1. /\ log = <<>> /\ acked = {} /\ phase = "up" /\ snapper.pc = "idle"
        /\ image = [lsn |-> 0, view |-> EmptyView] /\ Len(log) = 0
        /\ \A c \in Clients : pc[c] = "idle"
    BY DEF Init, NoSnapper
  <1>2. ASSUME NEW a \in Changes, Kept(a), Stored(a) PROVE FALSE
    <2>1. Shows(EmptyView, a)  BY <1>1, <1>2 DEF Stored, LoggedUpTo
    <2>2. a.kind = "create" => FALSE  BY <2>1 DEF Shows, EmptyView
    <2>3. a.kind = "insert" => FALSE  BY <2>1 DEF Shows, EmptyView, NoRows, Changes
    <2> QED  BY <1>2, <2>2, <2>3 DEF Kept, Changes
  <1>3. PendingInsertServed  BY <1>1 DEF PendingInsertServed, Unlogged
  <1>4. AckedStored  BY <1>1 DEF AckedStored
  <1>5. StoredServed  BY <1>1, <1>2 DEF StoredServed
  <1>6. CreatesComeFirst  BY <1>1 DEF CreatesComeFirst
  <1>7. PendingCreateEmpty  BY <1>1 DEF PendingCreateEmpty
  <1>8. AckedCaptured  BY <1>1 DEF AckedCaptured
  <1> QED  BY <1>3, <1>4, <1>5, <1>6, <1>7, <1>8 DEF Survival

LEMMA SurvivalNext ==
  ASSUME Base, Survival, [Next]_vars
  PROVE  Survival'
  <1>1. PendingInsertServed'  BY PendingInsertServedNext DEF Survival
  <1>2. ASSUME Clean'
        PROVE  (AckedStored /\ StoredServed /\ CreatesComeFirst /\ PendingCreateEmpty /\ AckedCaptured)'
    <2>1. Clean  BY <1>2, CleanBack DEF Base
    <2> QED
      BY <1>2, <2>1, AckedStoredNext, StoredServedNext, CreatesComeFirstNext,
         PendingCreateEmptyNext, AckedCapturedNext
  <1> QED  BY <1>1, <1>2 DEF Survival

\* The invariant of DatabaseInv is inductive and holds.
THEOREM InvariantHolds == Spec => []IInv
  <1>1. Init => Base /\ Survival
    BY TypeInit, NumberingInit, HandlesInit, SurvivalInit DEF Base
  <1>2. Base /\ Survival /\ [Next]_vars => (Base /\ Survival)'
    BY TypeNext, NumberingNext, HandlesNext, SurvivalNext DEF Base
  <1>3. Base /\ Survival => IInv  BY DEF Base, TypeInv, IInv
  <1> QED  BY <1>1, <1>2, <1>3, PTL DEF Spec

\* Whatever a client was told Ok is served across every snapshot and crash, in
\* the behaviours where open did not rewind the numbering (Wal::open) and no DDL
\* overlapped another request on its table (Database::create_table, drop_table).
THEOREM AckedChangesSurvive == Spec => []AckedSurvive
  <1>1. IInv => AckedSurvive
    <2> SUFFICES ASSUME IInv, phase = "up", Clean, NEW a \in acked, a.table \notin dropped
                 PROVE  Shows(View, a)
      BY DEF AckedSurvive, Clean
    <2>1. a \in Changes  BY DEF IInv, TypeOK
    <2>2. CASE a.kind = "drop"  BY <2>2 DEF Shows
    <2>3. CASE a.kind # "drop"
      BY <2>1, <2>3 DEF IInv, Survival, AckedStored, StoredServed, Kept
    <2> QED  BY <2>2, <2>3
  <1> QED  BY <1>1, InvariantHolds, PTL

-----------------------------------------------------------------------------
(***************************************************************************)
(* What Database::open makes of the files at any moment: it never refuses  *)
(* them, it rebuilds exactly what the process served, and it brings no row *)
(* back twice.  The proofs of OpenSucceeds, RecoveryExact and NoRowTwice   *)
(* from the invariants of ReplayInv.                                       *)
(***************************************************************************)

-----------------------------------------------------------------------------
(* Recovered, record by record. *)

Start(img) == [ok |-> TRUE, view |-> img.view]

\* f holds what a replay has come to after each of the first n records.
IsReplay(img, frames, n, f) ==
    f = [i \in 0..n |-> IF i = 0 THEN Start(img) ELSE Replay(img, f[i - 1], frames[i])]

\* A replay can be followed to any length.
LEMMA ReplayExists ==
  ASSUME NEW img, NEW frames, NEW n \in Nat
  PROVE  \E f : IsReplay(img, frames, n, f)
  <1> DEFINE S == {k \in Nat : \E f : IsReplay(img, frames, k, f)}
  <1>1. 0 \in S
    <2>1. IsReplay(img, frames, 0, [i \in 0..0 |-> Start(img)])  BY DEF IsReplay
    <2> QED  BY <2>1
  <1>2. ASSUME NEW k \in Nat, k \in S PROVE k + 1 \in S
    <2>1. PICK f : IsReplay(img, frames, k, f)  BY <1>2
    <2> DEFINE g == [i \in 0..(k + 1) |->
                       IF i = k + 1 THEN Replay(img, f[k], frames[k + 1]) ELSE f[i]]
    <2>2. \A i \in 0..k : g[i] = f[i]  OBVIOUS
    <2>3. \A i \in 0..k : f[i] = IF i = 0 THEN Start(img) ELSE Replay(img, f[i - 1], frames[i])
      BY <2>1 DEF IsReplay
    <2>4. ASSUME NEW i \in 0..(k + 1)
          PROVE  g[i] = IF i = 0 THEN Start(img) ELSE Replay(img, g[i - 1], frames[i])
      <3>1. CASE i = k + 1
        <4>1. g[i] = Replay(img, f[k], frames[k + 1]) /\ i # 0 /\ i - 1 = k /\ k \in 0..k
          BY <3>1
        <4> QED  BY <2>2, <3>1, <4>1
      <3>2. CASE i \in 0..k /\ i # 0
        <4>1. i - 1 \in 0..k  BY <3>2
        <4>2. g[i] = f[i] /\ g[i - 1] = f[i - 1]  BY <2>2, <3>2, <4>1
        <4> HIDE DEF g
        <4> QED  BY <2>3, <3>2, <4>2
      <3>3. CASE i = 0  BY <2>2, <2>3, <3>3
      <3> QED  BY <3>1, <3>2, <3>3
    <2>5. g = [i \in 0..(k + 1) |-> g[i]]  OBVIOUS
    <2> HIDE DEF g
    <2>6. IsReplay(img, frames, k + 1, g)  BY <2>4, <2>5 DEF IsReplay
    <2> QED  BY <2>6
  <1> HIDE DEF S
  <1>3. Nat \subseteq S  BY <1>1, <1>2, Induction
  <1> QED  BY <1>3 DEF S

\* Replays of logs with a common beginning agree on it.
LEMMA ReplayAgrees ==
  ASSUME NEW img, NEW a, NEW b, NEW n \in Nat, NEW m \in Nat, n <= m,
         \A i \in 1..n : a[i] = b[i],
         NEW f, NEW g, IsReplay(img, a, n, f), IsReplay(img, b, m, g)
  PROVE  f[n] = g[n]
  <1> DEFINE S == {k \in Nat : k <= n => f[k] = g[k]}
  <1>1. \A i \in 0..n : f[i] = IF i = 0 THEN Start(img) ELSE Replay(img, f[i - 1], a[i])
    BY DEF IsReplay
  <1>2. \A i \in 0..m : g[i] = IF i = 0 THEN Start(img) ELSE Replay(img, g[i - 1], b[i])
    BY DEF IsReplay
  <1>3. 0 \in S  BY <1>1, <1>2
  <1>4. ASSUME NEW k \in Nat, k \in S PROVE k + 1 \in S
    <2> SUFFICES ASSUME k + 1 <= n PROVE f[k + 1] = g[k + 1]  OBVIOUS
    <2>1. k + 1 \in 0..n /\ k + 1 \in 0..m /\ k + 1 \in 1..n /\ k + 1 # 0 /\ (k + 1) - 1 = k
      OBVIOUS
    <2>2. f[k] = g[k]  BY <1>4
    <2> HIDE DEF S
    <2>3. f[k + 1] = Replay(img, f[k], a[k + 1])  BY <1>1, <2>1
    <2>4. g[k + 1] = Replay(img, g[k], b[k + 1])  BY <1>2, <2>1
    <2> QED  BY <2>1, <2>2, <2>3, <2>4
  <1> HIDE DEF S
  <1>5. Nat \subseteq S  BY <1>3, <1>4, Induction
  <1> QED  BY <1>5 DEF S

\* Recovered is where the replay of the whole log ends.
LEMMA RecoveredIs ==
  ASSUME NEW img, NEW frames, Len(frames) \in Nat,
         NEW f, IsReplay(img, frames, Len(frames), f)
  PROVE  Recovered(img, frames) = f[Len(frames)]
  <1> DEFINE n == Len(frames)
             g == CHOOSE x : x = [i \in 0..n |-> IF i = 0 THEN [ok |-> TRUE, view |-> img.view]
                                              ELSE Replay(img, x[i - 1], frames[i])]
  <1>1. f = [i \in 0..n |-> IF i = 0 THEN [ok |-> TRUE, view |-> img.view]
                                ELSE Replay(img, f[i - 1], frames[i])]
    BY DEF IsReplay, Start
  <1>2. g = [i \in 0..n |-> IF i = 0 THEN [ok |-> TRUE, view |-> img.view]
                                ELSE Replay(img, g[i - 1], frames[i])]
    BY <1>1
  <1>3. Recovered(img, frames) = g[n]  BY DEF Recovered
  <1> HIDE DEF g
  <1>4. IsReplay(img, frames, n, g)  BY <1>2 DEF IsReplay, Start
  <1>5. \A i \in 1..n : frames[i] = frames[i] OBVIOUS
  <1>6. g[n] = f[n]  BY <1>4, <1>5, ReplayAgrees
  <1> QED  BY <1>3, <1>6

\* Nothing to replay leaves the snapshot.
LEMMA RecoveredNothing ==
  ASSUME NEW img
  PROVE  Recovered(img, <<>>) = Start(img)
  <1>1. Len(<<>>) = 0  OBVIOUS
  <1>2. PICK f : IsReplay(img, <<>>, 0, f)  BY ReplayExists
  <1>3. f[0] = Start(img)  BY <1>2 DEF IsReplay
  <1>4. Recovered(img, <<>>) = f[Len(<<>>)]  BY <1>1, <1>2, RecoveredIs
  <1> QED  BY <1>1, <1>3, <1>4

\* A record more is one step more.
LEMMA RecoveredAppend ==
  ASSUME NEW img, NEW frames \in Seq(Frames), NEW frame \in Frames
  PROVE  Recovered(img, Append(frames, frame)) = Replay(img, Recovered(img, frames), frame)
  <1> DEFINE n == Len(frames)
             more == Append(frames, frame)
  <1>1. /\ Len(more) = n + 1 /\ more[n + 1] = frame /\ n \in Nat
        /\ \A i \in 1..n : frames[i] = more[i]
    OBVIOUS
  <1> HIDE DEF more
  <1>2. PICK f : IsReplay(img, frames, n, f)  BY <1>1, ReplayExists
  <1>3. PICK g : IsReplay(img, more, n + 1, g)
    <2>1. n + 1 \in Nat  BY <1>1
    <2> QED  BY <2>1, ReplayExists
  <1>4. f[n] = g[n]
    <2>1. n + 1 \in Nat /\ n <= n + 1  BY <1>1
    <2> HIDE DEF n
    <2> QED  BY <1>1, <1>2, <1>3, <2>1, ReplayAgrees
  <1>5. g[n + 1] = Replay(img, g[n], frame)
    <2>1. n + 1 \in 0..(n + 1) /\ n + 1 # 0 /\ (n + 1) - 1 = n  BY <1>1
    <2>2. g[n + 1] = Replay(img, g[n], more[n + 1])  BY <1>3, <2>1 DEF IsReplay
    <2> QED  BY <1>1, <2>2
  <1>6. Recovered(img, frames) = f[n]  BY <1>1, <1>2, RecoveredIs
  <1>7. Recovered(img, more) = g[n + 1]  BY <1>1, <1>3, RecoveredIs
  <1> QED  BY <1>4, <1>5, <1>6, <1>7 DEF more

\* The beginnings of a log, one record longer each.
LEMMA Prefixes ==
  ASSUME NEW frames \in Seq(Frames)
  PROVE  /\ SubSeq(frames, 1, 0) = <<>> /\ SubSeq(frames, 1, Len(frames)) = frames
         /\ \A n \in Nat : n < Len(frames) =>
              /\ SubSeq(frames, 1, n + 1) = Append(SubSeq(frames, 1, n), frames[n + 1])
              /\ SubSeq(frames, 1, n) \in Seq(Frames) /\ frames[n + 1] \in Frames
  <1>1. SubSeq(frames, 1, 0) = <<>>  OBVIOUS
  <1>2. SubSeq(frames, 1, Len(frames)) = frames  OBVIOUS
  <1>3. ASSUME NEW n \in Nat, n < Len(frames)
        PROVE  /\ SubSeq(frames, 1, n + 1) = Append(SubSeq(frames, 1, n), frames[n + 1])
               /\ SubSeq(frames, 1, n) \in Seq(Frames) /\ frames[n + 1] \in Frames
    <2>1. n + 1 \in 1..Len(frames)  BY <1>3
    <2>2. frames[n + 1] \in Frames  BY <2>1
    <2>3. SubSeq(frames, 1, n) \in Seq(Frames)  BY <1>3
    <2>4. SubSeq(frames, 1, n + 1) = Append(SubSeq(frames, 1, n), frames[n + 1])  BY <1>3, <2>1
    <2> QED  BY <2>2, <2>3, <2>4
  <1> QED  BY <1>1, <1>2, <1>3

\* What the replay of a beginning has come to, and what the next record makes of it.
LEMMA RecoveredStep ==
  ASSUME NEW img, NEW frames \in Seq(Frames), NEW n \in Nat, n < Len(frames)
  PROVE  Recovered(img, SubSeq(frames, 1, n + 1))
           = Replay(img, Recovered(img, SubSeq(frames, 1, n)), frames[n + 1])
  <1>1. /\ SubSeq(frames, 1, n + 1) = Append(SubSeq(frames, 1, n), frames[n + 1])
        /\ SubSeq(frames, 1, n) \in Seq(Frames) /\ frames[n + 1] \in Frames
    BY Prefixes
  <1> QED  BY <1>1, RecoveredAppend

\* What holds at the start of a replay, and through every record of it, holds at
\* its end.
LEMMA RecoveredIn ==
  ASSUME NEW img, NEW frames \in Seq(Frames), NEW S, NEW k \in Nat, k <= Len(frames),
         Recovered(img, SubSeq(frames, 1, k)) \in S,
         \A n \in k..(Len(frames) - 1) : \A state \in S : Replay(img, state, frames[n + 1]) \in S
  PROVE  Recovered(img, frames) \in S
  <1> DEFINE P == {n \in Nat : k + n <= Len(frames) => Recovered(img, SubSeq(frames, 1, k + n)) \in S}
  <1>1. Len(frames) \in Nat  OBVIOUS
  <1>2. 0 \in P
    <2>1. k + 0 = k  OBVIOUS
    <2> QED  BY <2>1
  <1>3. ASSUME NEW n \in Nat, n \in P PROVE n + 1 \in P
    <2> SUFFICES ASSUME k + (n + 1) <= Len(frames)
                 PROVE  Recovered(img, SubSeq(frames, 1, k + (n + 1))) \in S
      OBVIOUS
    <2>1. /\ k + n \in Nat /\ k + n < Len(frames) /\ (k + n) + 1 = k + (n + 1)
          /\ k + n \in k..(Len(frames) - 1)
      BY <1>1
    <2>2. Recovered(img, SubSeq(frames, 1, k + n)) \in S  BY <1>3, <2>1
    <2> HIDE DEF P
    <2>3. Recovered(img, SubSeq(frames, 1, (k + n) + 1))
            = Replay(img, Recovered(img, SubSeq(frames, 1, k + n)), frames[(k + n) + 1])
      BY <2>1, RecoveredStep
    <2>4. Replay(img, Recovered(img, SubSeq(frames, 1, k + n)), frames[(k + n) + 1]) \in S
      BY <2>1, <2>2
    <2> QED  BY <2>1, <2>3, <2>4
  <1> HIDE DEF P
  <1>4. Nat \subseteq P  BY <1>2, <1>3, Induction
  <1>5. Len(frames) - k \in Nat /\ k + (Len(frames) - k) = Len(frames)  BY <1>1
  <1>6. Recovered(img, SubSeq(frames, 1, Len(frames))) \in S  BY <1>1, <1>4, <1>5 DEF P
  <1> QED  BY <1>6, Prefixes

\* A log that the snapshot covers adds nothing to it.
LEMMA RecoveredCovered ==
  ASSUME NEW img, NEW frames \in Seq(Frames),
         \A i \in 1..Len(frames) : frames[i].lsn <= img.lsn
  PROVE  Recovered(img, frames) = Start(img)
  <1> DEFINE S == {Start(img)}
  <1>1. Recovered(img, SubSeq(frames, 1, 0)) \in S  BY Prefixes, RecoveredNothing
  <1>2. ASSUME NEW n \in 0..(Len(frames) - 1), NEW state \in S
        PROVE  Replay(img, state, frames[n + 1]) \in S
    <2>1. n + 1 \in 1..Len(frames)  OBVIOUS
    <2> QED  BY <2>1 DEF Replay
  <1>3. Recovered(img, frames) \in S
    <2> HIDE DEF S
    <2>1. 0 \in Nat /\ 0 <= Len(frames)  OBVIOUS
    <2> QED  BY <1>1, <1>2, <2>1, RecoveredIn
  <1> QED  BY <1>3

\* A replay that has failed stays failed.
LEMMA RecoveredFails ==
  ASSUME NEW img, NEW frames \in Seq(Frames), NEW k \in Nat, k <= Len(frames),
         ~Recovered(img, SubSeq(frames, 1, k)).ok
  PROVE  ~Recovered(img, frames).ok
  <1> DEFINE S == {Recovered(img, SubSeq(frames, 1, k))}
  <1>1. \A n \in k..(Len(frames) - 1) : \A state \in S : Replay(img, state, frames[n + 1]) \in S
    BY DEF Replay
  <1>2. Recovered(img, SubSeq(frames, 1, k)) \in S  OBVIOUS
  <1>3. Recovered(img, frames) \in S
    <2> HIDE DEF S
    <2> QED  BY <1>1, <1>2, RecoveredIn
  <1> QED  BY <1>3

\* What a record that counts and decodes does to a replay that has not failed.
LEMMA ReplayApplies ==
  ASSUME NEW img, NEW view, NEW frame, ~(frame.lsn <= img.lsn), Decodable(view, frame.change)
  PROVE  Replay(img, [ok |-> TRUE, view |-> view], frame)
           = [ok |-> TRUE, view |-> Apply(view, frame.change)]
  <1>1. \A ok, old, new : [[ok |-> ok, view |-> old] EXCEPT !.view = new] = [ok |-> ok, view |-> new]
    OBVIOUS
  <1>2. Replay(img, [ok |-> TRUE, view |-> view], frame)
          = [[ok |-> TRUE, view |-> view] EXCEPT !.view = Apply(view, frame.change)]
    BY DEF Replay
  <1> QED  BY <1>1, <1>2, Zenon

\* What one that counts and does not decode does.
LEMMA ReplayFails ==
  ASSUME NEW img, NEW view, NEW frame, ~(frame.lsn <= img.lsn), ~Decodable(view, frame.change)
  PROVE  ~Replay(img, [ok |-> TRUE, view |-> view], frame).ok
  <1>1. \A ok, v, new : [[ok |-> ok, view |-> v] EXCEPT !.ok = new].ok = new  OBVIOUS
  <1>2. Replay(img, [ok |-> TRUE, view |-> view], frame)
          = [[ok |-> TRUE, view |-> view] EXCEPT !.ok = FALSE]
    BY DEF Replay
  <1>3. Replay(img, [ok |-> TRUE, view |-> view], frame).ok = FALSE  BY <1>1, <1>2, Zenon
  <1> QED  BY <1>3

-----------------------------------------------------------------------------
(* Views without stray rows, and what a record makes of them. *)

\* Only tables hold rows.
Tidy(view) == view \in Views /\ \A t \in Tables : t \notin view.names => view.rows[t] = NoRows

\* What readers see is tidy.
LEMMA ViewTidy ==
  ASSUME TypeOK
  PROVE  Tidy(View)
  <1>1. \A t \in Tables : t \notin View.names => View.rows[t] = NoRows  BY DEF View
  <1> QED  BY <1>1, ViewTyped DEF Tidy

\* So is a snapshot.
LEMMA ImageTidy ==
  ASSUME TypeOK, ImageRows
  PROVE  Tidy(image.view)
  <1>1. image.view \in Views  BY DEF TypeOK
  <1>2. ASSUME NEW t \in Tables, t \notin image.view.names PROVE image.view.rows[t] = NoRows
    <2>1. image.view.rows[t] \in [Rows -> Nat]  BY <1>1 DEF Views, Bags
    <2>2. \A r \in Rows : image.view.rows[t][r] \in Nat /\ ~(image.view.rows[t][r] > 0)
      BY <1>2, <2>1 DEF ImageRows
    <2>3. \A r \in Rows : image.view.rows[t][r] = 0  BY <2>2
    <2> QED  BY <2>1, <2>3 DEF NoRows
  <1> QED  BY <1>1, <1>2 DEF Tidy

\* The fields of a view that a record was applied to (Database::apply).
LEMMA Applied ==
  ASSUME NEW view \in Views, NEW change \in Changes
  PROVE  /\ change.table \in Tables
         /\ change.kind = "create" =>
              /\ Apply(view, change).names = view.names \cup {change.table}
              /\ Apply(view, change).rows = [view.rows EXCEPT ![change.table] = NoRows]
         /\ change.kind = "drop" =>
              /\ Apply(view, change).names = view.names \ {change.table}
              /\ Apply(view, change).rows = [view.rows EXCEPT ![change.table] = NoRows]
         /\ change.kind = "insert" =>
              /\ change.row \in Rows
              /\ Apply(view, change).names = view.names
              /\ Apply(view, change).rows
                   = [view.rows EXCEPT ![change.table] = AddRow(view.rows[change.table], change.row)]
         /\ change.kind \in {"create", "drop", "insert"}
  BY DEF Apply, Changes

\* A record that decodes keeps a view tidy.
LEMMA ApplyTidy ==
  ASSUME NEW view, Tidy(view), NEW change \in Changes, Decodable(view, change)
  PROVE  Tidy(Apply(view, change))
  <1>1. view \in Views /\ Apply(view, change) \in Views  BY ApplyTyped DEF Tidy
  <1>2. view.rows \in [Tables -> Bags]  BY <1>1 DEF Views
  <1> DEFINE after == Apply(view, change)
  <1>3. ASSUME NEW t \in Tables, t \notin after.names PROVE after.rows[t] = NoRows
    <2>1. CASE t = change.table
      <3>1. change.kind = "drop"  BY <1>1, <1>3, <2>1, Applied, ZenonT(40) DEF Decodable
      <3> QED  BY <1>1, <1>2, <2>1, <3>1, Applied, ZenonT(40)
    <2>2. CASE t # change.table
      <3>1. t \notin view.names  BY <1>1, <1>3, <2>2, Applied
      <3>2. after.rows[t] = view.rows[t]
        <4>1. CASE change.kind \in {"create", "drop"}
          <5>1. after.rows = [view.rows EXCEPT ![change.table] = NoRows]  BY <1>1, <4>1, Applied
          <5> HIDE DEF after
          <5> QED  BY <1>2, <2>2, <5>1
        <4>2. CASE change.kind = "insert"
          <5>1. after.rows = [view.rows EXCEPT ![change.table]
                                = AddRow(view.rows[change.table], change.row)]
            BY <1>1, <4>2, Applied
          <5> HIDE DEF after
          <5> QED  BY <1>2, <2>2, <5>1
        <4> QED  BY <1>1, <4>1, <4>2, Applied
      <3> QED  BY <3>1, <3>2 DEF Tidy
    <2> QED  BY <2>1, <2>2
  <1> QED  BY <1>1, <1>3 DEF Tidy

\* Open installs a tidy view as it is.
LEMMA InstalledTidy ==
  ASSUME NEW view, Tidy(view), Install(view)
  PROVE  View' = view
  <1>1. view \in Views  BY DEF Tidy
  <1>2. [t \in Tables |-> IF t \in view.names THEN view.rows[t] ELSE NoRows] = view.rows
    BY <1>1 DEF Tidy, Views
  <1>3. view = [names |-> view.names, rows |-> view.rows]  BY <1>1 DEF Views
  <1> QED  BY <1>1, <1>2, <1>3, InstalledView

States == [ok : BOOLEAN, view : {view \in Views : Tidy(view)}]

\* What recovery yields is a catalogue a process could serve.
LEMMA RecoveredTyped ==
  ASSUME NEW img, Tidy(img.view), NEW frames \in Seq(Frames)
  PROVE  /\ Recovered(img, frames) \in States
         /\ Recovered(img, frames).ok \in BOOLEAN /\ Recovered(img, frames).view \in Views
         /\ Tidy(Recovered(img, frames).view)
  <1>1. Start(img) \in States  BY DEF Start, States, Tidy
  <1>2. ASSUME NEW n \in 0..(Len(frames) - 1), NEW state \in States
        PROVE  Replay(img, state, frames[n + 1]) \in States
    <2>1. n + 1 \in 1..Len(frames)  OBVIOUS
    <2>0. frames[n + 1] \in Frames  BY <2>1
    <2>2. frames[n + 1].change \in Changes  BY <2>0 DEF Frames
    <2>3. state.ok \in BOOLEAN /\ state.view \in Views /\ Tidy(state.view)
          /\ state = [ok |-> state.ok, view |-> state.view]
      BY DEF States
    <2>4. CASE ~state.ok \/ frames[n + 1].lsn <= img.lsn
      BY <2>4 DEF Replay
    <2>5. CASE ~(~state.ok \/ frames[n + 1].lsn <= img.lsn)
               /\ ~Decodable(state.view, frames[n + 1].change)
      BY <2>3, <2>5 DEF Replay, States
    <2>6. CASE ~(~state.ok \/ frames[n + 1].lsn <= img.lsn)
               /\ Decodable(state.view, frames[n + 1].change)
      <3>1. Tidy(Apply(state.view, frames[n + 1].change))  BY <2>2, <2>3, <2>6, ApplyTidy
      <3>2. Replay(img, state, frames[n + 1])
              = [state EXCEPT !.view = Apply(state.view, frames[n + 1].change)]
        BY <2>6 DEF Replay
      <3> QED  BY <2>3, <3>1, <3>2 DEF States, Tidy
    <2> QED  BY <2>4, <2>5, <2>6
  <1>3. Recovered(img, frames) \in States
    <2>1. 0 \in Nat /\ 0 <= Len(frames)  OBVIOUS
    <2>2. Recovered(img, SubSeq(frames, 1, 0)) \in States  BY <1>1, Prefixes, RecoveredNothing
    <2> HIDE DEF States
    <2> QED  BY <1>2, <2>1, <2>2, RecoveredIn
  <1> QED  BY <1>3 DEF States

-----------------------------------------------------------------------------
(* Requests: how a step changes who is doing what. *)

Others(c) == \A d \in Clients \ {c} : pc'[d] = pc[d] /\ op'[d] = op[d]

\* c begins a request of the kind on t.
Starts(c, t, kind) ==
    /\ Others(c) /\ ~InFlight(c) /\ InFlight(c)'
    /\ op'[c].kind = kind /\ op'[c].table = t

\* c goes on with its request.
Moves(c) == Others(c) /\ op'[c] = op[c] /\ InFlight(c) /\ InFlight(c)'

\* c is through with its request.
Ends(c) == Others(c) /\ InFlight(c) /\ ~InFlight(c)' /\ op'[c].kind = "none"

NobodyIn == \A c \in Clients : ~InFlight(c) /\ op[c].kind = "none"

\* The requests that can begin now, when nothing conflicts.
LEMMA RequestStarts ==
  ASSUME TypeInv, NEW c \in Clients, NEW t \in Tables
  PROVE  /\ CreateTable(c, t) => Starts(c, t, "create")
         /\ DropTable(c, t) => Starts(c, t, "drop")
         /\ InsertLookup(c, t) => Starts(c, t, "insert")
  <1> USE DEF TypeInv, TypeOK, Starts, Others, InFlight, Serve
  <1>1. CreateTable(c, t) => Starts(c, t, "create")  BY DEF CreateTable
  <1>2. DropTable(c, t) => Starts(c, t, "drop")  BY DEF DropTable
  <1>3. InsertLookup(c, t) => Starts(c, t, "insert")  BY DEF InsertLookup
  <1> QED  BY <1>1, <1>2, <1>3

\* Beside a DDL on its table there is no other request, beside an INSERT only
\* INSERTs.
LEMMA StartsApart ==
  ASSUME TypeInv, NEW c \in Clients, NEW t \in Tables, Clean',
         CreateTable(c, t) \/ DropTable(c, t) \/ InsertLookup(c, t)
  PROVE  \A d \in Clients \ {c} :
            InFlight(d) /\ op[d].table = t => op[d].kind = "insert" /\ InsertLookup(c, t)
  <1>2. CASE CreateTable(c, t)
    BY <1>2 DEF CreateTable, Serve, Overlaps, Clean, TypeInv, TypeOK
  <1>3. CASE DropTable(c, t)
    BY <1>3 DEF DropTable, Serve, Overlaps, Clean, TypeInv, TypeOK
  <1>4. CASE InsertLookup(c, t)
    BY <1>4 DEF InsertLookup, Serve, Overlaps, Clean, TypeInv, TypeOK
  <1> QED  BY <1>2, <1>3, <1>4

\* The steps of a request after its first.
LEMMA RequestMoves ==
  ASSUME TypeInv, NEW c \in Clients
  PROVE  /\ InsertMany(c) => Moves(c)
         /\ InsertManyRejects(c) => Ends(c)
         /\ Encode(c) => IF tables[op[c].table] # 0 THEN Moves(c) ELSE Ends(c)
         /\ AppendWal(c) \/ AppendFails(c) => Ends(c)
  <1> USE DEF TypeInv, TypeOK, Moves, Ends, Others, InFlight, Finish
  <1>1. InsertMany(c) => Moves(c)  BY DEF InsertMany, PushRow
  <1>2. InsertManyRejects(c) => Ends(c)  BY NoOpFields DEF InsertManyRejects, PushRow
  <1>3. Encode(c) => IF tables[op[c].table] # 0 THEN Moves(c) ELSE Ends(c)
    BY NoOpFields DEF Encode
  <1>4. AppendWal(c) \/ AppendFails(c) => Ends(c)  BY NoOpFields DEF AppendWal, AppendFails
  <1> QED  BY <1>1, <1>2, <1>3, <1>4

\* While the process is not up there are no requests.
LEMMA NobodyWhenDown ==
  ASSUME TypeInv
  PROVE  phase # "up" => NobodyIn /\ snapper.pc = "idle"
  BY NoOpFields DEF TypeInv, ThreadsOK, NobodyIn, InFlight

\* The tables with a request of the kind, as requests come and go.
LEMMA DoingStarts ==
  ASSUME NEW c \in Clients, NEW t, NEW kind, Starts(c, t, kind), NEW k
  PROVE  Doing(k)' = IF k = kind THEN Doing(k) \cup {t} ELSE Doing(k)
  <1>1. \A d \in Clients \ {c} : (InFlight(d)' <=> InFlight(d)) /\ op'[d] = op[d]
    BY DEF Starts, Others, InFlight
  <1> QED  BY <1>1 DEF Starts, Doing

LEMMA DoingMoves ==
  ASSUME NEW c \in Clients, Moves(c), NEW k
  PROVE  Doing(k)' = Doing(k)
  <1>1. \A d \in Clients : (InFlight(d)' <=> InFlight(d)) /\ op'[d] = op[d]
    BY DEF Moves, Others, InFlight
  <1> QED  BY <1>1 DEF Doing

LEMMA DoingEnds ==
  ASSUME NEW c \in Clients, Ends(c), NEW k
  PROVE  /\ op[c].kind # k => Doing(k)' = Doing(k)
         /\ RequestsApart /\ k # "insert" /\ op[c].kind = k => Doing(k)' = Doing(k) \ {op[c].table}
  <1>1. \A d \in Clients \ {c} : (InFlight(d)' <=> InFlight(d)) /\ op'[d] = op[d]
    BY DEF Ends, Others, InFlight
  <1>2. InFlight(c) /\ ~InFlight(c)'  BY DEF Ends
  <1>3. op[c].kind # k => Doing(k)' = Doing(k)  BY <1>1, <1>2 DEF Doing
  <1>4. ASSUME RequestsApart, k # "insert", op[c].kind = k
        PROVE  Doing(k)' = Doing(k) \ {op[c].table}
    <2>1. \A d \in Clients \ {c} : InFlight(d) /\ op[d].kind = k => op[d].table # op[c].table
      BY <1>2, <1>4 DEF RequestsApart
    <2> QED  BY <1>1, <1>2, <1>4, <2>1 DEF Doing
  <1> QED  BY <1>3, <1>4

LEMMA DoingNobody ==
  ASSUME NobodyIn, NEW k
  PROVE  Doing(k) = {} /\ \A t, r : ~PendingRow(t, r)
  BY DEF NobodyIn, Doing, PendingRow, InFlight, Unlogged

-----------------------------------------------------------------------------
(* The parts of Decoding, one by one. *)

\* Rows are numbered as their INSERTs begin (Database::insert_inner).
LEMMA NewRowsNext ==
  ASSUME TypeInv, NewRows, [Next]_vars
  PROVE  NewRows'
  <1> USE DEF TypeInv
  <1>0. /\ issued \in Nat
        /\ \A d \in Clients : op[d].row \in Nat /\ (pc[d] = "idle" => op[d].kind = "none")
    BY MaxRowsAssumption, NoOpFields DEF TypeOK, Ops, ThreadsOK
  \* Nobody gets a row but by InsertLookup.
  <1>1. ASSUME \A d \in Clients : \/ pc'[d] = "idle" /\ op'[d].kind = "none"
                                  \/ pc[d] # "idle" /\ op'[d] = op[d]
                                  \/ op'[d].kind # "insert" /\ op'[d].row = 0,
               issued' = issued
        PROVE  NewRows'
    BY <1>0, <1>1 DEF NewRows
  <1>2. ASSUME NEW c \in Clients, NEW t \in Tables, CreateTable(c, t) \/ DropTable(c, t)
        PROVE  NewRows'
    <2>1. \A d \in Clients \ {c} : pc'[d] = pc[d] /\ op'[d] = op[d]
      BY <1>2 DEF CreateTable, DropTable, TypeOK
    <2>2. op'[c].kind # "insert" /\ op'[c].row = 0 /\ issued' = issued
      BY <1>2 DEF CreateTable, DropTable, TypeOK, bounds
    <2> QED  BY <1>0, <1>1, <2>1, <2>2
  <1>3. ASSUME NEW c \in Clients, NEW t \in Tables, InsertLookup(c, t) PROVE NewRows'
    <2>1. \A d \in Clients \ {c} : pc'[d] = pc[d] /\ op'[d] = op[d]
      BY <1>3 DEF InsertLookup, TypeOK
    <2>2. op'[c].row = issued + 1 /\ issued' = issued + 1  BY <1>3 DEF InsertLookup, TypeOK
    <2>3. \A d \in Clients : op[d].kind = "insert" => op[d].row <= issued
      BY <1>0 DEF NewRows
    <2> QED  BY <1>0, <2>1, <2>2, <2>3 DEF NewRows
  <1>4. ASSUME NEW c \in Clients, ClientStep(c) PROVE NewRows'
    <2>1. Moves(c) \/ Ends(c)  BY <1>4, RequestMoves DEF ClientStep
    <2>2. issued' = issued
      BY <1>4 DEF ClientStep, InsertMany, InsertManyRejects, Encode, AppendWal, AppendFails, bounds
    <2>3. Ends(c) => pc'[c] = "idle"
      BY <1>4, RequestMoves DEF ClientStep, InsertMany, InsertManyRejects, Encode, AppendWal,
         AppendFails, Finish, Moves, Ends, TypeOK
    <2>4. InFlight(c) => pc[c] # "idle"  BY DEF InFlight
    <2> QED  BY <1>0, <1>1, <2>1, <2>2, <2>3, <2>4 DEF Moves, Ends, Others
  <1>5. ASSUME UNCHANGED <<pc, op, issued>> PROVE NewRows'  BY <1>5 DEF NewRows
  <1>6. CASE SnapshotLock \/ SnapshotStep \/ SnapshotFails \/ BytesLock \/ BytesEncode
             \/ OpenStep \/ UNCHANGED vars
    BY <1>5, <1>6
    DEF SnapshotLock, SnapshotStep, SnapshotCollect, SnapshotGuard, SnapshotWrite,
        SnapshotReset, SnapshotFails, BytesLock, BytesEncode, OpenStep, OpenSnapshot, OpenSkip,
        OpenApply, OpenFails, OpenDone, vars, threads, bounds
  <1>7. CASE Crash  BY <1>1, <1>7, NoOpFields DEF Crash
  <1> QED  BY <1>2, <1>3, <1>4, <1>6, <1>7 DEF Next, LocalStep, Request, Rest

\* Requests and snapshots are steps of a process that is up.
LEMMA RequestsWhileUp ==
  ASSUME TypeInv, NEW c \in Clients, Request(c) \/ ClientStep(c)
  PROVE  phase = "up" /\ phase' = "up"
  <1>1. CASE Request(c)
    BY <1>1 DEF Request, CreateTable, DropTable, InsertLookup, Serve
  <1>2. CASE ClientStep(c)
    <2>1. pc[c] # "idle" /\ phase' = phase
      BY <1>2 DEF ClientStep, InsertMany, PushRow, InsertManyRejects, Encode, AppendWal, AppendFails
    <2> QED  BY <2>1 DEF TypeInv, ThreadsOK
  <1> QED  BY <1>1, <1>2

LEMMA SnapshotsWhileUp ==
  ASSUME TypeInv, SnapshotLock \/ SnapshotStep \/ SnapshotFails \/ BytesLock \/ BytesEncode
  PROVE  phase = "up" /\ phase' = "up"
  <1>1. CASE SnapshotLock \/ BytesLock  BY <1>1 DEF SnapshotLock, BytesLock
  <1>2. CASE SnapshotStep \/ SnapshotFails \/ BytesEncode
    <2>1. snapper.pc # "idle" /\ phase' = phase
      BY <1>2 DEF SnapshotStep, SnapshotCollect, SnapshotGuard, SnapshotWrite, SnapshotReset,
         SnapshotFails, BytesEncode
    <2>2. phase = "up"
      <3>1. IF snapper.pc = "idle" THEN snapper = NoSnapper ELSE phase = "up"
        BY DEF TypeInv, ThreadsOK
      <3> QED  BY <2>1, <3>1
    <2> QED  BY <2>1, <2>2
  <1> QED  BY <1>1, <1>2

\* Open makes of each record what recovery makes of it (Database::open).
LEMMA LoadingExactNext ==
  ASSUME Base, LoadingExact, [Next]_vars
  PROVE  LoadingExact'
  <1> USE DEF Base, TypeInv
  <1>0. log \in Seq(Frames) /\ pos \in Nat  BY DEF TypeOK
  <1>1. CASE OpenSnapshot
    <2>1. /\ log' = log /\ image' = image /\ pos' = 0 /\ Install(image.view)
      BY <1>1 DEF OpenSnapshot, disk, ThreadsOK
    <2>2. View' = image.view  BY <2>1, ImageTidy, InstalledTidy DEF HandlesOK
    <2>3. Recovered(image, SubSeq(log, 1, 0)) = [ok |-> TRUE, view |-> image.view]
      BY <1>0, Prefixes, RecoveredNothing DEF Start
    <2> QED  BY <2>1, <2>2, <2>3 DEF LoadingExact
  <1>2. CASE OpenSkip
    <2>1. /\ UNCHANGED <<log, image, tables, heap, phase>> /\ phase = "loading" /\ pos < Len(log)
          /\ pos' = pos + 1 /\ log[pos + 1].lsn <= image.lsn
      BY <1>2 DEF OpenSkip, Covered, disk, mem
    <2>2. Recovered(image, SubSeq(log, 1, pos + 1)) = Recovered(image, SubSeq(log, 1, pos))
      BY <1>0, <2>1, RecoveredStep DEF Replay
    <2>3. View' = View  BY <2>1 DEF View, HandleOf
    <2> QED  BY <2>1, <2>2, <2>3 DEF LoadingExact
  <1>3. CASE OpenApply
    <2> DEFINE change == log[pos + 1].change
    <2>1. /\ UNCHANGED <<log, image, phase>> /\ phase = "loading" /\ pos < Len(log)
          /\ pos' = pos + 1 /\ ~(log[pos + 1].lsn <= image.lsn)
          /\ Decodable(View, change) /\ Install(Apply(View, change))
      BY <1>3 DEF OpenApply, Covered, disk
    <2>2. change \in Changes
      <3>1. pos + 1 \in 1..Len(log)  BY <1>0, <2>1
      <3> QED  BY <3>1, FrameTyped
    <2>3. Tidy(Apply(View, change))  BY <2>1, <2>2, ViewTidy, ApplyTidy
    <2>4. View' = Apply(View, change)  BY <2>1, <2>3, InstalledTidy
    <2>5. Recovered(image, SubSeq(log, 1, pos)) = [ok |-> TRUE, view |-> View]
      BY <2>1 DEF LoadingExact
    <2>6. Recovered(image, SubSeq(log, 1, pos + 1)) = [ok |-> TRUE, view |-> Apply(View, change)]
      BY <1>0, <2>1, <2>5, RecoveredStep, ReplayApplies
    <2> QED  BY <2>1, <2>4, <2>6 DEF LoadingExact
  <1>4. ASSUME phase' # "loading" PROVE LoadingExact'  BY <1>4 DEF LoadingExact
  <1>5. CASE UNCHANGED vars
    <2>1. UNCHANGED <<log, image, pos, phase, tables, heap>>  BY <1>5 DEF vars, disk, mem
    <2>2. View' = View  BY <2>1 DEF View, HandleOf
    <2> QED  BY <2>1, <2>2 DEF LoadingExact
  <1>6. CASE \E c \in Clients : Request(c) \/ ClientStep(c)
    <2>1. phase' = "up"  BY <1>6, RequestsWhileUp
    <2> QED  BY <1>4, <2>1
  <1>7. CASE SnapshotLock \/ SnapshotStep \/ SnapshotFails \/ BytesLock \/ BytesEncode
    <2>1. phase' = "up"  BY <1>7, SnapshotsWhileUp
    <2> QED  BY <1>4, <2>1
  <1>8. CASE Crash \/ OpenFails \/ OpenDone  BY <1>4, <1>8 DEF Crash, OpenFails, OpenDone
  <1> QED  BY <1>1, <1>2, <1>3, <1>5, <1>6, <1>7, <1>8 DEF Next, LocalStep, OpenStep, Rest

\* The steps in which no request begins, goes on or ends.
LEMMA ThreadsRest ==
  ASSUME TypeInv, [Next]_vars
  PROVE  \/ \E c \in Clients : Request(c) \/ ClientStep(c)
         \/ NobodyIn' /\ snapper'.pc = "idle" /\ phase' # "up" /\ ~SnapshotWrite /\ ~SnapshotReset
         \/ OpenDone /\ NobodyIn' /\ NobodyIn
         \/ /\ UNCHANGED <<pc, op, tables, heap, phase>>
            /\ SnapshotLock \/ SnapshotStep \/ SnapshotFails \/ BytesLock \/ BytesEncode
               \/ UNCHANGED vars
  <1> USE DEF TypeInv
  <1>1. CASE SnapshotLock \/ SnapshotStep \/ SnapshotFails \/ BytesLock \/ BytesEncode
             \/ UNCHANGED vars
    BY <1>1 DEF SnapshotLock, SnapshotStep, SnapshotCollect, SnapshotGuard, SnapshotWrite,
       SnapshotReset, SnapshotFails, BytesLock, BytesEncode, vars, mem, threads
  <1>2. CASE Crash
    BY <1>2, NoOpFields DEF Crash, NobodyIn, InFlight, NoSnapper, SnapshotWrite, SnapshotReset, ThreadsOK
  <1>3. CASE OpenSnapshot \/ OpenSkip \/ OpenApply \/ OpenFails
    <2>1. UNCHANGED <<pc, op, snapper>> /\ phase # "up" /\ phase' # "up"
      BY <1>3 DEF OpenSnapshot, OpenSkip, OpenApply, OpenFails, threads
    <2>2. NobodyIn /\ snapper.pc = "idle"  BY <2>1, NobodyWhenDown
    <2>3. ~SnapshotWrite /\ ~SnapshotReset  BY <2>2 DEF SnapshotWrite, SnapshotReset
    <2> QED  BY <2>1, <2>2, <2>3 DEF NobodyIn, InFlight
  <1>4. CASE OpenDone
    <2>1. UNCHANGED <<pc, op, snapper>> /\ phase # "up"  BY <1>4 DEF OpenDone, threads
    <2> QED  BY <1>4, <2>1, NobodyWhenDown DEF NobodyIn, InFlight
  <1> QED  BY <1>1, <1>2, <1>3, <1>4 DEF Next, LocalStep, OpenStep, Rest

\* Requests on one table that do not commute are never together, in a behaviour
\* without conflict.
LEMMA RequestsApartNext ==
  ASSUME TypeInv, RequestsApart, [Next]_vars, Clean'
  PROVE  RequestsApart'
  <1>1. ASSUME NEW c \in Clients, NEW t \in Tables, NEW kind, Starts(c, t, kind),
               \A d \in Clients \ {c} :
                  InFlight(d) /\ op[d].table = t => op[d].kind = "insert" /\ kind = "insert"
        PROVE  RequestsApart'
    BY <1>1 DEF RequestsApart, Starts, Others, InFlight
  <1>2. ASSUME NEW c \in Clients, Request(c) PROVE RequestsApart'
    <2>1. PICK t \in Tables : CreateTable(c, t) \/ DropTable(c, t) \/ InsertLookup(c, t)
      BY <1>2 DEF Request
    <2>2. CASE CreateTable(c, t)
      <3>1. ~InsertLookup(c, t)
        BY <2>2, RequestStarts DEF Starts
      <3> QED  BY <1>1, <2>2, <3>1, RequestStarts, StartsApart
    <2>3. CASE DropTable(c, t)
      <3>1. ~InsertLookup(c, t)
        BY <2>3, RequestStarts DEF Starts
      <3> QED  BY <1>1, <2>3, <3>1, RequestStarts, StartsApart
    <2>4. CASE InsertLookup(c, t)
      BY <1>1, <2>4, RequestStarts, StartsApart
    <2> QED  BY <2>1, <2>2, <2>3, <2>4
  <1>3. ASSUME NEW c \in Clients, ClientStep(c) PROVE RequestsApart'
    <2>1. Moves(c) \/ Ends(c)  BY <1>3, RequestMoves DEF ClientStep
    <2> QED  BY <2>1 DEF RequestsApart, Moves, Ends, Others, InFlight
  <1>4. ASSUME NobodyIn' PROVE RequestsApart'  BY <1>4 DEF NobodyIn, RequestsApart
  <1>5. ASSUME UNCHANGED <<pc, op>> PROVE RequestsApart'  BY <1>5 DEF RequestsApart, InFlight
  <1> QED  BY <1>2, <1>3, <1>4, <1>5, ThreadsRest

\* No other request takes the table from under one.
LEMMA RequestTablesNext ==
  ASSUME TypeInv, RequestTables, [Next]_vars, Clean'
  PROVE  RequestTables'
  <1> USE DEF TypeInv
  <1>1. ASSUME NEW c \in Clients, Request(c) PROVE RequestTables'
    <2>1. PICK t \in Tables : CreateTable(c, t) \/ DropTable(c, t) \/ InsertLookup(c, t)
      BY <1>1 DEF Request
    <2>2. PICK kind : Starts(c, t, kind)  BY <2>1, RequestStarts
    <2>3. ASSUME NEW d \in Clients \ {c}, InFlight(d)'
          PROVE  tables'[op'[d].table] = IF op'[d].kind = "drop" THEN 0 ELSE op'[d].gen
      <3>1. InFlight(d) /\ op'[d] = op[d] /\ op[d].table \in Tables
        BY <2>2, <2>3 DEF Starts, Others, InFlight, TypeOK, Ops
      <3>2. CASE InsertLookup(c, t)
        <4>1. tables' = tables  BY <3>2 DEF InsertLookup, mem
        <4> QED  BY <3>1, <4>1 DEF RequestTables
      <3>3. CASE ~InsertLookup(c, t)
        <4>1. op[d].table # t  BY <2>1, <3>1, <3>3, StartsApart
        <4>2. tables'[op[d].table] = tables[op[d].table]
          BY <2>1, <3>1, <3>3, <4>1 DEF CreateTable, DropTable, TypeOK
        <4> QED  BY <3>1, <4>2 DEF RequestTables
      <3> QED  BY <3>2, <3>3
    <2>4. tables'[op'[c].table] = IF op'[c].kind = "drop" THEN 0 ELSE op'[c].gen
      BY <2>1, SMTT(30) DEF CreateTable, DropTable, InsertLookup, TypeOK, mem
    <2> QED  BY <2>3, <2>4 DEF RequestTables
  <1>2. ASSUME NEW c \in Clients, ClientStep(c) PROVE RequestTables'
    <2>1. Moves(c) \/ Ends(c)  BY <1>2, RequestMoves DEF ClientStep
    <2>2. tables' = tables
      BY <1>2 DEF ClientStep, InsertMany, InsertManyRejects, Encode, AppendWal, AppendFails, mem
    <2> QED  BY <2>1, <2>2 DEF RequestTables, Moves, Ends, Others, InFlight
  <1>3. ASSUME NobodyIn' PROVE RequestTables'  BY <1>3 DEF NobodyIn, RequestTables
  <1>4. ASSUME UNCHANGED <<pc, op, tables>> PROVE RequestTables'
    BY <1>4 DEF RequestTables, InFlight
  <1> QED  BY <1>1, <1>2, <1>3, <1>4, ThreadsRest

-----------------------------------------------------------------------------
(* What the files recover to, as they change. *)

\* Three steps write to the files.
LEMMA FileSteps ==
  ASSUME [Next]_vars
  PROVE  \/ \E c \in Clients : AppendWal(c)
         \/ SnapshotWrite \/ SnapshotReset
         \/ UNCHANGED <<log, image>>
  <1>1. ASSUME NEW c \in Clients, NEW t \in Tables,
               CreateTable(c, t) \/ DropTable(c, t) \/ InsertLookup(c, t)
        PROVE  UNCHANGED <<log, image>>
    BY <1>1 DEF CreateTable, DropTable, InsertLookup, disk
  <1>2. ASSUME NEW c \in Clients,
               InsertMany(c) \/ InsertManyRejects(c) \/ Encode(c) \/ AppendFails(c)
        PROVE  UNCHANGED <<log, image>>
    BY <1>2 DEF InsertMany, InsertManyRejects, Encode, AppendFails, disk
  <1>3. ASSUME SnapshotLock \/ SnapshotCollect \/ SnapshotFails \/ BytesLock \/ BytesEncode
        PROVE  UNCHANGED <<log, image>>
    BY <1>3 DEF SnapshotLock, SnapshotCollect, SnapshotFails, BytesLock, BytesEncode, disk
  <1>4. ASSUME NEW h \in Handles, SnapshotGuard(h) PROVE UNCHANGED <<log, image>>
    BY <1>4 DEF SnapshotGuard, disk
  <1>5. ASSUME Crash \/ OpenSnapshot \/ OpenSkip \/ OpenApply \/ OpenFails \/ OpenDone
        PROVE  UNCHANGED <<log, image>>
    BY <1>5 DEF Crash, OpenSnapshot, OpenSkip, OpenApply, OpenFails, OpenDone, disk
  <1>6. ASSUME UNCHANGED vars PROVE UNCHANGED <<log, image>>  BY <1>6 DEF vars, disk
  <1> QED
    BY <1>1, <1>2, <1>3, <1>4, <1>5, <1>6
    DEF Next, LocalStep, Request, ClientStep, SnapshotStep, OpenStep, Rest

\* A request that is about to be logged finds its table in the files, or is a DDL.
LEMMA AppendRecovered ==
  ASSUME Base, Clean, RequestsApart, RequestTables, NamesStored, FilesDecode,
         NEW c \in Clients, AppendWal(c)
  PROVE  \E change \in Changes :
            /\ change.kind = op[c].kind /\ change.table = op[c].table /\ change.row = op[c].row
            /\ Decodable(Recovered(image, log).view, change)
            /\ Recovered(image', log')
                 = [ok |-> TRUE, view |-> Apply(Recovered(image, log).view, change)]
  <1> USE DEF Base, TypeInv
  <1> DEFINE change == [kind |-> op[c].kind, table |-> op[c].table, row |-> op[c].row]
             f == [lsn |-> nextLsn, change |-> change]
  <1>1. /\ f \in Frames /\ change \in Changes /\ log' = Append(log, f)
        /\ f.lsn = nextLsn /\ f.change = change
        /\ change.kind = op[c].kind /\ change.table = op[c].table /\ change.row = op[c].row
    BY AppendedFrame
  <1>2. /\ phase = "up" /\ InFlight(c) /\ image' = image /\ log \in Seq(Frames)
        /\ image.lsn \in Nat /\ nextLsn \in Nat
    BY DEF AppendWal, ThreadsOK, InFlight, TypeOK
  <1>3. ~(nextLsn <= image.lsn)
    <2>1. image.lsn < nextLsn  BY <1>2 DEF Numbering, Clean
    <2> QED  BY <1>2, <2>1
  <1> HIDE DEF change, f
  <1>4. Decodable(Recovered(image, log).view, change)
    <2> SUFFICES ASSUME op[c].kind = "insert"
                 PROVE  op[c].table \in Recovered(image, log).view.names
      BY <1>1 DEF Decodable
    <2>1. op[c].table \in Tables /\ op[c].gen \in Gens  BY DEF TypeOK, Ops, ThreadsOK
    <2>2. tables[op[c].table] = op[c].gen /\ op[c].gen # 0
      BY <1>2, <2>1 DEF RequestTables, Gens
    <2>3. op[c].table \notin Doing("create")
      BY <1>2 DEF Doing, RequestsApart
    <2> QED  BY <1>2, <2>1, <2>2, <2>3 DEF NamesStored
  <1>5. Recovered(image, log) = [ok |-> TRUE, view |-> Recovered(image, log).view]
    <2>1. Recovered(image, log) \in States  BY <1>2, ImageTidy, RecoveredTyped DEF HandlesOK
    <2>2. Recovered(image, log).ok = TRUE  BY <2>1 DEF FilesDecode, States
    <2> QED  BY <2>1, <2>2 DEF States
  <1>6. Recovered(image, log')
          = [ok |-> TRUE, view |-> Apply(Recovered(image, log).view, change)]
    <2>1. Recovered(image, log') = Replay(image, Recovered(image, log), f)
      BY <1>1, <1>2, RecoveredAppend
    <2>2. \A v : Decodable(v, f.change) => Replay(image, [ok |-> TRUE, view |-> v], f)
                                             = [ok |-> TRUE, view |-> Apply(v, f.change)]
      BY <1>1, <1>3, ReplayApplies
    <2> QED  BY <1>1, <1>4, <1>5, <2>1, <2>2
  <1> QED  BY <1>1, <1>2, <1>4, <1>6

\* A new snapshot covers the log, so recovery is what it captured.
LEMMA WriteRecovered ==
  ASSUME TypeInv, Numbering, SnapshotWrite
  PROVE  Recovered(image', log') = [ok |-> TRUE, view |-> Captured]
  <1> USE DEF TypeInv
  <1>1. /\ phase = "up" /\ log' = log /\ image'.view = Captured /\ image'.lsn = nextLsn - 1
        /\ log \in Seq(Frames)
    BY DEF SnapshotWrite, ThreadsOK, Numbering, TypeOK
  <1>2. \A i \in 1..Len(log) : log[i].lsn <= image'.lsn  BY <1>1, NothingLoggedAbove
  <1>3. Recovered(image', log) = Start(image')  BY <1>1, <1>2, RecoveredCovered
  <1> QED  BY <1>1, <1>3 DEF Start

\* Emptying a log that the snapshot covers changes nothing.
LEMMA ResetRecovered ==
  ASSUME TypeInv, Numbering, SnapshotReset
  PROVE  Recovered(image', log') = Recovered(image, log)
  <1>1. log' = <<>> /\ image' = image /\ log \in Seq(Frames)
    BY DEF SnapshotReset, TypeInv, TypeOK
  <1>2. \A i \in 1..Len(log) : log[i].lsn <= image.lsn
    BY ResetIsCovered DEF SnapshotReset, ResetDropsOnlyCovered
  <1>3. Recovered(image, log) = Start(image)  BY <1>1, <1>2, RecoveredCovered
  <1> QED  BY <1>1, <1>3, RecoveredNothing

\* A CREATE without its record is never unsaid but by a snapshot or by a start that
\* went well, and it leaves its mark in leftover.
LEMMA UnbackedSteps ==
  ASSUME TypeOK, unbacked => leftover, [Next]_vars
  PROVE  /\ unbacked' => leftover'
         /\ ~unbacked' => ~unbacked \/ SnapshotWrite \/ OpenDone
         /\ ~unbacked' => \A c \in Clients : AppendFails(c) => op[c].kind # "create"
  <1>1. unbacked \in BOOLEAN /\ leftover \in BOOLEAN  BY DEF TypeOK
  <1>2. ASSUME NEW c \in Clients, AppendFails(c)
        PROVE  /\ unbacked' = (unbacked \/ op[c].kind = "create") /\ leftover' = TRUE
    BY <1>2 DEF AppendFails
  <1>3. ASSUME SnapshotWrite \/ OpenDone PROVE unbacked' = FALSE
    BY <1>3 DEF SnapshotWrite, OpenDone
  <1>4. \/ \E c \in Clients : AppendFails(c)
        \/ SnapshotWrite \/ OpenDone
        \/ unbacked' = unbacked
    <2>1. ASSUME NEW c \in Clients, NEW t \in Tables,
                 CreateTable(c, t) \/ DropTable(c, t) \/ InsertLookup(c, t)
          PROVE  unbacked' = unbacked
      BY <2>1 DEF CreateTable, DropTable, InsertLookup
    <2>2. ASSUME NEW c \in Clients,
                 InsertMany(c) \/ InsertManyRejects(c) \/ Encode(c) \/ AppendWal(c)
          PROVE  unbacked' = unbacked
      BY <2>2 DEF InsertMany, InsertManyRejects, Encode, AppendWal, history
    <2>3. ASSUME SnapshotLock \/ SnapshotCollect \/ SnapshotReset \/ SnapshotFails
                 \/ BytesLock \/ BytesEncode
          PROVE  unbacked' = unbacked
      BY <2>3 DEF SnapshotLock, SnapshotCollect, SnapshotReset, SnapshotFails, BytesLock,
         BytesEncode, history
    <2>4. ASSUME NEW h \in Handles, SnapshotGuard(h) PROVE unbacked' = unbacked
      BY <2>4 DEF SnapshotGuard, history
    <2>5. ASSUME Crash \/ OpenSnapshot \/ OpenSkip \/ OpenApply \/ OpenFails
          PROVE  unbacked' = unbacked
      BY <2>5 DEF Crash, OpenSnapshot, OpenSkip, OpenApply, OpenFails, history
    <2>6. ASSUME UNCHANGED vars PROVE unbacked' = unbacked  BY <2>6 DEF vars, history
    <2> QED
      BY <2>1, <2>2, <2>3, <2>4, <2>5, <2>6
      DEF Next, LocalStep, Request, ClientStep, SnapshotStep, OpenStep, Rest
  <1>5. ~unbacked' => \A c \in Clients : AppendFails(c) => op[c].kind # "create"
    BY <1>2, Zenon
  <1>6. ~unbacked' => ~unbacked \/ SnapshotWrite \/ OpenDone
    BY <1>1, <1>2, <1>4, Zenon
  <1>7. unbacked' => leftover'
    <2>1. leftover = TRUE => leftover' = TRUE  BY HistoriesStay
    <2> QED  BY <1>1, <1>2, <1>3, <1>4, <2>1, Zenon
  <1> QED  BY <1>5, <1>6, <1>7

\* A snapshot holds every table that is served and not on its way to the log, and a
\* start that went well found every table it serves in the files.
LEMMA FilesBacked ==
  ASSUME Base, Decoding, Clean, SnapshotWrite \/ OpenDone
  PROVE  (FilesDecode /\ NamesStored)'
  <1> USE DEF Base, TypeInv
  <1>1. NamesCaptured /\ LoadingExact  BY DEF Decoding
  <1>2. CASE SnapshotWrite
    <2>1. /\ UNCHANGED <<tables, pc, op, phase>> /\ snapper.pc = "guard" /\ phase = "up"
      BY <1>2 DEF SnapshotWrite, mem, threads, ThreadsOK
    <2>2. Recovered(image', log') = [ok |-> TRUE, view |-> Captured]
      BY <1>2, WriteRecovered
    <2>3. Doing("create")' = Doing("create")  BY <2>1 DEF Doing, InFlight
    <2>4. ASSUME NEW t \in Tables, tables[t] # 0, t \notin Doing("create")
          PROVE  t \in Captured.names
      <3>1. HandleOf(t) \in snapper.handles /\ HandleOf(t)[1] = t
        BY <1>1, <2>1, <2>4 DEF NamesCaptured, HandleOf
      <3> QED  BY <3>1 DEF Captured
    <2>5. NamesStored'  BY <2>1, <2>2, <2>3, <2>4 DEF NamesStored
    <2>6. FilesDecode'  BY <2>1, <2>2 DEF FilesDecode
    <2> QED  BY <2>5, <2>6
  <1>3. CASE OpenDone
    <2>1. /\ UNCHANGED <<log, image, tables>> /\ phase = "loading" /\ pos = Len(log)
          /\ phase' = "up"
      BY <1>3 DEF OpenDone, disk, mem
    <2>2. log \in Seq(Frames)  BY DEF TypeOK
    <2>3. Recovered(image, log) = [ok |-> TRUE, view |-> View]
      <3>1. SubSeq(log, 1, pos) = log  BY <2>1, <2>2, Prefixes
      <3> QED  BY <1>1, <2>1, <3>1 DEF LoadingExact
    <2>4. \A t \in Tables : tables[t] # 0 => t \in View.names  BY DEF View
    <2>5. Recovered(image', log') = [ok |-> TRUE, view |-> View]  BY <2>1, <2>3
    <2>6. NamesStored'  BY <2>1, <2>4, <2>5 DEF NamesStored
    <2>7. FilesDecode'  BY <2>1, <2>5 DEF FilesDecode
    <2> QED  BY <2>6, <2>7
  <1> QED  BY <1>2, <1>3

\* Every record decodes, and open comes to the end of the log.
LEMMA FilesDecodeNext ==
  ASSUME Base, Decoding, Clean, ~unbacked, [Next]_vars
  PROVE  FilesDecode'
  <1> USE DEF Base, TypeInv
  <1>1. RequestsApart /\ RequestTables /\ FilesDecode /\ NamesStored /\ LoadingExact
    BY DEF Decoding
  <1>2. log \in Seq(Frames) /\ pos \in Nat  BY DEF TypeOK
  <1>3. ~OpenFails
    <2> SUFFICES ASSUME OpenFails PROVE FALSE  OBVIOUS
    <2>1. /\ phase = "loading" /\ pos < Len(log) /\ ~(log[pos + 1].lsn <= image.lsn)
          /\ ~Decodable(View, log[pos + 1].change)
      BY DEF OpenFails, Covered
    <2>2. Recovered(image, SubSeq(log, 1, pos)) = [ok |-> TRUE, view |-> View]
      BY <1>1, <2>1 DEF LoadingExact
    <2>3. ~Recovered(image, SubSeq(log, 1, pos + 1)).ok
      BY <1>2, <2>1, <2>2, RecoveredStep, ReplayFails
    <2>4. ~Recovered(image, log).ok
      <3>1. pos + 1 \in Nat /\ pos + 1 <= Len(log)  BY <1>2, <2>1
      <3> QED  BY <1>2, <2>3, <3>1, RecoveredFails
    <2> QED  BY <1>1, <2>4 DEF FilesDecode
  <1>4. phase' # "failed"
    BY <1>1, <1>3, ZenonT(40)
    DEF FilesDecode, Next, LocalStep, vars, Request, ClientStep, SnapshotStep, OpenStep, Rest,
        CreateTable, DropTable, InsertLookup, InsertMany, InsertManyRejects, Encode, AppendWal,
        AppendFails, SnapshotLock, SnapshotCollect, SnapshotGuard, SnapshotWrite, SnapshotReset,
        SnapshotFails, BytesLock, BytesEncode, Crash, OpenSnapshot, OpenSkip, OpenApply,
        OpenDone
  <1>5. Recovered(image', log').ok
    <2>1. ASSUME NEW c \in Clients, AppendWal(c) PROVE Recovered(image', log').ok
      <3>1. PICK change \in Changes : Recovered(image', log')
                 = [ok |-> TRUE, view |-> Apply(Recovered(image, log).view, change)]
        BY <1>1, <2>1, AppendRecovered
      <3> QED  BY <3>1
    <2>2. CASE SnapshotWrite  BY <2>2, WriteRecovered
    <2>3. CASE SnapshotReset
      <3>1. Recovered(image', log') = Recovered(image, log)  BY <2>3, ResetRecovered
      <3> QED  BY <1>1, <3>1 DEF FilesDecode
    <2>4. CASE UNCHANGED <<log, image>>
      <3>1. Recovered(image', log') = Recovered(image, log)  BY <2>4
      <3> QED  BY <1>1, <3>1 DEF FilesDecode
    <2> QED  BY <2>1, <2>2, <2>3, <2>4, FileSteps
  <1> QED  BY <1>4, <1>5 DEF FilesDecode

\* The first step of a request changes the tables of its own name only, and adds
\* that name to those its kind is about.
LEMMA RequestEffects ==
  ASSUME TypeInv, NEW c \in Clients, Request(c), Clean'
  PROVE  \E t \in Tables :
           /\ UNCHANGED <<phase, log, image, snapper>> /\ phase = "up"
           /\ \A u \in Tables \ {t} : tables'[u] = tables[u] /\ View'.rows[u] = View.rows[u]
           /\ \A d \in Clients \ {c} : pc'[d] = pc[d] /\ op'[d] = op[d]
           /\ ~InFlight(c) /\ ~Unlogged(c) /\ op'[c].table = t
           /\ \/ /\ Starts(c, t, "create") /\ View'.rows[t] = NoRows
                 /\ tables[t] = 0 /\ tables'[t] \in Nat /\ tables'[t] # 0
                 /\ \A d \in Clients \ {c} : InFlight(d) => op[d].table # t
              \/ /\ Starts(c, t, "drop") /\ View'.rows[t] = NoRows
                 /\ tables[t] # 0 /\ tables'[t] = 0
                 /\ \A d \in Clients \ {c} : InFlight(d) => op[d].table # t
              \/ /\ Starts(c, t, "insert") /\ View' = View /\ tables' = tables
                 /\ pc'[c] = "insert"
  <1> USE DEF TypeInv
  <1>1. PICK t \in Tables : CreateTable(c, t) \/ DropTable(c, t) \/ InsertLookup(c, t)
    BY DEF Request
  <1>2. /\ UNCHANGED <<phase, log, image, snapper>> /\ phase = "up"
        /\ \A u \in Tables \ {t} : tables'[u] = tables[u]
        /\ \A d \in Clients \ {c} : pc'[d] = pc[d] /\ op'[d] = op[d]
        /\ ~InFlight(c) /\ ~Unlogged(c) /\ op'[c].table = t
    BY <1>1, SMTT(30)
    DEF CreateTable, DropTable, InsertLookup, Serve, mem, disk, TypeOK, InFlight, Unlogged
  <1>3. ASSUME NEW u \in Tables \ {t} PROVE View'.rows[u] = View.rows[u]
    <2>1. tables[u] # 0 => HandleOf(u) \in Handles /\ HandleOf(u)[1] = u
      BY BoundsAssumption DEF HandleOf, Handles, Gens, TypeOK
    <2>2. tables[u] # 0 => heap'[HandleOf(u)] = heap[HandleOf(u)]
      BY <1>1, <2>1 DEF CreateTable, DropTable, InsertLookup, TypeOK, mem, HandleOf
    <2> QED  BY <1>2, <2>2 DEF View, HandleOf
  <1>4. CASE CreateTable(c, t)
    <2>1. <<t, gen[t] + 1>> \in Handles
      BY <1>4, BoundsAssumption DEF CreateTable, Handles, Gens, TypeOK
    <2>2. /\ tables[t] = 0 /\ tables'[t] = gen[t] + 1 /\ gen[t] \in Nat
          /\ heap'[<<t, gen[t] + 1>>] = NoRows
      BY <1>4, <2>1 DEF CreateTable, TypeOK
    <2>3. View'.rows[t] = NoRows  BY <2>2 DEF View, HandleOf
    <2>4. ~InsertLookup(c, t) /\ Starts(c, t, "create")
      BY <1>4, RequestStarts DEF Starts
    <2>5. \A d \in Clients \ {c} : InFlight(d) => op[d].table # t  BY <1>1, <2>4, StartsApart
    <2> QED  BY <1>2, <1>3, <2>2, <2>3, <2>4, <2>5
  <1>5. CASE DropTable(c, t)
    <2>1. tables[t] # 0 /\ tables'[t] = 0  BY <1>5 DEF DropTable, TypeOK
    <2>2. View'.rows[t] = NoRows  BY <2>1 DEF View
    <2>3. ~InsertLookup(c, t) /\ Starts(c, t, "drop")
      BY <1>5, RequestStarts DEF Starts
    <2>4. \A d \in Clients \ {c} : InFlight(d) => op[d].table # t  BY <1>1, <2>3, StartsApart
    <2> QED  BY <1>2, <1>3, <2>1, <2>2, <2>3, <2>4
  <1>6. CASE InsertLookup(c, t)
    <2>1. tables' = tables /\ heap' = heap /\ pc'[c] = "insert"
      BY <1>6 DEF InsertLookup, mem, TypeOK
    <2>2. View' = View  BY <2>1 DEF View, HandleOf
    <2> QED  BY <1>2, <1>3, <1>6, <2>1, <2>2, RequestStarts
  <1> QED  BY <1>1, <1>4, <1>5, <1>6

\* What is served and not on its way to the log is in the files.
LEMMA NamesStoredNext ==
  ASSUME Base, Decoding, Clean, ~unbacked, [Next]_vars, Clean', ~unbacked'
  PROVE  NamesStored'
  <1> USE DEF Base, TypeInv
  <1>1. RequestsApart /\ RequestTables /\ FilesDecode /\ NamesStored /\ NamesCaptured /\ LoadingExact
    BY DEF Decoding
  \* The usual case: nothing more is served, or it is being created.
  <1>2. ASSUME phase = "up",
               \A t \in Tables : tables'[t] # 0 /\ t \notin Doing("create")'
                                   => tables[t] # 0 /\ t \notin Doing("create"),
               Recovered(image, log).view.names \subseteq Recovered(image', log').view.names
        PROVE  NamesStored'
    BY <1>1, <1>2 DEF NamesStored
  <1>3. ASSUME NEW c \in Clients, Request(c) PROVE NamesStored'
    <2>1. PICK t \in Tables :
           /\ UNCHANGED <<log, image>> /\ phase = "up"
           /\ \A u \in Tables \ {t} : tables'[u] = tables[u]
           /\ \/ Starts(c, t, "create")
              \/ Starts(c, t, "drop") /\ tables'[t] = 0
              \/ Starts(c, t, "insert") /\ tables' = tables
      BY <1>3, RequestEffects
    <2>2. Recovered(image', log') = Recovered(image, log)  BY <2>1
    <2>3. CASE Starts(c, t, "create")
      <3>1. Doing("create")' = Doing("create") \cup {t}  BY <2>3, DoingStarts
      <3> QED  BY <1>2, <2>1, <2>2, <3>1
    <2>4. CASE \/ Starts(c, t, "drop") /\ tables'[t] = 0
               \/ Starts(c, t, "insert") /\ tables' = tables
      <3>1. Doing("create")' = Doing("create")  BY <2>4, DoingStarts
      <3> QED  BY <1>2, <2>1, <2>2, <2>4, <3>1
    <2> QED  BY <2>1, <2>3, <2>4
  <1>4. ASSUME NEW c \in Clients,
               InsertMany(c) \/ InsertManyRejects(c) \/ Encode(c) \/ AppendFails(c)
        PROVE  NamesStored'
    <2>1. /\ UNCHANGED <<tables, log, image>> /\ op[c].kind # "create" /\ phase = "up"
      <3>1. CASE InsertMany(c) \/ InsertManyRejects(c) \/ Encode(c)
        BY <3>1 DEF InsertMany, InsertManyRejects, PushRow, Encode, mem, disk, ThreadsOK
      <3>2. CASE AppendFails(c)
        <4>1. op[c].kind # "create"  BY <3>2, UnbackedSteps DEF Decoding
        <4> QED  BY <3>2, <4>1 DEF AppendFails, mem, disk, ThreadsOK
      <3> QED  BY <1>4, <3>1, <3>2
    <2>2. Moves(c) \/ Ends(c)  BY <1>4, RequestMoves
    <2>3. Doing("create")' = Doing("create")  BY <2>1, <2>2, DoingMoves, DoingEnds
    <2>4. Recovered(image', log') = Recovered(image, log)  BY <2>1
    <2> QED  BY <1>2, <2>1, <2>3, <2>4
  <1>5. ASSUME NEW c \in Clients, AppendWal(c) PROVE NamesStored'
    <2>1. /\ tables' = tables /\ phase = "up" /\ Ends(c) /\ InFlight(c)
      BY <1>5, RequestMoves DEF AppendWal, mem, ThreadsOK, InFlight
    <2>2. PICK change \in Changes :
            /\ change.kind = op[c].kind /\ change.table = op[c].table
            /\ Recovered(image', log')
                 = [ok |-> TRUE, view |-> Apply(Recovered(image, log).view, change)]
      BY <1>1, <1>5, AppendRecovered
    <2>3. Recovered(image, log).view \in Views
      BY ImageTidy, RecoveredTyped DEF HandlesOK, TypeOK
    <2> DEFINE old == Recovered(image, log).view
    <2>4. Recovered(image', log').view.names = Apply(old, change).names  BY <2>2
    <2> HIDE DEF old
    <2>5. ASSUME NEW t \in Tables, tables[t] # 0, t \notin Doing("create")'
          PROVE  t \in Apply(old, change).names
      <3>1. CASE change.kind = "create"
        <4>1. Doing("create")' = Doing("create") \ {change.table}
          BY <1>1, <2>1, <2>2, <3>1, DoingEnds
        <4>2. t = change.table \/ t \in old.names
          BY <1>1, <2>1, <2>5, <4>1 DEF NamesStored, old
        <4> QED  BY <2>3, <3>1, <4>2, Applied DEF old
      <3>2. CASE change.kind # "create"
        <4>1. Doing("create")' = Doing("create")  BY <2>1, <2>2, <3>2, DoingEnds
        <4>2. t \in old.names  BY <1>1, <2>1, <2>5, <4>1 DEF NamesStored, old
        <4>3. change.kind = "drop" => t # change.table
          BY <1>1, <2>1, <2>2, <2>5 DEF RequestTables
        <4> QED  BY <2>3, <3>2, <4>2, <4>3, Applied, ZenonT(40) DEF old
      <3> QED  BY <3>1, <3>2
    <2> QED  BY <2>1, <2>4, <2>5 DEF NamesStored
  <1>7. ASSUME UNCHANGED <<pc, op, tables, phase>>, SnapshotReset \/ UNCHANGED <<log, image>>
        PROVE  NamesStored'
    <2>1. Recovered(image', log') = Recovered(image, log)  BY <1>7, ResetRecovered
    <2>2. Doing("create")' = Doing("create")  BY <1>7 DEF Doing, InFlight
    <2> QED  BY <1>1, <1>7, <2>1, <2>2 DEF NamesStored
  <1>8. CASE SnapshotLock \/ SnapshotStep \/ SnapshotFails \/ BytesLock \/ BytesEncode
             \/ UNCHANGED vars
    <2>1. CASE SnapshotWrite  BY <2>1, FilesBacked
    <2>2. CASE ~SnapshotWrite
      BY <1>7, <1>8, <2>2
      DEF SnapshotLock, SnapshotStep, SnapshotCollect, SnapshotGuard, SnapshotReset,
          SnapshotFails, BytesLock, BytesEncode, vars, mem, threads, disk
    <2> QED  BY <2>1, <2>2
  <1>9. CASE OpenDone  BY <1>9, FilesBacked
  <1>10. ASSUME phase' # "up" PROVE NamesStored'  BY <1>10 DEF NamesStored
  <1> QED  BY <1>3, <1>4, <1>5, <1>8, <1>9, <1>10, ThreadsRest DEF ClientStep

\* The handles that snapshot copies hold every table that is served and not on its
\* way to the log, and no other but those a DROP is taking away.
LEMMA NamesCapturedNext ==
  ASSUME Base, Decoding, Clean, [Next]_vars, Clean'
  PROVE  (NamesCaptured /\ HandlesCurrent)'
  <1> USE DEF Base, TypeInv
  <1>1. RequestsApart /\ RequestTables /\ NamesCaptured /\ HandlesCurrent
    BY DEF Decoding
  <1> DEFINE Part == NamesCaptured /\ HandlesCurrent
  <1> SUFFICES Part'  OBVIOUS
  <1>2. ASSUME snapper'.pc \notin {"guard", "reset"} PROVE Part'
    BY <1>2 DEF NamesCaptured, HandlesCurrent
  <1>3. ASSUME snapper' = snapper, tables' = tables,
               Doing("create")' = Doing("create"), Doing("drop")' = Doing("drop")
        PROVE  Part'
    BY <1>1, <1>3 DEF NamesCaptured, HandlesCurrent, HandleOf
  <1>4. ASSUME NEW c \in Clients, Request(c) PROVE Part'
    <2>1. PICK t \in Tables :
           /\ UNCHANGED snapper
           /\ \A u \in Tables \ {t} : tables'[u] = tables[u]
           /\ \/ Starts(c, t, "create") /\ tables[t] = 0
                 /\ \A d \in Clients \ {c} : InFlight(d) => op[d].table # t
              \/ Starts(c, t, "drop") /\ tables'[t] = 0
              \/ Starts(c, t, "insert") /\ tables' = tables
      BY <1>4, RequestEffects
    <2>2. CASE Starts(c, t, "create")
      <3>1. Doing("create")' = Doing("create") \cup {t} /\ Doing("drop")' = Doing("drop")
        BY <2>2, DoingStarts
      <3>2. tables[t] = 0 /\ t \notin Doing("drop")
        BY <2>1, <2>2 DEF Starts, Doing
      <3>3. NamesCaptured'
        BY <1>1, <2>1, <3>1 DEF NamesCaptured, HandleOf
      <3>4. ASSUME snapper.pc \in {"guard", "reset"}, NEW h \in snapper.handles
            PROVE  tables'[h[1]] = h[2] \/ h[1] \in Doing("drop")'
        <4>1. h[1] \in Tables /\ h[2] # 0  BY <3>4 DEF TypeOK, Handles, Gens
        <4>2. tables[h[1]] = h[2] \/ h[1] \in Doing("drop")  BY <1>1, <3>4 DEF HandlesCurrent
        <4>3. h[1] # t  BY <3>2, <4>1, <4>2
        <4> QED  BY <2>1, <3>1, <4>1, <4>2, <4>3
      <3>5. HandlesCurrent'  BY <2>1, <3>4 DEF HandlesCurrent
      <3> QED  BY <3>3, <3>5
    <2>3. CASE Starts(c, t, "drop") /\ tables'[t] = 0
      <3>1. Doing("create")' = Doing("create") /\ Doing("drop")' = Doing("drop") \cup {t}
        BY <2>3, DoingStarts
      <3>2. NamesCaptured'  BY <1>1, <2>1, <2>3, <3>1 DEF NamesCaptured, HandleOf
      <3>3. ASSUME snapper.pc \in {"guard", "reset"}, NEW h \in snapper.handles
            PROVE  tables'[h[1]] = h[2] \/ h[1] \in Doing("drop")'
        <4>1. h[1] \in Tables  BY <3>3 DEF TypeOK, Handles
        <4> QED  BY <1>1, <2>1, <3>1, <3>3, <4>1 DEF HandlesCurrent
      <3>4. HandlesCurrent'  BY <2>1, <3>3 DEF HandlesCurrent
      <3> QED  BY <3>2, <3>4
    <2>4. CASE Starts(c, t, "insert") /\ tables' = tables
      <3>1. Doing("create")' = Doing("create") /\ Doing("drop")' = Doing("drop")
        BY <2>4, DoingStarts
      <3> QED  BY <1>3, <2>1, <2>4, <3>1
    <2> QED  BY <2>1, <2>2, <2>3, <2>4
  <1>5. ASSUME NEW c \in Clients, InsertMany(c) \/ InsertManyRejects(c) \/ Encode(c)
        PROVE  Part'
    <2>1. UNCHANGED <<tables, snapper>> /\ op[c].kind = "insert"
      BY <1>5 DEF InsertMany, InsertManyRejects, PushRow, Encode, mem, ThreadsOK
    <2>2. Moves(c) \/ Ends(c)  BY <1>5, RequestMoves
    <2>3. Doing("create")' = Doing("create") /\ Doing("drop")' = Doing("drop")
      BY <2>1, <2>2, DoingMoves, DoingEnds
    <2> QED  BY <1>3, <2>1, <2>3
  <1>6. ASSUME NEW c \in Clients, AppendWal(c) \/ AppendFails(c) PROVE Part'
    BY <1>2, <1>6 DEF AppendWal, AppendFails, WalFree
  <1>7. CASE SnapshotCollect
    <2>1. UNCHANGED <<tables, pc, op>> /\ snapper'.handles = {HandleOf(t) : t \in View.names}
      BY <1>7 DEF SnapshotCollect, mem, threads, TypeOK
    <2>2. \A t \in Tables : tables[t] # 0 => HandleOf(t) \in snapper'.handles
      BY <2>1 DEF View
    <2>3. \A h \in snapper'.handles : tables[h[1]] = h[2]  BY <2>1 DEF HandleOf
    <2> QED  BY <2>1, <2>2, <2>3 DEF NamesCaptured, HandlesCurrent, HandleOf
  <1>8. ASSUME UNCHANGED <<tables, pc, op>>, snapper'.handles = snapper.handles,
               snapper.pc \in {"guard", "reset"} \/ snapper' = snapper
        PROVE  Part'
    <2>1. Doing("create")' = Doing("create") /\ Doing("drop")' = Doing("drop")
      BY <1>8 DEF Doing, InFlight
    <2> QED  BY <1>1, <1>8, <2>1 DEF NamesCaptured, HandlesCurrent, HandleOf
  <1>9. CASE SnapshotWrite \/ (\E h \in Handles : SnapshotGuard(h)) \/ UNCHANGED vars
    BY <1>8, <1>9 DEF SnapshotWrite, SnapshotGuard, vars, mem, threads, TypeOK
  <1>10. CASE SnapshotLock \/ SnapshotReset \/ SnapshotFails \/ BytesLock \/ BytesEncode
    <2>1. SnapshotLock \/ BytesLock => snapper'.pc = "collect"
      BY DEF SnapshotLock, BytesLock, NoSnapper
    <2>2. SnapshotReset \/ SnapshotFails \/ BytesEncode => snapper'.pc = "idle"
      BY DEF SnapshotReset, SnapshotFails, BytesEncode, NoSnapper
    <2> QED  BY <1>2, <1>10, <2>1, <2>2
  <1>11. CASE OpenDone
    <2>1. snapper' = snapper /\ snapper.pc = "idle"
      BY <1>11, NobodyWhenDown DEF OpenDone
    <2> QED  BY <1>2, <2>1
  <1>12. ASSUME snapper'.pc = "idle" PROVE Part'  BY <1>2, <1>12
  <1> HIDE DEF Part
  <1> HIDE DEF Part
  <1>13. CASE SnapshotLock \/ SnapshotStep \/ SnapshotFails \/ BytesLock \/ BytesEncode
              \/ UNCHANGED vars
    BY <1>7, <1>9, <1>10, <1>13 DEF SnapshotStep
  <1>14. CASE \E c \in Clients : Request(c) \/ ClientStep(c)
    BY <1>4, <1>5, <1>6, <1>14 DEF ClientStep
  <1> QED  BY <1>11, <1>12, <1>13, <1>14, ThreadsRest

-----------------------------------------------------------------------------
(* RecoveryExact, table by table. *)

\* A table is served where view and the requests under way say so ...
ExactName(view, t) ==
    tables[t] # 0 <=> (t \in view.names /\ t \notin Doing("drop")) \/ t \in Doing("create")

\* ... with the rows they say.
ExactRows(view, t) ==
    IF t \in Doing("drop") \cup Doing("create") THEN View.rows[t] = NoRows
    ELSE \A r \in Rows : View.rows[t][r] = view.rows[t][r] + IF PendingRow(t, r) THEN 1 ELSE 0

Exact(view) == \A t \in Tables : ExactName(view, t) /\ ExactRows(view, t)

Exactness ==
    phase = "up" /\ Clean /\ ~straddled /\ ~leftover => Exact(Recovered(image, log).view)

\* Table by table is the whole catalogue.
LEMMA ExactIsPending ==
  ASSUME TypeOK, NEW view \in Views, Exact(view)
  PROVE  View = WithPending(view)
  <1>1. /\ View \in Views /\ View = [names |-> View.names, rows |-> View.rows]
        /\ View.names \in SUBSET Tables /\ View.rows \in [Tables -> [Rows -> Nat]]
        /\ view.names \in SUBSET Tables
    BY ViewTyped DEF Views, Bags
  <1>2. \A t \in Tables : t \in View.names <=> tables[t] # 0  BY DEF View
  <1>3. \A k : Doing(k) \subseteq Tables  BY DEF Doing, TypeOK, Ops
  <1>4. View.names = (view.names \ Doing("drop")) \cup Doing("create")
    BY <1>1, <1>2, <1>3 DEF Exact, ExactName
  <1>5. ASSUME NEW t \in Tables
        PROVE  View.rows[t] = IF t \in Doing("drop") \cup Doing("create") THEN NoRows
                              ELSE [r \in Rows |-> view.rows[t][r] + IF PendingRow(t, r) THEN 1 ELSE 0]
    <2>1. View.rows[t] = [r \in Rows |-> View.rows[t][r]]  BY <1>1
    <2>2. ExactRows(view, t)  BY DEF Exact
    <2> QED  BY <2>1, <2>2 DEF ExactRows
  <1>6. View.rows = [t \in Tables |-> View.rows[t]]  BY <1>1
  <1>7. View.rows = [t \in Tables |->
                      IF t \in Doing("drop") \cup Doing("create") THEN NoRows
                      ELSE [r \in Rows |-> view.rows[t][r] + IF PendingRow(t, r) THEN 1 ELSE 0]]
    BY <1>5, <1>6
  <1> QED  BY <1>1, <1>4, <1>7 DEF WithPending

\* A step that touches nothing of t keeps t exact.
LEMMA ExactSame ==
  ASSUME NEW t, NEW v, NEW w, ExactName(v, t), ExactRows(v, t),
         t \in w.names <=> t \in v.names, w.rows[t] = v.rows[t],
         tables'[t] = tables[t], View'.rows[t] = View.rows[t],
         t \in Doing("create")' <=> t \in Doing("create"),
         t \in Doing("drop")' <=> t \in Doing("drop"),
         \A r \in Rows : PendingRow(t, r)' <=> PendingRow(t, r)
  PROVE  ExactName(w, t)' /\ ExactRows(w, t)'
  <1>1. ExactName(w, t)'  BY DEF ExactName
  <1>2. ExactRows(w, t)'  BY DEF ExactRows
  <1> QED  BY <1>1, <1>2

\* The histories are never unsaid.
LEMMA SpoiledStays ==
  ASSUME TypeOK, [Next]_vars, ~straddled', ~leftover'
  PROVE  ~straddled /\ ~leftover
  <1>1. straddled \in BOOLEAN /\ leftover \in BOOLEAN  BY DEF TypeOK
  <1>2. straddled # TRUE /\ leftover # TRUE  BY HistoriesStay
  <1> QED  BY <1>1, <1>2, Zenon

\* A request that begins keeps memory and files together.
LEMMA ExactRequest ==
  ASSUME TypeInv, NEW c \in Clients, Request(c), Clean', NEW v, Exact(v)
  PROVE  Exact(v)'
  <1>1. PICK t \in Tables :
           /\ \A u \in Tables \ {t} : tables'[u] = tables[u] /\ View'.rows[u] = View.rows[u]
           /\ \A d \in Clients \ {c} : pc'[d] = pc[d] /\ op'[d] = op[d]
           /\ ~InFlight(c) /\ ~Unlogged(c) /\ op'[c].table = t
           /\ \/ /\ Starts(c, t, "create") /\ View'.rows[t] = NoRows /\ tables'[t] # 0
              \/ /\ Starts(c, t, "drop") /\ View'.rows[t] = NoRows /\ tables'[t] = 0
                 /\ \A d \in Clients \ {c} : InFlight(d) => op[d].table # t
              \/ /\ Starts(c, t, "insert") /\ View' = View /\ tables' = tables
                 /\ pc'[c] = "insert"
    BY RequestEffects
  <1>2. PICK kind : Starts(c, t, kind) /\ kind \in {"create", "drop", "insert"}  BY <1>1
  <1>3. \A u \in Tables \ {t} : /\ u \in Doing("create")' <=> u \in Doing("create")
                                /\ u \in Doing("drop")' <=> u \in Doing("drop")
    BY <1>2, DoingStarts
  <1>4. \A u \in Tables \ {t} : \A r \in Rows : PendingRow(u, r)' <=> PendingRow(u, r)
    BY <1>1 DEF PendingRow, Unlogged
  <1>5. ASSUME NEW u \in Tables \ {t} PROVE ExactName(v, u)' /\ ExactRows(v, u)'
    <2>1. ExactName(v, u) /\ ExactRows(v, u)  BY DEF Exact
    <2> QED  BY <1>1, <1>3, <1>4, <2>1, ExactSame
  <1>6. ExactName(v, t)' /\ ExactRows(v, t)'
    <2>1. CASE Starts(c, t, "create") /\ View'.rows[t] = NoRows /\ tables'[t] # 0
      <3>1. t \in Doing("create")'  BY <2>1, DoingStarts
      <3> QED  BY <2>1, <3>1 DEF ExactName, ExactRows
    <2>2. CASE Starts(c, t, "drop") /\ View'.rows[t] = NoRows /\ tables'[t] = 0
               /\ \A d \in Clients \ {c} : InFlight(d) => op[d].table # t
      <3>1. t \in Doing("drop")'  BY <2>2, DoingStarts
      <3>2. t \notin Doing("create")  BY <1>1, <2>2 DEF Doing
      <3>3. t \notin Doing("create")'  BY <2>2, <3>2, DoingStarts
      <3> QED  BY <2>2, <3>1, <3>3 DEF ExactName, ExactRows
    <2>3. CASE Starts(c, t, "insert") /\ View' = View /\ tables' = tables /\ pc'[c] = "insert"
      <3>1. Doing("create")' = Doing("create") /\ Doing("drop")' = Doing("drop")
        BY <2>3, DoingStarts
      <3>2. \A r \in Rows : PendingRow(t, r)' <=> PendingRow(t, r)
        BY <1>1, <2>3 DEF PendingRow, Unlogged
      <3>3. ExactName(v, t) /\ ExactRows(v, t)  BY DEF Exact
      <3> QED  BY <2>3, <3>1, <3>2, <3>3, ExactSame
    <2> QED  BY <1>1, <2>1, <2>2, <2>3
  <1> QED  BY <1>5, <1>6 DEF Exact

\* A row that reaches its table is pending until it is logged.
LEMMA ExactInsert ==
  ASSUME TypeInv, NewRows, RequestsApart, RequestTables, NEW c \in Clients, InsertMany(c),
         NEW v \in Views, Exact(v)
  PROVE  Exact(v)'
  <1> USE DEF TypeInv
  <1>0. PICK t \in Tables, n \in Rows : t = op[c].table /\ n = op[c].row
    BY DEF InsertMany, PushRow, ThreadsOK, TypeOK, Ops
  <1>1. /\ pc[c] = "insert" /\ op[c].kind = "insert" /\ t \in Tables /\ n \in Rows
        /\ op[c].gen \in Gens /\ <<t, op[c].gen>> \in Handles /\ InFlight(c)
        /\ op' = op /\ tables' = tables /\ pc' = [pc EXCEPT ![c] = "encode"]
        /\ heap' = [heap EXCEPT ![<<t, op[c].gen>>] = AddRow(heap[<<t, op[c].gen>>], n)]
    BY <1>0 DEF InsertMany, PushRow, ThreadsOK, TypeOK, Ops, Handles, InFlight
  <1>2. tables[t] = op[c].gen /\ tables[t] # 0
    BY <1>0, <1>1 DEF RequestTables, Gens
  <1>3. t \notin Doing("drop") /\ t \notin Doing("create")
    BY <1>0, <1>1 DEF Doing, RequestsApart
  <1>4. Doing("create")' = Doing("create") /\ Doing("drop")' = Doing("drop")
    BY RequestMoves, DoingMoves
  <1>5. /\ ~PendingRow(t, n) /\ PendingRow(t, n)'
        /\ \A u \in Tables, r \in Rows : u # t \/ r # n => (PendingRow(u, r)' <=> PendingRow(u, r))
    <2>1. \A d \in Clients \ {c} : op[d].kind = "insert" => op[d].row # n
      BY <1>0, <1>1 DEF NewRows
    <2>2. Unlogged(c)' /\ ~Unlogged(c) /\ \A d \in Clients \ {c} : Unlogged(d)' <=> Unlogged(d)
      BY <1>1 DEF Unlogged, TypeOK
    <2> QED  BY <1>0, <1>1, <2>1, <2>2 DEF PendingRow
  <1>6. ASSUME NEW u \in Tables, u # t PROVE View'.rows[u] = View.rows[u]
    <2>1. tables[u] # 0 => HandleOf(u) \in Handles /\ HandleOf(u) # <<t, op[c].gen>>
      BY <1>6, BoundsAssumption DEF HandleOf, Handles, Gens, TypeOK
    <2>2. tables[u] # 0 => heap'[HandleOf(u)] = heap[HandleOf(u)]
      BY <1>1, <2>1 DEF TypeOK
    <2> QED  BY <1>1, <2>2 DEF View, HandleOf
  <1>7. View'.rows[t] = AddRow(View.rows[t], n)
    <2>1. heap'[<<t, op[c].gen>>] = AddRow(heap[<<t, op[c].gen>>], n)  BY <1>1 DEF TypeOK
    <2> QED  BY <1>1, <1>2, <2>1 DEF View, HandleOf
  <1>8. View.rows[t] \in [Rows -> Nat] /\ v.rows[t] \in [Rows -> Nat]
    BY <1>1, ViewTyped DEF Views, Bags
  <1>9. ASSUME NEW u \in Tables, u # t PROVE ExactName(v, u)' /\ ExactRows(v, u)'
    <2>1. ExactName(v, u) /\ ExactRows(v, u)  BY DEF Exact
    <2> QED  BY <1>1, <1>4, <1>5, <1>6, <1>9, <2>1, ExactSame
  <1>10. ExactName(v, t)'
    <2>1. ExactName(v, t)  BY <1>1 DEF Exact
    <2> QED  BY <1>1, <1>4, <2>1 DEF ExactName
  <1>11. ExactRows(v, t)'
    <2>1. ASSUME NEW r \in Rows
          PROVE  View'.rows[t][r] = v.rows[t][r] + IF PendingRow(t, r)' THEN 1 ELSE 0
      <3>1. View.rows[t][r] = v.rows[t][r] + IF PendingRow(t, r) THEN 1 ELSE 0
        BY <1>1, <1>3 DEF Exact, ExactRows
      <3>2. View.rows[t][r] \in Nat /\ v.rows[t][r] \in Nat  BY <1>8
      <3>3. CASE r = n
        <4>1. View'.rows[t][r] = View.rows[t][r] + 1  BY <1>7, <1>8, <3>3 DEF AddRow
        <4> QED  BY <1>5, <3>1, <3>2, <3>3, <4>1
      <3>4. CASE r # n
        <4>1. View'.rows[t][r] = View.rows[t][r]  BY <1>7, <1>8, <3>4 DEF AddRow
        <4> QED  BY <1>1, <1>5, <3>1, <3>4, <4>1
      <3> QED  BY <3>3, <3>4
    <2> QED  BY <1>3, <1>4, <2>1 DEF ExactRows
  <1> QED  BY <1>9, <1>10, <1>11 DEF Exact

\* A change that is logged is pending no more.
LEMMA ExactAppend ==
  ASSUME TypeInv, NewRows, RequestsApart, RequestTables, NEW c \in Clients, AppendWal(c),
         NEW v \in Views, Exact(v), NEW change \in Changes,
         change.kind = op[c].kind, change.table = op[c].table, change.row = op[c].row
  PROVE  Exact(Apply(v, change))'
  <1> USE DEF TypeInv
  <1> DEFINE t == change.table
             w == Apply(v, change)
  <1>1. /\ UNCHANGED <<tables, heap>> /\ Unlogged(c) /\ InFlight(c) /\ ~Unlogged(c)' /\ Ends(c)
        /\ op[c].gen \in Nat /\ (op[c].kind \in {"create", "insert"} => op[c].gen # 0)
    <2>1. UNCHANGED <<tables, heap>> /\ Unlogged(c) /\ InFlight(c)
      BY DEF AppendWal, mem, Unlogged, InFlight
    <2>2. ~Unlogged(c)' /\ Ends(c)
      BY RequestMoves DEF AppendWal, Finish, Unlogged, TypeOK
    <2>3. op[c].gen \in Nat /\ (op[c].kind \in {"create", "insert"} => op[c].gen # 0)
      BY DEF TypeOK, Ops, ThreadsOK, Gens
    <2> QED  BY <2>1, <2>2, <2>3
  <1>2. View' = View  BY <1>1 DEF View, HandleOf
  <1>3. \A d \in Clients \ {c} : (InFlight(d)' <=> InFlight(d)) /\ (Unlogged(d)' <=> Unlogged(d))
                                 /\ op'[d] = op[d]
    BY <1>1 DEF Ends, Others, InFlight, Unlogged
  <1>4. \A u \in Tables : u # t => \A r \in Rows : PendingRow(u, r)' <=> PendingRow(u, r)
    BY <1>1, <1>3 DEF PendingRow
  <1>5. \A u \in Tables : u # t => /\ u \in Doing("create")' <=> u \in Doing("create")
                                   /\ u \in Doing("drop")' <=> u \in Doing("drop")
    BY <1>1, DoingEnds
  <1>6. /\ t \in Tables
        /\ change.kind \in {"create", "drop"} =>
              w.rows = [v.rows EXCEPT ![t] = NoRows]
        /\ change.kind = "create" => w.names = v.names \cup {t}
        /\ change.kind = "drop" => w.names = v.names \ {t}
        /\ change.kind = "insert" =>
              /\ change.row \in Rows /\ w.names = v.names
              /\ w.rows = [v.rows EXCEPT ![t] = AddRow(v.rows[t], change.row)]
        /\ change.kind \in {"create", "drop", "insert"}
        /\ v.rows \in [Tables -> [Rows -> Nat]]
    BY Applied DEF Views, Bags
  <1>7. \A d \in Clients \ {c} :
           InFlight(d) /\ op[d].table = t => op[d].kind = "insert" /\ change.kind = "insert"
    BY <1>1 DEF RequestsApart
  <1>8. tables[t] = IF change.kind = "drop" THEN 0 ELSE op[c].gen
    BY <1>1 DEF RequestTables
  <1>14. ExactName(v, t) /\ ExactRows(v, t)  BY <1>6 DEF Exact
  <1>15. t \notin Doing("drop")' /\ t \notin Doing("create")'
    <2>1. ASSUME NEW d \in Clients, InFlight(d)', op'[d].table = t PROVE op'[d].kind = "insert"
      <3>1. d # c  BY <1>1, <2>1 DEF Ends
      <3> QED  BY <1>3, <1>7, <2>1, <3>1
    <2> HIDE DEF t
    <2> QED  BY <2>1 DEF Doing
  <1> HIDE DEF w
  <1>9. ASSUME NEW u \in Tables, u # t PROVE ExactName(w, u)' /\ ExactRows(w, u)'
    <2>1. ExactName(v, u) /\ ExactRows(v, u)  BY DEF Exact
    <2>2. (u \in w.names <=> u \in v.names) /\ w.rows[u] = v.rows[u]  BY <1>6, <1>9
    <2> HIDE DEF t
    <2> QED  BY <1>1, <1>2, <1>4, <1>5, <1>9, <2>1, <2>2, ExactSame
  <1>10. ASSUME change.kind \in {"create", "drop"} PROVE ExactName(w, t)' /\ ExactRows(w, t)'
    <2>1. t \in Doing("create") \cup Doing("drop")  BY <1>1, <1>10 DEF Doing
    <2>2. View.rows[t] = NoRows  BY <1>14, <2>1 DEF ExactRows
    <2>3. \A r : ~PendingRow(t, r)'
      <3>1. ASSUME NEW d \in Clients, Unlogged(d)' PROVE op'[d].table # t
        <4>1. d # c  BY <1>1, <3>1
        <4>2. Unlogged(d) => InFlight(d)  BY DEF Unlogged, InFlight
        <4> QED  BY <1>3, <1>7, <1>10, <3>1, <4>1, <4>2
      <3> QED  BY <3>1 DEF PendingRow
    <2>4. w.rows[t] = NoRows /\ (t \in w.names <=> change.kind = "create")
      BY <1>6, <1>10
    <2>5. ExactName(w, t)'  BY <1>1, <1>8, <1>10, <1>15, <2>4 DEF ExactName
    <2>6. \A r \in Rows : NoRows[r] = NoRows[r] + 0  BY DEF NoRows
    <2>7. ExactRows(w, t)'  BY <1>2, <1>15, <2>2, <2>3, <2>4, <2>6 DEF ExactRows
    <2> QED  BY <2>5, <2>7
  <1>11. ASSUME change.kind = "insert" PROVE ExactName(w, t)' /\ ExactRows(w, t)'
    <2>1. t \notin Doing("drop") /\ t \notin Doing("create")
      BY <1>1, <1>7, <1>11 DEF Doing
    <2>2. ExactName(w, t)'  BY <1>1, <1>6, <1>11, <1>14, <1>15, <2>1 DEF ExactName
    <2>3. /\ PendingRow(t, change.row) /\ ~PendingRow(t, change.row)'
          /\ \A r \in Rows : r # change.row => (PendingRow(t, r)' <=> PendingRow(t, r))
      <3>1. \A d \in Clients \ {c} : op[d].kind = "insert" => op[d].row # change.row
        BY <1>11 DEF NewRows
      <3> QED  BY <1>1, <1>3, <1>11, <3>1 DEF PendingRow
    <2>4. ASSUME NEW r \in Rows
          PROVE  View.rows[t][r] = w.rows[t][r] + IF PendingRow(t, r)' THEN 1 ELSE 0
      <3>1. View.rows[t][r] = v.rows[t][r] + IF PendingRow(t, r) THEN 1 ELSE 0
        BY <1>14, <2>1 DEF ExactRows
      <3>2. w.rows[t] = AddRow(v.rows[t], change.row) /\ v.rows[t] \in [Rows -> Nat]
        BY <1>6, <1>11
      <3>3. w.rows[t][r] = IF r = change.row THEN v.rows[t][r] + 1 ELSE v.rows[t][r]
        BY <3>2 DEF AddRow
      <3>4. v.rows[t][r] \in Nat  BY <3>2
      <3> HIDE DEF t
      <3> QED  BY <2>3, <3>1, <3>3, <3>4
    <2>5. ExactRows(w, t)'  BY <1>2, <1>15, <2>4 DEF ExactRows
    <2> QED  BY <2>2, <2>5
  <1>12. ExactName(w, t)' /\ ExactRows(w, t)'  BY <1>6, <1>10, <1>11
  <1>13. Exact(w)'
    <2> HIDE DEF t
    <2> QED  BY <1>9, <1>12 DEF Exact
  <1> QED  BY <1>13 DEF w

\* What snapshot captures is what memory holds, but for the requests under way,
\* unless it captures one that is half done.
LEMMA ExactWrite ==
  ASSUME TypeInv, RequestsApart, RequestTables, NamesCaptured, HandlesCurrent,
         snapper.pc = "guard", ~CapturedUnlogged, NEW v, Exact(v)
  PROVE  Exact(Captured)
  <1> USE DEF TypeInv
  <1> SUFFICES ASSUME NEW t \in Tables PROVE ExactName(Captured, t) /\ ExactRows(Captured, t)
    BY DEF Exact
  <1>1. t \in Doing("drop") => tables[t] = 0
    BY DEF Doing, RequestTables
  <1>2. t \in Doing("create") => tables[t] # 0
    BY DEF Doing, RequestTables, ThreadsOK, Gens
  <1>3. \A h \in snapper.handles : h[1] = t /\ t \notin Doing("drop")
                                     => tables[t] = h[2] /\ h = HandleOf(t) /\ tables[t] # 0
    BY DEF HandlesCurrent, HandleOf, TypeOK, Handles, Gens
  <1>4. tables[t] # 0 /\ t \notin Doing("create") => HandleOf(t) \in snapper.handles
    BY DEF NamesCaptured
  <1>5. t \in Captured.names <=> \E h \in snapper.handles : h[1] = t  BY DEF Captured
  <1>6. HandleOf(t)[1] = t  BY DEF HandleOf
  <1>7. ExactName(Captured, t)
    BY <1>1, <1>2, <1>3, <1>4, <1>5, <1>6 DEF ExactName
  <1>8. CASE t \in Doing("drop") \cup Doing("create")
    <2>1. View.rows[t] = NoRows  BY <1>8 DEF Exact, ExactRows
    <2> QED  BY <1>7, <1>8, <2>1 DEF ExactRows
  <1>9. CASE t \notin Doing("drop") \cup Doing("create")
    <2>1. ASSUME NEW r \in Rows PROVE ~PendingRow(t, r)
      <3> SUFFICES ASSUME NEW c \in Clients, Unlogged(c), op[c].kind = "insert", op[c].table = t
                   PROVE  FALSE
        BY DEF PendingRow
      <3>1. tables[t] = op[c].gen /\ op[c].gen # 0
        BY DEF RequestTables, Unlogged, InFlight, ThreadsOK, Gens
      <3>2. <<op[c].table, op[c].gen>> \in snapper.handles
        BY <1>4, <1>9, <3>1 DEF HandleOf
      <3> QED  BY <3>2 DEF CapturedUnlogged
    <2>2. Captured.rows[t] = View.rows[t]
      <3>1. CASE tables[t] # 0
        <4>1. \E h \in snapper.handles : h[1] = t  BY <1>4, <1>6, <1>9, <3>1
        <4>2. (CHOOSE h \in snapper.handles : h[1] = t) \in snapper.handles
              /\ (CHOOSE h \in snapper.handles : h[1] = t)[1] = t
          BY <4>1
        <4>3. (CHOOSE h \in snapper.handles : h[1] = t) = HandleOf(t)  BY <1>3, <1>9, <4>2
        <4> QED  BY <3>1, <4>1, <4>3 DEF Captured, View
      <3>2. CASE tables[t] = 0
        <4>1. ~ \E h \in snapper.handles : h[1] = t  BY <1>3, <1>9, <3>2
        <4> QED  BY <3>2, <4>1 DEF Captured, View
      <3> QED  BY <3>1, <3>2
    <2>3. \A r \in Rows : View.rows[t][r] \in Nat  BY ViewTyped DEF Views, Bags
    <2>4. ExactRows(Captured, t)  BY <1>9, <2>1, <2>2, <2>3 DEF ExactRows
    <2> QED  BY <1>7, <2>4
  <1> QED  BY <1>8, <1>9

\* Where nothing is under way, a catalogue is exactly itself.
LEMMA ExactItself ==
  ASSUME TypeOK, NobodyIn
  PROVE  Exact(View)
  <1>1. \A k : Doing(k) = {}  BY DoingNobody
  <1>2. \A t, r : ~PendingRow(t, r)  BY DoingNobody
  <1>3. \A t \in Tables : \A r \in Rows : View.rows[t][r] \in Nat  BY ViewTyped DEF Views, Bags
  <1>4. \A t \in Tables : tables[t] # 0 <=> t \in View.names  BY DEF View
  <1> QED  BY <1>1, <1>2, <1>3, <1>4 DEF Exact, ExactName, ExactRows

\* Memory and files stay together through every step.
LEMMA ExactnessNext ==
  ASSUME Base, Decoding, Exactness, [Next]_vars
  PROVE  Exactness'
  <1> USE DEF Base, TypeInv
  <1> SUFFICES ASSUME phase' = "up", Clean', ~straddled', ~leftover'
               PROVE  Exact(Recovered(image, log).view)'
    BY DEF Exactness
  <1>1. Clean /\ ~straddled /\ ~leftover  BY CleanBack, SpoiledStays
  <1>2. /\ NewRows /\ LoadingExact /\ RequestsApart /\ RequestTables /\ FilesDecode
        /\ NamesStored /\ NamesCaptured /\ HandlesCurrent
    BY <1>1, Zenon DEF Decoding
  <1>3. PICK v \in Views : v = Recovered(image, log).view
    BY ImageTidy, RecoveredTyped DEF HandlesOK, TypeOK
  <1>4. phase = "up" => Exact(v)  BY <1>1, <1>3 DEF Exactness
  \* It is enough to be exact for what the files recover to now.
  <1>5. ASSUME NEW w, w = Recovered(image', log').view, Exact(w)'
        PROVE  Exact(Recovered(image, log).view)'
    BY <1>5
  <1>6. ASSUME NEW c \in Clients, Request(c) PROVE Exact(Recovered(image, log).view)'
    <2>1. UNCHANGED <<log, image>> /\ phase = "up"  BY <1>6, RequestEffects
    <2>2. v = Recovered(image', log').view  BY <1>3, <2>1
    <2>3. Exact(v)'  BY <1>4, <1>6, <2>1, ExactRequest
    <2> QED  BY <1>5, <2>2, <2>3
  <1>7. ASSUME NEW c \in Clients, InsertMany(c) PROVE Exact(Recovered(image, log).view)'
    <2>1. UNCHANGED <<log, image>> /\ phase = "up"
      BY <1>7 DEF InsertMany, PushRow, disk, ThreadsOK
    <2>2. v = Recovered(image', log').view  BY <1>3, <2>1
    <2>3. Exact(v)'  BY <1>2, <1>4, <1>7, <2>1, ExactInsert
    <2> QED  BY <1>5, <2>2, <2>3
  <1>8. ASSUME NEW c \in Clients, InsertManyRejects(c) \/ AppendFails(c) PROVE FALSE
    BY <1>8 DEF InsertManyRejects, AppendFails
  <1>9. ASSUME NEW c \in Clients, Encode(c) PROVE Exact(Recovered(image, log).view)'
    <2>1. /\ UNCHANGED <<log, image, tables, heap, op>> /\ phase = "up"
          /\ pc[c] = "encode" /\ pc' = [pc EXCEPT ![c] = "append"]
      BY <1>9 DEF Encode, disk, mem, ThreadsOK
    <2>2. v = Recovered(image', log').view  BY <1>3, <2>1
    <2>3. \A d \in Clients : (InFlight(d)' <=> InFlight(d)) /\ (Unlogged(d)' <=> Unlogged(d))
      BY <2>1 DEF InFlight, Unlogged, TypeOK
    <2>4. View' = View  BY <2>1 DEF View, HandleOf
    <2>5. \A k : Doing(k)' = Doing(k)  BY <2>1, <2>3 DEF Doing
    <2>6. \A t, r : PendingRow(t, r)' <=> PendingRow(t, r)  BY <2>1, <2>3 DEF PendingRow
    <2>7. \A t \in Tables : ExactName(v, t)' /\ ExactRows(v, t)'
      BY <1>4, <2>1, <2>4, <2>5, <2>6, ExactSame DEF Exact
    <2>8. Exact(v)'  BY <2>7 DEF Exact
    <2> QED  BY <1>5, <2>2, <2>8
  <1>10. ASSUME NEW c \in Clients, AppendWal(c) PROVE Exact(Recovered(image, log).view)'
    <2>1. phase = "up"  BY <1>10 DEF AppendWal, ThreadsOK
    <2>2. PICK change \in Changes :
            /\ change.kind = op[c].kind /\ change.table = op[c].table /\ change.row = op[c].row
            /\ Recovered(image', log') = [ok |-> TRUE, view |-> Apply(v, change)]
      BY <1>1, <1>2, <1>3, <1>10, AppendRecovered
    <2>3. Exact(Apply(v, change))'  BY <1>2, <1>4, <1>10, <2>1, <2>2, ExactAppend
    <2>4. Apply(v, change) = Recovered(image', log').view  BY <2>2
    <2> QED  BY <1>5, <2>3, <2>4
  \* Memory and requests as they were.
  <1>11. ASSUME UNCHANGED <<pc, op, tables, heap>>, NEW w, w = Recovered(image', log').view,
                Exact(w)
         PROVE  Exact(Recovered(image, log).view)'
    <2>1. \A d \in Clients : (InFlight(d)' <=> InFlight(d)) /\ (Unlogged(d)' <=> Unlogged(d))
      BY <1>11 DEF InFlight, Unlogged
    <2>2. View' = View  BY <1>11 DEF View, HandleOf
    <2>3. \A k : Doing(k)' = Doing(k)  BY <1>11, <2>1 DEF Doing
    <2>4. \A t, r : PendingRow(t, r)' <=> PendingRow(t, r)  BY <1>11, <2>1 DEF PendingRow
    <2>5. \A t \in Tables : ExactName(w, t)' /\ ExactRows(w, t)'
      BY <1>11, <2>2, <2>3, <2>4, ExactSame DEF Exact
    <2>6. Exact(w)'  BY <2>5 DEF Exact
    <2> QED  BY <1>5, <1>11, <2>6
  <1>12. CASE SnapshotWrite
    <2>1. /\ UNCHANGED <<pc, op, tables, heap>> /\ phase = "up" /\ snapper.pc = "guard"
          /\ ~CapturedUnlogged
      BY <1>12 DEF SnapshotWrite, mem, threads, ThreadsOK
    <2>2. Exact(Captured)  BY <1>2, <1>4, <2>1, ExactWrite
    <2>3. Captured = Recovered(image', log').view  BY <1>12, WriteRecovered
    <2>4. PICK w : w = Captured  OBVIOUS
    <2>5. Exact(w)  BY <2>2, <2>4
    <2> QED  BY <1>11, <2>1, <2>3, <2>4, <2>5
  <1>13. ASSUME UNCHANGED <<pc, op, tables, heap, phase>>, SnapshotReset \/ UNCHANGED <<log, image>>
         PROVE  Exact(Recovered(image, log).view)'
    <2>1. Recovered(image', log') = Recovered(image, log)  BY <1>13, ResetRecovered
    <2> QED  BY <1>3, <1>4, <1>11, <1>13, <2>1
  <1>14. CASE SnapshotLock \/ SnapshotStep \/ SnapshotFails \/ BytesLock \/ BytesEncode
              \/ UNCHANGED vars
    <2>1. CASE SnapshotWrite  BY <1>12, <2>1
    <2>2. CASE ~SnapshotWrite
      BY <1>13, <1>14, <2>2
      DEF SnapshotLock, SnapshotStep, SnapshotCollect, SnapshotGuard, SnapshotReset,
          SnapshotFails, BytesLock, BytesEncode, vars, mem, threads, disk
    <2> QED  BY <2>1, <2>2
  <1>15. CASE OpenDone
    <2>1. /\ UNCHANGED <<log, image, tables, heap, pc, op>> /\ phase = "loading" /\ pos = Len(log)
          /\ log \in Seq(Frames)
      BY <1>15 DEF OpenDone, disk, mem, threads, TypeOK
    <2>2. Recovered(image, log) = [ok |-> TRUE, view |-> View]
      <3>1. SubSeq(log, 1, pos) = log  BY <2>1, Prefixes
      <3> QED  BY <1>2, <2>1, <3>1 DEF LoadingExact
    <2>3. Exact(View)  BY <2>1, NobodyWhenDown, ExactItself
    <2>4. v = View /\ v = Recovered(image', log').view  BY <1>3, <2>1, <2>2
    <2> QED  BY <1>11, <2>1, <2>3, <2>4
  <1>16. CASE \E c \in Clients : Request(c) \/ ClientStep(c)
    BY <1>6, <1>7, <1>8, <1>9, <1>10, <1>16 DEF ClientStep
  <1> QED  BY <1>14, <1>15, <1>16, ThreadsRest

-----------------------------------------------------------------------------
(* The theorems on decoding. *)

\* The empty directory.
LEMMA DecodingInit ==
  ASSUME Init, TypeOK
  PROVE  Decoding /\ Exactness
  <1>1. /\ NobodyIn
        /\ \A c \in Clients : pc[c] = "idle" /\ op[c].kind = "none"
        /\ snapper.pc = "idle" /\ phase = "up" /\ log = <<>> /\ image.view = EmptyView
        /\ \A t \in Tables : tables[t] = 0
    BY NoOpFields DEF Init, NobodyIn, InFlight, NoSnapper
  <1>2. Recovered(image, log) = [ok |-> TRUE, view |-> EmptyView]
    BY <1>1, RecoveredNothing DEF Start
  <1>3. NewRows  BY <1>1 DEF NewRows
  <1>4. LoadingExact  BY <1>1 DEF LoadingExact
  <1>5. RequestsApart /\ RequestTables  BY <1>1 DEF NobodyIn, RequestsApart, RequestTables
  <1>10. unbacked => leftover  BY DEF Init
  <1>6. FilesDecode  BY <1>1, <1>2 DEF FilesDecode
  <1>7. NamesStored /\ NamesCaptured /\ HandlesCurrent
    BY <1>1 DEF NamesStored, NamesCaptured, HandlesCurrent
  <1>8. View = EmptyView  BY <1>1 DEF View, EmptyView
  <1>9. Exactness  BY <1>1, <1>2, <1>8, ExactItself DEF Exactness
  <1> QED  BY <1>3, <1>4, <1>5, <1>6, <1>7, <1>9, <1>10 DEF Decoding

\* Every step keeps both.
LEMMA DecodingNext ==
  ASSUME Base, Decoding, Exactness, [Next]_vars
  PROVE  (Decoding /\ Exactness)'
  <1>1. NewRows' /\ LoadingExact'
    BY NewRowsNext, LoadingExactNext DEF Base, Decoding
  <1>2. ASSUME Clean' PROVE (RequestsApart /\ RequestTables /\ NamesCaptured /\ HandlesCurrent)'
    <2>1. Clean  BY <1>2, CleanBack DEF Base
    <2>2. RequestsApart' /\ RequestTables'
      BY <1>2, <2>1, RequestsApartNext, RequestTablesNext DEF Base, Decoding
    <2>3. (NamesCaptured /\ HandlesCurrent)'  BY <1>2, <2>1, NamesCapturedNext
    <2> QED  BY <2>2, <2>3
  <1>3. unbacked' => leftover'
    BY UnbackedSteps DEF Base, TypeInv, Decoding
  <1>4. ASSUME Clean', ~unbacked' PROVE (FilesDecode /\ NamesStored)'
    <2>1. Clean  BY <1>4, CleanBack DEF Base
    <2>2. CASE SnapshotWrite \/ OpenDone  BY <2>1, <2>2, FilesBacked
    <2>3. CASE ~unbacked
      <3>1. FilesDecode'  BY <2>1, <2>3, FilesDecodeNext
      <3>2. NamesStored'  BY <1>4, <2>1, <2>3, NamesStoredNext
      <3> QED  BY <3>1, <3>2
    <2> QED  BY <1>4, <2>2, <2>3, UnbackedSteps DEF Base, TypeInv, Decoding
  <1>5. Exactness'  BY ExactnessNext
  <1> QED  BY <1>1, <1>2, <1>3, <1>4, <1>5 DEF Decoding

\* In the pointwise form, RecoveryExact.
LEMMA ExactnessIsExact ==
  ASSUME Base, Decoding, Exactness
  PROVE  RecoveryExact
  <1> SUFFICES ASSUME phase = "up", Clean, ~straddled, ~leftover
               PROVE  Recovered(image, log).ok
                      /\ View = WithPending(Recovered(image, log).view)
    BY DEF RecoveryExact, Clean
  <1>1. Recovered(image, log).ok  BY Zenon DEF Decoding, FilesDecode
  <1>2. Recovered(image, log).view \in Views
    BY ImageTidy, RecoveredTyped DEF Base, TypeInv, HandlesOK, TypeOK
  <1>3. Exact(Recovered(image, log).view)  BY DEF Exactness
  <1> QED  BY <1>1, <1>2, <1>3, ExactIsPending DEF Base, TypeInv

\* What the proofs about decoding, and those about replicas, build on.
LEMMA ReplayInvariant == Spec => [](Base /\ Decoding /\ Exactness)
  <1>1. Init => Base /\ Decoding /\ Exactness
    BY TypeInit, NumberingInit, HandlesInit, DecodingInit DEF Base, TypeInv
  <1>2. Base /\ Decoding /\ Exactness /\ [Next]_vars => (Base /\ Decoding /\ Exactness)'
    BY TypeNext, NumberingNext, HandlesNext, DecodingNext DEF Base
  <1> QED  BY <1>1, <1>2, PTL DEF Spec

\* The invariant of ReplayInv about decoding is inductive, given IInv's, and holds.
THEOREM DecodingHolds == Spec => []DecodingInv
  <1>1. Base /\ Decoding /\ Exactness => DecodingInv
    BY ExactnessIsExact DEF DecodingInv
  <1> QED  BY <1>1, ReplayInvariant, PTL

\* Database::open never refuses a directory this program wrote: every INSERT in
\* the log finds its table when it is decoded, in the behaviours where open did not
\* rewind the numbering, no DDL overlapped another request on its table, and a
\* snapshot or a start that went well followed the last CREATE whose append failed.
THEOREM OpenAlwaysSucceeds == Spec => []OpenSucceeds
  <1>1. DecodingInv => OpenSucceeds
    BY DEF DecodingInv, Decoding, FilesDecode, OpenSucceeds, Clean
  <1> QED  BY <1>1, DecodingHolds, PTL

\* At any moment of a live process the files rebuild exactly the catalogue the
\* readers see, but for the changes still on their way to the log (the change in
\* memory before Database::log; Database::open), where none of the recorded races
\* happened and no request failed half way.
THEOREM FilesRebuildMemory == Spec => []RecoveryExact
  <1>1. DecodingInv => RecoveryExact  BY DEF DecodingInv
  <1> QED  BY <1>1, DecodingHolds, PTL

-----------------------------------------------------------------------------
(* Rows: where a step can bring one. *)

\* A record puts one row in one table, or takes rows away.
LEMMA AppliedRows ==
  ASSUME NEW view \in Views, NEW change \in Changes, NEW t \in Tables, NEW r \in Rows
  PROVE  \/ Apply(view, change).rows[t][r] = 0
         \/ Apply(view, change).rows[t][r] = view.rows[t][r]
         \/ /\ change.kind = "insert" /\ change.row = r
            /\ Apply(view, change).rows[t][r] = view.rows[t][r] + 1
  <1>1. view.rows \in [Tables -> [Rows -> Nat]]  BY DEF Views, Bags
  <1> DEFINE rows == Apply(view, change).rows
  <1>2. CASE change.kind \in {"create", "drop"}
    <2>1. rows = [view.rows EXCEPT ![change.table] = NoRows]  BY <1>2, Applied
    <2> HIDE DEF rows
    <2>2. rows[t] = view.rows[t] \/ rows[t] = NoRows  BY <1>1, <2>1
    <2>3. rows[t][r] = view.rows[t][r] \/ rows[t][r] = 0  BY <2>2 DEF NoRows
    <2> QED  BY <2>3 DEF rows
  <1>3. CASE change.kind = "insert"
    <2>1. rows = [view.rows EXCEPT ![change.table] = AddRow(view.rows[change.table], change.row)]
      BY <1>3, Applied
    <2>2. change.table \in Tables /\ change.row \in Rows  BY <1>3, Applied
    <2> HIDE DEF rows
    <2>3. t # change.table => rows[t][r] = view.rows[t][r]  BY <1>1, <2>1
    <2>4. t = change.table => rows[t] = AddRow(view.rows[t], change.row)  BY <1>1, <2>1
    <2>5. AddRow(view.rows[t], change.row)[r]
            = IF r = change.row THEN view.rows[t][r] + 1 ELSE view.rows[t][r]
      BY <1>1 DEF AddRow
    <2>6. rows[t][r] = view.rows[t][r] \/ (change.row = r /\ rows[t][r] = view.rows[t][r] + 1)
      BY <2>3, <2>4, <2>5
    <2> QED  BY <1>3, <2>6 DEF rows
  <1> QED  BY <1>2, <1>3, Applied

\* What readers see of a table is in a handle.
LEMMA ViewRows ==
  ASSUME TypeOK, NEW t \in Tables, NEW r \in Rows
  PROVE  View.rows[t][r] = 0 \/ \E h \in Handles : View.rows[t][r] = heap[h][r]
  <1>1. CASE tables[t] = 0  BY <1>1 DEF View, NoRows
  <1>2. CASE tables[t] # 0
    <2>1. HandleOf(t) \in Handles
      BY <1>2, BoundsAssumption DEF HandleOf, Handles, Gens, TypeOK
    <2>2. View.rows[t] = heap[HandleOf(t)]  BY <1>2 DEF View
    <2> QED  BY <2>1, <2>2
  <1> QED  BY <1>1, <1>2

\* How a step changes the number of copies of r in a handle.
LEMMA HeapStep ==
  ASSUME Base, [Next]_vars, NEW h \in Handles, NEW r \in Rows
  PROVE  \/ heap'[h][r] = 0
         \/ heap'[h][r] = heap[h][r] /\ ~OpenApply /\ ~OpenSnapshot
         \/ \E c \in Clients :
              /\ InsertMany(c) \/ InsertManyRejects(c)
              /\ h = <<op[c].table, op[c].gen>> /\ op[c].row = r
              /\ heap'[h][r] = heap[h][r] + 1
         \/ OpenSnapshot /\ heap'[h][r] = image.view.rows[h[1]][r]
         \/ OpenApply /\ \E g \in Handles : heap'[h][r] = heap[g][r]
         \/ /\ OpenApply /\ log[pos + 1].change.kind = "insert" /\ log[pos + 1].change.row = r
            /\ \/ heap'[h][r] = 1
               \/ \E g \in Handles : heap'[h][r] = heap[g][r] + 1
  <1> USE DEF Base, TypeInv
  <1>1. heap[h] \in [Rows -> Nat] /\ h[1] \in Tables  BY DEF TypeOK, Bags, Handles
  <1>2. NoRows[r] = 0  BY DEF NoRows
  <1>3. ASSUME NEW c \in Clients, NEW t \in Tables, CreateTable(c, t)
        PROVE  (heap'[h][r] = 0 \/ heap'[h][r] = heap[h][r]) /\ ~OpenApply /\ ~OpenSnapshot
    <2>1. heap'[h] = NoRows \/ heap'[h] = heap[h]  BY <1>3 DEF CreateTable, TypeOK
    <2> QED  BY <1>2, <1>3, <2>1 DEF CreateTable, Serve, OpenApply, OpenSnapshot
  <1>4. ASSUME NEW c \in Clients, InsertMany(c) \/ InsertManyRejects(c)
        PROVE  \/ heap'[h][r] = heap[h][r] /\ ~OpenApply /\ ~OpenSnapshot
               \/ /\ h = <<op[c].table, op[c].gen>> /\ op[c].row = r
                  /\ heap'[h][r] = heap[h][r] + 1
    <2>1. PushRow(c)  BY <1>4 DEF InsertMany, InsertManyRejects
    <2>2. phase = "up" /\ op[c].row \in Rows  BY <2>1 DEF PushRow, ThreadsOK
    <2>3. ~OpenApply /\ ~OpenSnapshot  BY <2>2 DEF OpenApply, OpenSnapshot
    <2>4. CASE h = <<op[c].table, op[c].gen>>
      <3>1. heap'[h] = AddRow(heap[h], op[c].row)  BY <2>1, <2>4 DEF PushRow, TypeOK
      <3>2. heap'[h][r] = IF r = op[c].row THEN heap[h][r] + 1 ELSE heap[h][r]
        BY <1>1, <2>2, <3>1 DEF AddRow
      <3> QED  BY <2>3, <2>4, <3>2
    <2>5. CASE h # <<op[c].table, op[c].gen>>
      <3>1. heap'[h] = heap[h]  BY <2>1, <2>5 DEF PushRow, TypeOK
      <3> QED  BY <2>3, <3>1
    <2> QED  BY <2>4, <2>5
  <1>5. CASE OpenSnapshot
    <2>1. heap'[h] = IF h[2] = 1 THEN image.view.rows[h[1]] ELSE NoRows
      BY <1>5 DEF OpenSnapshot, Install
    <2> QED  BY <1>2, <1>5, <2>1
  <1>6. CASE OpenApply
    <2> DEFINE change == log[pos + 1].change
    <2>1. /\ heap'[h] = IF h[2] = 1 THEN Apply(View, change).rows[h[1]] ELSE NoRows
          /\ pos + 1 \in 1..Len(log)
      BY <1>6 DEF OpenApply, Install, TypeOK
    <2>2. change \in Changes  BY <2>1, FrameTyped
    <2> HIDE DEF change
    <2>3. \/ Apply(View, change).rows[h[1]][r] = 0
          \/ Apply(View, change).rows[h[1]][r] = View.rows[h[1]][r]
          \/ /\ change.kind = "insert" /\ change.row = r
             /\ Apply(View, change).rows[h[1]][r] = View.rows[h[1]][r] + 1
      BY <1>1, <2>2, ViewTyped, AppliedRows
    <2>4. View.rows[h[1]][r] = 0 \/ \E g \in Handles : View.rows[h[1]][r] = heap[g][r]
      BY <1>1, ViewRows
    <2>5. \/ heap'[h][r] = 0
          \/ heap'[h][r] = View.rows[h[1]][r]
          \/ change.kind = "insert" /\ change.row = r /\ heap'[h][r] = View.rows[h[1]][r] + 1
      BY <1>2, <2>1, <2>3
    <2>6. \/ heap'[h][r] = 0
          \/ \E g \in Handles : heap'[h][r] = heap[g][r]
          \/ /\ change.kind = "insert" /\ change.row = r
             /\ heap'[h][r] = 1 \/ \E g \in Handles : heap'[h][r] = heap[g][r] + 1
      BY <2>4, <2>5
    <2> QED  BY <1>6, <2>6 DEF change
  <1>7. CASE Crash
    <2>1. heap'[h] = NoRows  BY <1>7 DEF Crash, NoHeap
    <2> QED  BY <1>2, <2>1
  <1>8. ASSUME heap' = heap, ~OpenApply, ~OpenSnapshot
        PROVE  heap'[h][r] = heap[h][r] /\ ~OpenApply /\ ~OpenSnapshot
    BY <1>8
  <1>9. ASSUME NEW c \in Clients, Request(c) \/ ClientStep(c)
        PROVE  ~OpenApply /\ ~OpenSnapshot
    <2>1. phase = "up"
      BY <1>9 DEF Request, CreateTable, DropTable, InsertLookup, Serve, ClientStep, InsertMany,
         InsertManyRejects, PushRow, Encode, AppendWal, AppendFails, ThreadsOK
    <2> QED  BY <2>1 DEF OpenApply, OpenSnapshot
  <1>10. ASSUME NEW c \in Clients, NEW t \in Tables, DropTable(c, t) \/ InsertLookup(c, t)
         PROVE  heap' = heap
    BY <1>10 DEF DropTable, InsertLookup, mem
  <1>11. ASSUME NEW c \in Clients, Encode(c) \/ AppendWal(c) \/ AppendFails(c)
         PROVE  heap' = heap
    BY <1>11 DEF Encode, AppendWal, AppendFails, mem
  <1>12. CASE \E c \in Clients : Request(c) \/ ClientStep(c)
    BY <1>3, <1>4, <1>8, <1>9, <1>10, <1>11, <1>12 DEF Request, ClientStep
  <1>13. CASE /\ SnapshotLock \/ SnapshotStep \/ SnapshotFails \/ BytesLock \/ BytesEncode
                 \/ OpenSkip \/ OpenFails \/ OpenDone
                 \/ UNCHANGED vars
              /\ ~OpenApply /\ ~OpenSnapshot
    <2>1. heap' = heap
      BY <1>13
      DEF SnapshotLock, SnapshotStep, SnapshotCollect, SnapshotGuard, SnapshotWrite,
          SnapshotReset, SnapshotFails, BytesLock, BytesEncode, OpenSkip, OpenFails, OpenDone,
          vars, mem
    <2> QED  BY <1>8, <1>13, <2>1
  <1> QED  BY <1>5, <1>6, <1>7, <1>12, <1>13 DEF Next, LocalStep, OpenStep, Rest

\* Only a new snapshot changes what the snapshot holds, and it holds what was in
\* the handles it copied.
LEMMA ImageStep ==
  ASSUME TypeInv, [Next]_vars, NEW t \in Tables, NEW r \in Rows
  PROVE  \/ image' = image
         \/ SnapshotWrite /\ image'.view.rows[t][r] = 0
         \/ /\ SnapshotWrite
            /\ \E h \in snapper.handles : h[1] = t /\ image'.view.rows[t][r] = heap[h][r]
  <1>1. CASE SnapshotWrite
    <2>1. image'.view = Captured  BY <1>1 DEF SnapshotWrite
    <2>2. CASE \E h \in snapper.handles : h[1] = t
      <3> DEFINE h == CHOOSE x \in snapper.handles : x[1] = t
      <3>1. h \in snapper.handles /\ h[1] = t  BY <2>2
      <3>2. image'.view.rows[t] = heap[h]  BY <2>1, <2>2 DEF Captured
      <3> HIDE DEF h
      <3> QED  BY <1>1, <3>1, <3>2
    <2>3. CASE ~ \E h \in snapper.handles : h[1] = t
      <3>1. image'.view.rows[t] = NoRows  BY <2>1, <2>3 DEF Captured
      <3> QED  BY <1>1, <3>1 DEF NoRows
    <2> QED  BY <2>2, <2>3
  <1>2. CASE ~SnapshotWrite
    <2>1. image' = image
      BY <1>2, FileSteps DEF AppendWal, SnapshotReset
    <2> QED  BY <2>1
  <1> QED  BY <1>1, <1>2

\* A record in the log was there before, or a client is logging it now.
LEMMA LogStep ==
  ASSUME TypeInv, [Next]_vars, NEW i \in 1..Len(log')
  PROVE  \/ i \in 1..Len(log) /\ log'[i] = log[i]
         \/ /\ i = Len(log) + 1 /\ log'[i].lsn = nextLsn
            /\ \E c \in Clients :
                 /\ AppendWal(c) /\ log'[i].change.kind = op[c].kind /\ log'[i].change.row = op[c].row
  <1>1. log \in Seq(Frames)  BY DEF TypeInv, TypeOK
  <1>2. ASSUME NEW c \in Clients, AppendWal(c)
        PROVE  \/ i \in 1..Len(log) /\ log'[i] = log[i]
               \/ /\ i = Len(log) + 1 /\ log'[i].lsn = nextLsn
                  /\ log'[i].change.kind = op[c].kind /\ log'[i].change.row = op[c].row
    <2> DEFINE change == [kind |-> op[c].kind, table |-> op[c].table, row |-> op[c].row]
               f == [lsn |-> nextLsn, change |-> change]
    <2>1. f \in Frames /\ log' = Append(log, f) /\ f.lsn = nextLsn
          /\ f.change.kind = op[c].kind /\ f.change.row = op[c].row
      BY <1>2, AppendedFrame
    <2> HIDE DEF f
    <2>2. /\ Len(log') = Len(log) + 1 /\ log'[Len(log) + 1] = f /\ Len(log) \in Nat
          /\ \A k \in 1..Len(log) : log'[k] = log[k]
      BY <1>1, <2>1, AppendFrame
    <2> QED  BY <2>1, <2>2
  <1>3. CASE SnapshotReset
    <2>1. Len(log') = 0  BY <1>3 DEF SnapshotReset
    <2> QED  BY <2>1
  <1>4. CASE log' = log  BY <1>4
  <1>5. SnapshotWrite => log' = log  BY DEF SnapshotWrite
  <1> QED  BY <1>2, <1>3, <1>4, <1>5, FileSteps

\* A row that is nowhere stays nowhere, until its own request brings it.
LEMMA UnusedStays ==
  ASSUME Base, [Next]_vars, NEW r \in Rows, Unused(r)
  PROVE  \/ Unused(r)'
         \/ \E c \in Clients : op[c].kind = "insert" /\ op[c].row = r /\ pc[c] # "idle"
                               /\ pc'[c] # "insert"
  <1> USE DEF Base, TypeInv
  <1> SUFFICES ASSUME \A c \in Clients : op[c].kind = "insert" /\ op[c].row = r /\ pc[c] # "idle"
                                           => pc'[c] = "insert"
               PROVE  Unused(r)'
    OBVIOUS
  <1>1. /\ \A h \in Handles : heap[h][r] = 0
        /\ \A t \in Tables : image.view.rows[t][r] = 0
        /\ \A i \in 1..Len(log) : ~(log[i].change.kind = "insert" /\ log[i].change.row = r)
    <2>1. \A t \in Tables : image.view.rows[t][r] \in Nat  BY DEF TypeOK, Views, Bags
    <2>2. \A i \in 1..Len(log) : i \in (0 + 1)..Len(log)  OBVIOUS
    <2> QED  BY <2>1, <2>2 DEF Unused, InSnapshot, LoggedRow
  <1>2. ASSUME NEW c \in Clients, InsertMany(c) \/ InsertManyRejects(c) \/ AppendWal(c)
        PROVE  op[c].kind = "insert" => op[c].row # r
    <2>1. pc[c] # "idle" /\ pc'[c] # "insert"
      BY <1>2 DEF InsertMany, InsertManyRejects, PushRow, AppendWal, Finish, TypeOK
    <2> QED  BY <2>1
  <1>3. ASSUME NEW h \in Handles PROVE heap'[h][r] = 0
    <2>1. ~ \E c \in Clients : (InsertMany(c) \/ InsertManyRejects(c)) /\ op[c].row = r
      BY <1>2 DEF InsertMany, InsertManyRejects, PushRow, ThreadsOK
    <2>2. OpenApply => pos + 1 \in 1..Len(log)  BY DEF OpenApply, TypeOK
    <2>3. h[1] \in Tables  BY DEF Handles
    <2> QED  BY <1>1, <2>1, <2>2, <2>3, HeapStep
  <1>4. ASSUME NEW t \in Tables PROVE image'.view.rows[t][r] = 0
    <2>1. snapper.handles \subseteq Handles  BY DEF TypeOK
    <2> QED  BY <1>1, <2>1, ImageStep
  <1>5. ASSUME NEW i \in 1..Len(log')
        PROVE  ~(log'[i].change.kind = "insert" /\ log'[i].change.row = r)
    BY <1>1, <1>2, LogStep
  <1>6. ~InSnapshot(r)'  BY <1>4 DEF InSnapshot
  <1>7. ~LoggedRow(r, 0)'  BY <1>5 DEF LoggedRow
  <1> QED  BY <1>3, <1>6, <1>7 DEF Unused

\* A row that has not reached its table is nowhere.
LEMMA RowsNewNext ==
  ASSUME Base, NewRows, RowsNew, [Next]_vars
  PROVE  RowsNew'
  <1> USE DEF Base, TypeInv
  <1>0. /\ issued \in Nat
        /\ \A d \in Clients : op[d].row \in Nat /\ (op[d].kind = "insert" => pc[d] # "idle")
    BY MaxRowsAssumption, NoOpFields DEF TypeOK, Ops, ThreadsOK
  <1>1. ASSUME NEW r \in Rows, r > issued PROVE Unused(r)'
    <2>1. \A c \in Clients : pc[c] # "idle" => op[c].row # r  BY <1>0, <1>1 DEF NewRows
    <2> QED  BY <1>1, <2>1, UnusedStays DEF RowsNew
  <1>2. issued' = issued \/ issued' = issued + 1
    BY ZenonT(40) DEF Next, LocalStep, vars, Request, ClientStep, SnapshotStep, OpenStep, Rest,
       CreateTable, DropTable, InsertLookup, InsertMany, InsertManyRejects, Encode, AppendWal,
       AppendFails, SnapshotLock, SnapshotCollect, SnapshotGuard, SnapshotWrite, SnapshotReset,
       SnapshotFails, BytesLock, BytesEncode, Crash, OpenSnapshot, OpenSkip, OpenApply,
       OpenFails, OpenDone, bounds
  <1>3. ASSUME NEW c \in Clients, pc'[c] = "insert" PROVE Unused(op[c].row)'
    <2>1. CASE pc[c] = "insert" /\ op'[c] = op[c]
      <3>1. PICK r \in Rows : r = op[c].row  BY <2>1 DEF ThreadsOK
      <3>2. op[c].kind = "insert" /\ Unused(r)  BY <2>1, <3>1 DEF ThreadsOK, RowsNew
      <3>3. \A d \in Clients \ {c} : op[d].kind = "insert" => op[d].row # r
        BY <3>1, <3>2 DEF NewRows
      <3>4. Unused(r)'  BY <1>3, <3>2, <3>3, UnusedStays
      <3> QED  BY <2>1, <3>1, <3>4
    <2>2. CASE \E t \in Tables : InsertLookup(c, t)
      <3>1. op'[c].row = issued + 1 /\ issued < MaxRows  BY <2>2 DEF InsertLookup, TypeOK
      <3>2. PICK r \in Rows : r = issued + 1
        BY <1>0, <3>1, MaxRowsAssumption DEF Rows
      <3> QED  BY <1>0, <1>1, <3>1, <3>2
    <2>3. \/ pc[c] = "insert" /\ op'[c] = op[c]
          \/ \E t \in Tables : InsertLookup(c, t)
      <3>1. ASSUME NEW d \in Clients, Request(d)
            PROVE  d # c => pc'[c] = pc[c] /\ op'[c] = op[c]
        BY <3>1, RequestStarts DEF Request, Starts, Others
      <3>2. ASSUME NEW d \in Clients, ClientStep(d)
            PROVE  d # c /\ pc'[c] = pc[c] /\ op'[c] = op[c]
        <4>1. Moves(d) \/ Ends(d)  BY <3>2, RequestMoves DEF ClientStep
        <4>2. pc'[d] # "insert"
          BY <3>2 DEF ClientStep, InsertMany, InsertManyRejects, Encode, AppendWal,
             AppendFails, Finish, PushRow, TypeOK
        <4> QED  BY <1>3, <4>1, <4>2 DEF Moves, Ends, Others
      <3>3. ASSUME Request(c) PROVE \E t \in Tables : InsertLookup(c, t)
        BY <1>3, <3>3 DEF Request, CreateTable, DropTable, TypeOK
      <3>4. ~NobodyIn'  BY <1>3 DEF NobodyIn, InFlight
      <3> QED  BY <1>3, <3>1, <3>2, <3>3, <3>4, ThreadsRest
    <2> QED  BY <2>1, <2>2, <2>3
  <1>4. \A r \in Rows : r > issued' => Unused(r)'  BY <1>0, <1>1, <1>2 DEF Rows
  <1> QED  BY <1>3, <1>4 DEF RowsNew

\* The histories again, for the one that concerns rows.
LEMMA StraddledStays ==
  ASSUME TypeOK, [Next]_vars, ~straddled'
  PROVE  ~straddled
  <1>1. straddled \in BOOLEAN /\ straddled # TRUE  BY HistoriesStay DEF TypeOK
  <1> QED  BY <1>1, Zenon

\* Who is about to log a row was so before the step, or has just put it in its table.
LEMMA UnloggedSteps ==
  ASSUME TypeInv, [Next]_vars, NEW c \in Clients, Unlogged(c)', op'[c].kind = "insert"
  PROVE  /\ op'[c] = op[c] /\ op[c].kind = "insert"
         /\ \/ Unlogged(c) /\ ~AppendWal(c)
            \/ InsertMany(c) /\ pc[c] = "insert"
  <1> USE DEF TypeInv
  <1>1. ASSUME NEW d \in Clients, d # c, Request(d) \/ ClientStep(d)
        PROVE  Unlogged(c) /\ op'[c] = op[c] /\ ~AppendWal(c)
    <2>1. Others(d)
      BY <1>1, RequestStarts, RequestMoves DEF Request, ClientStep, Starts, Moves, Ends
    <2>2. ~AppendWal(c)
      <3> SUFFICES ASSUME AppendWal(c) PROVE FALSE  OBVIOUS
      <3>1. ~Unlogged(c)'  BY DEF AppendWal, Finish, Unlogged, TypeOK
      <3> QED  BY <3>1
    <2> QED  BY <1>1, <2>1, <2>2 DEF Others, Unlogged
  <1>2. ASSUME Request(c) PROVE FALSE
    <2>1. PICK t \in Tables : CreateTable(c, t) \/ DropTable(c, t) \/ InsertLookup(c, t)
      BY <1>2 DEF Request
    <2>2. InsertLookup(c, t)  BY <2>1, RequestStarts DEF Starts
    <2> QED  BY <2>2 DEF InsertLookup, Unlogged, TypeOK
  <1>3. ASSUME ClientStep(c)
        PROVE  /\ op'[c] = op[c]
               /\ \/ Unlogged(c) /\ ~AppendWal(c)
                  \/ InsertMany(c) /\ pc[c] = "insert"
    <2>1. ~Ends(c)  BY DEF Ends
    <2>2. InsertMany(c) \/ Encode(c)  BY <1>3, <2>1, RequestMoves DEF ClientStep
    <2>3. Moves(c)  BY <2>1, <2>2, RequestMoves
    <2>4. ~AppendWal(c)  BY <2>1, RequestMoves
    <2> QED  BY <2>2, <2>3, <2>4 DEF Moves, InsertMany, PushRow, Encode, Unlogged
  <1>4. ~NobodyIn'  BY DEF NobodyIn, InFlight, Unlogged
  <1>5. ASSUME UNCHANGED <<pc, op>>, ~ \E d \in Clients : Request(d) \/ ClientStep(d)
        PROVE  op'[c] = op[c] /\ Unlogged(c) /\ ~AppendWal(c)
    BY <1>5 DEF Unlogged, ClientStep
  <1>6. /\ op'[c] = op[c]
        /\ \/ Unlogged(c) /\ ~AppendWal(c)
           \/ InsertMany(c) /\ pc[c] = "insert"
    <2>1. CASE \E d \in Clients : Request(d) \/ ClientStep(d)
      BY <1>1, <1>2, <1>3, <2>1
    <2>2. CASE ~ \E d \in Clients : Request(d) \/ ClientStep(d)
      <3>1. UNCHANGED <<pc, op>>
        BY <1>4, <2>2, ThreadsRest DEF OpenDone, threads
      <3> QED  BY <1>5, <2>2, <3>1
    <2> QED  BY <2>1, <2>2
  <1> QED  BY <1>6

\* A row on its way to the log is in its own table only, in no record, and in no
\* snapshot that captured no such row.
LEMMA RowsUnloggedNext ==
  ASSUME Base, RowsInv, [Next]_vars
  PROVE  RowsUnlogged'
  <1> USE DEF Base, TypeInv
  <1> SUFFICES ASSUME NEW c \in Clients, Unlogged(c)', op'[c].kind = "insert",
                      NEW r, r = op'[c].row
               PROVE  /\ \A h \in Handles : heap'[h][r] > 0 => h = <<op'[c].table, op'[c].gen>>
                      /\ ~LoggedRow(r, 0)'
                      /\ ~straddled' => ~InSnapshot(r)'
    BY DEF RowsUnlogged, LoggedRow, InSnapshot
  <1>1. /\ op'[c] = op[c] /\ op[c].kind = "insert" /\ op[c].row \in Rows
        /\ \/ Unlogged(c) /\ ~AppendWal(c)
           \/ InsertMany(c) /\ pc[c] = "insert"
    BY UnloggedSteps DEF ThreadsOK
  <1>2. r \in Rows /\ r = op[c].row  BY <1>1
  <1>3. \A d \in Clients \ {c} : op[d].kind = "insert" => op[d].row # r
    BY <1>1, <1>2 DEF RowsInv, NewRows
  <1>4. phase = "up" /\ ~OpenApply /\ ~OpenSnapshot
    <2>1. phase = "up"  BY <1>1 DEF ThreadsOK, Unlogged
    <2> QED  BY <2>1 DEF OpenApply, OpenSnapshot
  <1>5. \A h \in Handles : heap[h][r] \in Nat
    BY <1>2 DEF TypeOK, Bags
  <1>6. ASSUME NEW h \in Handles, heap'[h][r] > 0 PROVE h = <<op[c].table, op[c].gen>>
    <2>1. CASE heap'[h][r] = heap[h][r]
      <3>1. CASE Unlogged(c)  BY <1>1, <1>2, <1>6, <2>1, <3>1 DEF RowsInv, RowsUnlogged
      <3>2. CASE pc[c] = "insert"
        <4>1. heap[h][r] = 0  BY <1>2, <3>2 DEF RowsInv, RowsNew, Unused
        <4> QED  BY <1>6, <2>1, <4>1
      <3> QED  BY <1>1, <3>1, <3>2
    <2>2. ASSUME NEW d \in Clients, InsertMany(d) \/ InsertManyRejects(d),
                 h = <<op[d].table, op[d].gen>>, op[d].row = r
          PROVE  h = <<op[c].table, op[c].gen>>
      <3>1. op[d].kind = "insert"
        BY <2>2 DEF InsertMany, InsertManyRejects, PushRow, ThreadsOK
      <3>2. d = c  BY <1>3, <2>2, <3>1
      <3> QED  BY <2>2, <3>2
    <2> QED  BY <1>2, <1>4, <1>6, <2>1, <2>2, HeapStep
  <1>7. \A i \in 1..Len(log) : ~(log[i].change.kind = "insert" /\ log[i].change.row = r)
    <2>1. ~LoggedRow(r, 0)
      BY <1>1, <1>2 DEF RowsInv, RowsUnlogged, RowsNew, Unused
    <2>2. \A i \in 1..Len(log) : i \in (0 + 1)..Len(log)  OBVIOUS
    <2> QED  BY <2>1, <2>2 DEF LoggedRow
  <1>8. ASSUME NEW i \in 1..Len(log')
        PROVE  ~(log'[i].change.kind = "insert" /\ log'[i].change.row = r)
    <2>1. ~AppendWal(c)
      BY <1>1 DEF InsertMany, PushRow, AppendWal
    <2> QED  BY <1>3, <1>7, <2>1, LogStep
  <1>9. ~LoggedRow(r, 0)'  BY <1>8 DEF LoggedRow
  <1>10. ASSUME ~straddled' PROVE ~InSnapshot(r)'
    <2>1. ~straddled  BY <1>10, StraddledStays
    <2>2. ~InSnapshot(r)
      BY <1>1, <1>2, <2>1 DEF RowsInv, RowsUnlogged, RowsNew, Unused
    <2>3. ASSUME NEW t \in Tables PROVE ~(image'.view.rows[t][r] > 0)
      <3>1. CASE image' = image  BY <2>2, <3>1 DEF InSnapshot
      <3>2. ASSUME NEW h \in snapper.handles, SnapshotWrite, image'.view.rows[t][r] = heap[h][r],
                   heap[h][r] > 0
            PROVE  FALSE
        <4>1. h \in Handles  BY DEF TypeOK
        <4>2. ~CapturedUnlogged /\ ~InsertMany(c)
          BY <1>10, <3>2 DEF SnapshotWrite, InsertMany, PushRow, mem, threads, TypeOK
        <4>3. h = <<op[c].table, op[c].gen>>
          BY <1>1, <1>2, <3>2, <4>1, <4>2 DEF RowsInv, RowsUnlogged
        <4> QED  BY <1>1, <4>2, <4>3, <3>2 DEF CapturedUnlogged
      <3>3. ~(0 > 0)  OBVIOUS
      <3> QED  BY <1>2, <3>1, <3>2, <3>3, ImageStep
    <2> QED  BY <2>3 DEF InSnapshot
  <1> QED  BY <1>1, <1>6, <1>9, <1>10

\* No row is logged twice.
LEMMA RowsLoggedOnceNext ==
  ASSUME Base, RowsInv, [Next]_vars
  PROVE  RowsLoggedOnce'
  <1> USE DEF Base, TypeInv
  <1>1. ASSUME NEW c \in Clients, AppendWal(c), op[c].kind = "insert", NEW i \in 1..Len(log)
        PROVE  ~(log[i].change.kind = "insert" /\ log[i].change.row = op[c].row)
    <2>1. ~LoggedRow(op[c].row, 0)
      BY <1>1 DEF RowsInv, RowsUnlogged, AppendWal, Unlogged
    <2>2. i \in (0 + 1)..Len(log)  OBVIOUS
    <2> QED  BY <2>1, <2>2 DEF LoggedRow
  <1>2. ASSUME NEW i \in 1..Len(log'), NEW j \in 1..Len(log'), i # j,
               log'[i].change.kind = "insert", log'[j].change.kind = "insert",
               log'[i].change.row = log'[j].change.row
        PROVE  FALSE
    <2>1. CASE i \in 1..Len(log) /\ log'[i] = log[i] /\ j \in 1..Len(log) /\ log'[j] = log[j]
      BY <1>2, <2>1 DEF RowsInv, RowsLoggedOnce
    <2>2. CASE i \in 1..Len(log) /\ log'[i] = log[i] /\ ~(j \in 1..Len(log) /\ log'[j] = log[j])
      BY <1>1, <1>2, <2>2, LogStep
    <2>3. CASE ~(i \in 1..Len(log) /\ log'[i] = log[i]) /\ j \in 1..Len(log) /\ log'[j] = log[j]
      BY <1>1, <1>2, <2>3, LogStep
    <2>4. CASE ~(i \in 1..Len(log) /\ log'[i] = log[i]) /\ ~(j \in 1..Len(log) /\ log'[j] = log[j])
      BY <1>2, <2>4, LogStep
    <2> QED  BY <2>1, <2>2, <2>3, <2>4
  <1> QED  BY <1>2 DEF RowsLoggedOnce

\* A row is once in a table and once in the snapshot, and not there already where
\* a record would bring it.
LEMMA RowsOnceNext ==
  ASSUME Base, RowsInv, [Next]_vars, ~straddled'
  PROVE  RowsOnce'
  <1> USE DEF Base, TypeInv
  <1>1. ~straddled /\ RowsOnce
    BY StraddledStays DEF RowsInv
  <1>2. /\ \A r \in Rows : \A h \in Handles : heap[h][r] \in Nat /\ heap[h][r] <= 1
        /\ \A r \in Rows : \A t \in Tables :
              image.view.rows[t][r] \in Nat /\ image.view.rows[t][r] <= 1
    BY <1>1 DEF RowsOnce, TypeOK, Bags, Views
  <1>0. log \in Seq(Frames) /\ pos \in Nat /\ image.lsn \in Nat  BY DEF TypeOK
  \* A row that recovery or open is still to apply is not in memory, when open runs.
  <1>3. ASSUME OpenApply, log[pos + 1].change.kind = "insert", NEW r \in Rows,
               log[pos + 1].change.row = r
        PROVE  \A h \in Handles : heap[h][r] = 0
    <2>1. /\ phase = "loading" /\ pos + 1 \in 1..Len(log)
          /\ ~(log[pos + 1].lsn <= image.lsn)
      BY <1>0, <1>3 DEF OpenApply, Covered
    <2>2. log[pos + 1].lsn > image.lsn /\ pos + 1 \in (pos + 1)..Len(log)
      BY <1>0, <2>1, FrameTyped
    <2>3. ReplayedRow(r, pos)  BY <1>3, <2>2 DEF ReplayedRow
    <2> QED  BY <1>1, <2>1, <2>3 DEF RowsOnce
  <1>4. ASSUME NEW h \in Handles, NEW r \in Rows PROVE heap'[h][r] <= 1
    <2>1. ASSUME NEW c \in Clients, InsertMany(c) \/ InsertManyRejects(c), op[c].row = r
          PROVE  heap[h][r] = 0
      <3>1. pc[c] = "insert"  BY <2>1 DEF InsertMany, InsertManyRejects, PushRow
      <3> QED  BY <2>1, <3>1 DEF RowsInv, RowsNew, Unused
    <2>2. h[1] \in Tables  BY DEF Handles
    <2>3. heap'[h][r] = 0 => heap'[h][r] <= 1  OBVIOUS
    <2>4. heap'[h][r] = heap[h][r] => heap'[h][r] <= 1  BY <1>2
    <2>5. ASSUME NEW c \in Clients, InsertMany(c) \/ InsertManyRejects(c), op[c].row = r,
                 heap'[h][r] = heap[h][r] + 1
          PROVE  heap'[h][r] <= 1
      BY <2>1, <2>5
    <2>6. heap'[h][r] = image.view.rows[h[1]][r] => heap'[h][r] <= 1  BY <1>2, <2>2
    <2>7. \A g \in Handles : heap'[h][r] = heap[g][r] => heap'[h][r] <= 1  BY <1>2
    <2>8. ASSUME OpenApply, log[pos + 1].change.kind = "insert", log[pos + 1].change.row = r,
                 heap'[h][r] = 1 \/ \E g \in Handles : heap'[h][r] = heap[g][r] + 1
          PROVE  heap'[h][r] <= 1
      BY <1>3, <2>8
    <2> QED  BY <2>3, <2>4, <2>5, <2>6, <2>7, <2>8, HeapStep
  <1>5. ASSUME NEW t \in Tables, NEW r \in Rows PROVE image'.view.rows[t][r] <= 1
    <2>1. snapper.handles \subseteq Handles  BY DEF TypeOK
    <2> QED  BY <1>2, <2>1, ImageStep
  <1>6. ASSUME NEW r \in Rows, ReplayedRow(r, 0)' PROVE ~InSnapshot(r)'
    <2>1. PICK i \in 1..Len(log') :
            log'[i].change.kind = "insert" /\ log'[i].change.row = r /\ log'[i].lsn > image'.lsn
      BY <1>6 DEF ReplayedRow
    <2>2. ~SnapshotWrite
      <3> SUFFICES ASSUME SnapshotWrite PROVE FALSE  OBVIOUS
      <3>1. log' = log /\ image'.lsn = nextLsn - 1 /\ phase = "up"
        BY DEF SnapshotWrite, Numbering, ThreadsOK
      <3>2. log[i].lsn \in Nat /\ log[i].lsn <= nextLsn - 1 /\ nextLsn \in Nat
        BY <2>1, <3>1, FrameTyped, NothingLoggedAbove DEF TypeOK
      <3> QED  BY <2>1, <3>1, <3>2
    <2>3. image' = image
      BY <2>2, FileSteps DEF AppendWal, SnapshotReset
    <2>4. CASE i \in 1..Len(log) /\ log'[i] = log[i]
      <3>1. ReplayedRow(r, 0)
        <4>1. i \in (0 + 1)..Len(log)  BY <2>4
        <4> QED  BY <2>1, <2>3, <2>4, <4>1 DEF ReplayedRow
      <3>2. ~InSnapshot(r)  BY <1>1, <3>1 DEF RowsOnce
      <3> QED  BY <2>3, <3>2 DEF InSnapshot
    <2>5. ASSUME NEW c \in Clients, AppendWal(c), op[c].kind = "insert", op[c].row = r
          PROVE  ~InSnapshot(r)'
      <3>1. ~InSnapshot(r)
        BY <1>1, <2>5 DEF RowsInv, RowsUnlogged, AppendWal, Unlogged
      <3> QED  BY <2>3, <3>1 DEF InSnapshot
    <2> QED  BY <2>1, <2>4, <2>5, LogStep
  <1>7. ASSUME phase' = "loading", NEW r \in Rows, ReplayedRow(r, pos)', NEW h \in Handles
        PROVE  heap'[h][r] = 0
    <2>1. PICK i \in (pos' + 1)..Len(log') :
            log'[i].change.kind = "insert" /\ log'[i].change.row = r /\ log'[i].lsn > image'.lsn
      BY <1>7 DEF ReplayedRow
    <2>2. CASE OpenSnapshot
      <3>1. /\ log' = log /\ image' = image /\ pos' = 0
            /\ heap'[h] = IF h[2] = 1 THEN image.view.rows[h[1]] ELSE NoRows
        BY <2>2 DEF OpenSnapshot, Install, disk, ThreadsOK
      <3>2. ReplayedRow(r, 0)  BY <2>1, <3>1 DEF ReplayedRow
      <3>3. ~InSnapshot(r) /\ h[1] \in Tables  BY <1>1, <3>2 DEF RowsOnce, Handles
      <3>4. ~(image.view.rows[h[1]][r] > 0) /\ image.view.rows[h[1]][r] \in Nat
        BY <1>2, <3>3 DEF InSnapshot
      <3>5. image.view.rows[h[1]][r] = 0 /\ NoRows[r] = 0  BY <3>4 DEF NoRows
      <3> QED  BY <3>1, <3>5
    <2>3. ASSUME phase = "loading", log' = log, image' = image, pos' \in {pos, pos + 1}
          PROVE  \A g \in Handles : heap[g][r] = 0
      <3>2. Len(log') = Len(log) /\ Len(log) \in Nat  BY <1>0, <2>3
      <3>0. i \in (pos' + 1)..Len(log) /\ Len(log) \in Nat
        <4>1. i \in (pos' + 1)..Len(log')  BY <2>1
        <4> QED  BY <3>2, <4>1
      <3>1. i \in (pos + 1)..Len(log)
        <4>1. CASE pos' = pos  BY <3>0, <4>1
        <4>2. CASE pos' = pos + 1  BY <1>0, <3>0, <4>2
        <4> QED  BY <2>3, <4>1, <4>2
      <3>3. ReplayedRow(r, pos)  BY <2>1, <2>3, <3>1 DEF ReplayedRow
      <3> QED  BY <1>1, <2>3, <3>3 DEF RowsOnce
    <2>4. CASE OpenSkip
      <3>1. phase = "loading" /\ log' = log /\ image' = image /\ pos' = pos + 1 /\ heap' = heap
        BY <2>4 DEF OpenSkip, disk, mem
      <3> QED  BY <2>3, <3>1
    <2>5. CASE OpenApply
      <3>1. /\ phase = "loading" /\ log' = log /\ image' = image /\ pos' = pos + 1
            /\ pos + 1 \in 1..Len(log)
        BY <1>0, <2>5 DEF OpenApply, disk
      <3>2. \A g \in Handles : heap[g][r] = 0  BY <2>3, <3>1
      <3>3. ~(log[pos + 1].change.kind = "insert" /\ log[pos + 1].change.row = r)
        <4>1. i \in 1..Len(log) /\ i # pos + 1  BY <1>0, <2>1, <3>1
        <4>2. log[i].change.kind = "insert" /\ log[i].change.row = r  BY <2>1, <3>1
        <4> QED  BY <3>1, <4>1, <4>2 DEF RowsInv, RowsLoggedOnce
      <3>4. ~OpenSnapshot  BY <3>1 DEF OpenSnapshot
      <3>5. ~ \E c \in Clients : InsertMany(c) \/ InsertManyRejects(c)
        BY <3>1 DEF InsertMany, InsertManyRejects, PushRow, ThreadsOK
      <3> QED  BY <3>2, <3>3, <3>4, <3>5, HeapStep
    <2>6. CASE UNCHANGED vars
      <3>1. phase = "loading" /\ log' = log /\ image' = image /\ pos' = pos /\ heap' = heap
        BY <1>7, <2>6 DEF vars, disk, mem
      <3> QED  BY <2>3, <3>1
    <2>7. OpenSnapshot \/ OpenSkip \/ OpenApply \/ UNCHANGED vars
      <3>1. ~ \E c \in Clients : Request(c) \/ ClientStep(c)  BY <1>7, RequestsWhileUp
      <3>2. ~SnapshotLock /\ ~SnapshotStep /\ ~SnapshotFails /\ ~BytesLock /\ ~BytesEncode
        BY <1>7, SnapshotsWhileUp
      <3>3. ~Crash /\ ~OpenFails /\ ~OpenDone  BY <1>7 DEF Crash, OpenFails, OpenDone
      <3> QED  BY <3>1, <3>2, <3>3 DEF Next, LocalStep, OpenStep, Rest
    <2> QED  BY <2>2, <2>4, <2>5, <2>6, <2>7
  <1> QED  BY <1>4, <1>5, <1>6, <1>7 DEF RowsOnce

\* The empty directory holds no row.
LEMMA RowsInit ==
  ASSUME Init
  PROVE  RowsInv
  <1>1. /\ \A c \in Clients : pc[c] = "idle" /\ op[c].kind = "none"
        /\ Len(log) = 0 /\ image.view = EmptyView /\ phase = "up"
        /\ \A h \in Handles : \A r \in Rows : heap[h][r] = 0
    BY NoOpFields DEF Init, NoHeap, NoRows
  <1>2. \A r \in Rows : ~InSnapshot(r) /\ ~LoggedRow(r, 0) /\ ~ReplayedRow(r, 0)
    BY <1>1 DEF InSnapshot, EmptyView, NoRows, LoggedRow, ReplayedRow
  <1>3. NewRows /\ RowsNew  BY <1>1, <1>2 DEF NewRows, RowsNew, Unused
  <1>4. RowsUnlogged /\ RowsLoggedOnce  BY <1>1 DEF RowsUnlogged, Unlogged, RowsLoggedOnce
  <1>5. RowsOnce
    <2>1. \A r \in Rows : \A t \in Tables : image.view.rows[t][r] = 0
      BY <1>1 DEF EmptyView, NoRows
    <2> QED  BY <1>1, <1>2, <2>1 DEF RowsOnce
  <1> QED  BY <1>3, <1>4, <1>5 DEF RowsInv

\* The invariant of ReplayInv about rows is inductive, given IInv's, and holds.
THEOREM RowsHold == Spec => []RowsInv
  <1>1. Init => Base /\ RowsInv
    BY TypeInit, NumberingInit, HandlesInit, RowsInit DEF Base
  <1>2. Base /\ RowsInv /\ [Next]_vars => (Base /\ RowsInv)'
    <2> SUFFICES ASSUME Base, RowsInv, [Next]_vars PROVE (Base /\ RowsInv)'  OBVIOUS
    <2>1. Base'  BY TypeNext, NumberingNext, HandlesNext DEF Base
    <2>2. NewRows' /\ RowsNew'  BY NewRowsNext, RowsNewNext DEF Base, RowsInv
    <2>3. RowsUnlogged' /\ RowsLoggedOnce'  BY RowsUnloggedNext, RowsLoggedOnceNext
    <2>4. ~straddled' => RowsOnce'  BY RowsOnceNext
    <2> QED  BY <2>1, <2>2, <2>3, <2>4 DEF RowsInv
  <1>3. Base /\ RowsInv => RowsInv  OBVIOUS
  <1> QED  BY <1>1, <1>2, <1>3, PTL DEF Spec

\* The invariants of ReplayInv, about decoding and about rows, hold together.
THEOREM FilesHold == Spec => []FilesInv
  <1>1. DecodingInv /\ RowsInv => FilesInv  BY DEF FilesInv
  <1> QED  BY <1>1, DecodingHolds, RowsHold, PTL

\* No row is served twice, whatever crash falls between the rename of the snapshot
\* and the truncation of the log (Database::snapshot, Database::open), unless a
\* snapshot captured a row whose record was still to be appended.
THEOREM RowsServedOnce == Spec => []NoRowTwice
  <1>1. TypeInv /\ RowsInv => NoRowTwice
    <2> SUFFICES ASSUME TypeInv, RowsInv, ~straddled, NEW t \in Tables, NEW r \in Rows
                 PROVE  View.rows[t][r] <= 1
      BY DEF NoRowTwice
    <2>1. \A h \in Handles : heap[h][r] <= 1  BY DEF RowsInv, RowsOnce
    <2>2. View.rows[t][r] = 0 \/ \E h \in Handles : View.rows[t][r] = heap[h][r]
      BY ViewRows DEF TypeInv
    <2> QED  BY <2>1, <2>2
  <1> QED  BY <1>1, RowsHold, TypeCorrect, PTL
=============================================================================
