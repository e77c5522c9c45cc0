---------------------------- MODULE ReplicationInv ----------------------------
(***************************************************************************)
(* The inductive invariant behind ReplicaIsPrefix and ReplicaAdvances.  It *)
(* takes what DatabaseInv and ReplayInv say of the primary and adds what   *)
(* ties its files, its memory and the replica to the ledger of everything  *)
(* ever logged.  TLC checks it on small instances, Replication_proofs      *)
(* proves it for all of them.                                              *)
(***************************************************************************)
EXTENDS Replication, ReplayInv

-----------------------------------------------------------------------------
(* What holds in any behaviour. *)

\* A snapshot is on its way to a replica that has none; records are left only of the
\* poll in progress, and they are consecutive.
FollowOrder ==
    /\ early <= breaks
    /\ rpc \in {"start", "wait", "load"} => applied = None
    /\ rpc # "apply" => batch = <<>>
    /\ \A i \in 1..Len(batch) : batch[i].lsn = batch[1].lsn + i - 1

\* A name that exists points to the last handle made for it.
NewestHandles == \A t \in Tables : tables[t] \in {0, gen[t]}

-----------------------------------------------------------------------------
(* The primary and its ledger. *)

\* The LSN of a record is its place in the ledger, on disk and in memory.
LedgerNumbers ==
    /\ phase \in {"up", "loading"} => nextLsn = Len(ledger) + 1
    /\ \A i \in 1..Len(log) :
          log[i].lsn \in 1..Len(ledger) /\ log[i].change = ledger[log[i].lsn]
    /\ IF log = <<>> THEN image.lsn = Len(ledger) ELSE log[Len(log)].lsn = Len(ledger)

\* What a restart would make of the files is what the ledger adds up to ...
LedgerExact == Recovered(image, log).view = ViewAt(Len(ledger))

\* ... and each of its changes found the table it needs.
LedgerDecodes == \A n \in 0..(Len(ledger) - 1) : Decodable(ViewAt(n), ledger[n + 1])

\* A table that a DROP took away and that is still in the files has in memory the
\* rows the files have, and its handle is still the last one made for its name.
PendingDrops ==
    \A c \in Clients :
        Unlogged(c) /\ op[c].kind = "drop"
        => /\ op[c].table \in Recovered(image, log).view.names
           /\ gen[op[c].table] \in Gens
           /\ heap[<<op[c].table, gen[op[c].table]>>]
                = Recovered(image, log).view.rows[op[c].table]

\* A table whose CREATE is not logged yet is not in the files.
PendingCreates ==
    \A c \in Clients :
        Unlogged(c) /\ op[c].kind = "create"
        => op[c].table \notin Recovered(image, log).view.names

\* A snapshot copies the last handle made for a name.
CollectedNewest ==
    snapper.pc \in {"guard", "reset"} => \A h \in snapper.handles : h[2] = gen[h[1]]

-----------------------------------------------------------------------------
(* The replica and the ledger. *)

\* A snapshot on its way is the ledger up to its LSN, and no step back.
ReplyExact ==
    rpc = "load" => reply.lsn \in at..Len(ledger) /\ reply.view = ViewAt(reply.lsn)

\* The records of a poll are those of the ledger.
BatchLogged ==
    \A i \in 1..Len(batch) :
        batch[i].lsn \in 1..Len(ledger) /\ batch[i].change = ledger[batch[i].lsn]

\* The replica is within the ledger, and goes on from where it is unless a client of
\* its own wrote behind the synchronisation: then a record may fail, and the poll
\* that follows begins its batch again.
ReplicaBehind ==
    /\ applied <= at /\ at <= Len(ledger)
    /\ rpc = "ask" /\ applied # None /\ ~strayed => at = applied

\* It shows the ledger up to there, on the same condition.
ReplicaShows == applied # None /\ ~strayed => rview = ViewAt(at)

\* The inductive invariant.
RInv ==
    /\ RTypeOK /\ FollowOrder /\ NewestHandles
    /\ RClean => /\ LedgerNumbers /\ LedgerExact /\ LedgerDecodes
                 /\ PendingDrops /\ PendingCreates /\ CollectedNewest
                 /\ ReplyExact /\ BatchLogged /\ ReplicaBehind /\ ReplicaShows
=============================================================================
