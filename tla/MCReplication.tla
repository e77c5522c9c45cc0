---------------------------- MODULE MCReplication ----------------------------
(* Replication on small instances. *)
EXTENDS ReplicationInv
=============================================================================
