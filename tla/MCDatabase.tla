----------------------------- MODULE MCDatabase -----------------------------
(* Database on small instances, with what a comment of veldb says without   *)
(* conditions, and the code does not keep.                                  *)
EXTENDS ReplayInv, TLC

\* "We acknowledge only what survives a restart" (db.rs:287-288).
AckedAlwaysSurvive ==
    phase = "up" => \A change \in acked : change.table \notin dropped => Shows(View, change)

ClientSymmetry == Permutations(Clients)
=============================================================================
