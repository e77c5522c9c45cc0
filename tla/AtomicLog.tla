------------------------------ MODULE AtomicLog ------------------------------
(* What the rest of veldb takes the write-ahead log for: a sequence of       *)
(* numbered records that grows by one record at a time or is emptied as a    *)
(* whole, that survives the process, and whose counter does not.             *)
EXTENDS LogNumbers

CONSTANT Payloads       \* what a record may say

VARIABLES
    up,         \* a process has the log open
    log,        \* the records recovery would read now
    nextLsn     \* the counter of that process, 1 while there is none

vars == <<up, log, nextLsn>>

Init == up \in BOOLEAN /\ log = <<>> /\ nextLsn = 1

Open ==
    /\ ~up /\ up' = TRUE
    /\ nextLsn' = NextLsnOf(log)
    /\ UNCHANGED log

Write(payload) ==
    /\ up
    /\ log' = Append(log, [lsn |-> nextLsn, change |-> payload])
    /\ nextLsn' = nextLsn + 1
    /\ UNCHANGED up

Clear == up /\ log' = <<>> /\ UNCHANGED <<up, nextLsn>>

Die == up /\ up' = FALSE /\ nextLsn' = 1 /\ UNCHANGED log

Next == Open \/ (\E payload \in Payloads : Write(payload)) \/ Clear \/ Die

Spec == Init /\ [][Next]_vars
=============================================================================
