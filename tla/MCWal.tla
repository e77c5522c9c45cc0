-------------------------------- MODULE MCWal --------------------------------
(* Wal on small instances, with what a comment of the code says of it       *)
(* without conditions, and the code does not keep.                          *)
EXTENDS WalInv

\* "A partial write is possible only when the power is cut, and the CRC catches
\* it at the next open" (storage.rs:205-206): then no error of append can cost a
\* record that a later append was answered Ok for.
AckedAlwaysReadable == pc = "ready" => acked \ covered \subseteq Readable(file)
=============================================================================
