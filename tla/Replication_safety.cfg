\* One thread with every request and two snapshots beside a replica with two mishaps: a
\* death, a lost answer, or an early write of its own clients and the batch that fails.
SPECIFICATION RSpec
CONSTANTS
    Clients = {c1}
    Tables = {t1}
    Kinds = {"create", "drop", "insert", "fetch"}
    MaxRows = 2
    MaxGen = 1
    MaxCrashes = 1
    MaxSnapshots = 2
    MaxBreaks = 2
INVARIANTS
    RTypeOK
    ReplicaIsPrefix
    RInv
PROPERTY
    ReplicaAdvances
