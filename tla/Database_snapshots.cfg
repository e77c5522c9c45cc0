\* Two threads that create and fill two tables beside two snapshots. Appends and
\* snapshots may fail, and there are crashes between any two steps.
SPECIFICATION Spec
CONSTANTS
    Clients = {c1, c2}
    Tables = {t1, t2}
    Kinds = {"create", "insert", "fetch", "fault"}
    MaxRows = 2
    MaxGen = 1
    MaxCrashes = 2
    MaxSnapshots = 2
SYMMETRY ClientSymmetry
INVARIANTS
    FilesInv
    ResetDropsOnlyCovered
    NoRowTwice
PROPERTIES
    SnapshotsAdvance
    LogSpec
