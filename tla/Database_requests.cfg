\* Two threads on one table with every request, a batch that is rejected half way and
\* appends to the log that fail included; one snapshot, two crashes.
SPECIFICATION Spec
CONSTANTS
    Clients = {c1, c2}
    Tables = {t1}
    Kinds = {"create", "drop", "insert", "badbatch", "fault"}
    MaxRows = 1
    MaxGen = 2
    MaxCrashes = 2
    MaxSnapshots = 1
SYMMETRY ClientSymmetry
INVARIANTS
    TypeOK
    WalNumbered
    AckedSurvive
    OpenSucceeds
    RecoveryExact
    IInv
