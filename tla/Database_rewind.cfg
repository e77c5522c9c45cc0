\* One thread, no race: a restart between a snapshot and the next write.
SPECIFICATION Spec
CONSTANTS
    Clients = {c1}
    Tables = {t1}
    Kinds = {"create", "insert"}
    MaxRows = 2
    MaxGen = 1
    MaxCrashes = 2
    MaxSnapshots = 1
INVARIANT
    AckedAlwaysSurvive
