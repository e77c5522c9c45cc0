\* Fair threads and a replica that keeps polling: nobody waits for ever, and the
\* replica reaches a primary left alone.
SPECIFICATION RFairSpec
CONSTANTS
    Clients = {c1}
    Tables = {t1}
    Kinds = {"create", "drop", "insert", "fetch"}
    MaxRows = 2
    MaxGen = 1
    MaxCrashes = 1
    MaxSnapshots = 1
    MaxBreaks = 1
PROPERTIES
    Converges
    RequestsFinish
    SnapshotFinishes
