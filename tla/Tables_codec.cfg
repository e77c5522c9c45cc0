\* Batches of up to two rows, good and bad, snapshots and restarts in any order;
\* the strings of one column outgrow their offsets.
SPECIFICATION Spec
CONSTANTS
    Schema <- MCSchema
    Dim = 2
    RowChoices <- MCRows
    MaxBatch = 2
    MaxInserts = 3
    OffsetLimit = 7
INVARIANTS
    TypeOK
    RowsComeBack
    RecoveryExact
    AlwaysStarts
