\* Two threads, two tables with three schemas, every way to insert, a memory limit.
SPECIFICATION Spec
CONSTANTS
    Clients = {c1, c2}
    Tables = {t1, t2}
    Limit = 3
    MaxRequests = 4
    Schemas <- MCSchemas
    Inserts <- MCInserts
SYMMETRY ClientSymmetry
INVARIANTS
    TypeOK
    NamedColumnsKept
    RecoveryExact
    MemoryBounded
    PipelineInv
