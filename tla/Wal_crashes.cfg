\* The Wal with and without fsync; the process dies, power fails, writes fail.
SPECIFICATION Spec
CONSTANTS
    MaxAppends = 4
    MaxResets = 2
    MaxDeaths = 2
    MaxFaults = 2
INVARIANTS
    TypeOK
    AckedReadable
    ReadableNumbered
    IInv
PROPERTIES
    PollsOnlyRead
    LogSpec
