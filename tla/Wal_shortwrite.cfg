\* A write that fails half way, and no death at all.
SPECIFICATION Spec
CONSTANTS
    MaxAppends = 2
    MaxResets = 0
    MaxDeaths = 0
    MaxFaults = 1
INVARIANT
    AckedAlwaysReadable
