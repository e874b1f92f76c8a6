SPECIFICATION BootSpec
CONSTANTS
    None = None
    Empty = Empty
    Instances = {i1, i2}
    Names = {n1, n2}
    MaxRuns = 5
    MaxFaults = 4
SYMMETRY BootSymmetry
CHECK_DEADLOCK FALSE
INVARIANTS
    BootConsistent
    DoneIsDurable
    LostOnlyByInterrupt
