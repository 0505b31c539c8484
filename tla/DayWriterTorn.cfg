SPECIFICATION Spec
CONSTANTS
    MaxPoints = 3
    MaxBatch = 2
    MaxOpens = 2
    BatchSize = 2
    IndexInterval = 2
    PointBytes = 1
    ZstdLen <- MCZstdLen
    TimeOf <- MCTimeOf
    Faults = {"torn"}
INVARIANTS
    IndexInSync
CHECK_DEADLOCK FALSE
