SPECIFICATION FairSpec
CONSTANTS
    MaxPoints = 3
    MaxBatch = 2
    MaxOpens = 2
    BatchSize = 2
    IndexInterval = 0
    PointBytes = 1
    ZstdLen <- MCZstdLen
    TimeOf <- MCTimeOf
    Faults = {"write", "sync", "crash"}
PROPERTIES
    EveryPointSettles
    CloseTerminates
    ImplementsPointLog
CHECK_DEADLOCK FALSE
