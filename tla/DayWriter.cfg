SPECIFICATION Spec
CONSTANTS
    MaxPoints = 3
    MaxBatch = 2
    MaxOpens = 2
    BatchSize = 2
    IndexInterval = 2
    PointBytes = 1
    ZstdLen <- MCZstdLen
    TimeOf <- MCTimeOf
    Faults = {"write", "torn", "sync", "idx", "crash"}
INVARIANTS
    TypeOK
    Conservation
    DiskOrder
    IndexSound
    IndexComplete
    CloseFlushesAll
PROPERTIES
    NoFaultNoLoss
    DurableForever
CHECK_DEADLOCK FALSE
