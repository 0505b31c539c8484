SPECIFICATION FairSpec
CONSTANTS
    Conns = {c1, c2}
    Days = {1}
    Requests <- MCWrites
    MaxRequests = 2
    MayFail = TRUE
PROPERTIES
    ShutdownEnds
    EveryWriteAnswered
CHECK_DEADLOCK FALSE
