SPECIFICATION Spec
CONSTANTS
    Conns = {c1, c2}
    Days = {1, 2}
    Requests <- MCRequests
    MaxRequests = 2
    MayFail = TRUE
SYMMETRY Symmetry
INVARIANTS
    TypeOK
    OneWriter
    AnswersInOrder
    SuccessIsWhole
    EarlyIsDurable
    StatsAgree
CHECK_DEADLOCK FALSE
