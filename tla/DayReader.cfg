SPECIFICATION FairSpec
CONSTANTS
    Times = {1, 2, 3}
    Images <- MCImages
    HeaderSize = 3
    FieldSize = 1
    CrcSize = 2
    Fields = 1
    MaxCount = 27
INVARIANTS
    TypeOK
    RelevantExact
    AnswerSound
    QueryComplete
    ScanExact
PROPERTIES
    QueryTerminates
CHECK_DEADLOCK FALSE
