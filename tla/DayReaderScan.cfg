SPECIFICATION Spec
CONSTANTS
    Times = {1, 2, 3}
    Images <- MCScanImages
    HeaderSize = 3
    FieldSize = 1
    CrcSize = 2
    Fields = 1
    MaxCount = 27
INVARIANT FullScanComplete
CHECK_DEADLOCK FALSE
