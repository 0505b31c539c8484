SPECIFICATION Spec
CONSTANTS
    Day <- OneBlock
    LatePoints = {}
    BigBlock = 3
    Failing = {}
    MaxTroubles = 1
    None = None
INVARIANT CrashSafe
CHECK_DEADLOCK FALSE
