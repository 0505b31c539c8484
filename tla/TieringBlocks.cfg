SPECIFICATION Spec
CONSTANTS
    Day <- TwoBlocks
    LatePoints = {}
    BigBlock = 3
    Failing = {}
    MaxTroubles = 0
    None = None
INVARIANT MigrationKeeps
CHECK_DEADLOCK FALSE
