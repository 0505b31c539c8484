SPECIFICATION FairSpec
CONSTANTS
    Day <- OneBlock
    LatePoints = {3}
    BigBlock = 3
    Failing = {}
    MaxTroubles = 0
    None = None
PROPERTY FlushPersists
CHECK_DEADLOCK FALSE
