SPECIFICATION FairSpec
CONSTANTS
    Day <- OneBlock
    LatePoints = {3}
    BigBlock = 3
    Failing = {"read", "write", "rename", "copy", "fill", "remove", "removeIdx"}
    MaxTroubles = 1
    None = None
INVARIANTS
    TypeOK
    NeverMissing
    CalmOnce
PROPERTIES
    ExpiredGoes
CHECK_DEADLOCK FALSE
