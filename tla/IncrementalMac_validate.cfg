SPECIFICATION Spec
CONSTANTS
    MINIMUM_CHUNK_SIZE = 2
    MAXIMUM_CHUNK_SIZE = 3
    TARGET_CHUNK_COUNT = 2
    MaxData = 7
    MaxExtra = 2
    MaxExtraMacs = 1
INVARIANTS
    MacsOfPrefixes
    DigestsNearTarget
    ValidatedIsSent
    IntactAccepted
CHECK_DEADLOCK FALSE
