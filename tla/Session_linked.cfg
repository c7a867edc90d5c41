SPECIFICATION FairSpec
CONSTANTS
    None = None
    Party = {a, b}
    NumPreKeys = 1
    MAX_FORWARD_JUMPS = 0
    MAX_MESSAGE_KEYS = 4
    MAX_RECEIVER_CHAINS = 4
    ARCHIVED_STATES_MAX_LENGTH = 4
    MAX_UNACKNOWLEDGED_SESSION_AGE = 0
    Linked = TRUE
    MaxMessages = 4
    MaxBundles = 2
    MaxArchives = 0
    MaxReinstalls = 0
    MaxFaults = 0
    MaxTime = 0
INVARIANTS
    AlwaysDecryptable
PROPERTIES
    EventuallyDelivered
CHECK_DEADLOCK FALSE
