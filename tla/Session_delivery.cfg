SPECIFICATION Spec
CONSTANTS
    None = None
    Party = {a, b}
    NumPreKeys = 1
    MAX_FORWARD_JUMPS = 4
    MAX_MESSAGE_KEYS = 4
    MAX_RECEIVER_CHAINS = 4
    ARCHIVED_STATES_MAX_LENGTH = 4
    MAX_UNACKNOWLEDGED_SESSION_AGE = 0
    Linked = FALSE
    MaxMessages = 4
    MaxBundles = 2
    MaxArchives = 1
    MaxReinstalls = 0
    MaxFaults = 0
    MaxTime = 1
SYMMETRY Symmetry
INVARIANTS
    AlwaysDecryptable
    BaseKeysUnique
PROPERTIES
    NoStaleSend
CHECK_DEADLOCK FALSE
