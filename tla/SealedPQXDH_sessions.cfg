SPECIFICATION SealedSpec
CONSTANTS
    None = None
    Party = {a, b}
    NumPreKeys = 0
    MAX_FORWARD_JUMPS = 4
    MAX_MESSAGE_KEYS = 4
    MAX_RECEIVER_CHAINS = 4
    ARCHIVED_STATES_MAX_LENGTH = 1
    MAX_UNACKNOWLEDGED_SESSION_AGE = 0
    Linked = FALSE
    MaxMessages = 4
    MaxBundles = 0
    MaxArchives = 0
    MaxReinstalls = 0
    MaxFaults = 0
    MaxTime = 0
    RepeatHandshakes = FALSE
    MaxHandshakes = 2
    MaxDamaged = 0
SYMMETRY Symmetry
INVARIANTS
    SealedDecryptable
CHECK_DEADLOCK FALSE
