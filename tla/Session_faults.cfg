SPECIFICATION Spec
CONSTANTS
    None = None
    Party = {a, b}
    NumPreKeys = 1
    MAX_FORWARD_JUMPS = 1
    MAX_MESSAGE_KEYS = 1
    MAX_RECEIVER_CHAINS = 2
    ARCHIVED_STATES_MAX_LENGTH = 1
    MAX_UNACKNOWLEDGED_SESSION_AGE = 0
    Linked = FALSE
    MaxMessages = 4
    MaxBundles = 3
    MaxArchives = 0
    MaxReinstalls = 0
    MaxFaults = 1
    MaxTime = 0
SYMMETRY Symmetry
INVARIANTS
    NoKeyReuse
    OneTimePreKeyOnce
PROPERTIES
    ImplementsChannel
CHECK_DEADLOCK FALSE
