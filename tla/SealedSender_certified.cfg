SPECIFICATION SealedSpec
CONSTANTS
    None = None
    Party = {a, b, c}
    NumPreKeys = 0
    MAX_FORWARD_JUMPS = 4
    MAX_MESSAGE_KEYS = 4
    MAX_RECEIVER_CHAINS = 3
    ARCHIVED_STATES_MAX_LENGTH = 3
    MAX_UNACKNOWLEDGED_SESSION_AGE = 1
    Linked = FALSE
    MaxMessages = 3
    MaxBundles = 1
    MaxArchives = 0
    MaxReinstalls = 1
    MaxFaults = 0
    MaxTime = 1
    Lifetime = 0
    MaxUnusual = 1
    MaxMoves = 1
SYMMETRY Symmetry
INVARIANTS
    AcceptedIsCertified
    RecordsOfSender
    SealedAlwaysDecryptable
PROPERTIES
    ImplementsChannel
CHECK_DEADLOCK FALSE
