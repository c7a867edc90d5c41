SPECIFICATION Spec
CONSTANTS
    None = None
    Party = {a, b}
    NumPreKeys = 0
    MAX_FORWARD_JUMPS = 1
    MAX_MESSAGE_KEYS = 1
    MAX_RECEIVER_CHAINS = 1
    ARCHIVED_STATES_MAX_LENGTH = 1
    MAX_UNACKNOWLEDGED_SESSION_AGE = 0
    Linked = FALSE
    MaxMessages = 6
    MaxBundles = 2
    MaxArchives = 0
    MaxReinstalls = 1
    MaxFaults = 0
    MaxTime = 0
SYMMETRY Symmetry
INVARIANTS
    TypeOK
    LimitsRespected
    AtMostOnce
    ForwardSecrecy
    RatchetAgreement
PROPERTIES
    IdentityPinned
CHECK_DEADLOCK FALSE
