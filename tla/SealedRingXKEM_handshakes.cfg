SPECIFICATION RingSpec
CONSTANTS
    None = None
    Party = {a, b}
    NumPreKeys = 1
    MAX_FORWARD_JUMPS = 1
    MAX_MESSAGE_KEYS = 1
    MAX_RECEIVER_CHAINS = 1
    ARCHIVED_STATES_MAX_LENGTH = 1
    MAX_UNACKNOWLEDGED_SESSION_AGE = 0
    Linked = FALSE
    MaxMessages = 0
    MaxBundles = 0
    MaxArchives = 0
    MaxReinstalls = 1
    MaxFaults = 0
    MaxTime = 0
    MaxHandshakes = 2
    MaxDamaged = 1
    MaxForeign = 2
SYMMETRY Symmetry
INVARIANTS
    RingAgreement
    SessionKeyBindsRun
    RingCompletes
    RingSessionsAgree
CHECK_DEADLOCK FALSE
