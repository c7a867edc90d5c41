SPECIFICATION Spec
CONSTANTS
    Member = {r}
    ChainId = {1, 2}
    MAX_FORWARD_JUMPS = 1
    MAX_MESSAGE_KEYS = 1
    MAX_SENDER_KEY_STATES = 1
    MAX_ITERATION = 4
    MaxChains = 2
    MaxInstalls = 2
    MaxGroupMessages = 4
INVARIANTS
    TypeOK
    GroupLimitsRespected
    AtMostOncePerInstall
    NoHistory
PROPERTIES
    NoRewind
CHECK_DEADLOCK FALSE
