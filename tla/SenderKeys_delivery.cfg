SPECIFICATION Spec
CONSTANTS
    Member = {r}
    ChainId = {1, 2}
    MAX_FORWARD_JUMPS = 3
    MAX_MESSAGE_KEYS = 1
    MAX_SENDER_KEY_STATES = 2
    MAX_ITERATION = 3
    MaxChains = 2
    MaxInstalls = 1
    MaxGroupMessages = 5
INVARIANTS
    GroupAlwaysDecryptable
    GroupNoKeyReuse
CHECK_DEADLOCK FALSE
