SPECIFICATION MultiSpec
CONSTANTS
    alice = alice
    bob = bob
    phone = phone
    Name = {alice, bob, phone}
    NotServiceId = {phone}
    Address <- Addresses
    RegistrationId = {16383, 16384}
    None = None
    MIN_CHUNK = 1
    Parallelism = {1, 2, 3}
    MaxDestinations = 4
    MaxExcluded = 1
    MaxFlaws = 1
INVARIANTS
    SameErrorAsSequential
    RoutedAsListed
    OpenedByThoseSealedTo
CHECK_DEADLOCK FALSE
