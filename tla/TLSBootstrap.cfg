SPECIFICATION FairSpec

CONSTANTS
    intermediate = intermediate
    modern = modern
    future = future
    noCiphers = noCiphers
    unset = unset
    legacy = legacy
    strict = strict
    Profiles = {intermediate, modern, future, noCiphers}
    Intermediate = intermediate
    Unreadable = {future}
    Unusable = {noCiphers}
    Policies = {unset, legacy, strict}
    Honoring = {strict}
    Unset = unset
    None = None
    MaxEdits = 4
    MaxFaults = 2

INVARIANTS
    TypeOK
    ServesClusterProfile
    RestartsAreEarned

PROPERTIES
    Converges

CHECK_DEADLOCK FALSE
