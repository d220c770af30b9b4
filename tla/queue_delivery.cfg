SPECIFICATION FairSpec
CONSTANTS
    Payloads = {p1, p2}
    MaxAttempts = 2
    Concurrency = 1
    Replayers = {a1, a2}
    MaxMessages = 3
    MaxFaults = 1
CHECK_DEADLOCK FALSE
INVARIANTS
    TypeOK
    NeverLost
    DuplicatesHaveACause
PROPERTY EverySettles
