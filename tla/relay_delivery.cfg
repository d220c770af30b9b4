SPECIFICATION FairSpec
CONSTANTS
    worker = worker
    other = other
    Messages = {1, 2}
    Publishers = {worker, other}
    Loops = {worker}
    BatchSize <- SmallAndLarge
    MaxRetries = 2
    MaxFaults = 2
    MaxResets = 1
CHECK_DEADLOCK FALSE
INVARIANTS
    TypeOK
    PublishedWasDelivered
    GaveUpAfterRetries
    DuplicatesHaveACause
    RetryBudget
PROPERTY EverySettles
