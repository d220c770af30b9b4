SPECIFICATION FairSpec
CONSTANTS
    Rows = {1, 2}
    Runners = {worker, route}
    Loops = {worker}
    Rebuilder = rebuilder
    BatchSize = 2
    MaxFaults = 1
    MaxRebuilds = 1
INVARIANTS
    TypeOK
    NothingMissed
    AppliedOnce
PROPERTIES
    HandledInOrder
    EveryEventIsHandled
