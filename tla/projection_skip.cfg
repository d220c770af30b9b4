SPECIFICATION Spec
CONSTANTS
    Rows = {1, 2}
    Runners = {worker}
    Loops = {worker}
    Rebuilder = rebuilder
    BatchSize = 2
    MaxFaults = 1
    MaxRebuilds = 0
INVARIANT FailedEventIsRetried
