SPECIFICATION Spec
CONSTANTS
    Requests = {r1, r2}
    Players = {p1, p2}
    Sessions = {s1, s2, s3}
    Deposits = {15, 25}
    Minutes = {1}
    Scores = {5, 6000}
    CostPerMinute = 10
    MaxReward = 500
    NoRow = NoRow
    Begun = TRUE
    MaxFaults = 2
    MaxRebuilds = 2
SYMMETRY Symmetry
CHECK_DEADLOCK FALSE
INVARIANTS
    TypeOK
    VersionsConsecutive
    BalanceAccounted
    NoOverdraft
    OneActiveSession
PROPERTY ScoresOnlyRise
