SPECIFICATION FairSpec
CONSTANTS
    Clients = {c1, c2}
    MaxCommands = 3
    Users = {u1, u2}
    Invitations = {i1, i2}
    MaxParticipants = 1
    Runners = {worker, route}
    Loops = {worker}
    BatchSize = 2
    RevokeWired = TRUE
    NoOne = NoOne
    MaxFaults = 1
CHECK_DEADLOCK FALSE
INVARIANTS
    TypeOK
    HistoryLegal
    ReadModelConverges
PROPERTY EveryInvitationIsFound
