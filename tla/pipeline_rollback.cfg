SPECIFICATION Spec
CONSTANTS
    Orgs = {o1}
    Users = {u1}
    Requests = {r1, r2}
    Keys = {}
    NoKey = NoKey
    NoPeer = NoPeer
    NoRequest = NoRequest
    SnapshotEvery = 2
    RecordsExpire = FALSE
INVARIANT FailedCommandLeavesNoEvents
