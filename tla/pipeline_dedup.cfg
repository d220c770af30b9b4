SPECIFICATION Spec
CONSTANTS
    Orgs = {o1}
    Users = {u1}
    Requests = {r1, r2}
    Keys = {k1}
    NoKey = NoKey
    NoPeer = NoPeer
    NoRequest = NoRequest
    SnapshotEvery = 2
    RecordsExpire = FALSE
INVARIANT KeyExecutedOnce
