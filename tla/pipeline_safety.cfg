SPECIFICATION Spec
CONSTANTS
    Orgs = {o1}
    Users = {u1}
    Requests = {r1, r2, r3}
    Keys = {k1}
    NoKey = NoKey
    NoPeer = NoPeer
    NoRequest = NoRequest
    SnapshotEvery = 2
    RecordsExpire = TRUE
SYMMETRY RequestSymmetry
INVARIANTS
    TypeOK
    StreamsContiguous
    EventsAreOutboxed
    GuardsHold
    SnapshotsFaithful
    OkIsDurable
    RecordedIsCommitted
    MirrorUnlessPartial
PROPERTY AppendsAtomically
