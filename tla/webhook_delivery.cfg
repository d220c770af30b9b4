SPECIFICATION FairSpec
CONSTANTS
    Deliveries = {d1}
    MaxAttempts = 3
    MaxInFlight = 2
    FailureThreshold = 2
    SuccessThreshold = 2
    Cooldown = 1
    Window = 1
INVARIANTS
    TypeOK
    PendingIsDriven
    OneOutcomePerStart
    ClosedBelowThreshold
PROPERTY Settles
