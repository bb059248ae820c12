SPECIFICATION FairSpec
CONSTANTS
    Customers = {c1}
    CustomerStates <- MCStates
    Actors = {a1, a2}
    Requests = {r1}
    Workers = {w1, w2}
    None = None
    MaxAttempts = 2
    Isolated = TRUE
    MaxRevision = 1
    MaxDisturbances = 1
PROPERTIES
    WithdrawnStaysWithdrawn
    OnlyHolderEndsLease
    SettledIsFinal
    ImplementsLedger
    JobsSettle

CHECK_DEADLOCK FALSE
