SPECIFICATION Spec
CONSTANTS
    Customers = {c1}
    CustomerStates <- MCStates
    Actors = {a1, a2}
    Requests = {r1}
    Workers = {w1, w2}
    None = None
    MaxAttempts = 2
    Isolated = TRUE
    MaxRevision = 1
    MaxDisturbances = 2
SYMMETRY MCSymmetry
INVARIANTS
    EffectMatchesIntent
    NoIdentityConflict
    EffectAuthorised
    SuccessHasEffect
    InFlightIsUncertain
    RequeueIsUnique
    AttemptsBounded
CHECK_DEADLOCK FALSE
