SPECIFICATION Spec
CONSTANTS
    Customers = {c1}
    CustomerStates <- MCStates
    Actors = {a1, a2}
    Requests = {r1}
    Workers = {w1, w2}
    None = None
    MaxAttempts = 2
    Isolated = FALSE
    MaxRevision = 1
    MaxDisturbances = 2
SYMMETRY MCSymmetry
INVARIANT ExhaustedStaysUncertain

CHECK_DEADLOCK FALSE
