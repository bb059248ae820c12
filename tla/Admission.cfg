SPECIFICATION Spec
CONSTANTS
    Keys = {k1, k2, k3, k4}
    Apis = {a1, a2, a3}
    None = None
    Limit = 2
SYMMETRY Symmetry
INVARIANTS
    OverfillIsLateApproval
CHECK_DEADLOCK FALSE
