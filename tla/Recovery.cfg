SPECIFICATION Spec
CONSTANTS
    Keys = {k1}
    Facts = {f1}
    Writers = {w1}
    Sessions = {s1, s2}
    Proofs = {p1, p2}
    None = None
    MaxGenerations = 1
    MaxWrites = 4
SYMMETRY MCSymmetry
INVARIANTS
    ApprovalBelongsToClosing
PROPERTIES
    ClosedStopsWork
    OpensOnCurrentEvidence
    OpensReconciled
    SessionsAreSpent
CHECK_DEADLOCK FALSE
