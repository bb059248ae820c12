SPECIFICATION Spec
CONSTANTS
    A = A
    B = B
    Yes = Yes
    Deliveries <- MCDeliveries
    Values <- MCValues
    Customers = {c1, c2}
    Apis = {a1, a2}
    None = None
SYMMETRY Symmetry
INVARIANTS
    ProvenanceTrue
    NothingNewerLost
    RevisionCounts
    SequencesComparable
    EmailsCreatedApart
    RefusalsAreReviewed
PROPERTIES
    ImplementsRegisters
CHECK_DEADLOCK FALSE
