SPECIFICATION Spec
CONSTANTS
    KeyOrder <- MCKeyOrder
    MaxBoots = 2
    Approved = {r1, r2}
    Rejected = {r3}
    MaxCommands = 3
SYMMETRY MCSymmetry
INVARIANTS
    CompletedIsDeployed
    UtilityAlone
    TokensSurvive
    CredentialsAgree
    ServicesReconciled
CHECK_DEADLOCK FALSE
