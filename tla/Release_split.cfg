SPECIFICATION Spec
CONSTANTS
    KeyOrder <- MCKeyOrder
    MaxBoots = 2
    Approved = {r1}
    Rejected = {}
    MaxCommands = 3
SYMMETRY MCSymmetry
INVARIANT ClosedWhileBehind
CHECK_DEADLOCK FALSE
