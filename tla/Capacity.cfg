CONSTANTS
    None = None
    Callers = {c1, c2}
    Tokens = {t1, t2, t3}
    Rps = 2
    Concurrency = 1
    PermitLife = 3
    ClientTimeout = 1
    Cooldowns = {1, 2}
    MaxReads = 1
    MaxClock = 4
    MaxSetBacks = 1
SPECIFICATION Spec
SYMMETRY Symmetry
INVARIANTS
    BudgetHolds
    ConcurrencyHolds
PROPERTIES
    CooldownHolds
CHECK_DEADLOCK FALSE
