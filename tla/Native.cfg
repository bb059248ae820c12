SPECIFICATION Spec
CONSTANTS
    Workflows = {"sql", "retained", "application"}
    StartTimes = {2}
    MaxFaults = 1
    MaxWindowLag = 4
    FragileKinds = {"database", "backup", "endpoint", "subnet"}
INVARIANTS
    KeyOutlivesData
    GuardOutlivesRuntime
    PassedMeansShown
PROPERTIES
    RestoredAtPoint
    NoEffectBehind
    SourceGivenUpSafely
    EventuallyClean
CHECK_DEADLOCK FALSE
