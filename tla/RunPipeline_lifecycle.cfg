SPECIFICATION Spec
CONSTANTS
    RunIds = {r1, r2}
    NoRun = NoRun
    Workers = {w1, w2}
    Cancellers = {}
    NItems = 1
    MaxRetry = 1
    Retention = 1
    MaxTime = 2
    Faults = TRUE
    Overlap = FALSE
SYMMETRY Symmetry
INVARIANTS
    DiffsBelongToStartedRuns
    NoComparisonRecordedTwice
PROPERTIES
    ImplementsLifecycle
CHECK_DEADLOCK FALSE
