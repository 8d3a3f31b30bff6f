SPECIFICATION FairSpec
CONSTANTS
    RunIds = {r1}
    NoRun = NoRun
    Workers = {w1, w2}
    Cancellers = {c1}
    NItems = 1
    MaxRetry = 1
    Retention = 1
    MaxTime = 2
    Faults = TRUE
    Overlap = TRUE
INVARIANTS
    TypeOK
    RowsCoherent
PROPERTIES
    TasksSettle
    SweepTakesOnlyOldFinishedRuns
    SettledForGood
CHECK_DEADLOCK FALSE
