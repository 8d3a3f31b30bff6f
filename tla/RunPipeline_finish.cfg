SPECIFICATION FairSpec
CONSTANTS
    RunIds = {r1, r2}
    NoRun = NoRun
    Workers = {w1, w2}
    Cancellers = {c1}
    NItems = 1
    MaxRetry = 1
    Retention = 1
    MaxTime = 0
    Faults = FALSE
    Overlap = FALSE
PROPERTIES
    SubmittedRunsFinish
CHECK_DEADLOCK FALSE
