SPECIFICATION Spec
CONSTANTS
    RunIds = {r1}
    NoRun = NoRun
    Workers = {w1}
    Cancellers = {c1}
    NItems = 1
    MaxRetry = 1
    Retention = 1
    MaxTime = 0
    Faults = FALSE
    Overlap = FALSE
PROPERTIES
    TerminalIsFinal
CHECK_DEADLOCK FALSE
