SPECIFICATION FairSpec
CONSTANTS
    Execs = {e1, e2}
    Sources = {s1, s2}
    Capped = {s1}
    Limit = 1
    MaxWindow = 1
    MaxRounds = 1
    Faults = TRUE
INVARIANTS
    CountWithinLimit
    OverspendIsStrayRefunds
    LeaksAreAccountedFor
PROPERTIES
    FanOutsJoin
CHECK_DEADLOCK FALSE
