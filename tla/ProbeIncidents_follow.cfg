SPECIFICATION FairSpec
CONSTANTS
    Probers = {p1, p2}
    Evaluators = {e1}
    Thresholds <- Mixed
    Replies <- MCReplies
    None = None
    Interval = 1
    PerFailure = 1
    EvidenceMax = 2
    MaxTime = 2
    Faults = TRUE
INVARIANTS
    EvidenceShowsBreach
    IncidentsInSequence
PROPERTIES
    IncidentsFollowMetric
CHECK_DEADLOCK FALSE
