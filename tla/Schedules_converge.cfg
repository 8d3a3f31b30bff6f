SPECIFICATION FairSpec
CONSTANTS
    Jobs = {j1, j2}
    Replicas = {m1, m2}
    Tasks = {t1}
    Day = 2
    MaxRetry = 1
    Faults = TRUE
    Undecodable = TRUE
INVARIANTS
    FiresAccountedFor
PROPERTIES
    FiresSettle
    CancelledStopsFiring
    SchedulesArePickedUp
CHECK_DEADLOCK FALSE
