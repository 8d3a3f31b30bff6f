SPECIFICATION Spec
CONSTANTS
    Null = Null
    Metrics <- MCMetrics
    Zones = {"UTC", "Asia/Seoul"}
    MaxInt64 = 127
    Requests <- MCRequests
    Outcomes <- MCOutcomes
    Calls = {1, 2}
    RunIds = {r1, r2, r3}
    Jobs = {j1}
    Micro = 2
    Strides = {3}
    MaxTime = 6
    PageSize = 1
    Faults = TRUE
SYMMETRY Symmetry
CONSTRAINT PagingBound
INVARIANTS
    ExecutionMatchesRequest
    StoredRowsReadBack
    AnswersTellTheTruth
    PagesMissOnlyForSweeps
CHECK_DEADLOCK FALSE
