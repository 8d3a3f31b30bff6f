SPECIFICATION FairSpec
CONSTANTS
    Modulus = 8
    Anchor = 4
    MaxBlocks = 8
    MaxLosses = 1
    Jobs <- MCJobs
INVARIANTS
    SampleIsAsDocumented
    SummaryCoversTheRun
    ValuesComeFromTheirFetch
    DisagreementsAreSaved
PROPERTIES
    ExecutionEnds
CHECK_DEADLOCK FALSE
