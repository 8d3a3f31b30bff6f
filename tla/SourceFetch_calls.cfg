SPECIFICATION FairSpec
CONSTANTS
    MaxAttempts = 3
    MaxDelay = 2
    Burst = 1
    RetryAfters = {1, 3}
INVARIANTS
    RateHeld
    CompleteOrNothing
    PermanentErrorsAreAnswers
PROPERTIES
    RetriesWait
    FetchesReturn
