SPECIFICATION Spec
CONSTANTS
    Raws <- MCRaws
    RawValue <- MCValues
    NotANumber = NotANumber
    Nil = Nil
    Modulus = 8
    NSources = 3
    Reflected = {Nil, 1, 7}
    Anchors = {1, 6}
    Categories = {"blockImmutable", "addressAtBlock", "addressLatest", "snapshot"}
    RankedSources = {1, 3}
    LatestFwd = 3
    Overrides <- Pinned
INVARIANTS
    OutcomeFitsSample
    TrustIsDeterministic
CHECK_DEADLOCK FALSE
