SPECIFICATION Spec
CONSTANTS
    Types = {"rpc", "blockscout", "routescan", "other"}
    KnownTypes = {"rpc", "blockscout", "routescan"}
    SeedOrder <- MCSeedOrder
    e1 = e1
    e2 = e2
    Endpoints = {e1, e2}
    NoEndpoint = NoEndpoint
    DefaultEndpoint <- MCDefaultEndpoint
    Admins = {a1, a2}
    Keep = Keep
    MaxEvents = 2
    Raws = {v1, v2}
    Replayers = {p1}
    MaxDiffs = 2
SYMMETRY Symmetry
INVARIANTS
    StoredSecretsDecrypt
    RecordsNarrow
    ResolvedOnTwoAnswers
    SweptForGood
CHECK_DEADLOCK FALSE
