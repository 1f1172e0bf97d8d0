\* Rotating keys, failing fetches, genuine and invented tokens.
SPECIFICATION Spec
CONSTANTS
    k1 = k1
    k2 = k2
    Forger = Forger
    NoKid = NoKid
    EarlyExp = 3
    LateExp = 8
    Callers = {c1, c2}
    Keys = {k1, k2}
    Tokens <- Presented
    Free = Free
    NoToken = NoToken
    RetryEvery = 1
    FetchTime = 1
    MinInterval = 2
    MaxAge = 3
    ClockSkew = 1
    MaxFailures = 1
    MaxTime = 7
INVARIANTS
    ProviderIsSpared
PROPERTIES
    RemovedKeyStops
    RotationLands
    OutageKeepsKeys
SYMMETRY Symmetry
CHECK_DEADLOCK FALSE
