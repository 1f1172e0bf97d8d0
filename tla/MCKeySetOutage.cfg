\* The provider does not answer one of the fetches.
SPECIFICATION Spec
CONSTANTS
    k1 = k1
    k2 = k2
    Forger = Forger
    NoKid = NoKid
    EarlyExp = 3
    LateExp = 6
    Callers = {c1, c2}
    Keys = {k1}
    Tokens <- Genuines
    NoToken = NoToken
    Free = Free
    RetryEvery = 1
    FetchTime = 1
    MinInterval = 2
    MaxAge = 3
    ClockSkew = 1
    MaxFailures = 2
    MaxTime = 5
PROPERTY
    ProviderDownIs503
CHECK_DEADLOCK FALSE
