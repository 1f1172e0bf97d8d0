\* Two probes; alice behind the proxy, bob in front of it; one socket; two
\* operations at once; a call of Redis is one read attempt.
SPECIFICATION Spec
CONSTANTS
    alice = alice
    bob = bob
    Clients = {alice, bob}
    Direct = {bob}
    Proxy = Proxy
    Junk = Junk
    Typed <- Typed1
    Network <- Networks1
    Routes = {"/graphql", "/dev"}
    Hops = 1
    Burst = 2
    Interval = 1
    GateBurst = 1
    GateInterval = 2
    Attempts = 1
    RedisReadTimeout = 2
    Probes = {p1, p2}
    HealthCheckTimeout = 3
    CacheFor = 1
    Sockets = {s1}
    Ops = {o1}
    InitTimeout = 1
    Skew = 1
    ProfileTTL = 1
    Hold = 2
    Expiries = {1, 7}
    MaxOutages = 2
    MaxTime = 6
    Horizon = 4
    admin = admin
    user = user
    f1 = f1
    f2 = f2
    f3 = f3
    bucket = bucket
    deep = deep
    secret = secret
    blank = blank
    site = site
    dots = dots
    Environments <- MCEnvironments
    Bucket = bucket
    MaxLinkTTL = 1
    DefaultPassword = DefaultPassword
    BlankOrigin = blank
    Passwords = {secret, DefaultPassword}
    Origins = {site, blank}
    Segments = {bucket, deep, dots, f1, f2, f3}
    Profiles = {admin, user}
    Nobody = Nobody
    Files = {f1, f2, f3}
    Owner <- MCOwner
    Dots = dots
    NoLink = NoLink
    BlankLink = BlankLink
    NotAUrl = NotAUrl
    NullLink = NullLink
    Requests = {r1, r2}
    Admins = {admin}
    Anonymous = Anonymous
    Documents <- MCDocuments
    MaxFields = 2
    ComplexityLimit = 2
    APQCacheSize = 1
    MaxOperations = 2
INVARIANTS
    ProbeAnswersInTime
    WorkIsBudgeted
    NothingOutlivesToken
    OnlyOwnFiles
    OwnLinkIsServed
    AvatarRoundTrip
    LastFieldPrevails
    AnswersAreRestrained
    CapHoldsByHash
PROPERTIES
    ReadyIsRecent
    HealthyReplicaIsReady
    RefusedForOwnWork
    RunsAsCurrentUser
SYMMETRY Symmetry
CHECK_DEADLOCK FALSE
