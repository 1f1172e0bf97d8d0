\* Two users send one message to two replicas that stop, die and fail.
SPECIFICATION Spec
CONSTANTS
    Users = {u1, u2}
    Messages = {m}
    Replicas = {r1, r2}
    NoMsg = NoMsg
    Concurrency = 1
    MaxRetry = 1
    DefaultRetry = 3
    MaxCalls = 3
    MaxFailures = 1
    MaxDeaths = 1
    MaxStops = 1
INVARIANTS
    AcceptedJobIsKept
    AttemptsAreCounted
    DeployCostsNoAttempt
PROPERTIES
    WorkedOncePerWindow
    AcceptedJobEnds
CHECK_DEADLOCK FALSE
