\* Redis stops answering while /livez is probed: the code's own time limits.
SPECIFICATION EdgeSpec
CONSTANTS
    Clients = {probe}
    Direct = {probe}
    Proxy = Proxy
    Junk = Junk
    Typed <- Typed1
    Network <- Networks1
    Routes = {"/livez"}
    Hops = 1
    Burst = 100
    Interval = 1
    GateBurst = 20
    GateInterval = 3
    Attempts = 4
    RedisReadTimeout = 3
    MaxOutages = 1
    MaxTime = 15
INVARIANT
    LivezAnswers
CHECK_DEADLOCK FALSE
