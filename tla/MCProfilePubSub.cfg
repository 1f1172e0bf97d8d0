\* Clients may never read: what the server still does on its own.
SPECIFICATION ServerSpec
CONSTANTS
    p1 = p1
    p2 = p2
    k1 = k1
    k2 = k2
    Profiles = {p1}
    Conns = {k1}
    Subs = {c1, c2}
    Writers = {w1}
    User <- OneUser
    NoConn = NoConn
    Budget = 2
    WireFaults = TRUE
    MaxRev = 2
    MaxWire = 1
INVARIANT
    NoSendOnClosedChannel
PROPERTIES
    StatesOnlyAdvance
    NothingLeaks
    ChangeIsHeard
CHECK_DEADLOCK FALSE
