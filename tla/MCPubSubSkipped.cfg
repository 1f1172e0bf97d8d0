\* One mutation at a time, no event lost, a client slower than the writer.
SPECIFICATION Spec
CONSTANTS
    p1 = p1
    p2 = p2
    k1 = k1
    k2 = k2
    Profiles = {p1}
    Conns = {k1}
    Subs = {c1}
    Writers = {w1}
    User <- OneUser
    NoConn = NoConn
    Budget = 1
    WireFaults = FALSE
    MaxRev = 5
    MaxWire = 2
INVARIANT
    QuietSubscriberIsCurrent
CHECK_DEADLOCK FALSE
