\* Everything may happen: how old can what the cache answers be?
SPECIFICATION Spec
CONSTANTS
    Requests = {r1, r2}
    Subs = {s1}
    Kinds = {"login", "lookup", "mock", "update", "role"}
    TTL = 2
    Hold = 1
    MaxRedisFaults = 1
    DbFaults = TRUE
    Crashes = TRUE
    MaxRev = 3
    MaxTime = 4
INVARIANTS
    LoginSucceeds
    ChangeIsVisibleUnlessRaced
PROPERTY
    StalenessBounded
SYMMETRY Symmetry
CHECK_DEADLOCK FALSE
