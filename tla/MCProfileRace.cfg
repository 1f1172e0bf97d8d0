\* A read and an update, or an operator changing a role, at once; nothing fails.
SPECIFICATION Spec
CONSTANTS
    Requests = {r1, r2}
    Subs = {s1}
    Kinds = {"login", "update", "role"}
    TTL = 2
    Hold = 1
    MaxRedisFaults = 0
    DbFaults = FALSE
    Crashes = FALSE
    MaxRev = 3
    MaxTime = 1
INVARIANT
    FinishedChangeIsVisible
SYMMETRY Symmetry
CHECK_DEADLOCK FALSE
