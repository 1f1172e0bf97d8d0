\* Two replicas start on an empty database; constructors, migrations and the
\* listener fail, one process is killed, each may be told to end and started again.
SPECIFICATION Spec
CONSTANTS
    Replicas = {r1, r2}
    Free = Free
    Latest = 2
    MaxRetries = 1
    MaxStarts = 2
    MaxCrashes = 1
INVARIANTS
    RequestsAreDrained
    ClosedAfterItsUsers
    NothingLeftOpen
    MigratedOnceBeforeServing
PROPERTIES
    BootEnds
    SignalEnds
CHECK_DEADLOCK FALSE
