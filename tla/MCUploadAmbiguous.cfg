\* An insert may commit although the handler is told it failed.
SPECIFICATION Spec
CONSTANTS
    Requests = {r1}
    Users = {u1}
    NoUser = NoUser
    UploadMaxFiles = 2
    UploadFilesPerHour = 2
    MaxRefill = 0
    LimiterFaults = FALSE
    PutFaults = {}
    InsertFaults = {"landed"}
    RemoveFaults = {}
    Crashes = FALSE
INVARIANT
    RowHasObject
CHECK_DEADLOCK FALSE
