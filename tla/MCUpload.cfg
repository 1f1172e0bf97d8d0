\* A refused call has not taken effect and the limiter answers.
SPECIFICATION Spec
CONSTANTS
    Requests = {r1, r2}
    Users = {u1}
    NoUser = NoUser
    UploadMaxFiles = 3
    UploadFilesPerHour = 4
    MaxRefill = 1
    LimiterFaults = FALSE
    PutFaults = {"refused"}
    InsertFaults = {"refused"}
    RemoveFaults = {}
    Crashes = TRUE
INVARIANTS
    RowHasObject
    FailedBatchIsPrefix
    NoOrphanObject
    QuotaBoundsStorage
PROPERTY
    ImplementsBatchCommit
SYMMETRY Symmetry
CHECK_DEADLOCK FALSE
