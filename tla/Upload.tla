------------------------------- MODULE Upload -------------------------------
(***************************************************************************)
(* POST /upload: internal/upload/handler.go (upload, readFiles) and        *)
(* internal/upload/service.go (ProcessFile, SaveMetadata, putObject,       *)
(* removeObject) over the object store and the uploads table every replica *)
(* shares.  A file of request r is named by its place i in the validated   *)
(* batch: keys are dated UUIDs, so no two files ever meet under one key.   *)
(***************************************************************************)
EXTENDS Naturals, FiniteSets

CONSTANTS
    Requests,           \* the POST /upload requests, on any replica
    Users,              \* profile ids
    NoUser,             \* the owner of a request that has not started
    UploadMaxFiles,     \* config.UploadMaxFiles
    UploadFilesPerHour, \* config.UploadFilesPerHour: rate and burst of the quota
    MaxRefill,          \* bound: events each quota regains in a behaviour
    LimiterFaults,      \* may Redis be unreachable (the quota fails open)?
    PutFaults,          \* how a put may fail
    InsertFaults,       \* how a row insert may fail
    RemoveFaults,       \* how an object removal may fail
    Crashes             \* may a replica die while it serves a request?

\* A call over the network fails before it took effect, or is reported as
\* failed although it took effect (the answer was lost, the context ended).
Faults == {"refused", "landed"}

ASSUME LimitsAssumption ==
    /\ UploadMaxFiles \in Nat \ {0}
    /\ UploadFilesPerHour \in Nat
    /\ MaxRefill \in Nat
ASSUME FaultsAssumption ==
    /\ PutFaults \subseteq Faults
    /\ InsertFaults \subseteq Faults
    /\ RemoveFaults \subseteq Faults
    /\ LimiterFaults \in BOOLEAN
    /\ Crashes \in BOOLEAN
    /\ NoUser \notin Users

VARIABLES
    phase,     \* where the handler of each request is
    owner,     \* the authenticated caller, auth.Require
    fileCount, \* file parts met so far, readFiles
    saved,     \* len(saved): the validated files of the batch
    cur,       \* the file SaveMetadata is at
    status,    \* the HTTP status answered, 0 before
    reported,  \* "n of m files committed" in the error of SaveMetadata
    objects,   \* the files of each request that are in the bucket
    rows,      \* the files of each request that have a row in uploads
    spent,     \* events spent of each user's quota and not regained yet
    refilled   \* events each user's quota regained as time passed

vars == <<phase, owner, fileCount, saved, cur, status, reported,
          objects, rows, spent, refilled>>
store == <<objects, rows>>
quota == <<spent, refilled>>

FileNo == 1..UploadMaxFiles
Committing == {"put", "insert", "remove"}
Phases == {"idle", "reading", "answered", "crashed"} \cup Committing

TypeOK ==
    /\ phase \in [Requests -> Phases]
    /\ owner \in [Requests -> Users \cup {NoUser}]
    /\ fileCount \in [Requests -> 0..UploadMaxFiles]
    /\ saved \in [Requests -> 0..UploadMaxFiles]
    /\ cur \in [Requests -> 0..UploadMaxFiles]
    /\ status \in [Requests -> {0, 201, 400, 429, 500}]
    /\ reported \in [Requests -> 0..UploadMaxFiles]
    /\ objects \in [Requests -> SUBSET FileNo]
    /\ rows \in [Requests -> SUBSET FileNo]
    /\ spent \in [Users -> 0..UploadFilesPerHour]
    /\ refilled \in [Users -> 0..MaxRefill]

Init ==
    /\ phase = [r \in Requests |-> "idle"]
    /\ owner = [r \in Requests |-> NoUser]
    /\ fileCount = [r \in Requests |-> 0]
    /\ saved = [r \in Requests |-> 0]
    /\ cur = [r \in Requests |-> 0]
    /\ status = [r \in Requests |-> 0]
    /\ reported = [r \in Requests |-> 0]
    /\ objects = [r \in Requests |-> {}]
    /\ rows = [r \in Requests |-> {}]
    /\ spent = [u \in Users |-> 0]
    /\ refilled = [u \in Users |-> 0]

(***************************************************************************)
(* Answers                                                                 *)
(***************************************************************************)

\* writeErr while the body is being read: nothing has been stored.
Reject(r, code) ==
    /\ phase' = [phase EXCEPT ![r] = "answered"]
    /\ status' = [status EXCEPT ![r] = code]
    /\ UNCHANGED <<owner, saved, cur, reported, store>>

\* Mutant: the failed file is counted as committed.
FailMiscounted(r) ==
    /\ phase' = [phase EXCEPT ![r] = "answered"]
    /\ status' = [status EXCEPT ![r] = 500]
    /\ reported' = [reported EXCEPT ![r] = cur[r]]
    /\ UNCHANGED <<owner, fileCount, saved, cur, quota>>

\* SaveMetadata returns an error: 500, naming how many files did commit.
Fail(r) ==
    /\ phase' = [phase EXCEPT ![r] = "answered"]
    /\ status' = [status EXCEPT ![r] = 500]
    /\ reported' = [reported EXCEPT ![r] = cur[r] - 1]
    /\ UNCHANGED <<owner, fileCount, saved, cur, quota>>

(***************************************************************************)
(* Reading the body                                                        *)
(***************************************************************************)

\* RequireAuth let the caller through; the body is multipart or it is not.
Begin(r, u) ==
    /\ phase[r] = "idle"
    /\ owner' = [owner EXCEPT ![r] = u]
    /\ \/ /\ phase' = [phase EXCEPT ![r] = "reading"]
          /\ UNCHANGED status
       \/ /\ phase' = [phase EXCEPT ![r] = "answered"]
          /\ status' = [status EXCEPT ![r] = 400]
    /\ UNCHANGED <<fileCount, saved, cur, reported, store, quota>>

\* Mutant: the budget is read, and nothing spent from it.
AllowPeek(u) ==
    /\ spent[u] < UploadFilesPerHour
    /\ UNCHANGED spent

\* quota.Allow: an event is spent while any is left, and allowed without
\* being counted while Redis cannot be reached.
Allow(u) ==
    \/ /\ spent[u] < UploadFilesPerHour
       /\ spent' = [spent EXCEPT ![u] = @ + 1]
    \/ /\ LimiterFaults
       /\ UNCHANGED spent

Denied(u) == spent[u] = UploadFilesPerHour

\* NextPart yields a file.  ProcessFile keeps it, skips it (not an image), or
\* refuses the request (too large, unreadable, link cannot be signed).
FilePart(r) ==
    /\ phase[r] = "reading"
    /\ fileCount[r] < UploadMaxFiles
    /\ fileCount' = [fileCount EXCEPT ![r] = @ + 1]
    /\ \/ /\ Allow(owner[r])
          /\ \/ /\ saved' = [saved EXCEPT ![r] = @ + 1]
                /\ UNCHANGED <<phase, owner, cur, status, reported, store>>
             \/ UNCHANGED <<phase, owner, saved, cur, status, reported, store>>
             \/ Reject(r, 400)
       \/ /\ Denied(owner[r])
          /\ Reject(r, 429)
          /\ UNCHANGED spent
    /\ UNCHANGED refilled

\* The part after the last one allowed ("Too many files", nothing is spent
\* for it), or a body that cannot be read further.
BadBody(r) ==
    /\ phase[r] = "reading"
    /\ Reject(r, 400)
    /\ UNCHANGED <<fileCount, quota>>

\* io.EOF: the batch is handed to SaveMetadata, unless nothing was valid.
EndOfBody(r) ==
    /\ phase[r] = "reading"
    /\ IF saved[r] = 0
       THEN Reject(r, 400)
       ELSE /\ phase' = [phase EXCEPT ![r] = "put"]
            /\ cur' = [cur EXCEPT ![r] = 1]
            /\ UNCHANGED <<owner, saved, status, reported, store>>
    /\ UNCHANGED <<fileCount, quota>>

(***************************************************************************)
(* SaveMetadata                                                            *)
(***************************************************************************)

\* putObject under FileUploadTimeout.  A put reported as failed is not undone.
Put(r) ==
    /\ phase[r] = "put"
    /\ \/ /\ objects' = [objects EXCEPT ![r] = @ \cup {cur[r]}]
          /\ phase' = [phase EXCEPT ![r] = "insert"]
          /\ UNCHANGED <<owner, fileCount, saved, cur, status, reported, quota>>
       \/ /\ "landed" \in PutFaults
          /\ objects' = [objects EXCEPT ![r] = @ \cup {cur[r]}]
          /\ Fail(r)
       \/ /\ "refused" \in PutFaults
          /\ UNCHANGED objects
          /\ Fail(r)
    /\ UNCHANGED rows

\* Mutant: a failed insert skips the file instead of ending the batch.
InsertSkips(r) ==
    /\ phase[r] = "insert"
    /\ rows' \in {rows, [rows EXCEPT ![r] = @ \cup {cur[r]}]}
    /\ IF cur[r] = saved[r]
       THEN /\ phase' = [phase EXCEPT ![r] = "answered"]
            /\ status' = [status EXCEPT ![r] = 201]
            /\ UNCHANGED cur
       ELSE /\ phase' = [phase EXCEPT ![r] = "put"]
            /\ cur' = [cur EXCEPT ![r] = @ + 1]
            /\ UNCHANGED status
    /\ UNCHANGED <<owner, fileCount, saved, reported, objects, quota>>

\* Mutant: a failed insert answers 500 and leaves the object.
InsertNoRollback(r) ==
    /\ phase[r] = "insert"
    /\ UNCHANGED store
    /\ Fail(r)

\* CreateUpload.  Success moves to the next file or answers 201; any error
\* sends the handler to removeObject.
Insert(r) ==
    /\ phase[r] = "insert"
    /\ \/ /\ rows' = [rows EXCEPT ![r] = @ \cup {cur[r]}]
          /\ IF cur[r] = saved[r]
             THEN /\ phase' = [phase EXCEPT ![r] = "answered"]
                  /\ status' = [status EXCEPT ![r] = 201]
                  /\ UNCHANGED cur
             ELSE /\ phase' = [phase EXCEPT ![r] = "put"]
                  /\ cur' = [cur EXCEPT ![r] = @ + 1]
                  /\ UNCHANGED status
       \/ /\ "landed" \in InsertFaults
          /\ rows' = [rows EXCEPT ![r] = @ \cup {cur[r]}]
          /\ phase' = [phase EXCEPT ![r] = "remove"]
          /\ UNCHANGED <<cur, status>>
       \/ /\ "refused" \in InsertFaults
          /\ phase' = [phase EXCEPT ![r] = "remove"]
          /\ UNCHANGED <<rows, cur, status>>
    /\ UNCHANGED <<owner, fileCount, saved, reported, objects, quota>>

\* Mutant: the rollback covers the batch, files already recorded included.
RemoveWholeBatch(r) ==
    /\ phase[r] = "remove"
    /\ objects' = [objects EXCEPT ![r] = @ \ (1..cur[r])]
    /\ Fail(r)
    /\ UNCHANGED rows

\* removeObject, detached from the request's context: it deletes the object
\* of the file whose insert failed, and only logs an error of its own.
Remove(r) ==
    /\ phase[r] = "remove"
    /\ \/ objects' = [objects EXCEPT ![r] = @ \ {cur[r]}]
       \/ /\ "refused" \in RemoveFaults
          /\ UNCHANGED objects
    /\ Fail(r)
    /\ UNCHANGED rows

\* The replica dies; what it stored stays.
Crash(r) ==
    /\ Crashes
    /\ phase[r] \in {"reading"} \cup Committing
    /\ phase' = [phase EXCEPT ![r] = "crashed"]
    /\ UNCHANGED <<owner, fileCount, saved, cur, status, reported, store, quota>>

\* GCRA gives an event back every period / rate.
Refill(u) ==
    /\ spent[u] > 0
    /\ refilled[u] < MaxRefill
    /\ spent' = [spent EXCEPT ![u] = @ - 1]
    /\ refilled' = [refilled EXCEPT ![u] = @ + 1]
    /\ UNCHANGED <<phase, owner, fileCount, saved, cur, status, reported, store>>

Serve(r) ==
    \/ \E u \in Users : Begin(r, u)
    \/ FilePart(r)
    \/ BadBody(r)
    \/ EndOfBody(r)
    \/ Put(r)
    \/ Insert(r)
    \/ Remove(r)
    \/ Crash(r)

Next ==
    \/ \E r \in Requests : Serve(r)
    \/ \E u \in Users : Refill(u)

Spec == Init /\ [][Next]_vars

(***************************************************************************)
(* Properties                                                              *)
(***************************************************************************)

\* service.go: "no failure path leaves a row pointing at a missing object".
RowHasObject == \A r \in Requests : rows[r] \subseteq objects[r]

\* What an insert that commits and is reported as failed costs: the one file the
\* failed batch stopped at, never a file before it or one of a created batch.
DanglingRowIsTheFailedFile ==
    \A r \in Requests, i \in FileNo :
        i \in rows[r] \ objects[r] => status[r] = 500 /\ i = cur[r]

\* The count SaveMetadata puts in its error is the truth: exactly the files
\* before the failed one have rows, and none after it was ever put.
FailedBatchIsPrefix ==
    \A r \in Requests : status[r] = 500 =>
        /\ rows[r] = 1..reported[r]
        /\ objects[r] \subseteq 1..(reported[r] + 1)

\* A 201 means every file of the answer is stored and recorded, however other
\* requests and faults interleave with it.
CreatedIsDurable ==
    \A r \in Requests : status[r] = 201 =>
        /\ rows[r] = 1..saved[r]
        /\ objects[r] = 1..saved[r]

\* handler.go: a batch refused while its parts are still being read (quota,
\* size, malformed body) has left nothing in the bucket or the table.
RejectedStoresNothing ==
    \A r \in Requests : status[r] \in {400, 429} =>
        objects[r] = {} /\ rows[r] = {}

\* "an object no row names, is cleaned up where it can be": while a failed put has
\* stored nothing and removals work, an object without a row is the one a handler
\* is still busy with, or died over.
NoOrphanObject ==
    \A r \in Requests, i \in FileNo :
        i \in objects[r] \ rows[r] =>
            phase[r] \in {"insert", "remove", "crashed"} /\ i = cur[r]

\* The quota bounds what one account stores over all of its concurrent
\* requests: a full burst and what it regained, as long as the limiter answers.
QuotaBoundsStorage ==
    \A u \in Users :
        Cardinality({file \in Requests \X FileNo :
                        /\ owner[file[1]] = u
                        /\ file[2] \in objects[file[1]]})
            <= UploadFilesPerHour + refilled[u]

Verdict(code) ==
    CASE code = 0 -> "none"
      [] code = 201 -> "created"
      [] code = 500 -> "failed"
      [] OTHER -> "refused"

\* The state of BatchCommit that a state of this module stands for.
submitted == [r \in Requests |-> IF cur[r] = 0 THEN 0 ELSE saved[r]]
durable == [r \in Requests |-> rows[r] \cap objects[r]]
told == [r \in Requests |-> Verdict(status[r])]

Contract == INSTANCE BatchCommit WITH
    size <- submitted, stored <- durable, verdict <- told

\* SaveMetadata keeps the promise of BatchCommit: a file becomes durable whole,
\* in the order of the batch and for good, whatever fails afterwards.
ImplementsBatchCommit == Contract!Spec
=============================================================================
