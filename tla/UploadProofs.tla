---------------------------- MODULE UploadProofs ----------------------------
(***************************************************************************)
(* Proofs about Upload, for any number of requests, users, files and any   *)
(* mix of faults and crashes.  BatchInv says, phase by phase, which files  *)
(* of a request are in the bucket and which have a row; it does not depend *)
(* on other requests, because no handler touches another one's files.      *)
(***************************************************************************)
EXTENDS Upload, TLAPS, FiniteSetTheorems

\* The rows of a request past its last insert: the files before cur, and cur
\* as well when an insert may commit and be reported as failed.
RowsUpToFailure(r) ==
    \/ rows[r] = 1..(cur[r] - 1)
    \/ "landed" \in InsertFaults /\ rows[r] = 1..cur[r]

NothingStored(r) == cur[r] = 0 /\ objects[r] = {} /\ rows[r] = {}

InBatch(r) == cur[r] \in 1..saved[r]

BatchInv(r) ==
    /\ saved[r] <= fileCount[r]
    /\ phase[r] \in {"idle", "reading"} => NothingStored(r) /\ status[r] = 0
    /\ phase[r] = "put" =>
        /\ InBatch(r) /\ status[r] = 0
        /\ rows[r] = 1..(cur[r] - 1) /\ objects[r] = 1..(cur[r] - 1)
    /\ phase[r] = "insert" =>
        /\ InBatch(r) /\ status[r] = 0
        /\ rows[r] = 1..(cur[r] - 1) /\ objects[r] = 1..cur[r]
    /\ phase[r] = "remove" =>
        /\ InBatch(r) /\ status[r] = 0
        /\ RowsUpToFailure(r) /\ objects[r] = 1..cur[r]
    /\ phase[r] = "crashed" =>
        /\ status[r] = 0
        /\ \/ NothingStored(r)
           \/ /\ InBatch(r) /\ RowsUpToFailure(r)
              /\ rows[r] \subseteq objects[r] /\ objects[r] \subseteq 1..cur[r]
    /\ phase[r] = "answered" =>
        \/ status[r] \in {400, 429} /\ NothingStored(r)
        \/ /\ status[r] = 201 /\ cur[r] = saved[r] /\ InBatch(r)
           /\ rows[r] = 1..cur[r] /\ objects[r] = 1..cur[r]
        \/ /\ status[r] = 500 /\ reported[r] = cur[r] - 1 /\ InBatch(r)
           /\ RowsUpToFailure(r)
           /\ 1..(cur[r] - 1) \subseteq objects[r]
           /\ objects[r] \subseteq 1..cur[r]

IInv == TypeOK /\ \A r \in Requests : BatchInv(r)

(***************************************************************************)
(* One request at a time                                                   *)
(***************************************************************************)

\* Nothing BatchInv says of request q has changed.
Same(q) ==
    /\ phase'[q] = phase[q] /\ fileCount'[q] = fileCount[q]
    /\ saved'[q] = saved[q] /\ cur'[q] = cur[q] /\ status'[q] = status[q]
    /\ reported'[q] = reported[q] /\ objects'[q] = objects[q]
    /\ rows'[q] = rows[q]

\* A request whose state is unchanged keeps its invariant.
LEMMA SameKeepsBatchInv ==
    ASSUME NEW q, Same(q), BatchInv(q)
    PROVE  BatchInv(q)'
BY DEF Same, BatchInv, NothingStored, InBatch, RowsUpToFailure

\* A step of one request changes no other request's state.
LEMMA ServeIsLocal ==
    ASSUME TypeOK, NEW r \in Requests, Serve(r), NEW q \in Requests, q # r
    PROVE  Same(q)
<1> USE DEF TypeOK, Same, store, quota
<1>1. CASE \E u \in Users : Begin(r, u)
  BY <1>1 DEF Begin
<1>2. CASE FilePart(r)
  BY <1>2 DEF FilePart, Reject
<1>3. CASE BadBody(r)
  BY <1>3 DEF BadBody, Reject
<1>4. CASE EndOfBody(r)
  BY <1>4 DEF EndOfBody, Reject
<1>5. CASE Put(r)
  BY <1>5 DEF Put, Fail
<1>6. CASE Insert(r)
  BY <1>6 DEF Insert
<1>7. CASE Remove(r)
  BY <1>7 DEF Remove, Fail
<1>8. CASE Crash(r)
  BY <1>8 DEF Crash
<1> QED BY <1>1, <1>2, <1>3, <1>4, <1>5, <1>6, <1>7, <1>8 DEF Serve

(***************************************************************************)
(* The invariant is inductive                                              *)
(***************************************************************************)

\* The invariant holds before any request is served.
LEMMA InitIInv == Init => IInv
BY LimitsAssumption, FaultsAssumption
   DEF Init, IInv, TypeOK, BatchInv, NothingStored, InBatch, RowsUpToFailure,
       Phases, Committing, FileNo

\* The file after one that is not the last of its batch has a number too.
LEMMA NextFileWithinBound ==
    ASSUME NEW m \in Nat, NEW n \in 0..m, NEW i \in 1..n, i # n
    PROVE  i + 1 \in 0..m
OBVIOUS

\* Every step of a request keeps the types; a file is only put, recorded or
\* removed within the batch.
LEMMA ServeKeepsTypes ==
    ASSUME TypeOK, NEW r \in Requests, saved[r] <= fileCount[r],
           phase[r] \in Committing => InBatch(r), Serve(r)
    PROVE  TypeOK'
<1> USE LimitsAssumption, FaultsAssumption
    DEF TypeOK, InBatch, Phases, Committing, FileNo, store, quota
<1>1. CASE \E u \in Users : Begin(r, u)
  BY SMTT(30), <1>1 DEF Begin
<1>2. CASE FilePart(r)
  <2>1. spent' \in [Users -> 0..UploadFilesPerHour]
    BY <1>2 DEF FilePart, Reject, Allow
  <2>2. saved[r] + 1 <= UploadMaxFiles
    BY <1>2 DEF FilePart
  <2> QED BY SMTT(30), <1>2, <2>1, <2>2 DEF FilePart, Reject
<1>3. CASE BadBody(r)
  BY <1>3 DEF BadBody, Reject
<1>4. CASE EndOfBody(r)
  <2>1. CASE saved[r] = 0
    BY <1>4, <2>1 DEF EndOfBody, Reject
  <2>2. CASE saved[r] # 0
    BY <1>4, <2>2 DEF EndOfBody
  <2> QED BY <2>1, <2>2
<1>5. CASE Put(r)
  <2>1. objects' \in [Requests -> SUBSET FileNo]
    <3>1. cur[r] \in FileNo
      BY <1>5 DEF Put
    <3>2. CASE UNCHANGED objects
      BY <3>2
    <3>3. CASE objects' = [objects EXCEPT ![r] = @ \cup {cur[r]}]
      BY <3>1, <3>3
    <3> QED BY <1>5, <3>2, <3>3 DEF Put
  <2>2. cur[r] - 1 \in 0..UploadMaxFiles
    BY <1>5 DEF Put
  <2>3. CASE Fail(r)
    BY <1>5, <2>1, <2>2, <2>3 DEF Put, Fail
  <2>4. CASE phase' = [phase EXCEPT ![r] = "insert"] /\ ~Fail(r)
    BY <1>5, <2>1, <2>4 DEF Put
  <2> QED BY <1>5, <2>3, <2>4 DEF Put
<1>6. CASE Insert(r)
  <2>1. rows' \in [Requests -> SUBSET FileNo]
    <3>1. cur[r] \in FileNo
      BY <1>6 DEF Insert
    <3>2. CASE UNCHANGED rows
      BY <3>2
    <3>3. CASE rows' = [rows EXCEPT ![r] = @ \cup {cur[r]}]
      BY <3>1, <3>3
    <3> QED BY <1>6, <3>2, <3>3 DEF Insert
  <2>2. cur' \in [Requests -> 0..UploadMaxFiles]
    <3>1. CASE UNCHANGED cur
      BY <3>1
    <3>2. CASE cur[r] # saved[r] /\ cur' = [cur EXCEPT ![r] = @ + 1]
      <4>1. /\ saved[r] \in 0..UploadMaxFiles
            /\ cur[r] \in 1..saved[r] /\ cur[r] # saved[r]
        BY <1>6, <3>2 DEF Insert
      <4>2. cur[r] + 1 \in 0..UploadMaxFiles
        BY <4>1, NextFileWithinBound
      <4> QED BY <3>2, <4>2
    <3> QED BY <1>6, <3>1, <3>2 DEF Insert
  <2>3. phase' \in [Requests -> Phases] /\ status' \in [Requests -> {0, 201, 400, 429, 500}]
    BY <1>6 DEF Insert
  <2>4. /\ UNCHANGED <<owner, fileCount, saved, reported, objects, quota>>
    BY <1>6 DEF Insert
  <2> QED BY <2>1, <2>2, <2>3, <2>4
<1>7. CASE Remove(r)
  <2>1. objects' \in [Requests -> SUBSET FileNo]
    <3>1. CASE UNCHANGED objects
      BY <3>1
    <3>2. CASE objects' = [objects EXCEPT ![r] = @ \ {cur[r]}]
      BY <3>2
    <3> QED BY <1>7, <3>1, <3>2 DEF Remove
  <2>2. cur[r] - 1 \in 0..UploadMaxFiles
    BY <1>7 DEF Remove
  <2>3. /\ phase' = [phase EXCEPT ![r] = "answered"] /\ status' = [status EXCEPT ![r] = 500]
        /\ reported' = [reported EXCEPT ![r] = cur[r] - 1]
        /\ UNCHANGED <<owner, fileCount, saved, cur, rows, quota>>
    BY <1>7 DEF Remove, Fail
  <2>4. reported' \in [Requests -> 0..UploadMaxFiles]
    BY <2>2, <2>3
  <2>5. phase' \in [Requests -> Phases] /\ status' \in [Requests -> {0, 201, 400, 429, 500}]
    BY <2>3
  <2> QED BY <2>1, <2>3, <2>4, <2>5
<1>8. CASE Crash(r)
  BY <1>8 DEF Crash
<1> QED BY <1>1, <1>2, <1>3, <1>4, <1>5, <1>6, <1>7, <1>8 DEF Serve

\* Every step of a request keeps that request's own invariant.
LEMMA ServeKeepsOwn ==
    ASSUME TypeOK, NEW r \in Requests, BatchInv(r), Serve(r)
    PROVE  BatchInv(r)'
<1> USE DEF BatchInv, NothingStored, InBatch, RowsUpToFailure
<1>t. fileCount[r] \in Nat /\ saved[r] \in Nat /\ cur[r] \in Nat
  BY LimitsAssumption DEF TypeOK
<1>u. cur[r] \in 1..saved[r] => 1..cur[r] = (1..(cur[r] - 1)) \cup {cur[r]}
  BY <1>t
<1>1. CASE \E u \in Users : Begin(r, u)
  BY <1>1, <1>t DEF Begin, TypeOK, store
<1>2. CASE FilePart(r)
  BY <1>2, <1>t DEF FilePart, Reject, TypeOK, store
<1>3. CASE BadBody(r)
  BY <1>3, <1>t DEF BadBody, Reject, TypeOK, store
<1>4. CASE EndOfBody(r)
  <2>1. CASE saved[r] = 0
    BY <1>4, <2>1 DEF EndOfBody, Reject, TypeOK, store
  <2>2. CASE saved[r] # 0
    <3>1. /\ phase[r] = "reading" /\ phase'[r] = "put" /\ cur'[r] = 1
          /\ rows'[r] = rows[r] /\ objects'[r] = objects[r]
          /\ saved'[r] = saved[r] /\ fileCount'[r] = fileCount[r]
          /\ status'[r] = status[r]
      BY <1>4, <2>2 DEF EndOfBody, TypeOK, store
    <3>2. 1..(1 - 1) = {} /\ 1 \in 1..saved[r]
      BY <1>t, <2>2
    <3> QED BY <2>2, <3>1, <3>2
  <2> QED BY <2>1, <2>2
<1>5. CASE Put(r)
  <2>1. /\ phase[r] = "put" /\ rows'[r] = rows[r] /\ cur'[r] = cur[r]
        /\ saved'[r] = saved[r] /\ fileCount'[r] = fileCount[r]
        /\ \/ /\ phase'[r] = "insert" /\ status'[r] = status[r]
              /\ objects'[r] = objects[r] \cup {cur[r]}
           \/ /\ phase'[r] = "answered" /\ status'[r] = 500
              /\ reported'[r] = cur[r] - 1
              /\ objects'[r] \in {objects[r], objects[r] \cup {cur[r]}}
    BY <1>5 DEF Put, Fail, TypeOK, quota
  <2>2. CASE phase'[r] = "insert"
    <3>1. rows'[r] = 1..(cur'[r] - 1) /\ status'[r] = 0
      BY <2>1, <2>2
    <3>2. /\ cur'[r] = cur[r] /\ cur'[r] \in 1..saved'[r]
          /\ objects[r] = 1..(cur[r] - 1) /\ objects'[r] = objects[r] \cup {cur[r]}
      BY <2>1, <2>2
    <3>3. objects'[r] = 1..cur'[r]
      BY <1>u, <2>1, <3>2
    <3> QED BY <2>1, <2>2, <3>1, <3>2, <3>3
  <2>3. CASE phase'[r] = "answered"
    <3>1. rows'[r] = 1..(cur'[r] - 1)
      BY <2>1
    <3>2. /\ 1..(cur'[r] - 1) \subseteq objects'[r]
          /\ objects'[r] \subseteq 1..cur'[r]
      BY <1>u, <2>1
    <3> QED BY <1>t, <2>1, <2>3, <3>1, <3>2
  <2> QED BY <2>1, <2>2, <2>3
<1>6. CASE Insert(r)
  <2>1. /\ phase[r] = "insert" /\ objects'[r] = objects[r]
        /\ saved'[r] = saved[r] /\ fileCount'[r] = fileCount[r]
        /\ \/ /\ phase'[r] = "answered" /\ status'[r] = 201
              /\ cur[r] = saved[r] /\ cur'[r] = cur[r]
              /\ rows'[r] = rows[r] \cup {cur[r]}
           \/ /\ phase'[r] = "put" /\ status'[r] = status[r]
              /\ cur[r] # saved[r] /\ cur'[r] = cur[r] + 1
              /\ rows'[r] = rows[r] \cup {cur[r]}
           \/ /\ phase'[r] = "remove" /\ status'[r] = status[r]
              /\ cur'[r] = cur[r]
              /\ \/ /\ "landed" \in InsertFaults
                    /\ rows'[r] = rows[r] \cup {cur[r]}
                 \/ rows'[r] = rows[r]
    BY <1>6 DEF Insert, TypeOK, quota
  <2>2. cur[r] \in 1..saved[r] /\ objects[r] = 1..cur[r]
    BY <2>1
  <2>3. CASE phase'[r] = "answered"
    <3>1. status'[r] = 201 /\ cur'[r] = saved'[r] /\ cur'[r] \in 1..saved'[r]
      BY <2>1, <2>2, <2>3
    <3>2. rows[r] = 1..(cur[r] - 1) /\ rows'[r] = rows[r] \cup {cur[r]}
      BY <2>1, <2>3
    <3>3. cur'[r] = cur[r] /\ objects'[r] = objects[r]
      BY <2>1, <2>3
    <3>4. rows'[r] = 1..cur'[r] /\ objects'[r] = 1..cur'[r]
      BY <1>u, <2>2, <3>2, <3>3
    <3> QED BY <2>1, <2>3, <3>1, <3>4
  <2>4. CASE phase'[r] = "put"
    <3>1. cur'[r] \in 1..saved'[r] /\ cur'[r] - 1 = cur[r]
      BY <1>t, <2>1, <2>2, <2>4
    <3>2. /\ rows[r] = 1..(cur[r] - 1) /\ rows'[r] = rows[r] \cup {cur[r]}
          /\ objects'[r] = objects[r] /\ status'[r] = 0
      BY <2>1, <2>4
    <3>3. rows'[r] = 1..cur[r] /\ objects'[r] = 1..cur[r]
      BY <1>u, <2>2, <3>2
    <3> QED BY <2>1, <2>4, <3>1, <3>2, <3>3
  <2>5. CASE phase'[r] = "remove"
    <3>1. status'[r] = 0 /\ cur'[r] = cur[r]
      BY <2>1, <2>5
    <3>2. \/ rows'[r] = 1..(cur[r] - 1)
          \/ "landed" \in InsertFaults /\ rows'[r] = 1..cur[r]
      BY <1>u, <2>1, <2>2, <2>5
    <3> QED BY <2>1, <2>2, <2>5, <3>1, <3>2
  <2> QED BY <2>1, <2>3, <2>4, <2>5
<1>7. CASE Remove(r)
  <2>1. /\ phase[r] = "remove" /\ rows'[r] = rows[r] /\ cur'[r] = cur[r]
        /\ saved'[r] = saved[r] /\ fileCount'[r] = fileCount[r]
        /\ phase'[r] = "answered" /\ status'[r] = 500
        /\ reported'[r] = cur[r] - 1
        /\ objects'[r] \in {objects[r], objects[r] \ {cur[r]}}
    BY <1>7 DEF Remove, Fail, TypeOK, quota
  <2> QED BY <1>t, <1>u, <2>1
<1>8. CASE Crash(r)
  BY <1>8, <1>t, <1>u DEF Crash, TypeOK, store, Committing
<1> QED BY <1>1, <1>2, <1>3, <1>4, <1>5, <1>6, <1>7, <1>8 DEF Serve

\* Time giving quota back changes no request.
LEMMA RefillKeepsIInv ==
    ASSUME IInv, NEW u \in Users, Refill(u)
    PROVE  IInv'
<1>1. TypeOK'
  BY LimitsAssumption DEF IInv, TypeOK, Refill, store
<1>2. ASSUME NEW q \in Requests PROVE BatchInv(q)'
  <2>1. Same(q)
    BY DEF Refill, Same, store
  <2> QED BY <2>1, SameKeepsBatchInv DEF IInv
<1> QED BY <1>1, <1>2 DEF IInv

\* IInv is inductive: every step of Upload keeps it.
LEMMA StepKeepsIInv == IInv /\ [Next]_vars => IInv'
<1> SUFFICES ASSUME IInv, [Next]_vars PROVE IInv'
  OBVIOUS
<1>1. CASE UNCHANGED vars
  <2>1. TypeOK'
    BY <1>1 DEF IInv, TypeOK, vars
  <2>2. ASSUME NEW q \in Requests PROVE BatchInv(q)'
    BY <1>1, SameKeepsBatchInv DEF IInv, Same, vars
  <2> QED BY <2>1, <2>2 DEF IInv
<1>2. ASSUME NEW r \in Requests, Serve(r) PROVE IInv'
  <2>1. TypeOK'
    <3>1. phase[r] \in Committing => InBatch(r)
      BY DEF IInv, BatchInv, Committing
    <3>2. saved[r] <= fileCount[r]
      BY DEF IInv, BatchInv
    <3> QED BY <1>2, <3>1, <3>2, ServeKeepsTypes DEF IInv
  <2>2. ASSUME NEW q \in Requests PROVE BatchInv(q)'
    <3>1. CASE q = r
      BY <1>2, <3>1, ServeKeepsOwn DEF IInv
    <3>2. CASE q # r
      BY <1>2, <3>2, ServeIsLocal, SameKeepsBatchInv DEF IInv
    <3> QED BY <3>1, <3>2
  <2> QED BY <2>1, <2>2 DEF IInv
<1>3. ASSUME NEW u \in Users, Refill(u) PROVE IInv'
  BY <1>3, RefillKeepsIInv
<1> QED BY <1>1, <1>2, <1>3 DEF Next

(***************************************************************************)
(* Theorems                                                                *)
(***************************************************************************)

\* IInv holds in every state of every behaviour.
LEMMA Inductive == Spec => []IInv
<1>1. Init => IInv
  BY InitIInv
<1>2. IInv /\ [Next]_vars => IInv'
  BY StepKeepsIInv
<1> QED BY <1>1, <1>2, PTL DEF Spec

\* The variables stay within their types: no counter passes its limit.
THEOREM UploadTypeOK == Spec => []TypeOK
<1>1. IInv => TypeOK
  BY DEF IInv
<1> QED BY <1>1, Inductive, PTL

\* service.go, 422: unless an insert can commit and be reported as failed, no
\* failure path, and no crash, leaves a row pointing at a missing object.
THEOREM UploadRowHasObject ==
    ASSUME "landed" \notin InsertFaults
    PROVE  Spec => []RowHasObject
<1>1. IInv => RowHasObject
  <2> SUFFICES ASSUME IInv, NEW r \in Requests PROVE rows[r] \subseteq objects[r]
    BY DEF RowHasObject
  <2>1. BatchInv(r) /\ phase[r] \in Phases /\ cur[r] \in Nat
    BY LimitsAssumption DEF IInv, TypeOK
  <2>2. 1..(cur[r] - 1) \subseteq 1..cur[r]
    BY <2>1
  <2> QED BY <2>1, <2>2
      DEF BatchInv, NothingStored, RowsUpToFailure, Phases, Committing
<1> QED BY <1>1, Inductive, PTL

\* The count in SaveMetadata's error is the truth under the same condition.
THEOREM UploadFailedBatchIsPrefix ==
    ASSUME "landed" \notin InsertFaults
    PROVE  Spec => []FailedBatchIsPrefix
<1>1. IInv => FailedBatchIsPrefix
  <2> SUFFICES ASSUME IInv, NEW r \in Requests, status[r] = 500
               PROVE  /\ rows[r] = 1..reported[r]
                      /\ objects[r] \subseteq 1..(reported[r] + 1)
    BY DEF FailedBatchIsPrefix
  <2>1. BatchInv(r) /\ phase[r] \in Phases /\ cur[r] \in Nat
    BY LimitsAssumption DEF IInv, TypeOK
  <2>2. phase[r] = "answered"
    BY <2>1 DEF BatchInv, Phases, Committing
  <2>3. /\ reported[r] = cur[r] - 1 /\ rows[r] = 1..(cur[r] - 1)
        /\ objects[r] \subseteq 1..cur[r]
    BY <2>1, <2>2 DEF BatchInv, RowsUpToFailure
  <2> QED BY <2>1, <2>3
<1> QED BY <1>1, Inductive, PTL

\* Whatever fails or crashes around it, a batch answered 201 is stored and
\* recorded whole.
THEOREM UploadCreatedIsDurable == Spec => []CreatedIsDurable
<1>1. IInv => CreatedIsDurable
  <2> SUFFICES ASSUME IInv, NEW r \in Requests, status[r] = 201
               PROVE  rows[r] = 1..saved[r] /\ objects[r] = 1..saved[r]
    BY DEF CreatedIsDurable
  <2>1. BatchInv(r) /\ phase[r] \in Phases
    BY DEF IInv, TypeOK
  <2> QED BY <2>1 DEF BatchInv, Phases, Committing
<1> QED BY <1>1, Inductive, PTL

\* A request refused while its body was read left nothing behind.
THEOREM UploadRejectedStoresNothing == Spec => []RejectedStoresNothing
<1>1. IInv => RejectedStoresNothing
  <2> SUFFICES ASSUME IInv, NEW r \in Requests, status[r] \in {400, 429}
               PROVE  objects[r] = {} /\ rows[r] = {}
    BY DEF RejectedStoresNothing
  <2>1. BatchInv(r) /\ phase[r] \in Phases
    BY DEF IInv, TypeOK
  <2> QED BY <2>1 DEF BatchInv, NothingStored, Phases, Committing
<1> QED BY <1>1, Inductive, PTL

\* An insert that commits and is reported as failed costs at most the file the
\* failed batch stopped at.
THEOREM UploadDanglingRow == Spec => []DanglingRowIsTheFailedFile
<1>1. IInv => DanglingRowIsTheFailedFile
  <2> SUFFICES ASSUME IInv, NEW r \in Requests, NEW i \in FileNo,
                      i \in rows[r] \ objects[r]
               PROVE  status[r] = 500 /\ i = cur[r]
    BY DEF DanglingRowIsTheFailedFile
  <2>1. BatchInv(r) /\ phase[r] \in Phases /\ cur[r] \in Nat
    BY LimitsAssumption DEF IInv, TypeOK
  <2>2. 1..cur[r] \subseteq (1..(cur[r] - 1)) \cup {cur[r]}
    BY <2>1
  <2>3. 1..(cur[r] - 1) \subseteq 1..cur[r]
    BY <2>1
  <2> QED BY <2>1, <2>2, <2>3
      DEF BatchInv, NothingStored, RowsUpToFailure, Phases, Committing
<1> QED BY <1>1, Inductive, PTL

(***************************************************************************)
(* Upload implements BatchCommit                                           *)
(***************************************************************************)

\* A function that changed at most at r is the old one EXCEPT at r.
LEMMA ChangedAt ==
    ASSUME NEW S, NEW r \in S, NEW f, NEW g,
           f = [q \in S |-> f[q]], g = [q \in S |-> g[q]],
           \A q \in S : q # r => g[q] = f[q]
    PROVE  g = [f EXCEPT ![r] = g[r]]
OBVIOUS

\* What a step of r leaves of the abstract state of the other requests.
LEMMA AbstractChangedAt ==
    ASSUME TypeOK, NEW r \in Requests, Serve(r)
    PROVE  /\ submitted' = [submitted EXCEPT ![r] = submitted'[r]]
           /\ durable' = [durable EXCEPT ![r] = durable'[r]]
           /\ told' = [told EXCEPT ![r] = told'[r]]
<1>1. \A q \in Requests : q # r =>
        /\ submitted'[q] = submitted[q]
        /\ durable'[q] = durable[q]
        /\ told'[q] = told[q]
  <2> SUFFICES ASSUME NEW q \in Requests, q # r
               PROVE  /\ submitted'[q] = submitted[q]
                      /\ durable'[q] = durable[q]
                      /\ told'[q] = told[q]
    OBVIOUS
  <2>1. Same(q)
    BY ServeIsLocal
  <2> QED BY <2>1 DEF Same, submitted, durable, told
<1>2. submitted' = [submitted EXCEPT ![r] = submitted'[r]]
  BY <1>1, ChangedAt DEF submitted
<1>3. durable' = [durable EXCEPT ![r] = durable'[r]]
  BY <1>1, ChangedAt DEF durable
<1>4. told' = [told EXCEPT ![r] = told'[r]]
  BY <1>1, ChangedAt DEF told
<1> QED BY <1>2, <1>3, <1>4

\* A step of r that leaves one of its abstract values alone leaves that
\* variable of BatchCommit alone; if it leaves all three alone it is a stutter.
LEMMA AbstractKept ==
    ASSUME TypeOK, NEW r \in Requests, Serve(r)
    PROVE  /\ submitted'[r] = submitted[r] => submitted' = submitted
           /\ durable'[r] = durable[r] => durable' = durable
           /\ told'[r] = told[r] => told' = told
<1>1. submitted'[r] = submitted[r] => submitted' = submitted
  BY AbstractChangedAt DEF submitted
<1>2. durable'[r] = durable[r] => durable' = durable
  BY AbstractChangedAt DEF durable
<1>3. told'[r] = told[r] => told' = told
  BY AbstractChangedAt DEF told
<1> QED BY <1>1, <1>2, <1>3

\* The Contract!Next step a step of one request stands for.
LEMMA ServeImplements ==
    ASSUME "landed" \notin InsertFaults, IInv, NEW r \in Requests, Serve(r)
    PROVE  Contract!Next \/ UNCHANGED Contract!vars
<1>a. /\ TypeOK /\ BatchInv(r) /\ cur[r] \in Nat /\ saved[r] \in Nat
      /\ saved[r] \in 0..UploadMaxFiles
  BY LimitsAssumption DEF IInv, TypeOK
<1>b. /\ submitted[r] = (IF cur[r] = 0 THEN 0 ELSE saved[r])
      /\ durable[r] = rows[r] \cap objects[r]
      /\ told[r] = Verdict(status[r])
      /\ submitted'[r] = (IF cur'[r] = 0 THEN 0 ELSE saved'[r])
      /\ durable'[r] = rows'[r] \cap objects'[r]
      /\ told'[r] = Verdict(status'[r])
  BY DEF submitted, durable, told
<1>v. /\ Verdict(0) = "none" /\ Verdict(201) = "created"
      /\ Verdict(500) = "failed" /\ Verdict(400) = "refused"
      /\ Verdict(429) = "refused"
  BY DEF Verdict
<1>r. ASSUME phase[r] \in {"idle", "reading"}, rows'[r] = rows[r],
             objects'[r] = objects[r], cur'[r] = cur[r],
             status'[r] \in {400, 429}
      PROVE  Contract!Refuse(r)
  <2>1. told[r] = "none" /\ submitted[r] = 0 /\ durable[r] = {}
    BY <1>a, <1>b, <1>v, <1>r DEF BatchInv, NothingStored
  <2>2. told'[r] = "refused" /\ submitted'[r] = 0 /\ durable'[r] = {}
    BY <1>a, <1>b, <1>v, <1>r DEF BatchInv, NothingStored
  <2>3. told' = [told EXCEPT ![r] = "refused"]
    BY <1>a, <2>2, AbstractChangedAt
  <2>4. submitted' = submitted /\ durable' = durable
    BY <1>a, <2>1, <2>2, AbstractKept
  <2> QED BY <2>1, <2>3, <2>4 DEF Contract!Refuse
<1>f. ASSUME phase[r] \in Committing, status'[r] = 500, cur'[r] = cur[r],
             saved'[r] = saved[r], durable'[r] = durable[r]
      PROVE  Contract!FailBatch(r)
  <2>1. told[r] = "none" /\ submitted[r] > 0
    BY <1>a, <1>b, <1>v, <1>f DEF BatchInv, InBatch, Committing
  <2>2. told' = [told EXCEPT ![r] = "failed"]
    BY <1>a, <1>b, <1>v, <1>f, AbstractChangedAt
  <2>3. submitted' = submitted
    BY <1>a, <1>b, <1>f, AbstractKept
  <2>4. durable' = durable
    BY <1>a, <1>f, AbstractKept
  <2> QED BY <2>1, <2>2, <2>3, <2>4 DEF Contract!FailBatch
<1>s. ASSUME cur'[r] = cur[r], saved'[r] = saved[r] \/ cur[r] = 0,
             durable'[r] = durable[r], status'[r] = status[r]
      PROVE  UNCHANGED Contract!vars
  BY <1>a, <1>b, <1>s, AbstractKept DEF Contract!vars
<1>i. Contract!Refuse(r) \/ Contract!Submit(r) \/ Contract!CommitFile(r)
          \/ Contract!FailBatch(r)
      => Contract!Next
  BY DEF Contract!Next
<1>1. CASE \E u \in Users : Begin(r, u)
  BY <1>1, <1>a, <1>b, <1>r, <1>s, <1>i DEF Begin, store, TypeOK
<1>2. CASE FilePart(r)
  <2>1. CASE Reject(r, 400) \/ Reject(r, 429)
    BY <1>2, <1>a, <1>r, <1>i, <2>1 DEF FilePart, Reject, store, TypeOK
  <2>2. CASE UNCHANGED <<phase, owner, cur, status, reported, store>>
    <3>1. cur[r] = 0
      BY <1>2, <1>a DEF FilePart, BatchInv, NothingStored
    <3> QED BY <1>2, <1>a, <1>b, <1>s, <2>2, <3>1 DEF FilePart, store, TypeOK
  <2> QED BY <1>2, <2>1, <2>2 DEF FilePart
<1>3. CASE BadBody(r)
  BY <1>3, <1>a, <1>r, <1>i DEF BadBody, Reject, store, TypeOK
<1>4. CASE EndOfBody(r)
  <2>1. CASE saved[r] = 0
    BY <1>4, <1>a, <1>r, <1>i, <2>1 DEF EndOfBody, Reject, store, TypeOK
  <2>2. CASE saved[r] # 0
    <3>1. cur[r] = 0 /\ status[r] = 0
      BY <1>4, <1>a DEF EndOfBody, BatchInv, NothingStored
    <3>2. /\ cur'[r] = 1 /\ saved'[r] = saved[r] /\ status'[r] = status[r]
          /\ rows'[r] = rows[r] /\ objects'[r] = objects[r]
      BY <1>4, <2>2 DEF EndOfBody, store, TypeOK, IInv, BatchInv
    <3>3. told[r] = "none" /\ submitted[r] = 0 /\ submitted'[r] \in 1..UploadMaxFiles
      BY <1>a, <1>b, <1>v, <2>2, <3>1, <3>2
    <3>4. told' = told /\ durable' = durable
      BY <1>a, <1>b, <3>2, AbstractKept
    <3>5. Contract!Submit(r)
      BY <1>a, <3>3, <3>4, AbstractChangedAt DEF Contract!Submit
    <3> QED BY <3>5, <1>i
  <2> QED BY <2>1, <2>2
<1>5. CASE Put(r)
  <2>1. /\ rows[r] = 1..(cur[r] - 1) /\ objects[r] = 1..(cur[r] - 1)
        /\ cur[r] \in 1..saved[r]
    BY <1>5, <1>a DEF Put, BatchInv, InBatch
  <2>2. /\ rows'[r] = rows[r] /\ cur'[r] = cur[r] /\ saved'[r] = saved[r]
        /\ objects'[r] \in {objects[r], objects[r] \cup {cur[r]}}
        /\ status'[r] \in {status[r], 500}
    BY <1>5, <1>a DEF Put, Fail, TypeOK, quota
  <2>3. durable'[r] = durable[r]
    BY <1>a, <1>b, <2>1, <2>2
  <2> QED BY <1>5, <1>s, <1>f, <1>i, <2>2, <2>3 DEF Put, Committing
<1>6. CASE Insert(r)
  <2>1. /\ rows[r] = 1..(cur[r] - 1) /\ objects[r] = 1..cur[r]
        /\ cur[r] \in 1..saved[r] /\ status[r] = 0
    BY <1>6, <1>a DEF Insert, BatchInv, InBatch
  <2>2. objects'[r] = objects[r] /\ saved'[r] = saved[r]
    BY <1>6 DEF Insert
  <2>3. CASE UNCHANGED <<rows, cur, status>>
    BY <1>b, <1>s, <2>2, <2>3
  <2>4. CASE rows' = [rows EXCEPT ![r] = @ \cup {cur[r]}]
    <3>1. durable[r] = 1..(cur[r] - 1) /\ durable'[r] = 1..cur[r]
      <4>1. rows'[r] = rows[r] \cup {cur[r]}
        BY <1>a, <2>4 DEF TypeOK
      <4>2. 1..cur[r] = (1..(cur[r] - 1)) \cup {cur[r]}
        BY <1>a, <2>1
      <4> QED BY <1>b, <2>1, <2>2, <4>1, <4>2
    <3>2. submitted[r] = saved[r] /\ cur'[r] \in {cur[r], cur[r] + 1}
      BY <1>6, <1>a, <1>b, <2>1 DEF Insert, TypeOK
    <3>3. submitted' = submitted
      BY <1>a, <1>b, <2>1, <2>2, <3>2, AbstractKept
    <3>4. told[r] = "none"
      BY <1>b, <1>v, <2>1
    <3>5. durable' = [durable EXCEPT ![r] = 1..cur[r]]
      BY <1>a, <3>1, AbstractChangedAt
    <3>6. CASE cur[r] = saved[r]
      <4>1. rows'[r] # rows[r]
        BY <1>b, <2>1, <2>2, <3>1
      <4>2. status'[r] = 201
        BY <1>6, <1>a, <3>6, <4>1 DEF Insert, TypeOK
      <4>3. told' = [told EXCEPT ![r] = "created"]
        BY <1>a, <1>b, <1>v, <4>2, AbstractChangedAt
      <4> QED BY <1>i, <2>1, <3>1, <3>2, <3>3, <3>4, <3>5, <3>6, <4>3
              DEF Contract!CommitFile
    <3>7. CASE cur[r] # saved[r]
      <4>1. status'[r] = status[r]
        BY <1>6, <1>a, <2>4, <3>7 DEF Insert, TypeOK
      <4>2. told' = told
        BY <1>a, <1>b, <4>1, AbstractKept
      <4> QED BY <1>i, <2>1, <3>1, <3>2, <3>3, <3>4, <3>5, <3>7, <4>2
              DEF Contract!CommitFile
    <3> QED BY <3>6, <3>7
  <2> QED BY <1>6, <2>3, <2>4 DEF Insert
<1>7. CASE Remove(r)
  <2>1. /\ rows[r] = 1..(cur[r] - 1) /\ objects[r] = 1..cur[r]
        /\ cur[r] \in 1..saved[r] /\ phase[r] \in Committing
    BY <1>7, <1>a DEF Remove, BatchInv, InBatch, RowsUpToFailure, Committing
  <2>2. /\ rows'[r] = rows[r] /\ cur'[r] = cur[r] /\ saved'[r] = saved[r]
        /\ objects'[r] \in {objects[r], objects[r] \ {cur[r]}}
        /\ status'[r] = 500
    BY <1>7, <1>a DEF Remove, Fail, TypeOK
  <2>3. durable'[r] = durable[r]
    BY <1>a, <1>b, <2>1, <2>2
  <2> QED BY <1>f, <1>i, <2>1, <2>2, <2>3
<1>8. CASE Crash(r)
  BY <1>8, <1>b, <1>s DEF Crash, store
<1> QED BY <1>1, <1>2, <1>3, <1>4, <1>5, <1>6, <1>7, <1>8 DEF Serve

\* A batch is committed file by file, each file whole and for good, and is
\* reported as created exactly with its last one.
THEOREM UploadImplementsBatchCommit ==
    ASSUME "landed" \notin InsertFaults
    PROVE  Spec => ImplementsBatchCommit
<1>1. Init => Contract!Init
  BY DEF Init, Contract!Init, submitted, durable, told, Verdict
<1>2. IInv /\ [Next]_vars => [Contract!Next]_Contract!vars
  <2> SUFFICES ASSUME IInv, [Next]_vars
               PROVE  Contract!Next \/ UNCHANGED Contract!vars
    OBVIOUS
  <2>1. CASE UNCHANGED vars
    BY <2>1 DEF vars, Contract!vars, submitted, durable, told
  <2>2. ASSUME NEW u \in Users, Refill(u) PROVE UNCHANGED Contract!vars
    BY <2>2 DEF Refill, store, Contract!vars, submitted, durable, told
  <2>3. ASSUME NEW r \in Requests, Serve(r)
        PROVE  Contract!Next \/ UNCHANGED Contract!vars
    BY <2>3, ServeImplements
  <2> QED BY <2>1, <2>2, <2>3 DEF Next
<1> QED BY <1>1, <1>2, Inductive, PTL DEF Spec, ImplementsBatchCommit, Contract!Spec

(***************************************************************************)
(* Objects that no row names                                               *)
(***************************************************************************)

\* What is left of a batch that ended: an object without a row is the one its
\* replica died over, and none is left of a batch that was answered.
OrphanInv(r) ==
    /\ phase[r] = "crashed" => objects[r] \ rows[r] \subseteq {cur[r]}
    /\ phase[r] = "answered" => objects[r] \subseteq rows[r]

\* A step of a request leaves no more of its batch than OrphanInv allows: a
\* failed put has stored nothing, and what it was rolled back is gone.
LEMMA ServeKeepsOrphanInv ==
    ASSUME "landed" \notin PutFaults, "refused" \notin RemoveFaults,
           TypeOK, NEW r \in Requests, BatchInv(r), OrphanInv(r), Serve(r)
    PROVE  OrphanInv(r)'
<1> USE DEF OrphanInv, BatchInv, NothingStored, InBatch, RowsUpToFailure
<1>t. saved[r] \in Nat /\ cur[r] \in Nat
  BY LimitsAssumption DEF TypeOK
<1>u. cur[r] \in 1..saved[r] => 1..cur[r] = (1..(cur[r] - 1)) \cup {cur[r]}
  BY <1>t
<1>1. CASE \E u \in Users : Begin(r, u)
  BY <1>1 DEF Begin, TypeOK, store
<1>2. CASE FilePart(r) \/ BadBody(r) \/ EndOfBody(r)
  BY <1>2 DEF FilePart, BadBody, EndOfBody, Reject, TypeOK, store
<1>3. CASE Put(r)
  <2>1. /\ phase[r] = "put" /\ rows'[r] = rows[r]
        /\ \/ phase'[r] = "insert"
           \/ phase'[r] = "answered" /\ objects'[r] = objects[r]
    BY <1>3 DEF Put, Fail, TypeOK
  <2> QED BY <2>1
<1>4. CASE Insert(r)
  <2>1. /\ phase[r] = "insert" /\ objects'[r] = objects[r]
        /\ \/ phase'[r] \in {"put", "remove"}
           \/ phase'[r] = "answered" /\ rows'[r] = rows[r] \cup {cur[r]}
    BY <1>4 DEF Insert, TypeOK
  <2> QED BY <1>u, <2>1
<1>5. CASE Remove(r)
  <2>1. /\ phase[r] = "remove" /\ rows'[r] = rows[r] /\ phase'[r] = "answered"
        /\ objects'[r] = objects[r] \ {cur[r]}
    BY <1>5 DEF Remove, Fail, TypeOK
  <2>2. 1..cur[r] \ {cur[r]} \subseteq rows[r]
    BY <1>t, <1>u, <2>1
  <2> QED BY <2>1, <2>2
<1>6. CASE Crash(r)
  <2>1. /\ phase[r] \in {"reading"} \cup Committing /\ phase'[r] = "crashed"
        /\ UNCHANGED <<objects, rows, cur>>
    BY <1>6 DEF Crash, TypeOK, store
  <2>2. objects[r] \ rows[r] \subseteq {cur[r]}
    BY <1>t, <1>u, <2>1 DEF Committing
  <2> QED BY <2>1, <2>2
<1> QED BY <1>1, <1>2, <1>3, <1>4, <1>5, <1>6 DEF Serve

\* "an object no row names, is cleaned up where it can be", for any number of
\* requests and files: while a failed put has stored nothing and removals work, an
\* object without a row is the one a handler is busy with, or died over.
\* (SaveMetadata, removeObject)
THEOREM UploadLeavesNoOrphan ==
    ASSUME "landed" \notin PutFaults, "refused" \notin RemoveFaults
    PROVE  Spec => []NoOrphanObject
<1> DEFINE Inv == \A r \in Requests : OrphanInv(r)
<1>1. Init => Inv
  BY DEF Init, OrphanInv
<1>2. IInv /\ Inv /\ [Next]_vars => Inv'
  <2> SUFFICES ASSUME IInv, Inv, [Next]_vars, NEW q \in Requests PROVE OrphanInv(q)'
    OBVIOUS
  <2>1. ASSUME Same(q) PROVE OrphanInv(q)'
    BY <2>1 DEF Same, OrphanInv
  <2>2. CASE UNCHANGED vars \/ \E u \in Users : Refill(u)
    BY <2>1, <2>2 DEF Same, vars, Refill, store
  <2>3. ASSUME NEW r \in Requests, Serve(r) PROVE OrphanInv(q)'
    BY <2>1, <2>3, ServeIsLocal, ServeKeepsOrphanInv DEF IInv
  <2> QED BY <2>2, <2>3 DEF Next
<1>3. IInv /\ Inv => NoOrphanObject
  <2> SUFFICES ASSUME IInv, NEW r \in Requests, OrphanInv(r), NEW i \in FileNo,
                      i \in objects[r] \ rows[r]
               PROVE  phase[r] \in {"insert", "remove", "crashed"} /\ i = cur[r]
    BY DEF NoOrphanObject
  <2>1. BatchInv(r) /\ phase[r] \in Phases /\ cur[r] \in Nat
    BY LimitsAssumption DEF IInv, TypeOK
  <2>2. 1..cur[r] \subseteq (1..(cur[r] - 1)) \cup {cur[r]}
    BY <2>1
  <2> QED BY <2>1, <2>2
      DEF OrphanInv, BatchInv, NothingStored, RowsUpToFailure, Phases, Committing
<1> QED BY <1>1, <1>2, <1>3, Inductive, PTL DEF Spec

(***************************************************************************)
(* The quota                                                               *)
(***************************************************************************)

\* The validated files of a user, over all of its requests.
Kept(u) == {file \in Requests \X FileNo : owner[file[1]] = u /\ file[2] \in 1..saved[file[1]]}

\* Each validated file has cost an event, spent still or regained since.
Paid(u) ==
    IsFiniteSet(Kept(u)) /\ Cardinality(Kept(u)) <= spent[u] + refilled[u]

OwnerInv(r) ==
    /\ phase[r] = "idle" => saved[r] = 0
    /\ phase[r] = "reading" => owner[r] \in Users

QuotaInv == (\A r \in Requests : OwnerInv(r)) /\ \A u \in Users : Paid(u)

\* A user who has kept no more files and paid no less has still paid for them.
LEMMA PaidStays ==
    ASSUME NEW u \in Users, Paid(u), Kept(u)' = Kept(u), TypeOK, TypeOK',
           spent[u] + refilled[u] <= spent'[u] + refilled'[u]
    PROVE  Paid(u)'
<1>1. Cardinality(Kept(u)) \in Nat
  BY FS_CardinalityType DEF Paid
<1>2. /\ spent[u] \in Nat /\ refilled[u] \in Nat
      /\ spent'[u] \in Nat /\ refilled'[u] \in Nat
  BY LimitsAssumption DEF TypeOK
<1> QED BY <1>1, <1>2 DEF Paid

\* A part that is read spends an event of its owner's quota and adds at most one
\* validated file to the owner's.
LEMMA FilePartIsPaid ==
    ASSUME ~LimiterFaults, TypeOK, TypeOK', QuotaInv, NEW r \in Requests, FilePart(r)
    PROVE  QuotaInv'
<1>1. /\ phase[r] = "reading" /\ owner[r] \in Users /\ saved[r] \in Nat
      /\ UNCHANGED <<owner, refilled>>
      /\ fileCount[r] < UploadMaxFiles
  BY LimitsAssumption DEF FilePart, Reject, QuotaInv, OwnerInv, TypeOK
<1>2. \A q \in Requests : OwnerInv(q)'
  <2> SUFFICES ASSUME NEW q \in Requests PROVE OwnerInv(q)'
    OBVIOUS
  <2>1. OwnerInv(q)
    BY DEF QuotaInv
  <2>2. CASE q = r
    <3>1. phase'[r] # "idle"
      BY <1>1 DEF FilePart, Reject, TypeOK
    <3> QED BY <1>1, <2>2, <3>1 DEF OwnerInv
  <2>3. CASE q # r
    <3>1. saved'[q] = saved[q] /\ phase'[q] = phase[q]
      BY <2>3 DEF FilePart, Reject, TypeOK
    <3> QED BY <1>1, <2>1, <3>1 DEF OwnerInv
  <2> QED BY <2>2, <2>3
<1>3. /\ spent' \in [Users -> Nat] /\ spent \in [Users -> Nat] /\ refilled \in [Users -> Nat]
      /\ \A u \in Users : spent[u] <= spent'[u]
  BY LimitsAssumption DEF TypeOK, FilePart, Allow
<1>4. CASE saved' = saved
  <2> SUFFICES ASSUME NEW u \in Users PROVE Paid(u)'
    BY <1>2 DEF QuotaInv
  <2>1. Kept(u)' = Kept(u) /\ Paid(u)
    BY <1>1, <1>4 DEF Kept, QuotaInv
  <2> QED BY <1>1, <1>3, <2>1, PaidStays
<1>5. CASE saved' # saved
  <2> DEFINE one == <<r, saved[r] + 1>>
  <2>0. PICK v \in Users : v = owner[r]
    BY <1>1
  <2>1. /\ v \in Users /\ spent' = [spent EXCEPT ![v] = @ + 1]
        /\ saved' = [saved EXCEPT ![r] = @ + 1]
    BY <1>1, <1>5, <2>0 DEF FilePart, Allow, Reject
  <2>2. saved'[r] = saved[r] + 1 /\ \A q \in Requests : q # r => saved'[q] = saved[q]
    BY <2>1 DEF TypeOK
  <2>3. 1..(saved[r] + 1) = (1..saved[r]) \cup {saved[r] + 1}
    BY <1>1
  <2>4. ASSUME NEW u \in Users, u # v PROVE Paid(u)'
    <3>1. Kept(u)' = Kept(u)
      BY <1>1, <2>0, <2>2, <2>4 DEF Kept
    <3>2. Paid(u)
      BY DEF QuotaInv
    <3> QED BY <1>1, <1>3, <3>1, <3>2, PaidStays
  <2>5. Paid(v)'
    <3>1. Kept(v)' \subseteq Kept(v) \cup {one}
      BY <1>1, <2>0, <2>2, <2>3 DEF Kept
    <3>2. IsFiniteSet(Kept(v)) /\ Cardinality(Kept(v)) <= spent[v] + refilled[v]
      BY <2>1 DEF QuotaInv, Paid
    <3>3. /\ IsFiniteSet(Kept(v) \cup {one})
          /\ Cardinality(Kept(v) \cup {one}) \in {Cardinality(Kept(v)), Cardinality(Kept(v)) + 1}
      BY <3>2, FS_AddElement
    <3>4. /\ IsFiniteSet(Kept(v)')
          /\ Cardinality(Kept(v)') <= Cardinality(Kept(v) \cup {one})
      BY <3>1, <3>3, FS_Subset
    <3>5. Cardinality(Kept(v)) \in Nat /\ Cardinality(Kept(v)') \in Nat
      BY <3>2, <3>4, FS_CardinalityType
    <3>6. spent'[v] = spent[v] + 1 /\ spent[v] \in Nat /\ refilled[v] \in Nat
      BY <1>3, <2>1
    <3>7. Cardinality(Kept(v)') <= spent[v] + 1 + refilled[v]
      BY <3>2, <3>3, <3>4, <3>5, <3>6
    <3>8. IsFiniteSet(Kept(v)') /\ Cardinality(Kept(v)') <= spent'[v] + refilled'[v]
      BY <1>1, <3>4, <3>6, <3>7
    <3> QED BY <3>8 DEF Paid
  <2> QED BY <1>2, <2>4, <2>5 DEF QuotaInv
<1> QED BY <1>4, <1>5

\* The other steps of a request keep no more files and spend nothing.
LEMMA OtherStepsArePaid ==
    ASSUME TypeOK, TypeOK', QuotaInv, NEW r \in Requests, Serve(r), ~FilePart(r)
    PROVE  QuotaInv'
<1>1. /\ UNCHANGED <<saved, spent, refilled>>
      /\ \A q \in Requests : q # r => owner'[q] = owner[q] /\ phase'[q] = phase[q]
      /\ owner'[r] = owner[r] \/ phase[r] = "idle"
      /\ phase'[r] # "idle"
      /\ phase'[r] = "reading" => owner'[r] \in Users
  BY DEF Serve, Begin, BadBody, EndOfBody, Put, Insert, Remove, Crash, Reject, Fail, TypeOK,
         store, quota, QuotaInv, OwnerInv
<1>2. \A q \in Requests : OwnerInv(q)'
  BY <1>1 DEF QuotaInv, OwnerInv
<1>3. ASSUME NEW u \in Users PROVE Paid(u)'
  <2>1. ASSUME NEW q \in Requests PROVE owner'[q] = owner[q] \/ saved[q] = 0
    BY <1>1 DEF QuotaInv, OwnerInv
  <2>2. 1..0 = {}
    OBVIOUS
  <2>3. Kept(u)' = Kept(u)
    BY <1>1, <2>1, <2>2 DEF Kept
  <2>4. Paid(u) /\ spent[u] + refilled[u] <= spent'[u] + refilled'[u]
    BY <1>1, LimitsAssumption DEF QuotaInv, TypeOK
  <2> QED BY <2>3, <2>4, PaidStays
<1> QED BY <1>2, <1>3 DEF QuotaInv

\* Nothing is stored of a request but its validated files.
LEMMA StoredIsSaved ==
    ASSUME IInv, NEW r \in Requests
    PROVE  objects[r] \subseteq 1..saved[r]
<1>1. BatchInv(r) /\ phase[r] \in Phases /\ cur[r] \in Nat /\ saved[r] \in Nat
  BY LimitsAssumption DEF IInv, TypeOK
<1>2. 1..(cur[r] - 1) \subseteq 1..cur[r]
  BY <1>1
<1>3. \/ objects[r] = {}
      \/ InBatch(r) /\ objects[r] \subseteq 1..cur[r]
  <2>1. CASE phase[r] \in {"idle", "reading", "crashed"}
    BY <1>1, <2>1 DEF BatchInv, NothingStored
  <2>2. CASE phase[r] \in Committing
    BY <1>1, <1>2, <2>2 DEF BatchInv, Committing
  <2>3. CASE phase[r] = "answered"
    BY <1>1, <2>3 DEF BatchInv, NothingStored
  <2> QED BY <1>1, <2>1, <2>2, <2>3 DEF Phases
<1>4. InBatch(r) => 1..cur[r] \subseteq 1..saved[r]
  BY <1>1 DEF InBatch
<1> QED BY <1>3, <1>4

\* handler.go, 117, for every quota and any number of concurrent requests of one
\* account: what the account has in the bucket is at most a full burst and what it
\* regained, as long as the limiter answers.
THEOREM UploadQuotaBoundsStorage ==
    ASSUME ~LimiterFaults
    PROVE  Spec => []QuotaBoundsStorage
<1>1. Init => QuotaInv
  <2> SUFFICES ASSUME Init PROVE QuotaInv
    OBVIOUS
  <2>1. ASSUME NEW u \in Users PROVE Kept(u) = {}
    BY DEF Init, Kept
  <2>2. IsFiniteSet({}) /\ Cardinality({}) = 0
    BY FS_EmptySet
  <2> QED BY <2>1, <2>2 DEF Init, QuotaInv, OwnerInv, Paid
<1>2. IInv /\ IInv' /\ QuotaInv /\ [Next]_vars => QuotaInv'
  <2> SUFFICES ASSUME IInv, IInv', QuotaInv, [Next]_vars PROVE QuotaInv'
    OBVIOUS
  <2>1. ASSUME NEW r \in Requests, Serve(r) PROVE QuotaInv'
    BY <2>1, FilePartIsPaid, OtherStepsArePaid DEF IInv
  <2>2. ASSUME UNCHANGED <<phase, owner, saved>>,
               \A u \in Users : spent[u] + refilled[u] <= spent'[u] + refilled'[u]
        PROVE  QuotaInv'
    <3>1. ASSUME NEW u \in Users PROVE Paid(u)'
      <4>1. Kept(u)' = Kept(u) /\ Paid(u)
        BY <2>2 DEF Kept, QuotaInv
      <4> QED BY <2>2, <4>1, PaidStays DEF IInv
    <3> QED BY <2>2, <3>1 DEF QuotaInv, OwnerInv
  <2>3. CASE UNCHANGED vars
    BY <2>2, <2>3, LimitsAssumption DEF vars, IInv, TypeOK
  <2>4. ASSUME NEW u \in Users, Refill(u) PROVE QuotaInv'
    <3>1. ASSUME NEW v \in Users PROVE spent[v] + refilled[v] <= spent'[v] + refilled'[v]
      <4>1. spent[v] \in Nat /\ refilled[v] \in Nat
        BY LimitsAssumption DEF IInv, TypeOK
      <4> QED BY <2>4, <4>1 DEF Refill, IInv, TypeOK
    <3> QED BY <2>2, <2>4, <3>1 DEF Refill
  <2> QED BY <2>1, <2>3, <2>4 DEF Next
<1>3. IInv /\ QuotaInv => QuotaBoundsStorage
  <2> SUFFICES ASSUME IInv, QuotaInv, NEW u \in Users
               PROVE  Cardinality({file \in Requests \X FileNo :
                                     owner[file[1]] = u /\ file[2] \in objects[file[1]]})
                        <= UploadFilesPerHour + refilled[u]
    BY DEF QuotaBoundsStorage
  <2> DEFINE Stored == {file \in Requests \X FileNo :
                          owner[file[1]] = u /\ file[2] \in objects[file[1]]}
  <2>1. Stored \subseteq Kept(u)
    BY StoredIsSaved DEF Kept
  <2>2. IsFiniteSet(Kept(u)) /\ Cardinality(Kept(u)) <= spent[u] + refilled[u]
    BY DEF QuotaInv, Paid
  <2> HIDE DEF Stored
  <2>3. IsFiniteSet(Stored) /\ Cardinality(Stored) <= Cardinality(Kept(u))
    BY <2>1, <2>2, FS_Subset
  <2>4. Cardinality(Stored) \in Nat /\ Cardinality(Kept(u)) \in Nat
    BY <2>2, <2>3, FS_CardinalityType
  <2>5. /\ spent[u] \in Nat /\ spent[u] <= UploadFilesPerHour
        /\ refilled[u] \in Nat /\ UploadFilesPerHour \in Nat
    BY LimitsAssumption DEF IInv, TypeOK
  <2>6. Cardinality(Stored) <= UploadFilesPerHour + refilled[u]
    BY <2>2, <2>3, <2>4, <2>5
  <2> QED BY <2>6 DEF Stored
<1> QED BY <1>1, <1>2, <1>3, Inductive, PTL DEF Spec
=============================================================================
