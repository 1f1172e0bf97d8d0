----------------------------- MODULE BatchCommit -----------------------------
(***************************************************************************)
(* What SaveMetadata promises of a batch (the comments of service.go,      *)
(* 411-430, and handler.go, 66-72), with no word of how it keeps it: files *)
(* become durable whole, one after the other and for good; a batch is      *)
(* reported as created exactly when its last file is; a batch may fail at  *)
(* any point before that, keeping what it committed; a request refused     *)
(* before it was submitted stores nothing.                                 *)
(***************************************************************************)
EXTENDS Naturals

CONSTANTS Requests, UploadMaxFiles

VARIABLES
    size,    \* how many files the submitted batch has, 0 before
    stored,  \* the files that are durable: object and row
    verdict  \* what the client was told

vars == <<size, stored, verdict>>

Init ==
    /\ size = [r \in Requests |-> 0]
    /\ stored = [r \in Requests |-> {}]
    /\ verdict = [r \in Requests |-> "none"]

Refuse(r) ==
    /\ verdict[r] = "none"
    /\ size[r] = 0
    /\ verdict' = [verdict EXCEPT ![r] = "refused"]
    /\ UNCHANGED <<size, stored>>

Submit(r) ==
    /\ verdict[r] = "none"
    /\ size[r] = 0
    /\ \E n \in 1..UploadMaxFiles : size' = [size EXCEPT ![r] = n]
    /\ UNCHANGED <<stored, verdict>>

\* The next file becomes durable; with the last one the batch is created.
CommitFile(r) ==
    /\ verdict[r] = "none"
    /\ \E i \in 1..size[r] :
        /\ stored[r] = 1..(i - 1)
        /\ stored' = [stored EXCEPT ![r] = 1..i]
        /\ IF i = size[r]
           THEN verdict' = [verdict EXCEPT ![r] = "created"]
           ELSE UNCHANGED verdict
    /\ UNCHANGED size

FailBatch(r) ==
    /\ verdict[r] = "none"
    /\ size[r] > 0
    /\ verdict' = [verdict EXCEPT ![r] = "failed"]
    /\ UNCHANGED <<size, stored>>

Next ==
    \E r \in Requests : Refuse(r) \/ Submit(r) \/ CommitFile(r) \/ FailBatch(r)

Spec == Init /\ [][Next]_vars
=============================================================================
