------------------------------- MODULE JobQueue -------------------------------
(***************************************************************************)
(* The test queue (internal/queue): AddTestJob on any replica, the workers *)
(* of every replica, and between them asynq's task in Redis, which is      *)
(* modelled from the options the code gives it.  A task is known by its    *)
(* id; while one with that id exists, in whatever state, another is        *)
(* refused.  How long the window of dedupTTL is does not matter: it closes *)
(* when asynq forgets the completed task.                                  *)
(***************************************************************************)
EXTENDS Integers, FiniteSets

CONSTANTS
    Users, Messages,
    Replicas,
    NoMsg,         \* no task has this id
    Concurrency,   \* concurrency
    MaxRetry,      \* maxRetry
    DefaultRetry,  \* asynq: the retries of a task that names none
    MaxCalls,      \* bound: calls of AddTestJob
    MaxFailures,   \* bound: handlers that fail or panic
    MaxDeaths,     \* bound: workers that die
    MaxStops       \* bound: workers that are shut down

ASSUME NumbersAssumption ==
    /\ {Concurrency, MaxRetry, DefaultRetry, MaxCalls, MaxFailures, MaxDeaths,
        MaxStops} \subseteq Nat
    /\ Concurrency > 0

VARIABLES
    state,      \* of each task id: none, or the asynq state of its task
    msg,        \* its message: whose it is, retried, max, and whether it is kept
    up,         \* of each replica: its worker is up, stopping or down
    running,    \* the tasks its worker's handlers are at
    finished,   \* those whose handler has returned and that are not yet acknowledged
    owed,       \* history: a user was told that the message is taken, and its
                \* work has not been acknowledged since
    worked,     \* history: its handler has returned, in the window that is open
    tries,      \* history: how often the task was handed to a handler
    calls, failures, deaths, stops  \* history: how often each happened

redis == <<state, msg>>
workers == <<up, running, finished>>
counts == <<calls, failures, deaths, stops>>
history == <<owed, worked, tries>>
vars == <<redis, workers, history, counts>>

Jobs == Users \X Messages

\* Mutant: the id is of the message alone.
TaskIdOfMessage(j) == CHOOSE k \in Jobs : k[2] = j[2]

\* testJobTaskID: a digest of the user and the message.
TaskId(j) == j

Ids == Jobs
Held == UNION {running[r] \cup finished[r] : r \in Replicas}

Message == [by : Jobs, retried : 0..MaxRetry, max : {MaxRetry}, kept : {TRUE}]

TypeOK ==
    /\ state \in [Ids -> {"none", "pending", "active", "retry", "completed", "archived"}]
    /\ msg \in [Ids -> Message \cup {NoMsg}]
    /\ \A i \in Ids : state[i] = "none" <=> msg[i] = NoMsg
    /\ up \in [Replicas -> {"up", "stopping", "down"}]
    /\ running \in [Replicas -> SUBSET Ids] /\ finished \in [Replicas -> SUBSET Ids]
    /\ \A r \in Replicas :
         /\ Cardinality(running[r]) + Cardinality(finished[r]) <= Concurrency
         /\ up[r] = "down" => running[r] \cup finished[r] = {}
    /\ owed \in [Jobs -> BOOLEAN] /\ worked \in [Jobs -> BOOLEAN]
    /\ tries \in [Ids -> 0..(MaxRetry + 1 + MaxStops)]
    /\ calls \in 0..MaxCalls /\ failures \in 0..MaxFailures
    /\ deaths \in 0..MaxDeaths /\ stops \in 0..MaxStops

Init ==
    /\ state = [i \in Ids |-> "none"] /\ msg = [i \in Ids |-> NoMsg]
    /\ up = [r \in Replicas |-> "down"]
    /\ running = [r \in Replicas |-> {}] /\ finished = [r \in Replicas |-> {}]
    /\ owed = [j \in Jobs |-> FALSE] /\ worked = [j \in Jobs |-> FALSE]
    /\ tries = [i \in Ids |-> 0]
    /\ calls = 0 /\ failures = 0 /\ deaths = 0 /\ stops = 0

(***************************************************************************)
(* AddTestJob                                                              *)
(***************************************************************************)

\* Mutant: no retry limit is named.
PushUnlimited(j) ==
    /\ state[TaskId(j)] = "none"
    /\ state' = [state EXCEPT ![TaskId(j)] = "pending"]
    /\ msg' = [msg EXCEPT ![TaskId(j)] =
                 [by |-> j, retried |-> 0, max |-> DefaultRetry, kept |-> TRUE]]
    /\ tries' = [tries EXCEPT ![TaskId(j)] = 0]

\* Mutant: a completed task is not kept.
PushForgotten(j) ==
    /\ state[TaskId(j)] = "none"
    /\ state' = [state EXCEPT ![TaskId(j)] = "pending"]
    /\ msg' = [msg EXCEPT ![TaskId(j)] =
                 [by |-> j, retried |-> 0, max |-> MaxRetry, kept |-> FALSE]]
    /\ tries' = [tries EXCEPT ![TaskId(j)] = 0]

\* The task and the options it is enqueued with.
Push(j) ==
    /\ state[TaskId(j)] = "none"
    /\ state' = [state EXCEPT ![TaskId(j)] = "pending"]
    /\ msg' = [msg EXCEPT ![TaskId(j)] =
                 [by |-> j, retried |-> 0, max |-> MaxRetry, kept |-> TRUE]]
    /\ tries' = [tries EXCEPT ![TaskId(j)] = 0]

\* ErrTaskIDConflict
Conflict(j) ==
    /\ state[TaskId(j)] # "none"
    /\ UNCHANGED <<redis, tries>>

\* The message was worked on, and the completed task is still there.
Recent(j) == state[TaskId(j)] = "completed" /\ msg[TaskId(j)].by = j

\* Mutant: every error of the enqueue is taken for a duplicate.
AddTestJobSwallows(j) ==
    /\ calls < MaxCalls
    /\ calls' = calls + 1
    /\ Push(j) \/ Conflict(j) \/ UNCHANGED <<redis, tries>>
    /\ owed' = [owed EXCEPT ![j] = @ \/ ~Recent(j)]
    /\ UNCHANGED <<workers, worked, failures, deaths, stops>>

\* A new task and a duplicate are reported alike; another error is reported,
\* whether or not the task was enqueued before it.
AddTestJob(j) ==
    /\ calls < MaxCalls
    /\ calls' = calls + 1
    /\ \/ /\ Push(j) \/ Conflict(j)
          /\ owed' = [owed EXCEPT ![j] = @ \/ ~Recent(j)]
       \/ /\ Push(j) \/ UNCHANGED <<redis, tries>>
          /\ UNCHANGED owed
    /\ UNCHANGED <<workers, worked, failures, deaths, stops>>

(***************************************************************************)
(* Workers                                                                 *)
(***************************************************************************)

\* NewWorker and Worker.Start, in a new process.
Start(r) ==
    /\ up[r] = "down"
    /\ up' = [up EXCEPT ![r] = "up"]
    /\ UNCHANGED <<redis, running, finished, history, counts>>

\* asynq hands a task to one of the worker's goroutines.
Take(r, i) ==
    /\ up[r] = "up"
    /\ Cardinality(running[r] \cup finished[r]) < Concurrency
    /\ state[i] = "pending"
    /\ state' = [state EXCEPT ![i] = "active"]
    /\ running' = [running EXCEPT ![r] = @ \cup {i}]
    /\ tries' = [tries EXCEPT ![i] = @ + 1]
    /\ UNCHANGED <<msg, up, finished, owed, worked, counts>>

\* handleTest returns.
Work(r, i) ==
    /\ i \in running[r]
    /\ running' = [running EXCEPT ![r] = @ \ {i}]
    /\ finished' = [finished EXCEPT ![r] = @ \cup {i}]
    /\ worked' = [worked EXCEPT ![msg[i].by] = TRUE]
    /\ UNCHANGED <<redis, up, owed, tries, counts>>

\* Whether asynq tries a task again after an attempt that failed.
Retry(i) ==
    /\ state' = [state EXCEPT ![i] = IF msg[i].retried < msg[i].max THEN "retry" ELSE "archived"]
    /\ msg' = [msg EXCEPT ![i].retried = IF @ < msg[i].max THEN @ + 1 ELSE @]

\* Mutant: a panic is logged and not returned as an error.
FailIsSuccess(r, i) ==
    /\ i \in running[r]
    /\ failures < MaxFailures
    /\ failures' = failures + 1
    /\ running' = [running EXCEPT ![r] = @ \ {i}]
    /\ finished' = [finished EXCEPT ![r] = @ \cup {i}]
    /\ UNCHANGED <<redis, up, history, calls, deaths, stops>>

\* A handler returns an error, or panics and recoverer makes that an error.
Fail(r, i) ==
    /\ i \in running[r]
    /\ failures < MaxFailures
    /\ failures' = failures + 1
    /\ running' = [running EXCEPT ![r] = @ \ {i}]
    /\ Retry(i)
    /\ UNCHANGED <<up, finished, history, calls, deaths, stops>>

\* The attempt is acknowledged; a task with a retention is kept.
Ack(r, i) ==
    /\ i \in finished[r]
    /\ finished' = [finished EXCEPT ![r] = @ \ {i}]
    /\ IF msg[i].kept
       THEN state' = [state EXCEPT ![i] = "completed"] /\ UNCHANGED msg
       ELSE state' = [state EXCEPT ![i] = "none"] /\ msg' = [msg EXCEPT ![i] = NoMsg]
    /\ owed' = [owed EXCEPT ![msg[i].by] = @ /\ ~worked[msg[i].by]]
    /\ UNCHANGED <<up, running, worked, tries, counts>>

\* Mutant: the process ends without stopping its worker.
StopAtOnce(r) ==
    /\ up[r] = "up"
    /\ stops < MaxStops
    /\ stops' = stops + 1
    /\ up' = [up EXCEPT ![r] = "down"]
    /\ running' = [running EXCEPT ![r] = {}]
    /\ finished' = [finished EXCEPT ![r] = {}]
    /\ UNCHANGED <<redis, history, calls, failures, deaths>>

\* Worker.Stop: no more tasks are taken ...
Stop(r) ==
    /\ up[r] = "up"
    /\ stops < MaxStops
    /\ stops' = stops + 1
    /\ up' = [up EXCEPT ![r] = "stopping"]
    /\ UNCHANGED <<redis, running, finished, history, calls, failures, deaths>>

\* ... a handler that takes longer than asynq waits is left, its task put back ...
Requeue(r, i) ==
    /\ up[r] = "stopping" /\ i \in running[r]
    /\ running' = [running EXCEPT ![r] = @ \ {i}]
    /\ state' = [state EXCEPT ![i] = "pending"]
    /\ UNCHANGED <<msg, up, finished, history, counts>>

\* ... and Stop returns when no handler is left.
Stopped(r) ==
    /\ up[r] = "stopping" /\ running[r] \cup finished[r] = {}
    /\ up' = [up EXCEPT ![r] = "down"]
    /\ UNCHANGED <<redis, running, finished, history, counts>>

\* The process is killed, or cut off from Redis for longer than its leases.
Die(r) ==
    /\ up[r] # "down"
    /\ deaths < MaxDeaths
    /\ deaths' = deaths + 1
    /\ up' = [up EXCEPT ![r] = "down"]
    /\ running' = [running EXCEPT ![r] = {}]
    /\ finished' = [finished EXCEPT ![r] = {}]
    /\ UNCHANGED <<redis, history, calls, failures, stops>>

\* asynq's recoverer: the lease of a task that nobody holds runs out.
Recover(i) ==
    /\ state[i] = "active" /\ i \notin Held
    /\ Retry(i)
    /\ UNCHANGED <<workers, history, counts>>

\* asynq's forwarder: the delay before another attempt is over.
Forward(i) ==
    /\ state[i] = "retry"
    /\ state' = [state EXCEPT ![i] = "pending"]
    /\ UNCHANGED <<msg, workers, history, counts>>

\* asynq's janitor: a completed task has been kept for dedupTTL.
Forget(i) ==
    /\ state[i] = "completed"
    /\ state' = [state EXCEPT ![i] = "none"]
    /\ msg' = [msg EXCEPT ![i] = NoMsg]
    /\ worked' = [worked EXCEPT ![msg[i].by] = FALSE]
    /\ UNCHANGED <<workers, owed, tries, counts>>

Asynq(i) == Recover(i) \/ Forward(i) \/ Forget(i)
Handler(r, i) == Take(r, i) \/ Work(r, i) \/ Fail(r, i) \/ Ack(r, i)

Next ==
    \/ \E j \in Jobs : AddTestJob(j)
    \/ \E r \in Replicas : Start(r) \/ Stop(r) \/ Stopped(r) \/ Die(r)
    \/ \E r \in Replicas, i \in Ids : Handler(r, i) \/ Requeue(r, i)
    \/ \E i \in Ids : Asynq(i)

\* Replicas that stopped or died are started again, a worker that is up goes on
\* taking tasks, handleTest ends after a second, and asynq's own loops run.
Fairness ==
    /\ \A r \in Replicas : WF_vars(Start(r)) /\ WF_vars(Stopped(r))
    /\ \A i \in Ids :
         /\ WF_vars(Recover(i)) /\ WF_vars(Forward(i))
         /\ \A r \in Replicas : SF_vars(Take(r, i)) /\ WF_vars(Work(r, i)) /\ WF_vars(Ack(r, i))

Spec == Init /\ [][Next]_vars /\ Fairness

(***************************************************************************)
(* Properties                                                              *)
(***************************************************************************)

\* ARCHITECTURE.md, 87: an event that must not be lost goes to the queue, "which
\* persists in Redis, retries".  Whoever was told yes has a task of their own
\* there, waiting, tried or given up, until it is worked on and acknowledged.
AcceptedJobIsKept ==
    \A j \in Jobs : owed[j] =>
        /\ state[TaskId(j)] \in {"pending", "active", "retry", "archived"}
        /\ msg[TaskId(j)].by = j

\* queue.go, 66: "deduplicated per user and message for dedupTTL".  Unless a
\* worker died between its work and the acknowledgement, a message is not worked
\* on twice within the window, however often and wherever it is sent.
WorkedOncePerWindow ==
    [][\A j \in Jobs :
         (\E r \in Replicas : \E i \in running[r] : i \in finished'[r] /\ msg[i].by = j)
            => ~worked[j] \/ deaths > 0]_vars

\* queue.go, 33 and 84: asynq's MaxRetry counts retries, so a task is handed out
\* once and then again at most maxRetry times, a shutdown that put it back not
\* counted; it is given up only then.  (queue.go, 33, speaks of 3 attempts.)
AttemptsAreCounted ==
    \A i \in Ids : state[i] # "none" =>
        /\ tries[i] <= MaxRetry + 1 + stops
        /\ state[i] = "archived" => tries[i] > MaxRetry

\* queue.go, 223: a graceful shutdown costs no attempt: a retry is of a handler
\* that failed or of a worker that died with the task.
DeployCostsNoAttempt ==
    \A i \in Ids : state[i] # "none" => msg[i].retried <= failures + deaths

\* A job that was taken is in the end acknowledged or given up, across
\* shutdowns, deaths and failing handlers.
AcceptedJobEnds ==
    \A j \in Jobs : owed[j] ~> ~owed[j] \/ state[TaskId(j)] = "archived"
=============================================================================
