------------------------------- MODULE Lifecycle -------------------------------
(***************************************************************************)
(* A replica from main to its exit: migrations under the advisory lock,    *)
(* Build with constructors that fail, Run, the signal that ends it, and    *)
(* Close.  Replicas share the database's schema and its lock; requests,    *)
(* jobs and the event pump use what Close takes away.                      *)
(***************************************************************************)
EXTENDS Integers, Sequences, SequencesExt

CONSTANTS
    Replicas,
    Free,         \* nobody holds the advisory lock
    Latest,       \* the migrations embedded in the program: 1..Latest
    MaxRetries,   \* config.DBMaxRetries
    MaxStarts,    \* bound: processes that are started
    MaxCrashes    \* bound: processes that are killed

ASSUME NumbersAssumption ==
    /\ Latest \in Nat /\ MaxRetries \in Nat \ {0} /\ MaxStarts \in Nat /\ MaxCrashes \in Nat
ASSUME FreeAssumption == Free \notin Replicas

VARIABLES
    schema,     \* migrations applied to the database
    applied,    \* history: how often each was run
    lock,       \* who holds the session lock
    pc,         \* where run is
    attempt,    \* pings of the database so far
    next,       \* the first migration that was pending and has not been run
    open,       \* what was constructed and not closed since
    cleanup,    \* app.cleanup
    signalled,  \* ctx is done
    handler,    \* a request is being served
    job,        \* a handler of the worker is at work
    pump,       \* the dispatcher of the events runs
    query,      \* a request, or a socket's operation, has a connection of the pool
    ended,      \* how Run came to its end, if it has
    starts, crashes

shared == <<schema, applied, lock>>
app == <<open, cleanup>>
users == <<handler, job, pump, query, ended>>
counts == <<starts, crashes>>
boot == <<attempt, next>>
vars == <<shared, pc, boot, app, signalled, users, counts>>

\* What Build constructs, in its order.
Steps == <<"db", "redis", "pubsub", "queueClient", "worker", "i18n", "upload">>
StepNames == {Steps[k] : k \in DOMAIN Steps}
After(s) == LET k == CHOOSE k \in DOMAIN Steps : Steps[k] = s
            IN IF k = Len(Steps) THEN "run" ELSE Steps[k + 1]

\* Those Close gets a function for, and those whose constructor returns an error.
Closed == StepNames \ {"i18n", "upload"}
Fallible == StepNames \ {"pubsub", "queueClient"}

TypeOK ==
    /\ schema \in 0..Latest /\ applied \in [1..Latest -> Nat]
    /\ lock \in Replicas \cup {Free}
    /\ pc \in [Replicas -> {"off", "ping", "lock", "migrate", "run", "shutdown", "close",
                            "exited"} \cup StepNames]
    /\ attempt \in [Replicas -> 0..MaxRetries] /\ next \in [Replicas -> 0..(Latest + 1)]
    /\ open \in [Replicas -> SUBSET Closed]
    /\ cleanup \in [Replicas -> Seq(Closed)]
    /\ signalled \in [Replicas -> BOOLEAN]
    /\ handler \in [Replicas -> BOOLEAN] /\ job \in [Replicas -> BOOLEAN]
    /\ pump \in [Replicas -> BOOLEAN] /\ query \in [Replicas -> BOOLEAN]
    /\ ended \in [Replicas -> {"no", "failed", "stopped", "deadline"}]
    /\ starts \in 0..MaxStarts /\ crashes \in 0..MaxCrashes

Init ==
    /\ schema = 0 /\ applied = [k \in 1..Latest |-> 0] /\ lock = Free
    /\ pc = [r \in Replicas |-> "off"] /\ attempt = [r \in Replicas |-> 0]
    /\ next = [r \in Replicas |-> 0]
    /\ open = [r \in Replicas |-> {}] /\ cleanup = [r \in Replicas |-> <<>>]
    /\ signalled = [r \in Replicas |-> FALSE]
    /\ handler = [r \in Replicas |-> FALSE] /\ job = [r \in Replicas |-> FALSE]
    /\ pump = [r \in Replicas |-> FALSE] /\ query = [r \in Replicas |-> FALSE]
    /\ ended = [r \in Replicas |-> "no"]
    /\ starts = 0 /\ crashes = 0

Goto(r, s) == pc' = [pc EXCEPT ![r] = s]

\* A new process.
Start(r) ==
    /\ pc[r] \in {"off", "exited"} /\ starts < MaxStarts
    /\ starts' = starts + 1
    /\ Goto(r, "ping") /\ attempt' = [attempt EXCEPT ![r] = 0]
    /\ open' = [open EXCEPT ![r] = {}] /\ cleanup' = [cleanup EXCEPT ![r] = <<>>]
    /\ signalled' = [signalled EXCEPT ![r] = FALSE]
    /\ UNCHANGED <<shared, next, users, crashes>>

\* SIGINT or SIGTERM
Signal(r) ==
    /\ pc[r] \notin {"off", "exited"} /\ ~signalled[r]
    /\ signalled' = [signalled EXCEPT ![r] = TRUE]
    /\ UNCHANGED <<shared, pc, boot, app, users, counts>>

\* What is at work goes with the process, and so do its sessions.
Gone(r) ==
    /\ lock' = IF lock = r THEN Free ELSE lock
    /\ handler' = [handler EXCEPT ![r] = FALSE] /\ job' = [job EXCEPT ![r] = FALSE]
    /\ pump' = [pump EXCEPT ![r] = FALSE] /\ query' = [query EXCEPT ![r] = FALSE]
    /\ ended' = [ended EXCEPT ![r] = "no"]

Crash(r) ==
    /\ pc[r] \notin {"off", "exited"} /\ crashes < MaxCrashes
    /\ crashes' = crashes + 1
    /\ Gone(r) /\ Goto(r, "off")
    /\ open' = [open EXCEPT ![r] = {}] /\ cleanup' = [cleanup EXCEPT ![r] = <<>>]
    /\ UNCHANGED <<schema, applied, boot, signalled, starts>>

(***************************************************************************)
(* Migrate                                                                 *)
(***************************************************************************)

\* Mutant: the database is waited for until it answers.
PingForEver(r) ==
    /\ pc[r] = "ping"
    /\ \/ Goto(r, "lock") /\ UNCHANGED attempt
       \/ attempt' = [attempt EXCEPT ![r] = (@ + 1) % (MaxRetries + 1)] /\ UNCHANGED pc
    /\ UNCHANGED <<shared, next, app, signalled, users, counts>>

\* The database answers, or does not and a wait follows that the context may end;
\* until no attempt is left.
Ping(r) ==
    /\ pc[r] = "ping"
    /\ IF attempt[r] = MaxRetries
       THEN Goto(r, "exited") /\ UNCHANGED attempt
       ELSE \/ Goto(r, "lock") /\ UNCHANGED attempt
            \/ attempt' = [attempt EXCEPT ![r] = @ + 1] /\ UNCHANGED pc
            \/ signalled[r] /\ Goto(r, "exited") /\ UNCHANGED attempt
    /\ UNCHANGED <<shared, next, app, signalled, users, counts>>

\* Mutant: no session locker is given to the provider.
LockLeftOut(r) ==
    /\ pc[r] = "lock"
    /\ Goto(r, "migrate") /\ next' = [next EXCEPT ![r] = schema + 1]
    /\ UNCHANGED <<shared, attempt, app, signalled, users, counts>>

\* The session lock, asked for once a second; under it goose reads what is pending ...
Lock(r) ==
    /\ pc[r] = "lock" /\ lock = Free
    /\ lock' = r
    /\ Goto(r, "migrate") /\ next' = [next EXCEPT ![r] = schema + 1]
    /\ UNCHANGED <<schema, applied, attempt, app, signalled, users, counts>>

\* ... and given up after lockRetryFailureThreshold times, or with the context.
LockFails(r) ==
    /\ pc[r] = "lock"
    /\ lock # Free \/ signalled[r]
    /\ Goto(r, "exited")
    /\ UNCHANGED <<shared, boot, app, signalled, users, counts>>

\* One pending migration, in a transaction of its own.
Apply(r) ==
    /\ pc[r] = "migrate" /\ next[r] <= Latest
    /\ schema' = next[r]
    /\ applied' = [applied EXCEPT ![next[r]] = @ + 1]
    /\ next' = [next EXCEPT ![r] = @ + 1]
    /\ UNCHANGED <<lock, pc, attempt, app, signalled, users, counts>>

\* Nothing is pending, or a migration has failed or was interrupted.
Migrated(r) ==
    /\ pc[r] = "migrate"
    /\ Goto(r, IF next[r] > Latest THEN Head(Steps) ELSE "exited")
    /\ lock' = IF lock = r THEN Free ELSE lock
    /\ UNCHANGED <<schema, applied, boot, app, signalled, users, counts>>

(***************************************************************************)
(* Build                                                                   *)
(***************************************************************************)

\* A constructor succeeds.  What it built is closed by the function appended.
Construct(r, s) ==
    /\ pc[r] = s /\ s \in StepNames
    /\ IF s \in Closed
       THEN /\ open' = [open EXCEPT ![r] = @ \cup {s}]
            /\ cleanup' = [cleanup EXCEPT ![r] = Append(@, s)]
       ELSE UNCHANGED app
    /\ pump' = [pump EXCEPT ![r] = @ \/ s = "pubsub"]
    /\ Goto(r, After(s))
    /\ UNCHANGED <<shared, boot, signalled, handler, job, query, ended, counts>>

\* Mutant: a constructor added late returns its error without app.Close.
ConstructFailsOpen(r, s) ==
    /\ pc[r] = s /\ s \in Fallible
    /\ Goto(r, IF s = "upload" THEN "exited" ELSE "close")
    /\ UNCHANGED <<shared, boot, app, signalled, users, counts>>

\* A constructor fails: app.Close, of what was built before it.
ConstructFails(r, s) ==
    /\ pc[r] = s /\ s \in Fallible
    /\ Goto(r, "close")
    /\ UNCHANGED <<shared, boot, app, signalled, users, counts>>

(***************************************************************************)
(* Run and Close                                                           *)
(***************************************************************************)

RunIsOver(r, how) == ended' = [ended EXCEPT ![r] = how]

\* Mutant: Run returns when the context is done.
RunReturnsAtOnce(r) ==
    /\ pc[r] = "run" /\ Goto(r, "close")
    /\ \/ signalled[r] /\ RunIsOver(r, "stopped")
       \/ RunIsOver(r, "failed")
    /\ UNCHANGED <<shared, boot, app, signalled, handler, job, pump, query, counts>>

\* The context is done; or the listener fails, and Run returns without Shutdown.
RunEnds(r) ==
    /\ pc[r] = "run"
    /\ \/ signalled[r] /\ Goto(r, "shutdown") /\ UNCHANGED ended
       \/ Goto(r, "close") /\ RunIsOver(r, "failed")
    /\ UNCHANGED <<shared, boot, app, signalled, handler, job, pump, query, counts>>

\* Mutant: Shutdown is given a context without a deadline.
ShutdownWaits(r) ==
    /\ pc[r] = "shutdown" /\ ~handler[r]
    /\ Goto(r, "close") /\ RunIsOver(r, "stopped")
    /\ UNCHANGED <<shared, boot, app, signalled, handler, job, pump, query, counts>>

\* Shutdown returns when every connection that is not a socket is closed, or at
\* its deadline, with requests being served or still arriving.
ShutdownEnds(r) ==
    /\ pc[r] = "shutdown" /\ Goto(r, "close")
    /\ (~handler[r] /\ RunIsOver(r, "stopped")) \/ RunIsOver(r, "deadline")
    /\ UNCHANGED <<shared, boot, app, signalled, handler, job, pump, query, counts>>

\* Mutant: the functions are called in the order they were appended in.
CloseForward(r) ==
    /\ pc[r] = "close" /\ cleanup[r] # <<>>
    /\ Head(cleanup[r]) = "worker" => ~job[r]
    /\ Head(cleanup[r]) = "pubsub" => ~pump[r]
    /\ Head(cleanup[r]) = "db" => ~query[r]
    /\ open' = [open EXCEPT ![r] = @ \ {Head(cleanup[r])}]
    /\ cleanup' = [cleanup EXCEPT ![r] = Tail(@)]
    /\ UNCHANGED <<shared, pc, boot, signalled, users, counts>>

\* The last function of cleanup.  Stop waits for the worker's handlers, and for
\* the pump; the pool, for its connections to be given back.
Close(r) ==
    /\ pc[r] = "close" /\ cleanup[r] # <<>>
    /\ Last(cleanup[r]) = "worker" => ~job[r]
    /\ Last(cleanup[r]) = "pubsub" => ~pump[r]
    /\ Last(cleanup[r]) = "db" => ~query[r]
    /\ open' = [open EXCEPT ![r] = @ \ {Last(cleanup[r])}]
    /\ cleanup' = [cleanup EXCEPT ![r] = Front(@)]
    /\ UNCHANGED <<shared, pc, boot, signalled, users, counts>>

\* run returns.
Exit(r) ==
    /\ pc[r] = "close" /\ cleanup[r] = <<>>
    /\ Gone(r) /\ Goto(r, "exited")
    /\ UNCHANGED <<schema, applied, boot, app, signalled, counts>>

(***************************************************************************)
(* What uses the resources                                                 *)
(***************************************************************************)

\* No Shutdown closes the connections once the listener has failed, and one that
\* was still sending its headers at the deadline is served after it.
Request(r) ==
    /\ ~handler[r]
    /\ pc[r] \in {"run", "shutdown"} \/ (pc[r] = "close" /\ ended[r] \in {"failed", "deadline"})
    /\ handler' = [handler EXCEPT ![r] = TRUE]
    /\ UNCHANGED <<shared, pc, boot, app, signalled, job, pump, query, ended, counts>>

Respond(r) ==
    /\ handler[r]
    /\ handler' = [handler EXCEPT ![r] = FALSE]
    /\ UNCHANGED <<shared, pc, boot, app, signalled, job, pump, query, ended, counts>>

StoppingWorker(r) == pc[r] = "close" /\ cleanup[r] # <<>> /\ Last(cleanup[r]) = "worker"
StoppingPump(r) == pc[r] = "close" /\ cleanup[r] # <<>> /\ Last(cleanup[r]) = "pubsub"

JobStarts(r) ==
    /\ "worker" \in open[r] /\ ~StoppingWorker(r) /\ ~job[r]
    /\ job' = [job EXCEPT ![r] = TRUE]
    /\ UNCHANGED <<shared, pc, boot, app, signalled, handler, pump, query, ended, counts>>

\* The handler returns, or asynq puts its task back when it waited long enough.
JobEnds(r) ==
    /\ job[r]
    /\ job' = [job EXCEPT ![r] = FALSE]
    /\ UNCHANGED <<shared, pc, boot, app, signalled, handler, pump, query, ended, counts>>

\* The pump ends with the context or when Stop cancels it.
PumpEnds(r) ==
    /\ pump[r] /\ (signalled[r] \/ StoppingPump(r))
    /\ pump' = [pump EXCEPT ![r] = FALSE]
    /\ UNCHANGED <<shared, pc, boot, app, signalled, handler, job, query, ended, counts>>

StoppingDb(r) == pc[r] = "close" /\ cleanup[r] # <<>> /\ Last(cleanup[r]) = "db"

\* A statement of a request, or of a socket, which no Shutdown waits for.
Query(r) ==
    /\ pc[r] \in {"run", "shutdown"} \/ (pc[r] = "close" /\ ended[r] # "no")
    /\ "db" \in open[r] /\ ~StoppingDb(r) /\ ~query[r]
    /\ query' = [query EXCEPT ![r] = TRUE]
    /\ UNCHANGED <<shared, pc, boot, app, signalled, handler, job, pump, ended, counts>>

QueryEnds(r) ==
    /\ query[r]
    /\ query' = [query EXCEPT ![r] = FALSE]
    /\ UNCHANGED <<shared, pc, boot, app, signalled, handler, job, pump, ended, counts>>

Boot(r) ==
    \/ Ping(r) \/ Lock(r) \/ LockFails(r) \/ Apply(r) \/ Migrated(r)
    \/ \E s \in StepNames : Construct(r, s) \/ ConstructFails(r, s)
End(r) == RunEnds(r) \/ ShutdownEnds(r) \/ Close(r) \/ Exit(r)
Use(r) ==
    \/ Request(r) \/ Respond(r) \/ JobStarts(r) \/ JobEnds(r) \/ PumpEnds(r)
    \/ Query(r) \/ QueryEnds(r)

Next == \E r \in Replicas :
    Start(r) \/ Signal(r) \/ Crash(r) \/ Boot(r) \/ End(r) \/ Use(r)

\* The main goroutine goes on, wherever it is, but a listener may never fail; so
\* does the pump; asynq ends its wait for a job, and statement_timeout a statement.
\* A request may never end.
Main(r) ==
    \/ Boot(r) \/ (signalled[r] /\ RunEnds(r)) \/ ShutdownEnds(r) \/ Close(r) \/ Exit(r)
Fairness == \A r \in Replicas :
    WF_vars(Main(r)) /\ WF_vars(JobEnds(r)) /\ WF_vars(PumpEnds(r)) /\ WF_vars(QueryEnds(r))

Spec == Init /\ [][Next]_vars /\ Fairness

(***************************************************************************)
(* Properties                                                              *)
(***************************************************************************)

\* server.go, 93: "a graceful shutdown": a request has the database and Redis to
\* its end, unless Shutdown came to its deadline before, or was never called
\* because the listener failed.
RequestsAreDrained ==
    \A r \in Replicas :
        handler[r] /\ ended[r] \notin {"deadline", "failed"} => {"db", "redis"} \subseteq open[r]

\* app.go, 37: "in reverse order" and 72, "the subscription closes before the
\* client it lives on": a job and the pump find Redis open as long as they run,
\* and a statement, of a socket's too, its connection.
ClosedAfterItsUsers ==
    \A r \in Replicas :
        /\ job[r] \/ pump[r] => "redis" \in open[r]
        /\ query[r] => "db" \in open[r]

\* app.go, 59-110: however Build or Run ends, what was built is closed, once.
NothingLeftOpen ==
    \A r \in Replicas :
        /\ pc[r] = "exited" => open[r] = {} /\ lock # r
        /\ open[r] = {cleanup[r][k] : k \in DOMAIN cleanup[r]}
        /\ Len(cleanup[r]) <= Len(Steps) /\ IsInjective(cleanup[r])

\* migrate.go, 32: "exactly one applies the migrations while the others wait and
\* then find nothing to do"; nobody serves on an older schema.
MigratedOnceBeforeServing ==
    /\ \A k \in 1..Latest : applied[k] = IF k <= schema THEN 1 ELSE 0
    /\ \A r \in Replicas : pc[r] \in StepNames \cup {"run"} => schema = Latest

\* A replica that is told to end does, whatever its requests and jobs do.
SignalEnds ==
    \A r \in Replicas : signalled[r] ~> pc[r] \in {"exited", "off"}

\* A replica that starts comes to serve or exits, whoever dies with the lock.
BootEnds ==
    \A r \in Replicas : pc[r] = "ping" ~> pc[r] \in {"run", "exited", "off"}
=============================================================================
