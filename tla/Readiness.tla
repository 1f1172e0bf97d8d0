------------------------------ MODULE Readiness ------------------------------
(***************************************************************************)
(* GET /readyz (internal/health/health.go): probes share one verdict on    *)
(* the database and Redis, kept for a moment, and one lock that is held    *)
(* while a probe pings.  Steps that wait for nothing take no time.         *)
(***************************************************************************)
EXTENDS Backends

CONSTANTS
    Probes,              \* requests to /readyz
    HealthCheckTimeout,  \* config.HealthCheckTimeout
    CacheFor             \* config.ReadinessCacheTTL

ASSUME ReadinessAssumption ==
    /\ HealthCheckTimeout \in Nat \ {0}
    /\ CacheFor \in 0..RedisReadTimeout

\* How far back an answer may look.
Lookback == HealthCheckTimeout + RedisReadTimeout

VARIABLES
    wasUp,     \* history: when each dependency stopped being up, ...
    wasBad,    \* ... and stopped being down or hung
    mu,        \* who holds c.mu (the head) and who waits for it, in order
    probe,     \* where each probe is
    deadline,  \* when its context ends
    gone,      \* the probes whose client hung up
    failed,    \* the probes whose ping of the database failed
    attempt,   \* when the read attempt of its ping of Redis ends, 0 outside one
    cached,    \* c.cached and c.cachedAt
    answer     \* what each probe was told last

historyVars == <<wasUp, wasBad>>
probeVars == <<mu, probe, deadline, gone, failed, attempt, cached, answer>>
readyVars == <<now, depVars, historyVars, probeVars>>

ReadyTypeOK ==
    /\ BackendsTypeOK
    /\ wasUp \in [Deps -> 0..MaxTime]
    /\ wasBad \in [Deps -> -(Lookback + 1)..MaxTime]
    /\ mu \in Seq(Probes)
    /\ probe \in [Probes -> {"idle", "wait", "database", "redis"}]
    /\ deadline \in [Probes -> 0..(MaxTime + HealthCheckTimeout)]
    /\ gone \subseteq Probes /\ failed \subseteq Probes
    /\ attempt \in [Probes -> 0..(MaxTime + RedisReadTimeout)]
    /\ cached \in [ok : BOOLEAN, at : -CacheFor..MaxTime]
    /\ answer \in [Probes -> {0, 200, 503}]

\* c.cached is nil: a verdict that is too old from the start.
ReadyInit ==
    /\ wasUp = [d \in Deps |-> 0]
    /\ wasBad = [d \in Deps |-> -(Lookback + 1)]
    /\ mu = <<>>
    /\ probe = [p \in Probes |-> "idle"]
    /\ deadline = [p \in Probes |-> 0]
    /\ gone = {} /\ failed = {}
    /\ attempt = [p \in Probes |-> 0]
    /\ cached = [ok |-> FALSE, at |-> -CacheFor]
    /\ answer = [p \in Probes |-> 0]

LastUp(d) == IF dep[d] = "up" THEN now ELSE wasUp[d]
LastBad(d) == IF dep[d] # "up" THEN now ELSE wasBad[d]

Holds(p) == mu # <<>> /\ Head(mu) = p
CtxEnded(p) == p \in gone \/ now >= deadline[p]
\* Mutant: a verdict is kept for ever.
FreshForEver == cached.at >= 0

Fresh == now - cached.at < CacheFor

\* Ready starts the probe's clock and dependencies asks for the lock.
Ready(p) ==
    /\ probe[p] = "idle"
    /\ probe' = [probe EXCEPT ![p] = "wait"]
    /\ deadline' = [deadline EXCEPT ![p] = now + HealthCheckTimeout]
    /\ mu' = Append(mu, p)
    /\ answer' = [answer EXCEPT ![p] = 0]
    /\ UNCHANGED <<now, depVars, historyVars, gone, failed, attempt, cached>>

\* The client closes its connection: r.Context() ends, the handler goes on.
HangUp(p) ==
    /\ probe[p] # "idle" /\ p \notin gone
    /\ gone' = gone \cup {p}
    /\ UNCHANGED <<now, depVars, historyVars, mu, probe, deadline, failed, attempt, cached, answer>>

\* The lock is given back and the dependencies decide the answer, and only they.
Answer(p, ok) ==
    /\ mu' = Tail(mu)
    /\ probe' = [probe EXCEPT ![p] = "idle"]
    /\ answer' = [answer EXCEPT ![p] = IF ok THEN 200 ELSE 503]
    /\ gone' = gone \ {p} /\ failed' = failed \ {p}
    /\ deadline' = [deadline EXCEPT ![p] = 0]
    /\ attempt' = [attempt EXCEPT ![p] = 0]
    /\ UNCHANGED <<now, depVars, historyVars>>

UseCached(p) ==
    /\ Holds(p) /\ probe[p] = "wait" /\ Fresh
    /\ Answer(p, cached.ok)
    /\ UNCHANGED cached

StartPings(p) ==
    /\ Holds(p) /\ probe[p] = "wait" /\ ~Fresh
    /\ probe' = [probe EXCEPT ![p] = "database"]
    /\ UNCHANGED <<now, depVars, historyVars, mu, deadline, gone, failed, attempt, cached, answer>>

\* pgx answers, or gives up when the context ends.
PingDatabase(p) ==
    /\ probe[p] = "database"
    /\ dep["database"] # "hung" \/ CtxEnded(p)
    /\ probe' = [probe EXCEPT ![p] = "redis"]
    /\ failed' = IF dep["database"] = "up" /\ ~CtxEnded(p) THEN failed ELSE failed \cup {p}
    /\ UNCHANGED <<now, depVars, historyVars, mu, deadline, gone, attempt, cached, answer>>

\* Mutant: the ping of Redis does not get the probe's context.
AttemptRedisNoContext(p) ==
    /\ probe[p] = "redis" /\ attempt[p] = 0
    /\ attempt' = [attempt EXCEPT ![p] = now + RedisReadTimeout]
    /\ UNCHANGED <<now, depVars, historyVars, mu, probe, deadline, gone, failed, cached, answer>>

\* go-redis looks at the context before each attempt and never during one.
AttemptRedis(p) ==
    /\ probe[p] = "redis" /\ attempt[p] = 0 /\ ~CtxEnded(p)
    /\ attempt' = [attempt EXCEPT ![p] = now + RedisReadTimeout]
    /\ UNCHANGED <<now, depVars, historyVars, mu, probe, deadline, gone, failed, cached, answer>>

AttemptTimesOut(p) ==
    /\ attempt[p] # 0 /\ dep["redis"] = "hung" /\ now >= attempt[p]
    /\ attempt' = [attempt EXCEPT ![p] = 0]
    /\ UNCHANGED <<now, depVars, historyVars, mu, probe, deadline, gone, failed, cached, answer>>

\* Mutant: the verdict is kept even when the context ended.
RedisPingedKeepsAll(p, ok) ==
    /\ cached' = [ok |-> ok /\ p \notin failed, at |-> now]
    /\ Answer(p, ok /\ p \notin failed)

\* Both pings are in: the verdict is kept unless the probe was cut short.
RedisPinged(p, ok) ==
    /\ cached' = IF CtxEnded(p) THEN cached ELSE [ok |-> ok /\ p \notin failed, at |-> now]
    /\ Answer(p, ok /\ p \notin failed)

PingRedis(p) ==
    /\ probe[p] = "redis"
    /\ \/ attempt[p] # 0 /\ dep["redis"] = "up" /\ RedisPinged(p, TRUE)
       \/ attempt[p] # 0 /\ dep["redis"] = "down" /\ RedisPinged(p, FALSE)
       \/ attempt[p] = 0 /\ CtxEnded(p) /\ RedisPinged(p, FALSE)

\* Nothing but a call that a hung dependency leaves open lets time pass.
ProbesWait ==
    \A p \in Probes : Holds(p) =>
        \/ probe[p] = "database" /\ dep["database"] = "hung" /\ ~CtxEnded(p)
        \/ attempt[p] > now /\ dep["redis"] = "hung"

DepChanges(d, status) ==
    /\ Flip(d, status)
    /\ wasUp' = [wasUp EXCEPT ![d] = LastUp(d)]
    /\ wasBad' = [wasBad EXCEPT ![d] = LastBad(d)]
    /\ UNCHANGED probeVars

ReadyStep(p) ==
    \/ Ready(p) \/ HangUp(p) \/ UseCached(p) \/ StartPings(p) \/ PingDatabase(p)
    \/ AttemptRedis(p) \/ AttemptTimesOut(p) \/ PingRedis(p)

ReadyNext ==
    \/ \E p \in Probes : ReadyStep(p)
    \/ \E d \in Deps, status \in Statuses : DepChanges(d, status)
    \/ ProbesWait /\ Tick /\ UNCHANGED <<historyVars, probeVars>>

ReadySpec == BackendsInit /\ ReadyInit /\ [][ReadyNext]_readyVars
-----------------------------------------------------------------------------
Told(p, code) == answer[p] = 0 /\ answer'[p] = code

\* A probe, however many are queued before it, is answered less than one read
\* attempt after its timeout: an attempt is begun before it and not cut short.
\* constants.go, 18, says of the timeout itself that it "bounds the whole /readyz
\* probe (all dependency pings)".
ProbeAnswersInTime ==
    \A p \in Probes : probe[p] # "idle" => now < deadline[p] + RedisReadTimeout

\* Traffic is sent to a replica only if each dependency was up a moment ago.
ReadyIsRecent ==
    [][\A p \in Probes : Told(p, 200) => \A d \in Deps : now - LastUp(d) <= Lookback]_readyVars

\* A replica is drained only when a dependency was bad a moment ago: a probe
\* that was cut short decides for nobody else.
HealthyReplicaIsReady ==
    [][\A p \in Probes : Told(p, 503) /\ p \notin gone =>
          \E d \in Deps : now - LastBad(d) <= Lookback]_readyVars
=============================================================================
