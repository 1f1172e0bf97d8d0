# A TLA+ model of LiteEnd-Go

LiteEnd-Go is a Go backend: a chi HTTP server with a GraphQL API (gqlgen, HTTP
and WebSocket), a REST upload endpoint, OIDC authentication, PostgreSQL for
rows, Redis for caching, throttling, events and the job queue, and an
S3-compatible store for files. Several replicas run side by side and share all
three stores. This directory models the parts of it whose correctness depends
on *order*: what other requests, replicas, goroutines, faults and the clock do
between two calls of one handler.

Paths below are relative to `src/`. Line numbers of every definition are in
`PROJECT.json` ("map"); the hazards the properties aim at are there too.

## 1. Inventory

| Part (source) | State | Operations | Interacts with | Hard behaviour | What makes it correct |
|---|---|---|---|---|---|
| upload (`internal/upload`) | bucket objects, `uploads` rows, per-request batch | `upload`, `readFiles`, `ProcessFile`, `SaveMetadata`, `removeObject` | object store, database, quota limiter | a call fails before or after it took effect; crash between put and insert; concurrent requests of one account | no row without its object, a failed batch is a reported prefix, 201 is durable, a refusal stores nothing, quota |
| profile service (`internal/profile/service.go`) | `profiles` rows, the shared Redis copy | find, find-or-create, mock user, `Update`, `fromCache`, `toCache`, `invalidate` | database, Redis, the auth middleware on every request | read-through fill racing a change; failing Redis; first-login race | bounded staleness, a change is visible, no login lost to a race |
| profile events (`internal/profile/pubsub.go`, `ProfileUpdated`) | one Redis subscription per process, listeners, one-place channels, subscription slots | `Publish`, pump and `dispatch`, `SubscribeForUser`, bridge, budget | mutations on any replica, the WebSocket transport | close racing send, full buffers, goroutine and slot leaks, publish after commit | no send on a closed channel, events go to their owner, nothing leaks, nobody stalls the pump |
| authentication (`internal/auth`) | key set and when it was fetched, negative caching by rate | `VerifySignature`, `refresh`, `resolve`, `AuthenticateCreds`, `RequireAuth` | identity provider, profile service | key rotation, provider down, concurrent refresh | at most one fetch per interval, a valid token is eventually accepted, provider trouble is not "bad token" |
| GraphQL transport (`internal/graph/handler.go`) | a socket's credentials, deadline, budget; documents kept under their hash | init, operation charge, user refresh, close; admission of a document | authentication, limiter, events | a socket outliving its token or its user's role; extensions in the wrong order | no operation after expiry plus grace, each operation under a current user, no document past the field cap |
| GraphQL execution (`graph/generated`, `graph/resolver`, `graph/errors.go`) | what each root field has come to | `_Mutation`, `_Query`, the resolvers and guards, null propagation, `newErrorPresenter` | profile service, queue, avatar links | the order of a mutation's fields, an error of ours shown in production | answers restrained to what the caller may see, the last write of a document stays |
| configuration (`internal/config`) | none that changes | `Load`, `validateFileLinks` | every part, at boot | a near-miss of an environment, a base address links cannot be signed for | no server comes up half-hardened |
| rate limiting (`internal/redis/limiter.go`, `internal/middleware`, `internal/clientip`) | GCRA budget per key | `Allow`, `RateLimit`, `RealIP`, `RateKey`, `devGate` | Redis, every surface | fails open, a Redis that hangs, boundary of one period, forwarded addresses | the budget bounds what gets through, one client one key |
| job queue (`internal/queue`) | asynq tasks in Redis | `AddTestJob`, worker, recoverer, error handler, `Stop` | Redis, shutdown | at-least-once runs, duplicates, lease loss, retry limit | a job is not lost, duplicates are refused while it is kept, attempts are bounded (by one more than a comment says) |
| readiness (`internal/health`) | cached verdict, one ping in flight | `Ready`, `dependencies`, `ping` | database, Redis | verdict older than its age limit, probe deadline racing the ping | age of a verdict, one ping at a time, a probe always answers |
| lifecycle (`cmd/server`, `internal/app`, `internal/server`) | resources built so far, server state | `Build`, `Close`, `Run` | everything | failing constructor, signal while requests run | nothing used after it is closed, everything closed once |
| avatar links (`graph/resolver/convert.go`, `upload.LinkFor`, `OwnedBy`) | link signer, built lazily | `storedAvatar`, `avatarLink`, `linkSignerFor` | object store, `uploads` rows | racing first builders, key and link forms | only the owner's upload, a round trip is the identity |
| migrations (`internal/db/migrate.go`) | schema version, advisory lock | `Migrate` | replicas starting together | a holder dies | one migrator at a time, the schema ends migrated |
| the rest: logging, i18n, devtools, headers, most pool settings | none that changes | | | | not modelled, see section 7 |

## 2. Modules

| Module | What it is |
|---|---|
| `Upload` | POST /upload on any number of replicas, down to single calls |
| `BatchCommit` | what `SaveMetadata` promises, with no word of how; `Upload` implements it |
| `ProfileCache` | the profile service over the database, the shared Redis copy and the clock |
| `ProfilePubSub` | the `profileUpdated` subscription inside one process |
| `KeySet` | whose a bearer token is, while keys rotate and the provider fails |
| `JobQueue` | the test queue: enqueueing, asynq's task in Redis, the workers of all replicas |
| `Lifecycle` | a replica from `main` to its exit: migrations, `Build`, `Run`, shutdown, `Close` |
| `Backends` | the clock and the status of the database and Redis: up, refusing, or hanging |
| `Readiness` | GET /readyz: one lock, one ping, a cached verdict; EXTENDS `Backends` |
| `Edge` | what a request passes before its handler: address, rate limit, dev gate; EXTENDS `Backends` |
| `Session` | a GraphQL WebSocket and its operations; EXTENDS `Edge` |
| `Config` | which environments the server boots with |
| `Avatar` | the two forms of an avatar, as operators; EXTENDS `Config` |
| `Execution` | GraphQL operations from admission to answer; EXTENDS `Avatar` |
| `UploadProofs`, `JobQueueProofs`, `ProfileCacheProofs`, `ProfilePubSubProofs`, `KeySetProofs`, `LifecycleProofs`, `ExecutionProofs` | TLAPS proofs about the module each is named after, for all values of its constants |
| `SurfaceProofs` | TLAPS proofs about `Edge`, `Session` and `Readiness` |
| `MCExecution` | the environments, files and documents of `Execution` that TLC enumerates |
| `MCSurface` | `Readiness`, `Session` and `Execution`: probes, requests, a socket, operations, one focus at a time |
| `MCLivez` | `Edge` with the code's own timeouts, for one health check |
| `MCUpload`, `MCProfileCache`, `MCProfilePubSub`, `MCKeySet`, `MCJobQueue`, `MCLifecycle` | symmetry sets and constant values for TLC |

```
BatchCommit <-- Upload            Backends <-- Readiness <--------.
ProfileCache   ProfilePubSub      Backends <-- Edge <-- Session <-+-- MCSurface
KeySet   JobQueue   Lifecycle     Config <-- Avatar <-- Execution <- MCExecution <-'
```

### Upload

A request is `phase` (where its handler is), the counters of `readFiles` and
`SaveMetadata` (`fileCount`, `saved`, `cur`) and its answer (`status`,
`reported`). `objects[r]` and `rows[r]` say which of its files (by place in the
batch: keys are dated UUIDs, two files never share one) are in the bucket and in
the `uploads` table. Each network call is one action: `Put`, `Insert`, `Remove`;
`FilePart` is one round of the loop in `readFiles` with everything `ProcessFile`
can answer. A call may be refused, or may take effect and be reported as failed
(`"landed"`): a lost answer or an ended context cannot be told apart from a
refusal by the code. `spent` and `refilled` are the GCRA quota of each account: what
is spent and regained, without a clock (`Edge` has one).

`BatchCommit` is the contract in the comments of `service.go` 411-430. The
refinement mapping is `submitted`, `durable` (row *and* object) and `told` at the
end of `Upload`. The refinement holds only while an insert reported as failed did not
commit; the run `upload_ambiguous` shows what happens otherwise.

### ProfileCache

A profile's content is a revision number; a handler is the next call it makes
(`pc`), the revision it holds and when it read it. Every call to the database
and to Redis is an action, so any two requests interleave anywhere. `role` is the
procedure of `.agents/OPERATIONS.md` (SQL UPDATE, then `redis-cli DEL`).
`acked` and `floor` record which change had finished when a request started;
`raced` is a history variable: profiles whose row changed while another request
held the old one. Redis expires copies in `Tick`.

`Hold` is the longest time between the database's answer and the same request's
last call to Redis. It is an assumption about the environment: both calls run
under the client timeouts of pgx and go-redis, and nothing else happens between
them.

### ProfilePubSub

One process: `wire` is its Redis subscription, `mu` with `event` and `targets` a
dispatch in progress under `PubSub.mu` (one `Send` per listener, in any order,
because the listeners are a Go map), and for each operation the three one-place
buffers an event passes: `src` (the listener's channel), `hand` (the bridge
goroutine) and `out` (the resolver's channel). `Unsubscribe` is the goroutine of
`SubscribeForUser` that deletes the listener and closes its channel.
`owed` is a history variable: the events dispatched to this listener while its buffer
had room, which its client has not received. An event that found the buffer full is
skipped and never owed: the code drops it, and `pubsub_skipped` shows what that costs.

### KeySet

`keys`, `fetchedAt` and `loadedAt` are the fields of `cachedKeySet`; `mu` is the
caller that holds its lock *while it fetches* (every other use of the lock is one
step). `MustFetch` is the condition of line 70. A fetch is `StartFetch`, then the
provider writing its answer (`Serve`), then `Load` or `FailFetch`: a key may be
removed after the answer was written and before it is stored. A token is its key
id, its signer and its expiry, so it can be genuine, name a key nobody has, or
carry somebody else's signature. `provider` and `changedAt` say what the identity
provider publishes and since when.

### JobQueue

A task lives in Redis under its id (`testJobTaskID`, one per user and message);
`state` is asynq's state of it and `msg` what `AddTestJob` put in: whose it is, its
retry limit, and that it is kept after completion. asynq itself is external:
`Take`, `Ack`, `Retry`, `Recover` (leases), `Forward` (retry delays), `Forget`
(retention) are modelled from the options `queue.go` gives it. There is no clock:
the dedup window is the time from the completion to `Forget`. `owed` and `worked`
are history variables: a user was told yes and no work has been acknowledged
since; the handler has returned in the window that is open.

An archived task conflicts like any other, so a message whose task was given up is
"deduplicated" for as long as asynq keeps its archive, and nothing is run.
`AcceptedJobIsKept` allows it. `maxRetry = 3` gives four attempts, not the three of
its comment: `AttemptsAreCounted` speaks of the attempts the code makes, and section 4
of the difference.

### Lifecycle

One `pc` per replica for `run`, `Migrate`, `Build`, `Server.Run` and `App.Close`.
`Steps` are the constructors in the order of `Build`; `open` is what they built,
`cleanup` is `app.cleanup`, and `NothingLeftOpen` relates the two. What uses the
resources is one request, one job, the event pump and one statement of each replica.
`ended` says how `Server.Run` came to its end, which decides what is still at work
when `Close` begins: nothing (`stopped`: Shutdown saw every connection closed), the
requests it gave up (`deadline`), or whatever kept-alive connections send, since a
listener that fails makes `Run` return without any Shutdown (`failed`). Replicas share
`schema` and the advisory `lock`; goose reads what is pending (`next`) under the lock
and runs each migration in a transaction. Sockets are hijacked connections: `Shutdown`
does not wait for them, and all that is said of them is that a statement (`query`), of
theirs or of a request, keeps its connection: closing the pool waits for it, as
`Stop` of the worker and of the pump wait for theirs. A request may use a closed Redis
or an ended pool after a `deadline` or a `failed` listener; it is then answered an error.

### Backends, Readiness

Time passes only where the code waits: a step that waits for nothing takes no time,
so `Tick` is disabled while one is possible (`ProbesWait`; `EdgeWaits` and
`SocketsWait` do the same in the other modules). Without that every deadline could
be missed by a goroutine that is not scheduled, and no bound on time would hold of
any program. A dependency changes its status in the middle of anything.

`mu` is the mutex of `dependencies`: its head holds it, the rest wait in order. A Go
mutex may let a newcomer overtake a waiter for up to a millisecond; the model's
unit of time is far longer. A ping of PostgreSQL ends with its context. go-redis
looks at the context only before each of its attempts and waits out its read
timeout in one, so `AttemptRedis` asks `CtxEnded` and `AttemptTimesOut` does not.
That is why `ProbeAnswersInTime` allows a probe `HealthCheckTimeout` *plus one read
attempt*, three seconds in the code, which the comment in `constants.go`, 18
("bounds the whole /readyz probe"), leaves out (section 4). The probes queued behind it are not held up in turn: their
own time runs while they wait.
`wasUp` and `wasBad` are history variables: since when a dependency is not up, and
until when it was bad. `cached` starts as a verdict too old to be used (`c.cached`
is nil).

### Edge

A client's address is a name; `Network` maps it to what a budget belongs to (an IPv4
address or an IPv6 /64). `Chain` is the `X-Forwarded-For` that arrives: what the
client typed, then what each of the `Hops` proxies appended; `ForwardedIP` is the
entry those proxies vouch for, or the socket's peer. A bucket's `tat` is the GCRA
"theoretical arrival time" that redis_rate keeps in Redis. `LetThrough` is a charge,
or the limiter failing open: at once when Redis refuses, after its attempts when
it hangs. A dev page passes `RateLimit` and then `DevGate`, each with a bucket of
its own. `since`, `watched` and `passed` are history variables that count what one
network got through from one moment on; `StartCounting` picks the moment, so a full
bucket is not the only start that is tried. A timed-out charge that Redis still
carries out later is not modelled.

### Session

One socket is `none`, `init` (upgraded, charged) or `open`, and in between finding out
whose its token is; an operation of it is in `charge`, finds out the same again, and is
in `run`. That lookup is `LooksUp`, one stage for each call it makes
(`auth.Middleware.resolve`, then `FindOrCreateBySub`): `verify` (expiry and skew),
`keys`, `get` (the copy in Redis), `drop` (bytes that do not parse), `select` (the
row, and the insert of a newcomer's) and `fill` (the copy written back). Each call of
Redis may last as long as a Redis that hangs makes it, all its attempts, and each on
its own; the database and the key set may take any time and fail. What a lookup finds
is given by the modules about it: whether a key verifies is left open (`KeySet` says
when it stops, failed fetches included), and a copy of an old profile may be found for
`ProfileTTL + Hold` after the change, which is the bound of `StalenessBounded`: `Hold`
is how long a reader may take from its row to its written copy. The lookup's own
`fill` is one such reader, which is why `Hold` is assumed to be at least one call.

### Config, Avatar, Execution

`Environments` are the environments a server may be started in, as far as `Load` looks
at them; `Configs` are those it accepts. A link is a host, a path segment by segment
and whether it is signed; `IsOurs` and `KeyOf` are the two results of
`KeyFromLink`, `SignedLink` is what the S3 client makes (the bucket and the key under
the public *host*, whatever path the base has).

An operation of `Execution` is submitted (`Submit`: shape limit, persisted queries,
complexity, in the order of registration), its root fields are resolved
(`_Mutation` one after the other, `_Query` all at once), and it is answered
(`Reply`). A field of a profile goes on to its avatar's link: `todo`, `link`,
`region`, `done`; the region is the call to the storage that builds the link signer,
and it is outside the lock. Three root fields have no resolver of this project and so
no guard (`OpenFields`): `__typename` is answered to anybody, `__schema` and `__type`
by introspection, which production refuses. Every root field but `__type` is non-null:
one that fails takes the data with it, and `Shown` is which fields are left with a
value. `Honours` is external: what the storage gives a file for. `writer` (who wrote an
avatar) and the `effect` and `failed` of a field are history.

## 3. Runs

| Run | Instance | Shows |
|---|---|---|
| `upload` | 2 requests of one user, 3 files, quota 4, refused puts and inserts, crashes | `RowHasObject`, `FailedBatchIsPrefix`, `NoOrphanObject`, `QuotaBoundsStorage`, `ImplementsBatchCommit` |
| `upload_ambiguous` | an insert may commit and be reported as failed | violates `RowHasObject` |
| `profile_stale` | 2 handlers, 1 profile, every kind of request, 1 Redis fault, database faults, crashes, clock to 4 with TTL 2 and Hold 1 | `StalenessBounded`, `ChangeIsVisibleUnlessRaced`, `LoginSucceeds` |
| `profile_race` | 2 handlers, no fault | violates `FinishedChangeIsVisible` |
| `pubsub` | 1 connection, 2 operations, 1 writer, lost events, clients that may never read | `NoSendOnClosedChannel`, `StatesOnlyAdvance`, `NothingLeaks`, `ChangeIsHeard` |
| `pubsub_skipped` | 1 operation, no lost event | violates `QuietSubscriberIsCurrent` |
| `keyset` | 2 callers, 2 keys, 6 kinds of token, 1 failing fetch, clock to 7 | `RemovedKeyStops`, `RotationLands`, `OutageKeepsKeys`, `ProviderIsSpared` |
| `keyset_outage` | 2 callers, 1 key, 2 failing fetches | violates `ProviderDownIs503` |
| `jobs` | 2 users, 1 message, 2 replicas of 1 handler, 1 retry, 3 calls, 1 failure, 1 death, 1 shutdown | `AcceptedJobIsKept`, `WorkedOncePerWindow`, `AttemptsAreCounted`, `DeployCostsNoAttempt`, `AcceptedJobEnds` |
| `lifecycle` | 2 replicas, 2 migrations, 2 starts, 1 crash, everything fallible fails | `RequestsAreDrained`, `ClosedAfterItsUsers`, `NothingLeftOpen`, `MigratedOnceBeforeServing`, `BootEnds`, `SignalEnds` |
| `surface` | see below; 2 probes, 2 clients, 1 socket, 2 operations, 2 changes of a dependency, every configuration `Load` accepts; clock to 6 for probes, 4 for requests, 3 for sockets | `ProbeAnswersInTime`, `ReadyIsRecent`, `HealthyReplicaIsReady`, `WorkIsBudgeted`, `RefusedForOwnWork`, `RunsAsCurrentUser`, `NothingOutlivesToken`, `OnlyOwnFiles`, `OwnLinkIsServed`, `AvatarRoundTrip`, `LastFieldPrevails`, `AnswersAreRestrained`, `CapHoldsByHash` |
| `livez` | 1 client, /livez, the code's own timeouts in seconds | violates `LivezAnswers` |

The composition of `surface`. Probes, requests and sockets meet in the clock and the two
dependencies, requests and sockets also in the budgets; what an operation does once it
runs meets none of these. The product of all of it would be states in which one part
waits while another moves, so a behaviour has a `focus`, chosen at the start: two probes
of /readyz; two clients (alice behind the proxy and free to write her headers, bob in
front of it) on `/graphql` or on the dev pages; one socket of alice's, whose operations
spend the budget that her upgrade, and requests before it, spent; or two operations of
one family of documents (avatars, guards, caps). What meets is inside one focus: the two
clients share the header and Redis; requests, the upgrade and the operations of a socket
one bucket; two operations the rows, the signer and the kept documents.
The bucket that is watched is chosen with the focus.

Bounds, and why they are enough:

- `surface`, probes: two make one that holds the lock and one that waits behind it. A
  read attempt (2) is shorter than the timeout (3) and does not divide it, as 3 s and
  5 s, so that the second attempt begins before the deadline and ends after it: the
  bound of `ProbeAnswersInTime` is met, and missed by a probe that begins one more.
- `surface`, requests and sockets: bursts of 2 and 1 have a first, a last and a refused
  request in 4 units of time. A call of Redis takes up to 2 and `Hold` is as long, so
  that a lookup of three calls of Redis outlasts the cache's TTL (1) and comes back to
  an answer from before the change. Tokens expire in the middle or, like the mock
  identity, never; a socket's clock ends one unit after the last moment at which a token
  may be honoured, when the old profile may not be served any more. One operation of the
  socket at once: operations share its bucket alone, which a second one, sent after the
  first, spends as well.
- `surface`, operations: one kept document (`APQCacheSize`) makes two hashes evict each
  other. The environments are three that are sound and six that fail one condition of
  `Load` each (or two, for the near-miss of `NODE_ENV`). An operator may set a row to
  any of the three files before the first operation, the one of nobody's included.
- `lifecycle`: two starts are two replicas that boot at once, or one that is started again
  in whatever state the first left the lock and the schema.
- Two requests: `Upload` requests share only the quota, `ProfileCache` requests
  one cache entry, so a second actor is every other actor. Three files per batch
  have a first, a middle and a last one; the proofs cover every other number.
- `TTL = 2`, `Hold = 1`, `MaxTime = 4`: long enough for a copy to be written late,
  outlive its whole lifetime and be asked for afterwards.
- `RetryEvery = FetchTime = 1`, `MinInterval = 2`, `MaxAge = 3`: different where
  the code distinguishes them, and in the order of `constants.go`; in the code
  `OIDCHTTPTimeout` (5 s) exceeds `OIDCJWKSRetryInterval` (1 s), which changes how
  often a failing provider is asked, and no property says anything of that.
- `MaxCalls`, `MaxFailures`, `MaxDeaths`, `MaxStops`, `MaxStarts`, `MaxCrashes`, `MaxRev`, `MaxRefill`, `MaxWire`, `MaxRedisFaults`, `MaxOutages`, `MaxOperations` and `MaxTime` bound counters that the code
  does not bound; each appears in the guard of one action.
- Deadlock checking is off where every request may be answered and the bounds
  be spent: the system really stops there.

Fairness. `pubsub` (`ServerFairness`): the pump, the bridges and the
unsubscribe goroutines are goroutines of a running process: they keep being
scheduled (weak fairness). Taking `mu` gets strong fairness because a Go mutex in
starvation mode hands itself to a waiter, although it is free only again and again;
so does `BridgeEnd`, because a `select` picks among ready cases at random and
`ctx.Done()` stays ready. Nothing is assumed of clients, of connections or of
writers; `ChangeIsHeard` says in its own premise that the client goes on reading.

`jobs`: workers that are down are started again, handlers return, asynq's loops
run; taking a task gets strong fairness because the queue is first in, first out
and a replica is up only again and again. Nothing is assumed of users.

`lifecycle`: the main goroutine goes on, Shutdown has its deadline
(`ServerShutdownTimeout`), asynq waits a bounded time for a job, and a statement ends:
PostgreSQL cancels it at `DBStatementTimeout` (`pool.go`, 37-44) and its connection
goes back to the pool. A database that vanishes without a word, statement and all, is
outside of that assumption: then `Pool.Close` waits for the TCP connection to be given
up. A request may never end, a listener need not fail, and a database need not answer
a boot.

The other runs assume no fairness; what they say of time (`ProbeAnswersInTime`,
`LivezAnswers`) are invariants under the rule that a step which waits for nothing
takes no time.

## 4. Where the code and its comments part

Five runs fail, each on a property that states what a comment of the repository says:

- `upload_ambiguous`: `SaveMetadata` removes the object after *any* error of
  `CreateUpload`. If PostgreSQL committed the row and the answer was lost, the
  row points at a missing object, which `service.go` 420-422 rules out.
  `DanglingRowIsTheFailedFile`, which is proved, bounds the damage: one row per
  failed batch.
- `profile_race`: a request that read the old row may write it to the cache after
  a change has updated the row and dropped the copy; later requests see the old
  profile, roles included, until the TTL. `StalenessBounded` bounds it, and
  `ChangeIsVisibleUnlessRaced` says this is the only way.
- `pubsub_skipped`: the event skipped for a full buffer is the newest, so a
  client that reads everything may be left on an older state.
- `keyset_outage`: `VerifySignature` drops the error of `refresh`, so nothing
  above it can tell an unreachable provider from a bad token, and the 503 of
  `RequireAuth` is never given for it.
- `livez`: "liveness touches nothing external" (`health.go`, 8), but the rate limiter
  is mounted for every route. It fails open when Redis refuses; when Redis
  accepts connections and answers nothing, /livez waits for four attempts of three
  seconds, and the image's HEALTHCHECK gives up after five.

In three places a property that holds says something else than a comment or an ADR does:

- `AttemptsAreCounted` (`jobs`): `maxRetry` "matches the BullMQ retry policy (3 attempts)"
  (`queue.go`, 33), but asynq counts the retries *after* the first attempt. A task is
  given up only when its handler had it more than `MaxRetry` times: with the code's 3,
  four times.
- `ProbeAnswersInTime` (`surface`): `HealthCheckTimeout` "bounds the whole /readyz probe
  (all dependency pings)" (`constants.go`, 18), but a read attempt of go-redis that began
  before the deadline is waited out after it: with the code's 5 s and 3 s, a Redis that
  answers nothing is given up after six seconds. The property bounds the excess by that
  one attempt.
- `OnlyOwnFiles` (`surface`): ADR 0003 (123-125) says that a stored avatar whose upload has
  no owner "keeps working (reads sign what the profile holds, they do not re-check
  ownership)"; `avatarLink` (`convert.go`, 48) asks `OwnedBy` on every read and serves
  nothing. The run imports such an avatar, and no operation answers with a link to it.

## 5. Proofs

Every invariant and every action property that a passing run checks is also a
theorem, with the type invariant of each module and a few results no run states.
TLC finds out on a small instance whether a formula holds; the theorem says it for
every number of requests, users, replicas, files, keys, documents and every limit
and interval the assumptions allow. Nothing is assumed but the named ASSUMEs of the
modules, which TLC evaluates on every run, and the hypotheses in the table.

| Theorem | Property | Besides the ASSUMEs |
|---|---|---|
| `UploadRowHasObject` | `RowHasObject` | `"landed" \notin InsertFaults` |
| `UploadFailedBatchIsPrefix` | `FailedBatchIsPrefix` | the same |
| `UploadImplementsBatchCommit` | `ImplementsBatchCommit` | the same |
| `UploadLeavesNoOrphan` | `NoOrphanObject` | `"landed" \notin PutFaults`, `"refused" \notin RemoveFaults` |
| `UploadQuotaBoundsStorage` | `QuotaBoundsStorage` | `~LimiterFaults` |
| `UploadCreatedIsDurable`, `UploadRejectedStoresNothing`, `UploadDanglingRow` | checked by no run | |
| `JobQueueAcceptedJobIsKept` | `AcceptedJobIsKept` | |
| `JobQueueWorkedOncePerWindow` | `WorkedOncePerWindow` | |
| `JobQueueAttemptsAreCounted` | `AttemptsAreCounted` | |
| `JobQueueDeployCostsNoAttempt` | `DeployCostsNoAttempt` | |
| `StaleAnswersAreYoung` | `StalenessBounded` | |
| `LoginsSucceed` | `LoginSucceeds` | |
| `FinishedChangesAreVisible` | `ChangeIsVisibleUnlessRaced` | `MaxRedisFaults <= 1` |
| `ChannelsAreOpen` | `NoSendOnClosedChannel` | |
| `SubscribersOnlyAdvance` | `StatesOnlyAdvance` | `[]OneMutationPerProfile` |
| `SlotsAreCounted` | checked by no run | |
| `FetchesAreSpaced` | `ProviderIsSpared` | |
| `RemovedKeysStop` | `RemovedKeyStops` | |
| `RotationsLand` | `RotationLands` | |
| `LoadedKeysAreKept` | `OutageKeepsKeys` | |
| `RequestsKeepTheirResources` | `RequestsAreDrained` | |
| `UsersKeepTheirClients` | `ClosedAfterItsUsers` | |
| `WhatIsBuiltIsClosed` | `NothingLeftOpen` | |
| `MigrationsRunOnce` | `MigratedOnceBeforeServing` | |
| `EdgeWorkIsBudgeted`, `SessionWorkIsBudgeted` | `WorkIsBudgeted` | |
| `EdgeRefusedForOwnWork` | `RefusedForOwnWork` | |
| `SessionNothingOutlivesToken` | `NothingOutlivesToken` | |
| `SessionRunsAsCurrentUser` | `RunsAsCurrentUser` | |
| `ReadinessAnswersInTime` | `ProbeAnswersInTime` | |
| `ReadinessIsRecent` | `ReadyIsRecent` | |
| `ReadinessDrainsForCause` | `HealthyReplicaIsReady` | |
| `OnlyOwnFilesAreLinked` | `OnlyOwnFiles` | |
| `OwnLinksAreServed` | `OwnLinkIsServed` | |
| `LinksComeBackAsStored` | `AvatarRoundTrip` | |
| `LastFieldOfMutationPrevails` | `LastFieldPrevails` | |
| `AnswersStayRestrained` | `AnswersAreRestrained` | |
| `CapHoldsForHashes` | `CapHoldsByHash` | |

The hypotheses. Those on the faults of `Upload` are the faults its comments speak
of; `upload_ambiguous` shows that the first cannot be dropped. A second failing call
to Redis can hide a change (the DEL and the SET of `Update` fail both), hence
`MaxRedisFaults <= 1`. `OneMutationPerProfile` says that two mutations of one
profile do not overlap between their UPDATE and their PUBLISH: if they do, they may
publish in the other order, and the process has no means to tell. The run `pubsub`
has one writer, for which it is true.

The arguments, module by module. None of the properties is inductive, so each proof
module has an inductive invariant: one lemma that the initial states have it, one per
action that a step keeps it, and each theorem follows from it.

- `Upload`. `IInv` gives for every phase of a request exactly which files have an
  object and which a row (`BatchInv`). It speaks of one request at a time: a step of `r`
  changes nothing of another request (`ServeIsLocal`) and keeps `BatchInv(r)`
  (`ServeKeepsOwn`). For the refinement, `ServeImplements` shows that every action of a
  request is a step of `BatchCommit` or a stutter. `OrphanInv` adds what a batch leaves
  when it ends. `QuotaInv` counts: the validated files of a user, of all of its
  requests, are no more than the events it has spent and regained (`Paid`).
- `JobQueue`. `IInv`: the message under an id is the one the id was made of, a task is
  in at most one handler and active while it is in one, what waits for its
  acknowledgement has been worked on, and until a worker dies whatever has been worked
  on is acknowledged or about to be. `CountInv`: every attempt but the last has cost a
  retry, except those that a stopping worker put back, and a task that a stopping
  worker still holds keeps one shutdown in hand (`Leaving`). `ChargeInv`: the retries
  of a task, and the one it is about to cost because a worker died with it (`Left`),
  are each of a failure or a death. In its first form `DeployCostsNoAttempt` allowed
  `Concurrency` retries for each death; the proof needs one only, and so the property
  was sharpened.
- `ProfileCache`. `CopyInv` dates a cached copy: one that was superseded expires before
  `superseded + TTL + Hold`. `HeldInv` dates what a request is about to write: it was
  read no more than `Hold` ago and before it was superseded. `VisibleInv` says that
  of a profile that is not `raced` no copy is older than what is finished.
- `ProfilePubSub`. `SlotsInv` counts the slots of a connection by its operations;
  `DispatchInv` says that the targets of a dispatch still listen, for `mu` is the
  dispatcher's own. `OrderInv` follows a revision through all it passes: along what a
  subscriber has seen and its three buffers revisions ascend (`PipesInv`), and
  everything in the dispatch, on the wire and unpublished is later still.
- `KeySet`. What was loaded was published when it was asked for at the earliest
  (`BodyInv`, `KeysInv`), and after a fetch that did not fail whatever is published and
  missing was published since (`FreshInv`). `FetchesInv` spaces the fetches. The proof
  needs `FetchTime < MinInterval`, which `constants.go` has (5 s, 30 s): otherwise a
  second caller could find the set old while the first still fetches.
- `Lifecycle`. The clean-up list is always a prefix of Build's steps and says what is
  open (`CleanupInv`); where a replica is says how long the list is (`StageInv`).
  `RequestsKeepTheirResources` leaves out two ends of `Run`, as the code does: Shutdown's
  deadline, and a failed listener.
- `Edge`. `SpentInv`: what was let through since the counting began is paid for by
  what the bucket's `tat` has advanced. `AddressInv`, from the lemmas about
  `ForwardedIP`: whatever a client types, it is charged to its own network.
- `Session`. `OpInv` follows an operation through the stages of its lookup: past
  `verify` it goes on no later than the end of its token, since the open socket has its
  deadline and time does not pass it; in `fill`, one call long, it holds the row as it
  was when the call began. `SessionRunsAsCurrentUser` adds up: found in the cache, the
  copy is as young as `StaleAnswersAreYoung` says (that is the definition of
  `FromCache`, not proved here again); filled, it is no older than the call.
  `SessionWorkIsBudgeted` is `Edge`'s theorem again with the steps of sockets added.
- `Readiness`. The queue of the lock is in the order of the deadlines (`QueueInv`), so
  time stops for its head alone; `ProbeInv` and `VerdictInv` date what a probe and the
  kept verdict know by when each dependency was last up or bad.
- `Execution`. Every stored value is permanent: no link of ours in it is signed
  (`RowInv`, `RunInv`), from the lemmas about `StoredAvatar`, `KeyOf` and `LinkFor` over
  all link values. `FieldInv` says what each root field has been let through and may
  hold, `OrderInv` that the fields of a mutation are begun one after the other, `LastInv`
  that the last that wrote is in the row. That what a reader is served is honoured by
  the storage is `ServedLinkIsHonoured`. The environments are all records of the fields `Load` looks at; documents are any, with the one assumption that a
  selection set is not empty, which the grammar of GraphQL gives.

The theorems on `Edge`, `Session`, `Readiness` and `Execution` are about each module's
own specification. `surface` runs them side by side (section 3): a behaviour of it has
one focus, and is a behaviour of that part while the others stand still.

Only model-checked: the liveness properties `NothingLeaks`, `ChangeIsHeard`,
`AcceptedJobEnds`, `SignalEnds` and `BootEnds` (the prover has no backend for ENABLED
and fairness), and the five failing runs of section 4.

## 6. Plan

Modelled so far, in the order it was built: `Upload` and `BatchCommit`, `ProfileCache`,
`ProfilePubSub`, `KeySet`, `JobQueue`, `Lifecycle`, `Backends` and `Readiness`, `Edge`,
`Session`, `Config`, `Avatar`, `Execution`. Proved: all of their safety properties.

What is left, the most valuable first:

1. One specification of `Session` over `ProfileCache` and `KeySet` themselves, instead
   of over what they promise, and a theorem that it implements this one.
2. The converse of the hypotheses of section 5 as invariants of their own: under
   every fault, what an orphan object or a hidden change is limited to.
3. Safety halves of the liveness properties: a task that is not ended always has an
   enabled step of the queue, a replica that was signalled one of `Run` or `Close`.

## 7. Not modelled

- Log lines, translations, developer pages, security headers, version and uptime: they
  keep no state that other steps depend on. The database pool (but for its closing), the
  tracer and the Redis client are wrappers around libraries; their calls appear as the actions of the
  modules that make them, with the errors they can return and the time they take.
- The contents of files, names and messages. How an address or a key is written (ports,
  brackets, escapes; the default ports and Amazon hosts that the S3 client rewrites in the
  links it signs) is abstracted to whose it is. `X-Real-IP`, the fallback of
  `forwardedClientIP` for proxies that append nothing to `X-Forwarded-For`, is left out:
  the proxies of `Edge` append.
- The lengths of a profile's other fields, and the claims of a token besides its
  subject, key and expiry.
- The Basic Auth comparison of the dev pages: only that its budget is charged first.
- The older WebSocket subprotocol, keep-alive pings and the handshake's origin check.
- In `Execution`: subscriptions (their events are `ProfilePubSub`), the walk of
  introspection over the schema, and the marshalling of values. How many fields a
  document selects is given with the document.
- In the generated code everything gqlgen derives from the schema by rote: field
  contexts, argument decoding of scalars, the complexity table's lookups.
