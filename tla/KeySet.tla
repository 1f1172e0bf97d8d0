-------------------------------- MODULE KeySet --------------------------------
(***************************************************************************)
(* Who a bearer token belongs to: cachedKeySet (internal/auth/keyset.go),  *)
(* the expiry check of the Verifier before it and the answer of            *)
(* RequireAuth after it.  Callers are requests that carry a token; the     *)
(* provider publishes and removes signing keys and may not answer.  A      *)
(* fetch of the key set holds the lock all callers need.                   *)
(***************************************************************************)
EXTENDS Integers

CONSTANTS
    Callers,
    Keys,         \* signing keys, named by their key ids
    Tokens,       \* what callers may present: [kid, signer, exp]
    NoToken,      \* what a caller without a request presents
    Free,         \* mu is not held
    MinInterval,  \* config.OIDCJWKSRefreshMinInterval
    RetryEvery,   \* config.OIDCJWKSRetryInterval
    MaxAge,       \* config.OIDCJWKSMaxAge
    FetchTime,    \* config.OIDCHTTPTimeout: no fetch lasts longer
    ClockSkew,    \* config.OIDCClockSkew
    MaxFailures,  \* bound: fetches that fail
    MaxTime       \* bound: the clock

\* The fetch that a caller waits for ends well before another may begin.
ASSUME IntervalsAssumption ==
    /\ MinInterval \in Nat /\ RetryEvery \in Nat \ {0} /\ FetchTime \in Nat
    /\ MaxAge \in Nat /\ ClockSkew \in Nat /\ MaxTime \in Nat /\ MaxFailures \in Nat
    /\ RetryEvery <= MinInterval /\ FetchTime < MinInterval
    /\ MinInterval <= MaxAge /\ MinInterval <= MaxTime
ASSUME NobodyAssumption == Free \notin Callers /\ NoToken \notin Tokens

VARIABLES
    now,
    provider,   \* of each key: not published yet, published, removed
    changedAt,  \* when that last changed
    keys,       \* s.keys and s.kids: the set loaded last, empty before
    fetchedAt,  \* the last attempt
    loadedAt,   \* the last success
    mu,         \* the caller that holds s.mu while it fetches, or Free
    body,       \* the key set the provider handed that caller
    pc, tok,    \* where each caller is, and its token
    fetches,    \* history: fetches so far
    failures,   \* history: fetches that failed so far
    lastFailed  \* history: the last fetch that ended failed

vars == <<now, provider, changedAt, keys, fetchedAt, loadedAt, mu, body, pc, tok,
          fetches, failures, lastFailed>>
world == <<now, provider, changedAt>>
history == <<fetches, failures, lastFailed>>

\* The process starts long after the zero time.Time of fetchedAt.
Boot == MinInterval

Published == {k \in Keys : provider[k] = "published"}
Answers == {"200", "401", "503"}

TypeOK ==
    /\ now \in Boot..MaxTime
    /\ provider \in [Keys -> {"new", "published", "removed"}]
    /\ changedAt \in [Keys -> 0..MaxTime]
    /\ keys \subseteq Keys /\ body \subseteq Keys
    /\ fetchedAt \in 0..MaxTime /\ loadedAt \in 0..MaxTime
    /\ mu \in Callers \cup {Free}
    /\ pc \in [Callers -> {"idle", "lock", "fetch", "read"} \cup Answers]
    /\ \A c \in Callers : mu = c <=> pc[c] \in {"fetch", "read"}
    /\ tok \in [Callers -> Tokens \cup {NoToken}]
    /\ fetches \in 0..MaxTime /\ failures \in 0..MaxFailures
    /\ lastFailed \in BOOLEAN

Init ==
    /\ now = Boot
    /\ provider \in [Keys -> {"new", "published"}] /\ Published # {}
    /\ changedAt = [k \in Keys |-> 0]
    /\ keys = {} /\ body = {}
    /\ fetchedAt = 0 /\ loadedAt = 0
    /\ mu = Free
    /\ pc = [c \in Callers |-> "idle"]
    /\ tok = [c \in Callers |-> NoToken]
    /\ fetches = 0 /\ failures = 0 /\ lastFailed = FALSE

\* Verify: the library checks the expiry, ClockSkew behind the clock, before it
\* asks for the signature.  An anonymous request never gets here.
Present(c, t) ==
    /\ pc[c] \in {"idle"} \cup Answers
    /\ IF t.exp < now - ClockSkew
       THEN pc' = [pc EXCEPT ![c] = "401"] /\ UNCHANGED tok
       ELSE pc' = [pc EXCEPT ![c] = "lock"] /\ tok' = [tok EXCEPT ![c] = t]
    /\ UNCHANGED <<world, keys, fetchedAt, loadedAt, mu, body, history>>

\* RequireAuth: 401 unless the signature is of a key in the set at hand.  It
\* answers 503 to an error of the network, and the key set returns none.
Answer(c, set) ==
    /\ pc' = [pc EXCEPT ![c] = IF tok[c].signer \in set THEN "200" ELSE "401"]
    /\ tok' = [tok EXCEPT ![c] = NoToken]

\* What VerifySignature decides under the lock.
Missing(c) == tok[c].kid \notin keys
Stale == keys # {} /\ now - loadedAt >= MaxAge
Wait == IF keys = {} THEN RetryEvery ELSE MinInterval
Since == now - fetchedAt

\* Mutant: every unknown key id is looked up, as go-oidc's RemoteKeySet does.
MustFetchEveryMiss(c) == Missing(c) \/ (Stale /\ Since >= RetryEvery)

\* Mutant: a loaded set is trusted for ever.
MustFetchNeverStale(c) == Missing(c) /\ Since >= Wait

\* Mutant: a miss waits out the interval of a loaded set twice.
MustFetchTooLate(c) ==
    \/ Missing(c) /\ Since >= 2 * Wait
    \/ Stale /\ Since >= RetryEvery

MustFetch(c) ==
    \/ Missing(c) /\ Since >= Wait
    \/ Stale /\ Since >= RetryEvery

\* The set at hand answers.
Verify(c) ==
    /\ pc[c] = "lock" /\ mu = Free
    /\ ~MustFetch(c)
    /\ Answer(c, keys)
    /\ UNCHANGED <<world, keys, fetchedAt, loadedAt, mu, body, history>>

\* The caller keeps the lock and asks the provider.
StartFetch(c) ==
    /\ pc[c] = "lock" /\ mu = Free
    /\ MustFetch(c)
    /\ mu' = c
    /\ pc' = [pc EXCEPT ![c] = "fetch"]
    /\ fetchedAt' = now
    /\ fetches' = fetches + 1
    /\ UNCHANGED <<world, keys, loadedAt, body, tok, failures, lastFailed>>

\* The provider writes its answer ...
Serve(c) ==
    /\ pc[c] = "fetch"
    /\ body' = Published
    /\ pc' = [pc EXCEPT ![c] = "read"]
    /\ UNCHANGED <<world, keys, fetchedAt, loadedAt, mu, tok, history>>

\* ... and refresh replaces the set by it.
Load(c) ==
    /\ pc[c] = "read"
    /\ keys' = body
    /\ loadedAt' = now
    /\ lastFailed' = FALSE
    /\ mu' = Free
    /\ body' = {}
    /\ Answer(c, body)
    /\ UNCHANGED <<world, fetchedAt, fetches, failures>>

\* Mutant: a failed refresh forgets the keys.
FailFetchForgets(c) ==
    /\ pc[c] \in {"fetch", "read"}
    /\ failures < MaxFailures
    /\ failures' = failures + 1
    /\ lastFailed' = TRUE
    /\ mu' = Free
    /\ body' = {}
    /\ keys' = {}
    /\ Answer(c, {})
    /\ UNCHANGED <<world, fetchedAt, loadedAt, fetches>>

\* No answer in time, not a 200, not a key set, no signing key in it, or the
\* request that fetches was given up by its client: the error is dropped and the
\* keys are kept.
FailFetch(c) ==
    /\ pc[c] \in {"fetch", "read"}
    /\ failures < MaxFailures
    /\ failures' = failures + 1
    /\ lastFailed' = TRUE
    /\ mu' = Free
    /\ body' = {}
    /\ Answer(c, keys)
    /\ UNCHANGED <<world, keys, fetchedAt, loadedAt, fetches>>

(***************************************************************************)
(* The provider and the clock                                              *)
(***************************************************************************)

\* A key is published once and removed once; the provider always has one.
Rotate(k) ==
    /\ Published # {k}
    /\ \/ provider[k] = "new" /\ provider' = [provider EXCEPT ![k] = "published"]
       \/ provider[k] = "published" /\ provider' = [provider EXCEPT ![k] = "removed"]
    /\ changedAt' = [changedAt EXCEPT ![k] = now]
    /\ UNCHANGED <<now, keys, fetchedAt, loadedAt, mu, body, pc, tok, history>>

Tick ==
    /\ now < MaxTime
    /\ mu # Free => now < fetchedAt + FetchTime
    /\ now' = now + 1
    /\ UNCHANGED <<provider, changedAt, keys, fetchedAt, loadedAt, mu, body, pc,
                   tok, history>>

Fetch(c) == Serve(c) \/ Load(c) \/ FailFetch(c)

Next ==
    \/ \E c \in Callers :
        \/ \E t \in Tokens : Present(c, t)
        \/ Verify(c) \/ StartFetch(c) \/ Fetch(c)
    \/ \E k \in Keys : Rotate(k)
    \/ Tick

Spec == Init /\ [][Next]_vars

(***************************************************************************)
(* Properties                                                              *)
(***************************************************************************)

Accepts(c) == pc[c] \in {"lock", "fetch", "read"} /\ pc'[c] = "200"
Refuses(c) == pc[c] \in {"lock", "fetch", "read"} /\ pc'[c] = "401"
Genuine(t) == t.kid = t.signer

\* constants.go, 97: "so a key the IdP removed stops verifying within this
\* window": unless the last fetch failed, a removed key is accepted for at most
\* MaxAge and the one fetch that was reading it.
RemovedKeyStops ==
    [][\A c \in Callers, k \in Keys :
         Accepts(c) /\ tok[c].signer = k /\ k \notin Published =>
            /\ provider[k] = "removed"
            /\ now < changedAt[k] + MaxAge + FetchTime \/ lastFailed']_vars

\* constants.go, 92: "key rotation still lands within this interval": a genuine
\* token of a published key is refused only shortly after its key was published,
\* or when a fetch has failed since and the key was never loaded.
RotationLands ==
    [][\A c \in Callers :
         Refuses(c) /\ Genuine(tok[c]) /\ tok[c].signer \in Published =>
            \/ now < changedAt[tok[c].signer] + MinInterval
            \/ lastFailed']_vars

\* keyset.go, 72: "an IdP outage must not log everyone out": what was loaded is
\* trusted until the provider itself withdraws it.
OutageKeepsKeys ==
    [][\A k \in Keys : k \in keys /\ k \in Published => k \in keys']_vars

\* keyset.go, 23: invented key ids cost the provider at most one fetch per
\* MinInterval, from however many callers, once nothing fails.
ProviderIsSpared ==
    failures = 0 => fetches * MinInterval <= now - Boot + MinInterval

\* middleware.go, 70: "The token may well be valid -- we just can't reach the
\* OIDC provider to check it.  503 (not 401)": a genuine token that no key set
\* could be fetched for is not answered "Unauthorized".
ProviderDownIs503 ==
    [][\A c \in Callers :
         pc[c] \in {"fetch", "read"} /\ pc'[c] = "401"
            => ~(lastFailed' /\ Genuine(tok[c]) /\ tok[c].signer \in Published)]_vars
=============================================================================
