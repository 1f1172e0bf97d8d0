--------------------------------- MODULE Edge ---------------------------------
(***************************************************************************)
(* What every HTTP request passes before its handler (internal/server,     *)
(* internal/middleware, internal/clientip, internal/redis/limiter.go): the *)
(* client's address is taken from the proxies' header, a Redis-backed GCRA *)
(* budget of that address is charged, and the dev pages charge a second    *)
(* one before the password is compared.                                    *)
(*                                                                         *)
(* An address is named by the client that has it, whatever port or         *)
(* brackets are written around it; Network is its IPv4 address or IPv6 /64.*)
(***************************************************************************)
EXTENDS Backends

CONSTANTS
    Clients,           \* each sends one request at a time
    Direct,            \* those who reach the port directly and type no header
    Proxy,             \* the address of the proxies in front of the server
    Junk,              \* a chain entry that is no address
    Typed,             \* what clients write into X-Forwarded-For themselves
    Network,           \* the network of an address: what a budget belongs to
    Routes,            \* the routes requested
    Hops,              \* TRUSTED_PROXY_HOPS, the number of proxies there are
    Burst, Interval,   \* RateLimitMax and RateLimitWindow / RateLimitMax
    GateBurst, GateInterval,  \* the same of DevPagesRateLimit
    Attempts           \* go-redis: attempts at one call (MaxRetries + 1)

Addresses == Clients \cup {Proxy}
Networks == {Network[a] : a \in Addresses}

ASSUME EdgeAssumption ==
    /\ Junk \notin Addresses /\ Proxy \notin Clients /\ Direct \subseteq Clients
    /\ Typed \subseteq Seq(Addresses \cup {Junk})
    /\ Network \in [Addresses -> Networks]
    /\ Routes \subseteq {"/livez", "/readyz", "/upload", "/graphql", "/dev"}
    /\ Hops \in Nat /\ Attempts \in Nat \ {0}
    /\ Burst \in Nat \ {0} /\ Interval \in Nat \ {0}
    /\ GateBurst \in Nat \ {0} /\ GateInterval \in Nat \ {0}

Scopes == {"rl", "rl:auth", "rl:dev"}
Buckets == Scopes \X Networks

VARIABLES
    tat,     \* the time up to which each bucket is spent, in Redis
    req,     \* the request each client waits for
    since,   \* history: since when passes are counted, ...
    watched, \* ... for which bucket, ...
    passed   \* ... and how often its network was let through and charged

edgeVars == <<tat, req, since, watched, passed>>

NoRequest == [stage |-> "none", route |-> "/livez", addr |-> Proxy, at |-> 0]

EdgeTypeOK ==
    /\ BackendsTypeOK
    /\ tat \in [Buckets -> Nat]
    /\ req \in [Clients ->
                  [stage : {"none", "charge", "gate"}, route : Routes \cup {"/livez"},
                   addr : Addresses, at : 0..MaxTime]]
    /\ since \in 0..MaxTime
    /\ watched \in Buckets /\ passed \in Nat

EdgeInit ==
    /\ tat = [b \in Buckets |-> 0]
    /\ req = [c \in Clients |-> NoRequest]
    /\ since = 0
    /\ watched \in Buckets /\ passed = 0
-----------------------------------------------------------------------------
\* The first proxy appends the client it hears, each later one the proxy before.
Chain(typed, c) == typed \o [i \in 1..Hops |-> IF i = 1 THEN c ELSE Proxy]
Peer(c) == IF Hops = 0 \/ c \in Direct THEN c ELSE Proxy

\* Mutant: the left-most entry, the "original client".
LeftmostIP(chain, peer) ==
    IF Hops = 0 \/ chain = <<>> \/ Head(chain) = Junk THEN peer ELSE Head(chain)

\* The entry the trusted proxies vouch for; the socket's peer without one.
ForwardedIP(chain, peer) ==
    LET i == Len(chain) - Hops + 1
    IN IF Hops = 0 \/ i < 1 \/ chain = <<>> \/ chain[i] = Junk THEN peer ELSE chain[i]

RateKey(route, addr) ==
    <<IF route \in {"/upload", "/graphql"} THEN "rl:auth" ELSE "rl", Network[addr]>>
GateKey(addr) == <<"rl:dev", Network[addr]>>

Cost(b) == IF b[1] = "rl:dev" THEN GateInterval ELSE Interval
Size(b) == IF b[1] = "rl:dev" THEN GateBurst * GateInterval ELSE Burst * Interval

\* GCRA: what the bucket is spent up to when one more event is let through.
SpentUpTo(b) == (IF tat[b] > now THEN tat[b] ELSE now) + Cost(b)

\* The limiter charges bucket b for work of network n's bucket `own'; it refuses;
\* or Redis fails it and it lets the work through.
Charge(b, own) ==
    /\ dep["redis"] = "up" /\ SpentUpTo(b) <= now + Size(b)
    /\ tat' = [tat EXCEPT ![b] = SpentUpTo(b)]
    /\ passed' = IF own = watched THEN passed + 1 ELSE passed

Refused(b) == dep["redis"] = "up" /\ SpentUpTo(b) > now + Size(b) /\ UNCHANGED <<tat, passed>>

\* Refused connections fail at once; an unanswered call fails after its attempts.
FailsOpen(at) ==
    /\ \/ dep["redis"] = "down"
       \/ dep["redis"] = "hung" /\ now >= at + Attempts * RedisReadTimeout
    /\ UNCHANGED <<tat, passed>>

LetThrough(b, own, at) == Charge(b, own) \/ FailsOpen(at)
-----------------------------------------------------------------------------
Arrive(c, route, typed) ==
    /\ req[c].stage = "none"
    /\ req' = [req EXCEPT ![c] =
                [stage |-> "charge", route |-> route, at |-> now,
                 addr |-> ForwardedIP(IF c \in Direct THEN <<>> ELSE Chain(typed, c), Peer(c))]]
    /\ UNCHANGED <<now, depVars, tat, since, watched, passed>>

\* 429, or a request that is handed to its handler.
Done(c) == req' = [req EXCEPT ![c] = NoRequest]

\* The middleware of every route; a dev page goes on to its own gate.
RateLimit(c) ==
    /\ req[c].stage = "charge"
    /\ LET b == RateKey(req[c].route, req[c].addr)
       IN \/ /\ LetThrough(b, RateKey(req[c].route, c), req[c].at)
             /\ IF req[c].route = "/dev"
                THEN req' = [req EXCEPT ![c].stage = "gate", ![c].at = now]
                ELSE Done(c)
          \/ Refused(b) /\ Done(c)
    /\ UNCHANGED <<now, depVars, since, watched>>

\* devGate: only a request its budget lets through has its password compared.
DevGate(c) ==
    /\ req[c].stage = "gate"
    /\ LET b == GateKey(req[c].addr)
       IN LetThrough(b, GateKey(c), req[c].at) \/ Refused(b)
    /\ Done(c)
    /\ UNCHANGED <<now, depVars, since, watched>>

\* The history is counted from here on.
StartCounting ==
    /\ since = 0 /\ now > 0
    /\ since' = now
    /\ passed' = 0
    /\ UNCHANGED <<now, depVars, tat, req, watched>>

\* A request is kept waiting by nothing but a Redis that does not answer.
EdgeWaits ==
    \A c \in Clients : req[c].stage # "none" =>
        dep["redis"] = "hung" /\ now < req[c].at + Attempts * RedisReadTimeout

\* A bucket that owes nothing any more expires in Redis.
EdgeTick ==
    /\ EdgeWaits /\ Tick
    /\ tat' = [b \in Buckets |-> IF tat[b] <= now + 1 THEN 0 ELSE tat[b]]
    /\ UNCHANGED <<req, since, watched, passed>>

EdgeStep(c) == RateLimit(c) \/ DevGate(c)

EdgeNext ==
    \/ \E c \in Clients, route \in Routes, typed \in Typed : Arrive(c, route, typed)
    \/ \E c \in Clients : EdgeStep(c)
    \/ StartCounting
    \/ \E status \in Statuses : Flip("redis", status) /\ UNCHANGED edgeVars
    \/ EdgeTick

EdgeSpec == BackendsInit /\ EdgeInit /\ [][EdgeNext]_<<now, depVars, edgeVars>>
-----------------------------------------------------------------------------
\* Whatever a client writes into its headers, and however its requests are
\* timed, its network is let through no more than the budget refills in the time
\* plus one full burst: about twice the rate in one period and never more.  A
\* dev page's password is compared within the dev budget as well.
WorkIsBudgeted ==
    passed * Cost(watched) <= now - since + Size(watched)

\* A client is refused only for work of its own network: nobody else, by any
\* header, can spend its budget, and a bucket that was idle owes nothing.
RefusedForOwnWork ==
    [][\A c \in Clients :
          /\ req[c].stage # "none" /\ req'[c].stage = "none"
          /\ dep["redis"] = "up" /\ passed' = passed /\ since = 0
          /\ watched = IF req[c].stage = "gate" THEN GateKey(c) ELSE RateKey(req[c].route, c)
          => passed * Cost(watched) >= Size(watched)]_<<now, depVars, edgeVars>>

\* Nothing external delays the answer of /livez, which the image's HEALTHCHECK
\* waits five seconds for.
LivezAnswers ==
    \A c \in Direct : req[c].route = "/livez" /\ req[c].stage # "none" => now < req[c].at + 5
=============================================================================
