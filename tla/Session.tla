------------------------------- MODULE Session -------------------------------
(***************************************************************************)
(* A GraphQL WebSocket (internal/graph/handler.go): an upgrade request is  *)
(* charged like any other, connection_init authenticates, every operation  *)
(* is charged to the budget of the upgrade and then resolves its user anew *)
(* before it runs, and the socket ends with its token.                     *)
(*                                                                         *)
(* Whose a token is, is found out in stages (auth.Middleware.resolve), as  *)
(* in every request: its expiry, its key, then the profile, from Redis or  *)
(* from PostgreSQL.  KeySet decides about keys, whenever it comes to that; *)
(* ProfileCache bounds how long an old copy of a profile lives.            *)
(***************************************************************************)
EXTENDS Edge

CONSTANTS
    Sockets, Ops,   \* sockets, and operations at once on each
    InitTimeout,    \* config.WSInitTimeout
    Skew,           \* config.OIDCClockSkew, wsLimits.tokenGrace
    ProfileTTL,     \* config.ProfileCacheTTL
    Hold,           \* longest time from a row read to its copy written
    Expiries        \* when tokens expire; Never for the mock identity

Never == MaxTime + 1

ASSUME SessionAssumption ==
    /\ InitTimeout \in Nat /\ Skew \in Nat /\ ProfileTTL \in Nat \ {0}
    /\ Hold \in Nat /\ Attempts * RedisReadTimeout <= Hold
    /\ Expiries \subseteq 0..Never

VARIABLES
    sock,       \* the sockets: stage, client, rate-limit bucket, token and user
    op,         \* the operations of each socket
    rev,        \* which version of the user's profile PostgreSQL has
    changedAt   \* when it changed

sessionVars == <<sock, op, rev, changedAt>>

LookupStages == {"verify", "keys", "get", "drop", "select", "fill"}

NoSocket == [stage |-> "none", client |-> Proxy, key |-> RateKey("/graphql", Proxy),
             at |-> 0, exp |-> 0, ends |-> Never, user |-> 0]
NoOp == [stage |-> "none", at |-> 0, user |-> 0]

SessionTypeOK ==
    /\ EdgeTypeOK
    /\ sock \in [Sockets -> [stage : {"none", "init", "open"} \cup LookupStages,
                             client : Addresses, key : Buckets, at : 0..MaxTime, exp : 0..Never,
                             ends : 0..(MaxTime + Skew + 1), user : 0..1]]
    /\ op \in [Sockets \X Ops ->
                 [stage : {"none", "charge", "run"} \cup LookupStages, at : 0..MaxTime, user : 0..1]]
    /\ rev \in 0..1 /\ changedAt \in 0..Never

SessionInit ==
    /\ sock = [s \in Sockets |-> NoSocket]
    /\ op = [x \in Sockets \X Ops |-> NoOp]
    /\ rev = 0 /\ changedAt = Never
-----------------------------------------------------------------------------
\* A call of Redis that began at `at' is over: answered, refused or given up.
CallOver(at) == dep["redis"] # "hung" \/ now >= at + Attempts * RedisReadTimeout

\* Verify looks at the expiry, its clock held back by the skew, before it asks
\* for the key.  A mock identity has no token, and may have no cached copy.
Verified(exp, stage) ==
    IF exp = Never THEN stage \in {"get", "select"}
    ELSE stage = IF now <= exp + Skew THEN "keys" ELSE "failed"

\* fromCache: a copy, bytes that do not parse, nothing or a failed call.  A copy
\* of the old profile may have been filled by a reader that held it for Hold.
FromCache(stage, user) ==
    \/ /\ dep["redis"] = "up" /\ stage = "found"
       /\ user = rev \/ (user = rev - 1 /\ now < changedAt + ProfileTTL + Hold)
    \/ dep["redis"] = "up" /\ stage = "drop" /\ user = 0
    \/ stage = "select" /\ user = 0

\* The row, or one more call: the INSERT of a newcomer's, the SELECT of the mock
\* user's when there is no other.  The mock user's row is not cached.
FromDatabase(exp, stage, user) ==
    \/ dep["database"] = "up" /\ user = rev /\ (stage = "fill" \/ (exp = Never /\ stage = "found"))
    \/ stage = "select" /\ user = 0
    \/ dep["database"] # "up" /\ stage = "failed" /\ user = 0

\* resolve and FindOrCreateBySub: where lookup x of a token gets to next, and
\* with which version of the profile.  Every call of Redis takes its own time;
\* that of the key set and, while it hangs, of the database may take any.
LooksUp(x, exp, stage, user) ==
    \/ x.stage = "verify" /\ Verified(exp, stage) /\ user = 0
    \/ x.stage = "keys" /\ stage \in {"get", "failed"} /\ user = 0
    \/ x.stage = "get" /\ CallOver(x.at) /\ FromCache(stage, user)
    \/ x.stage = "drop" /\ CallOver(x.at) /\ stage = "select" /\ user = 0
    \/ x.stage = "select" /\ FromDatabase(exp, stage, user)
    \/ x.stage = "fill" /\ CallOver(x.at) /\ stage = "found" /\ user = x.user

LookupWaits(x) ==
    \/ x.stage \in {"get", "drop", "fill"} /\ ~CallOver(x.at)
    \/ x.stage = "keys"
    \/ x.stage = "select" /\ dep["database"] = "hung"

\* RateLimit lets an upgrade through; its key stays with the socket.
Upgrade(s, c) ==
    /\ sock[s].stage = "none"
    /\ req[c].stage = "charge" /\ req[c].route = "/graphql"
    /\ LET b == RateKey("/graphql", req[c].addr)
       IN /\ LetThrough(b, RateKey("/graphql", c), req[c].at)
          /\ sock' = [sock EXCEPT ![s] = [NoSocket EXCEPT
                        !.stage = "init", !.client = c, !.key = b, !.at = now]]
    /\ Done(c)
    /\ UNCHANGED <<now, depVars, since, watched, op, rev, changedAt>>

\* The transport closes the socket and ends the context of its operations.
Close(s) ==
    /\ sock[s].stage # "none"
    /\ sock' = [sock EXCEPT ![s] = NoSocket]
    /\ op' = [x \in DOMAIN op |-> IF x[1] = s THEN NoOp ELSE op[x]]
    /\ UNCHANGED <<now, depVars, edgeVars, rev, changedAt>>

InitTimesOut(s) == sock[s].stage = "init" /\ now >= sock[s].at + InitTimeout /\ Close(s)

\* The payload is read: InitFunc begins.
ConnectionInit(s, exp) ==
    /\ sock[s].stage = "init"
    /\ sock' = [sock EXCEPT ![s].stage = "verify", ![s].at = now, ![s].exp = exp]
    /\ UNCHANGED <<now, depVars, edgeVars, op, rev, changedAt>>

InitGoesOn(s) ==
    /\ \E stage \in LookupStages, user \in 0..1 :
          /\ LooksUp(sock[s], sock[s].exp, stage, user)
          /\ sock' = [sock EXCEPT ![s].stage = stage, ![s].at = now, ![s].user = user]
    /\ UNCHANGED <<now, depVars, edgeVars, op, rev, changedAt>>

Opens(s, ends) ==
    /\ \E user \in 0..1 :
          /\ LooksUp(sock[s], sock[s].exp, "found", user)
          /\ sock' = [sock EXCEPT ![s].stage = "open", ![s].user = user, ![s].ends = ends]
    /\ UNCHANGED <<now, depVars, edgeVars, op, rev, changedAt>>

\* Mutant: the socket has no deadline; only its operations check the token.
InitFuncNoDeadline(s) == Opens(s, Never)

\* The user is found: the socket gets its deadline, which may have passed.
InitFunc(s) == Opens(s, IF sock[s].exp = Never THEN Never ELSE sock[s].exp + Skew)

\* Close code 4403.
InitRefused(s) == LooksUp(sock[s], sock[s].exp, "failed", 0) /\ Close(s)

TokenExpires(s) ==
    sock[s].stage = "open" /\ sock[s].ends # Never /\ now >= sock[s].ends /\ Close(s)

\* The read loop charges one operation at a time.
Send(s, o) ==
    /\ sock[s].stage = "open" /\ op[<<s, o>>].stage = "none"
    /\ \A p \in Ops : op[<<s, p>>].stage # "charge"
    /\ op' = [op EXCEPT ![<<s, o>>] = [NoOp EXCEPT !.stage = "charge", !.at = now]]
    /\ UNCHANGED <<now, depVars, edgeVars, sock, rev, changedAt>>

OpGoes(s, o, stage) ==
    /\ op' = [op EXCEPT ![<<s, o>>] = [NoOp EXCEPT !.stage = stage, !.at = now]]
    /\ UNCHANGED <<now, depVars, req, since, watched, sock, rev, changedAt>>

\* Mutant: operations of a socket cost nothing.
ChargeOpFree(s, o) ==
    /\ op[<<s, o>>].stage = "charge" /\ CallOver(op[<<s, o>>].at)
    /\ passed' = IF watched = RateKey("/graphql", sock[s].client) THEN passed + 1 ELSE passed
    /\ UNCHANGED tat
    /\ OpGoes(s, o, "verify")

\* wsOperationCharge, before anything is parsed.
ChargeOp(s, o) ==
    /\ op[<<s, o>>].stage = "charge"
    /\ \/ LetThrough(sock[s].key, RateKey("/graphql", sock[s].client), op[<<s, o>>].at)
          /\ OpGoes(s, o, "verify")
       \/ Refused(sock[s].key) /\ OpGoes(s, o, "none")

\* AroundOperations: whose the socket's token is now.
RefreshGoesOn(s, o) ==
    /\ \E stage \in LookupStages, user \in 0..1 :
          /\ LooksUp(op[<<s, o>>], sock[s].exp, stage, user)
          /\ op' = [op EXCEPT ![<<s, o>>] = [stage |-> stage, at |-> now, user |-> user]]
    /\ UNCHANGED <<now, depVars, edgeVars, sock, rev, changedAt>>

Runs(s, o, user) ==
    /\ op' = [op EXCEPT ![<<s, o>>] = [NoOp EXCEPT !.stage = "run", !.user = user]]
    /\ UNCHANGED <<now, depVars, edgeVars, sock, rev, changedAt>>

\* Mutant: the operation runs as the user connection_init resolved.
RefreshUserSnapshot(s, o) ==
    op[<<s, o>>].stage = "verify" /\ Runs(s, o, sock[s].user)

\* refreshWebsocketUser: the user is who the credentials resolve to now.
RefreshUser(s, o) ==
    \E user \in 0..1 : LooksUp(op[<<s, o>>], sock[s].exp, "found", user) /\ Runs(s, o, user)

\* UNAUTHENTICATED, or the operation (a query, or a subscription) is over.
OpEnds(s, o) ==
    /\ op[<<s, o>>].stage = "run" \/ LooksUp(op[<<s, o>>], sock[s].exp, "failed", 0)
    /\ op' = [op EXCEPT ![<<s, o>>] = NoOp]
    /\ UNCHANGED <<now, depVars, edgeVars, sock, rev, changedAt>>

ProfileChanges ==
    /\ rev = 0 /\ rev' = 1 /\ changedAt' = now
    /\ UNCHANGED <<now, depVars, edgeVars, sock, op>>

\* Time waits for whatever ends at its time.
SocketsWait ==
    /\ \A s \in Sockets : LET x == sock[s] IN
          /\ x.stage = "init" => now < x.at + InitTimeout
          /\ x.stage \in LookupStages => LookupWaits(x)
          /\ x.stage = "open" => x.ends = Never \/ now < x.ends
    /\ \A x \in DOMAIN op :
          /\ op[x].stage = "charge" => ~CallOver(op[x].at)
          /\ op[x].stage \in LookupStages => LookupWaits(op[x])

SocketStep(s) ==
    \/ \E c \in Clients : Upgrade(s, c)
    \/ \E exp \in Expiries : ConnectionInit(s, exp)
    \/ InitTimesOut(s) \/ InitGoesOn(s) \/ InitFunc(s) \/ InitRefused(s)
    \/ TokenExpires(s) \/ Close(s)
    \/ \E o \in Ops : \/ Send(s, o) \/ ChargeOp(s, o) \/ RefreshGoesOn(s, o)
                      \/ RefreshUser(s, o) \/ OpEnds(s, o)

SessionNext ==
    \/ \E s \in Sockets : SocketStep(s)
    \/ EdgeNext /\ (now' # now => SocketsWait) /\ UNCHANGED sessionVars
    \/ \E status \in Statuses : Flip("database", status) /\ UNCHANGED <<edgeVars, sessionVars>>
    \/ ProfileChanges

SessionSpec ==
    /\ BackendsInit /\ EdgeInit /\ SessionInit
    /\ [][SessionNext]_<<now, depVars, edgeVars, sessionVars>>
-----------------------------------------------------------------------------
\* However long an operation waited for its charge, its key, Redis and the
\* database: it starts as a user who was current less than the profile cache's
\* TTL and the hold of a reader ago, not as the user of connection_init.
RunsAsCurrentUser ==
    [][\A s \in Sockets, o \in Ops : op[<<s, o>>].stage # "run" /\ op'[<<s, o>>].stage = "run" =>
          op'[<<s, o>>].user = rev \/ now < changedAt + ProfileTTL + Hold]_sessionVars

\* Nothing runs over a socket, a subscription included, once its token expired
\* by more than the skew, however late authentication came to an end.
NothingOutlivesToken ==
    \A s \in Sockets, o \in Ops :
        /\ op[<<s, o>>].stage # "none" => sock[s].stage = "open"
        /\ op[<<s, o>>].stage = "run" /\ sock[s].exp # Never => now <= sock[s].exp + Skew
=============================================================================
