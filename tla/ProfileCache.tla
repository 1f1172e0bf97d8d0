---------------------------- MODULE ProfileCache ----------------------------
(***************************************************************************)
(* The profile service (internal/profile/service.go): profiles in          *)
(* PostgreSQL, read through a copy in Redis that every replica shares.     *)
(* Each call to the database or to Redis is a step of its own, so requests *)
(* interleave between any two of them.  A profile's content (roles, name,  *)
(* avatar) is the revision it is at; revision 0 is "no row".               *)
(***************************************************************************)
EXTENDS Naturals

CONSTANTS
    Requests,        \* handlers at work, each serving one request after another
    Subs,            \* OIDC subjects
    Kinds,           \* what requests may do, of AllKinds
    TTL,             \* config.ProfileCacheTTL
    Hold,            \* longest time between a row read and its copy written
    MaxRedisFaults,  \* bound: Redis calls that fail
    DbFaults,        \* may the database fail (or fail after committing)?
    Crashes,         \* may a replica die?
    MaxRev,          \* bound: revisions of one profile
    MaxTime          \* bound: the clock

\* login: FindOrCreateBySub; lookup: FindBySub; mock: FindOrCreateMockUser;
\* update: Update; role: an operator's SQL update followed by redis-cli DEL.
AllKinds == {"login", "lookup", "mock", "update", "role"}

\* A copy set without an expiry would stay for ever.
ASSUME ClockAssumption == TTL \in Nat \ {0} /\ Hold \in Nat /\ MaxTime \in Nat
ASSUME BoundsAssumption ==
    /\ Kinds \subseteq AllKinds
    /\ MaxRedisFaults \in Nat
    /\ MaxRev \in Nat \ {0}
    /\ DbFaults \in BOOLEAN /\ Crashes \in BOOLEAN

VARIABLES
    now,         \* the clock
    db,          \* the revision each profile row is at
    superseded,  \* when each revision stopped being the current one
    cache,       \* the Redis copy: nothing, bytes that do not parse, a revision
    acked,       \* the last revision whose writer has finished
    pc,          \* the next call each request makes
    kind, sub,   \* what the request is
    got,         \* the revision it holds
    readAt,      \* when the database handed it that revision
    floor,       \* what was acked when it started
    faults,      \* Redis faults so far
    raced        \* history: profiles changed while another request held a copy

vars == <<now, db, superseded, cache, acked, pc, kind, sub, got, readAt,
          floor, faults, raced>>
clock == <<now, faults>>
rowVars == <<db, superseded, raced>>
callVars == <<kind, sub, floor>>

Revs == 1..MaxRev
Final == {"done", "failed", "dberror", "crashed"}
Calls == {"get", "drop", "select", "create", "change", "del", "fill"}
Miss == [tag |-> "miss", rev |-> 0, exp |-> 0]
Garbage == [tag |-> "garbage", rev |-> 0, exp |-> 0]
Copy(rev, exp) == [tag |-> "hit", rev |-> rev, exp |-> exp]
Copies == [tag : {"miss", "garbage", "hit"}, rev : 0..MaxRev, exp : 0..(MaxTime + TTL)]
PCs == {"idle"} \cup Final \cup Calls

TypeOK ==
    /\ now \in 0..MaxTime
    /\ db \in [Subs -> 0..MaxRev]
    /\ superseded \in [Subs -> [Revs -> 0..MaxTime]]
    /\ cache \in [Subs -> Copies]
    /\ acked \in [Subs -> 0..MaxRev]
    /\ pc \in [Requests -> PCs]
    /\ kind \in [Requests -> Kinds \cup {"none"}]
    /\ sub \in [Requests -> Subs]
    /\ got \in [Requests -> 0..MaxRev]
    /\ readAt \in [Requests -> 0..MaxTime]
    /\ floor \in [Requests -> 0..MaxRev]
    /\ faults \in 0..MaxRedisFaults
    /\ raced \subseteq Subs

\* A copy written by another version of the program may not parse.
Init ==
    /\ now = 0
    /\ db = [s \in Subs |-> 0]
    /\ superseded = [s \in Subs |-> [v \in Revs |-> 0]]
    /\ cache \in [Subs -> {Miss, Garbage}]
    /\ acked = [s \in Subs |-> 0]
    /\ pc = [r \in Requests |-> "idle"]
    /\ kind = [r \in Requests |-> "none"]
    /\ sub \in [Requests -> Subs]
    /\ got = [r \in Requests |-> 0]
    /\ readAt = [r \in Requests |-> 0]
    /\ floor = [r \in Requests |-> 0]
    /\ faults = 0
    /\ raced = {}

\* Only a profile that exists is updated: the caller was authenticated.
Start(r, k, s) ==
    /\ pc[r] = "idle"
    /\ k \in {"update", "role"} => db[s] > 0
    /\ kind' = [kind EXCEPT ![r] = k]
    /\ sub' = [sub EXCEPT ![r] = s]
    /\ floor' = [floor EXCEPT ![r] = acked[s]]
    /\ pc' = [pc EXCEPT ![r] =
                CASE k \in {"login", "lookup"} -> "get"
                  [] k = "mock" -> "select"
                  [] OTHER -> "change"]
    /\ UNCHANGED <<clock, rowVars, cache, acked, got, readAt>>

(***************************************************************************)
(* Calls to Redis                                                          *)
(***************************************************************************)

\* A call to Redis fails; the service logs it and goes on.  (A call that took
\* effect and is reported as failed has the outcome of one that succeeded.)
RedisFails ==
    /\ faults < MaxRedisFaults
    /\ faults' = faults + 1

\* Mutant: every read renews the expiry of the copy.
GetRenews(r) ==
    /\ pc[r] = "get"
    /\ IF cache[sub[r]].tag = "hit"
       THEN /\ got' = [got EXCEPT ![r] = cache[sub[r]].rev]
            /\ cache' = [cache EXCEPT ![sub[r]].exp = now + TTL]
            /\ pc' = [pc EXCEPT ![r] = "done"]
       ELSE /\ pc' = [pc EXCEPT ![r] = "select"]
            /\ UNCHANGED <<got, cache>>
    /\ UNCHANGED <<clock, rowVars, acked, callVars, readAt>>

\* fromCache: a copy that parses is the answer.
Get(r) ==
    /\ pc[r] = "get"
    /\ LET c == cache[sub[r]] IN
       \/ /\ c.tag = "hit"
          /\ got' = [got EXCEPT ![r] = c.rev]
          /\ pc' = [pc EXCEPT ![r] = "done"]
          /\ UNCHANGED faults
       \/ /\ c.tag = "garbage"
          /\ pc' = [pc EXCEPT ![r] = "drop"]
          /\ UNCHANGED <<got, faults>>
       \/ /\ c.tag = "miss"
          /\ pc' = [pc EXCEPT ![r] = "select"]
          /\ UNCHANGED <<got, faults>>
       \/ /\ RedisFails
          /\ pc' = [pc EXCEPT ![r] = "select"]
          /\ UNCHANGED got
    /\ UNCHANGED <<now, rowVars, cache, acked, callVars, readAt>>

\* fromCache: a copy that does not parse is deleted.
Drop(r) ==
    /\ pc[r] = "drop"
    /\ \/ cache' = [cache EXCEPT ![sub[r]] = Miss] /\ UNCHANGED faults
       \/ UNCHANGED cache /\ RedisFails
    /\ pc' = [pc EXCEPT ![r] = "select"]
    /\ UNCHANGED <<now, rowVars, acked, callVars, got, readAt>>

\* The writer of revision v of s has returned.
Ack(s, v) == acked' = [acked EXCEPT ![s] = IF v > @ THEN v ELSE @]

\* toCache: SET with the expiry.
Fill(r) ==
    /\ pc[r] = "fill"
    /\ \/ /\ cache' = [cache EXCEPT ![sub[r]] = Copy(got[r], now + TTL)]
          /\ UNCHANGED faults
       \/ UNCHANGED cache /\ RedisFails
    /\ IF kind[r] = "update" THEN Ack(sub[r], got[r]) ELSE UNCHANGED acked
    /\ pc' = [pc EXCEPT ![r] = "done"]
    /\ UNCHANGED <<now, rowVars, callVars, got, readAt>>

\* Mutant: the update relies on the SET alone.
DelLeftOut(r) ==
    /\ pc[r] = "del"
    /\ pc' = [pc EXCEPT ![r] = IF kind[r] = "update" THEN "fill" ELSE "failed"]
    /\ UNCHANGED <<clock, rowVars, cache, acked, callVars, got, readAt>>

\* invalidate, or the operator's redis-cli DEL, whose failure is seen.
Del(r) ==
    /\ pc[r] = "del"
    /\ \/ /\ cache' = [cache EXCEPT ![sub[r]] = Miss]
          /\ UNCHANGED faults
          /\ IF kind[r] = "update"
             THEN pc' = [pc EXCEPT ![r] = "fill"] /\ UNCHANGED acked
             ELSE pc' = [pc EXCEPT ![r] = "done"] /\ Ack(sub[r], got[r])
       \/ /\ RedisFails
          /\ pc' = [pc EXCEPT ![r] = IF kind[r] = "update" THEN "fill" ELSE "failed"]
          /\ UNCHANGED <<cache, acked>>
    /\ UNCHANGED <<now, rowVars, callVars, got, readAt>>

(***************************************************************************)
(* Calls to the database                                                   *)
(***************************************************************************)

DbFails(r) ==
    /\ DbFaults
    /\ pc' = [pc EXCEPT ![r] = "dberror"]
    /\ UNCHANGED <<got, readAt>>

\* The database hands r revision v of its profile; a mock user is not cached.
Holds(r, v) ==
    /\ got' = [got EXCEPT ![r] = v]
    /\ readAt' = [readAt EXCEPT ![r] = now]
    /\ pc' = [pc EXCEPT ![r] = CASE kind[r] = "mock" -> "done"
                                 [] kind[r] \in {"update", "role"} -> "del"
                                 [] OTHER -> "fill"]

\* GetProfileByOIDCSub; FindBySub does not create what it does not find.
Select(r) ==
    /\ pc[r] = "select"
    /\ \/ db[sub[r]] > 0 /\ Holds(r, db[sub[r]])
       \/ /\ db[sub[r]] = 0
          /\ pc' = [pc EXCEPT ![r] = IF kind[r] = "lookup" THEN "failed" ELSE "create"]
          /\ UNCHANGED <<got, readAt>>
       \/ DbFails(r)
    /\ UNCHANGED <<clock, rowVars, cache, acked, callVars>>

\* Mutant: a plain INSERT, refused by the unique index for the loser of a race.
CreatePlainInsert(r) ==
    /\ pc[r] = "create"
    /\ IF db[sub[r]] = 0
       THEN db' = [db EXCEPT ![sub[r]] = 1] /\ Holds(r, 1)
       ELSE pc' = [pc EXCEPT ![r] = "failed"] /\ UNCHANGED <<db, got, readAt>>
    /\ UNCHANGED <<clock, superseded, raced, cache, acked, callVars>>

\* CreateProfile, an upsert: the loser of a race gets the winner's row.
Create(r) ==
    /\ pc[r] = "create"
    /\ \/ /\ db' = [db EXCEPT ![sub[r]] = IF @ = 0 THEN 1 ELSE @]
          /\ Holds(r, db'[sub[r]]) \/ DbFails(r)
       \/ DbFails(r) /\ UNCHANGED db
    /\ UNCHANGED <<clock, superseded, raced, cache, acked, callVars>>

\* UpdateProfile (or the operator's UPDATE): a new revision of the row.  An
\* error ends the request before the cache is touched.  Whoever holds the old
\* revision now may write it to the cache later.
Change(r) ==
    LET s == sub[r] IN
    /\ pc[r] = "change"
    /\ db[s] < MaxRev
    /\ \/ /\ db' = [db EXCEPT ![s] = @ + 1]
          /\ superseded' = [superseded EXCEPT ![s][db[s]] = now]
          /\ raced' = IF \E q \in Requests : sub[q] = s /\ pc[q] \in {"del", "fill"}
                      THEN raced \cup {s} ELSE raced
          /\ Holds(r, db[s] + 1) \/ DbFails(r)
       \/ DbFails(r) /\ UNCHANGED rowVars
    /\ UNCHANGED <<clock, cache, acked, callVars>>

(***************************************************************************)
(* Time and crashes                                                        *)
(***************************************************************************)

Crash(r) ==
    /\ Crashes
    /\ pc[r] \in Calls
    /\ pc' = [pc EXCEPT ![r] = "crashed"]
    /\ UNCHANGED <<clock, rowVars, cache, acked, callVars, got, readAt>>

\* The answer has been written; the handler takes another request.
Return(r) ==
    /\ pc[r] \in Final
    /\ pc' = [pc EXCEPT ![r] = "idle"]
    /\ kind' = [kind EXCEPT ![r] = "none"]
    /\ got' = [got EXCEPT ![r] = 0]
    /\ readAt' = [readAt EXCEPT ![r] = 0]
    /\ floor' = [floor EXCEPT ![r] = 0]
    /\ UNCHANGED <<clock, rowVars, cache, acked, sub>>

\* Redis drops a copy at its expiry.  A request takes at most Hold from the
\* database's answer to its last call to Redis.
Tick ==
    /\ now < MaxTime
    /\ \A r \in Requests : pc[r] \in {"del", "fill"} => now < readAt[r] + Hold
    /\ now' = now + 1
    /\ cache' = [s \in Subs |->
                   IF cache[s].tag = "hit" /\ cache[s].exp = now'
                   THEN Miss ELSE cache[s]]
    /\ UNCHANGED <<rowVars, acked, pc, callVars, got, readAt, faults>>

Step(r) ==
    \/ \E k \in Kinds, s \in Subs : Start(r, k, s)
    \/ Get(r)
    \/ Drop(r)
    \/ Select(r)
    \/ Create(r)
    \/ Change(r)
    \/ Del(r)
    \/ Fill(r)
    \/ Crash(r)
    \/ Return(r)

Next == Tick \/ \E r \in Requests : Step(r)

Spec == Init /\ [][Next]_vars

(***************************************************************************)
(* Properties                                                              *)
(***************************************************************************)

\* However reads, updates, role changes, Redis errors and crashes interleave,
\* what the cache answers was current less than TTL + Hold ago: a revoked role
\* or an old profile cannot be kept alive by being read or re-cached.
StalenessBounded ==
    [][\A r \in Requests :
         pc[r] = "get" /\ pc'[r] = "done" =>
            LET s == sub[r] IN
            \/ got'[r] = db[s]
            \/ /\ got'[r] \in 1..(db[s] - 1)
               /\ now < superseded[s][got'[r]] + TTL + Hold]_vars

\* "so that two replicas racing to create a first-time user both get the row":
\* no login fails unless the database does, with or without Redis.
LoginSucceeds ==
    \A r \in Requests : kind[r] \in {"login", "mock"} => pc[r] # "failed"

\* What Update's DEL before its SET is for: one failing call to Redis does not
\* hide a finished change from later reads.  Only a request that held the old
\* row while it changed can.
ChangeIsVisibleUnlessRaced ==
    \A r \in Requests :
        kind[r] \in {"login", "lookup"} /\ pc[r] = "done" /\ sub[r] \notin raced
            => got[r] >= floor[r]

\* service.go, 142: "then invalidates the cache so subsequent reads reflect the
\* change"; OPERATIONS.md: a role change followed by DEL takes effect at once.
FinishedChangeIsVisible ==
    \A r \in Requests :
        kind[r] \in {"login", "lookup"} /\ pc[r] = "done" => got[r] >= floor[r]
=============================================================================
