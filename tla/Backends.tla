------------------------------- MODULE Backends -------------------------------
(***************************************************************************)
(* What the HTTP surface stands on: a clock, and the database and Redis,   *)
(* each of which may refuse calls ("down") or leave them unanswered        *)
(* ("hung") and come back.                                                 *)
(***************************************************************************)
EXTENDS Integers, Sequences

CONSTANTS
    RedisReadTimeout,  \* go-redis: one attempt at a call; no context cuts it short
    MaxOutages,        \* bound: times a dependency changes its status
    MaxTime            \* bound: the clock

ASSUME BackendsAssumption ==
    RedisReadTimeout \in Nat \ {0} /\ MaxOutages \in Nat /\ MaxTime \in Nat

Deps == {"database", "redis"}
Statuses == {"up", "down", "hung"}

VARIABLES
    now,
    dep,       \* the status of each dependency
    outages    \* changes of status so far

depVars == <<dep, outages>>

BackendsTypeOK ==
    now \in 0..MaxTime /\ dep \in [Deps -> Statuses] /\ outages \in 0..MaxOutages

BackendsInit == now = 0 /\ dep = [d \in Deps |-> "up"] /\ outages = 0

Flip(d, status) ==
    /\ dep[d] # status /\ outages < MaxOutages
    /\ dep' = [dep EXCEPT ![d] = status]
    /\ outages' = outages + 1
    /\ UNCHANGED now

Tick == now < MaxTime /\ now' = now + 1 /\ UNCHANGED depVars
=============================================================================
