---------------------------- MODULE ProfilePubSub ----------------------------
(***************************************************************************)
(* The profileUpdated subscription in one process: profile.PubSub          *)
(* (internal/profile/pubsub.go), the ProfileUpdated resolver's bridge      *)
(* goroutine and the per-connection subscription budget                    *)
(* (internal/graph/resolver).  Writers are UpdateProfile resolvers on any  *)
(* replica; the wire is this process's one Redis subscription.             *)
(***************************************************************************)
EXTENDS Naturals, Sequences, FiniteSets

CONSTANTS
    Profiles,
    Conns,      \* WebSocket connections of this process
    Subs,       \* subscription operations
    Writers,    \* updateProfile mutations at work
    User,       \* User[k]: the profile connection k belongs to
    NoConn,     \* the connection of an operation that is not running
    Budget,     \* config.WSMaxSubscriptionsPerConn
    WireFaults, \* may a publish fail, or its event be lost on the way?
    MaxRev,     \* bound: revisions of one profile
    MaxWire     \* bound: events waiting in the Redis subscription

ASSUME UserAssumption == User \in [Conns -> Profiles] /\ NoConn \notin Conns
ASSUME BoundsAssumption ==
    /\ Budget \in Nat \ {0} /\ MaxRev \in Nat /\ MaxWire \in Nat \ {0}
    /\ WireFaults \in BOOLEAN

VARIABLES
    rev,        \* the revision of each profile's row
    writing,    \* what each writer has committed and not published yet
    wire,       \* events Redis has delivered to the process
    mu,         \* PubSub.mu: free, or held by the dispatcher
    event,      \* the event being dispatched
    targets,    \* subscribers the dispatcher's loop has not reached
    panicked,   \* has a dispatch panicked?
    closed,     \* connections that have ended
    slots,      \* subscription slots taken of each connection's budget
    conn,       \* the connection of each subscription
    op,         \* where each subscription operation is
    cancelled,  \* has the operation's context ended?
    listening,  \* is its channel in PubSub.subs?
    src, hand, out, \* what it has in SubscribeForUser's channel, in the
                    \* bridge goroutine and in the resolver's channel
    seen,       \* the last event written to the client
    owed        \* the events dispatched while its channel had room, and not written yet

vars == <<rev, writing, wire, mu, event, targets, panicked, closed, slots, conn,
          op, cancelled, listening, src, hand, out, seen, owed>>
dispatchVars == <<mu, event, targets, panicked>>
writeVars == <<rev, writing>>
connVars == <<closed, slots>>
pipeVars == <<src, hand, out, seen, owed>>

Event == [p : Profiles, v : 1..MaxRev]
Slot == {<<>>} \cup {<<e>> : e \in Event}   \* a buffer of capacity one
Running == {"acquired", "bridging"}

TypeOK ==
    /\ rev \in [Profiles -> 0..MaxRev]
    /\ writing \in [Writers -> Slot]
    /\ wire \in Seq(Event) /\ Len(wire) <= MaxWire
    /\ mu \in {"free", "dispatch"}
    /\ event \in Slot
    /\ targets \subseteq Subs
    /\ panicked \in BOOLEAN
    /\ closed \subseteq Conns
    /\ slots \in [Conns -> 0..Budget]
    /\ conn \in [Subs -> Conns \cup {NoConn}]
    /\ op \in [Subs -> {"none", "refused", "ended"} \cup Running]
    /\ cancelled \subseteq Subs
    /\ listening \subseteq Subs
    /\ src \in [Subs -> Slot]
    /\ hand \in [Subs -> Slot]
    /\ out \in [Subs -> Slot]
    /\ seen \in [Subs -> Slot]
    /\ owed \in [Subs -> SUBSET Event]

Init ==
    /\ rev = [p \in Profiles |-> 0]
    /\ writing = [w \in Writers |-> <<>>]
    /\ wire = <<>>
    /\ mu = "free" /\ event = <<>> /\ targets = {} /\ panicked = FALSE
    /\ closed = {}
    /\ slots = [k \in Conns |-> 0]
    /\ conn = [c \in Subs |-> NoConn]
    /\ op = [c \in Subs |-> "none"]
    /\ cancelled = {} /\ listening = {}
    /\ owed = [c \in Subs |-> {}]
    /\ src = [c \in Subs |-> <<>>]
    /\ hand = [c \in Subs |-> <<>>]
    /\ out = [c \in Subs |-> <<>>]
    /\ seen = [c \in Subs |-> <<>>]

(***************************************************************************)
(* UpdateProfile: the row is committed, then the event published           *)
(***************************************************************************)

Commit(w, p) ==
    /\ writing[w] = <<>>
    /\ rev[p] < MaxRev
    /\ rev' = [rev EXCEPT ![p] = @ + 1]
    /\ writing' = [writing EXCEPT ![w] = <<[p |-> p, v |-> rev[p] + 1]>>]
    /\ UNCHANGED <<wire, dispatchVars, connVars, conn, op, cancelled, listening,
                   pipeVars>>

\* Publish; its error is only logged, and Redis forgets an event no connection
\* was there to take.
Publish(w) ==
    /\ writing[w] # <<>>
    /\ \/ Len(wire) < MaxWire /\ wire' = wire \o writing[w]
       \/ WireFaults /\ UNCHANGED wire
    /\ writing' = [writing EXCEPT ![w] = <<>>]
    /\ UNCHANGED <<rev, dispatchVars, connVars, conn, op, cancelled, listening,
                   pipeVars>>

(***************************************************************************)
(* The pump goroutine: safeDispatch, dispatch                              *)
(***************************************************************************)

\* One event off the wire; its channel name says whose it is.  The lock is held
\* until every one of the owner's listeners was tried.
Dispatch ==
    /\ mu = "free"
    /\ wire # <<>>
    /\ mu' = "dispatch"
    /\ event' = <<Head(wire)>>
    /\ wire' = Tail(wire)
    /\ targets' = {c \in listening : User[conn[c]] = Head(wire).p}
    /\ owed' = [c \in Subs |-> IF c \in targets' /\ src[c] = <<>> THEN owed[c] \cup {Head(wire)}
                               ELSE owed[c]]
    /\ UNCHANGED <<writeVars, panicked, connVars, conn, op, cancelled, listening,
                   src, hand, out, seen>>

\* A send to a channel nobody listens on any more is a send on a closed one.
IsClosed(c) == c \notin listening

\* Mutant: the loop ends at the first listener whose buffer is full.
SendStopsAtFull(c) ==
    /\ mu = "dispatch"
    /\ c \in targets
    /\ src' = IF src[c] = <<>> THEN [src EXCEPT ![c] = event] ELSE src
    /\ targets' = IF src[c] = <<>> THEN targets \ {c} ELSE {}
    /\ UNCHANGED <<writeVars, wire, mu, event, panicked, connVars, conn, op,
                   cancelled, listening, hand, out, seen, owed>>

\* select { case out <- p: default: } for one listener, in any order (the
\* listeners are a map).  A send on a closed channel panics; safeDispatch
\* contains it, and the rest of the loop is lost.
Send(c) ==
    /\ mu = "dispatch"
    /\ c \in targets
    /\ IF IsClosed(c)
       THEN /\ panicked' = TRUE
            /\ targets' = {}
            /\ UNCHANGED src
       ELSE /\ src' = IF src[c] = <<>> THEN [src EXCEPT ![c] = event] ELSE src
            /\ targets' = targets \ {c}
            /\ UNCHANGED panicked
    /\ UNCHANGED <<writeVars, wire, mu, event, connVars, conn, op, cancelled,
                   listening, hand, out, seen, owed>>

Unlock ==
    /\ mu = "dispatch"
    /\ targets = {}
    /\ mu' = "free"
    /\ event' = <<>>
    /\ UNCHANGED <<writeVars, wire, targets, panicked, connVars, conn, op,
                   cancelled, listening, pipeVars>>

(***************************************************************************)
(* A subscription: the ProfileUpdated resolver                             *)
(***************************************************************************)

\* acquireSubscription: a slot of the connection's budget, or an error.
Acquire(c, k) ==
    /\ op[c] = "none"
    /\ k \notin closed
    /\ IF slots[k] < Budget
       THEN /\ slots' = [slots EXCEPT ![k] = @ + 1]
            /\ op' = [op EXCEPT ![c] = "acquired"]
       ELSE /\ op' = [op EXCEPT ![c] = "refused"]
            /\ UNCHANGED slots
    /\ conn' = [conn EXCEPT ![c] = k]
    /\ UNCHANGED <<writeVars, wire, dispatchVars, closed, cancelled, listening,
                   pipeVars>>

\* SubscribeForUser registers the channel under mu; the bridge starts.
Register(c) ==
    /\ op[c] = "acquired"
    /\ mu = "free"
    /\ listening' = listening \cup {c}
    /\ op' = [op EXCEPT ![c] = "bridging"]
    /\ UNCHANGED <<writeVars, wire, dispatchVars, connVars, conn, cancelled,
                   pipeVars>>

\* The operation's context ends: the client completed it ...
Complete(c) ==
    /\ op[c] \in Running
    /\ c \notin cancelled
    /\ cancelled' = cancelled \cup {c}
    /\ UNCHANGED <<writeVars, wire, dispatchVars, connVars, conn, op, listening,
                   pipeVars>>

\* ... or its connection closed.
CloseConn(k) ==
    /\ k \notin closed
    /\ closed' = closed \cup {k}
    /\ cancelled' = cancelled \cup {c \in Subs : conn[c] = k /\ op[c] \in Running}
    /\ UNCHANGED <<writeVars, wire, dispatchVars, slots, conn, op, listening,
                   pipeVars>>

\* Mutant: the channel is closed before the lock is taken.
UnsubscribeUnlocked(c) ==
    /\ c \in cancelled /\ c \in listening
    /\ listening' = listening \ {c}
    /\ UNCHANGED <<writeVars, wire, dispatchVars, connVars, conn, op, cancelled,
                   pipeVars>>

\* SubscribeForUser's goroutine: the listener is deleted and its channel closed
\* in one critical section of mu.
Unsubscribe(c) ==
    /\ c \in cancelled /\ c \in listening
    /\ mu = "free"
    /\ listening' = listening \ {c}
    /\ UNCHANGED <<writeVars, wire, dispatchVars, connVars, conn, op, cancelled,
                   pipeVars>>

(***************************************************************************)
(* The bridge goroutine and the client                                     *)
(***************************************************************************)

BridgeTake(c) ==
    /\ op[c] = "bridging"
    /\ hand[c] = <<>> /\ src[c] # <<>>
    /\ hand' = [hand EXCEPT ![c] = src[c]]
    /\ src' = [src EXCEPT ![c] = <<>>]
    /\ UNCHANGED <<writeVars, wire, dispatchVars, connVars, conn, op, cancelled,
                   listening, out, seen, owed>>

\* Mutant: the event sent stays in hand.
BridgeSendKeeps(c) ==
    /\ op[c] = "bridging"
    /\ hand[c] # <<>> /\ out[c] = <<>>
    /\ out' = [out EXCEPT ![c] = hand[c]]
    /\ UNCHANGED <<writeVars, wire, dispatchVars, connVars, conn, op, cancelled,
                   listening, src, hand, seen, owed>>

BridgeSend(c) ==
    /\ op[c] = "bridging"
    /\ hand[c] # <<>> /\ out[c] = <<>>
    /\ out' = [out EXCEPT ![c] = hand[c]]
    /\ hand' = [hand EXCEPT ![c] = <<>>]
    /\ UNCHANGED <<writeVars, wire, dispatchVars, connVars, conn, op, cancelled,
                   listening, src, seen, owed>>

\* Mutant: no ctx.Done beside the send; a full channel holds the bridge.
BridgeEndIdle(c) ==
    /\ op[c] = "bridging"
    /\ c \in cancelled
    /\ hand[c] = <<>>
    /\ op' = [op EXCEPT ![c] = "ended"]
    /\ slots' = [slots EXCEPT ![conn[c]] = @ - 1]
    /\ UNCHANGED <<writeVars, wire, dispatchVars, closed, conn, cancelled,
                   listening, src, hand, out, seen, owed>>

\* ctx is done, or the source is closed and drained: the bridge closes its
\* channel and gives the slot back.
BridgeEnd(c) ==
    /\ op[c] = "bridging"
    /\ c \in cancelled
    /\ op' = [op EXCEPT ![c] = "ended"]
    /\ hand' = [hand EXCEPT ![c] = <<>>]
    /\ slots' = [slots EXCEPT ![conn[c]] = @ - 1]
    /\ UNCHANGED <<writeVars, wire, dispatchVars, closed, conn, cancelled,
                   listening, src, out, seen, owed>>

\* The transport writes an event to the socket, at the client's pace.
Receive(c) ==
    /\ out[c] # <<>>
    /\ seen' = [seen EXCEPT ![c] = out[c]]
    /\ out' = [out EXCEPT ![c] = <<>>]
    /\ owed' = [owed EXCEPT ![c] = @ \ {out[c][1]}]
    /\ UNCHANGED <<writeVars, wire, dispatchVars, connVars, conn, op, cancelled,
                   listening, src, hand>>

\* An operation that is over is forgotten; its name serves another one.
Forget(c) ==
    /\ op[c] = "refused" \/ (op[c] = "ended" /\ c \notin listening)
    /\ op' = [op EXCEPT ![c] = "none"]
    /\ conn' = [conn EXCEPT ![c] = NoConn]
    /\ cancelled' = cancelled \ {c}
    /\ owed' = [owed EXCEPT ![c] = {}]
    /\ src' = [src EXCEPT ![c] = <<>>]
    /\ out' = [out EXCEPT ![c] = <<>>]
    /\ seen' = [seen EXCEPT ![c] = <<>>]
    /\ UNCHANGED <<writeVars, wire, dispatchVars, connVars, listening, hand>>

Pump == Dispatch \/ Unlock \/ \E c \in Subs : Send(c)
Bridge(c) == BridgeTake(c) \/ BridgeSend(c) \/ BridgeEnd(c)

Next ==
    \/ \E w \in Writers : Publish(w) \/ \E p \in Profiles : Commit(w, p)
    \/ Pump
    \/ \E k \in Conns : CloseConn(k) \/ \E c \in Subs : Acquire(c, k)
    \/ \E c \in Subs :
        \/ Register(c)
        \/ Complete(c)
        \/ Unsubscribe(c)
        \/ Bridge(c)
        \/ Receive(c)
        \/ Forget(c)

Spec == Init /\ [][Next]_vars

\* The process's own goroutines keep running.  Locking mu is a strong-fair step:
\* a Go mutex does not starve a waiter; so is BridgeEnd, one of the ready cases
\* of a select.  Nothing is assumed of clients and writers.
ServerFairness ==
    /\ WF_vars(Pump)
    /\ \A c \in Subs :
        /\ SF_vars(Register(c)) /\ SF_vars(Unsubscribe(c))
        /\ WF_vars(BridgeTake(c)) /\ WF_vars(BridgeSend(c)) /\ SF_vars(BridgeEnd(c))
        /\ WF_vars(Forget(c))

ServerSpec == Spec /\ ServerFairness

(***************************************************************************)
(* Properties                                                              *)
(***************************************************************************)

\* pubsub.go, 100: "under mu: dispatch never sends on a closed channel".
NoSendOnClosedChannel == ~panicked

\* While one mutation at a time changes a profile, no subscriber is shown the
\* same state twice or an older one after a newer one.
StatesOnlyAdvance ==
    [][\A c \in Subs :
         out[c] # <<>> /\ out'[c] = <<>> /\ seen[c] # <<>> /\ seen'[c] # <<>>
            => seen'[c][1].v > seen[c][1].v]_vars

\* Whether or not its client reads, an operation that is over gives back its
\* listener, its goroutines and its slot.
NothingLeaks == \A c \in Subs : c \in cancelled ~> op[c] = "none"

\* A client that keeps reading (its channel is empty again and again) hears of
\* each change whose event found room in its buffer when it was dispatched,
\* whatever the other listeners do; one that found none is skipped.
ChangeIsHeard ==
    \A c \in Subs, e \in Event :
        []<>(out[c] = <<>>) => (e \in owed[c] ~> (e \notin owed[c] \/ c \in cancelled))

\* pubsub.go, 149: a full subscriber is skipped because "the event is the
\* profile's latest state": when all is quiet a reading client has that state.
Quiet(c) ==
    /\ wire = <<>> /\ mu = "free" /\ \A w \in Writers : writing[w] = <<>>
    /\ op[c] = "bridging" /\ c \notin cancelled
    /\ src[c] = <<>> /\ hand[c] = <<>> /\ out[c] = <<>>

QuietSubscriberIsCurrent ==
    \A c \in Subs : Quiet(c) /\ seen[c] # <<>> =>
        seen[c][1].v = rev[seen[c][1].p]
=============================================================================
