------------------------- MODULE ProfilePubSubProofs -------------------------
(***************************************************************************)
(* Proofs about ProfilePubSub, for any profiles, connections, operations,  *)
(* writers and bounds: the lock keeps the dispatcher from closed channels, *)
(* the budget is counted right, and events keep their order.               *)
(***************************************************************************)
EXTENDS ProfilePubSub, FiniteSetTheorems, TLAPS

(***************************************************************************)
(* The lock and the budget                                                 *)
(***************************************************************************)

\* The operations that hold a slot of a connection.
Holders(k) == {c \in Subs : conn[c] = k /\ op[c] \in Running}

\* The slots taken of a connection are those of the operations that run on it.
SlotsInv == \A k \in Conns : IsFiniteSet(Holders(k)) /\ slots[k] = Cardinality(Holders(k))

\* An operation belongs to a connection until it is forgotten, and listens no longer.
OpInv == \A c \in Subs :
    /\ op[c] # "none" => conn[c] \in Conns
    /\ c \in listening => op[c] \in {"bridging", "ended"}

\* What the dispatcher has yet to reach listens: the lock is its own meanwhile.
DispatchInv ==
    /\ targets \subseteq listening
    /\ mu = "free" => targets = {} /\ event = <<>>
    /\ mu = "dispatch" => event # <<>>
    /\ ~panicked

PubSubInv == TypeOK /\ SlotsInv /\ OpInv /\ DispatchInv

\* SlotsInv looks at operations and slots only.
LEMMA SlotsUntouched ==
    ASSUME SlotsInv, UNCHANGED <<slots, conn>>,
           \A c \in Subs : op'[c] \in Running <=> op[c] \in Running
    PROVE  SlotsInv'
<1>1. \A k \in Conns : Holders(k)' = Holders(k)
  BY DEF Holders
<1> QED BY <1>1 DEF SlotsInv

\* A process that starts has no subscription.
LEMMA InitHasPubSubInv == Init => PubSubInv
<1> SUFFICES ASSUME Init PROVE PubSubInv
  OBVIOUS
<1>1. TypeOK
  <2>1. wire = <<>> /\ wire \in Seq(Event) /\ Len(wire) <= MaxWire
    BY BoundsAssumption DEF Init
  <2>2. rev \in [Profiles -> 0..MaxRev] /\ slots \in [Conns -> 0..Budget]
    BY BoundsAssumption DEF Init
  <2>3. <<>> \in Slot
    BY DEF Slot
  <2> QED BY <2>1, <2>2, <2>3 DEF Init, TypeOK, Running
<1>2. SlotsInv
  <2>1. \A k \in Conns : Holders(k) = {} /\ slots[k] = 0
    BY UserAssumption DEF Init, Holders, Running
  <2> QED BY <2>1, FS_EmptySet DEF SlotsInv
<1>3. OpInv /\ DispatchInv
  BY DEF Init, OpInv, DispatchInv
<1> QED BY <1>1, <1>2, <1>3 DEF PubSubInv

\* A writer commits a row and publishes its event.
LEMMA WriterKeepsInv ==
    ASSUME PubSubInv, NEW w \in Writers,
           Publish(w) \/ \E p \in Profiles : Commit(w, p)
    PROVE  PubSubInv'
<1>1. UNCHANGED <<dispatchVars, connVars, conn, op, cancelled, listening, pipeVars>>
  BY DEF Publish, Commit
<1>2. SlotsInv' /\ OpInv' /\ DispatchInv'
  BY <1>1, SlotsUntouched DEF PubSubInv, OpInv, DispatchInv, dispatchVars, connVars
<1>3. /\ rev' \in [Profiles -> 0..MaxRev] /\ writing' \in [Writers -> Slot]
      /\ wire' \in Seq(Event) /\ Len(wire') <= MaxWire
  <2>1. CASE Publish(w)
    <3>1. writing[w] \in Slot /\ writing[w] # <<>>
      BY <2>1 DEF Publish, PubSubInv, TypeOK
    <3>2. PICK e \in Event : writing[w] = <<e>>
      BY <3>1 DEF Slot
    <3>3. /\ wire \o <<e>> \in Seq(Event) /\ Len(wire \o <<e>>) = Len(wire) + 1
          /\ Len(wire) \in Nat /\ wire \in Seq(Event) /\ Len(wire) <= MaxWire
      BY DEF PubSubInv, TypeOK
    <3>4. writing' \in [Writers -> Slot] /\ rev' = rev
      BY <2>1 DEF Publish, PubSubInv, TypeOK, Slot
    <3>5. wire' = wire \/ (wire' = wire \o <<e>> /\ Len(wire) < MaxWire)
      BY <2>1, <3>2 DEF Publish
    <3>6. MaxWire \in Nat /\ rev' \in [Profiles -> 0..MaxRev]
      BY <3>4, BoundsAssumption DEF PubSubInv, TypeOK
    <3>7. CASE wire' = wire
      BY <3>3, <3>4, <3>6, <3>7
    <3>8. CASE wire' = wire \o <<e>> /\ Len(wire) < MaxWire
      <4>1. Len(wire') <= MaxWire
        BY <3>3, <3>6, <3>8
      <4> QED BY <3>3, <3>4, <3>6, <3>8, <4>1
    <3> QED BY <3>5, <3>7, <3>8
  <2>2. ASSUME NEW p \in Profiles, Commit(w, p)
        PROVE  /\ rev' \in [Profiles -> 0..MaxRev] /\ writing' \in [Writers -> Slot]
               /\ wire' = wire
    <3>1. rev[p] + 1 \in 1..MaxRev /\ rev \in [Profiles -> 0..MaxRev]
      BY <2>2, BoundsAssumption DEF Commit, PubSubInv, TypeOK
    <3>2. <<[p |-> p, v |-> rev[p] + 1]>> \in Slot
      BY <3>1 DEF Slot, Event
    <3>3. rev' \in [Profiles -> 0..MaxRev]
      BY <2>2, <3>1, BoundsAssumption DEF Commit
    <3> QED BY <2>2, <3>2, <3>3 DEF Commit, PubSubInv, TypeOK
  <2> QED BY <2>1, <2>2 DEF PubSubInv, TypeOK
<1>4. TypeOK'
  BY <1>1, <1>3 DEF PubSubInv, TypeOK, dispatchVars, connVars, pipeVars
<1> QED BY <1>2, <1>4 DEF PubSubInv

\* The pump takes the lock for one event, and lets it go when its loop is over.
LEMMA DispatchKeepsInv ==
    ASSUME PubSubInv, Dispatch \/ Unlock
    PROVE  PubSubInv'
<1>1. UNCHANGED <<writeVars, panicked, connVars, conn, op, cancelled, listening,
                  src, hand, out, seen>>
  BY DEF Dispatch, Unlock, dispatchVars, pipeVars
<1>2. SlotsInv' /\ OpInv'
  BY <1>1, SlotsUntouched DEF PubSubInv, OpInv, connVars
<1>3. CASE Dispatch
  <2>1. wire \in Seq(Event) /\ wire # <<>> /\ Len(wire) <= MaxWire
    BY <1>3 DEF Dispatch, PubSubInv, TypeOK
  <2>2. Head(wire) \in Event /\ Tail(wire) \in Seq(Event) /\ Len(Tail(wire)) = Len(wire) - 1
        /\ Len(wire) \in Nat
    BY <2>1
  <2>3. event' = <<Head(wire)>> /\ event' \in Slot /\ event' # <<>> /\ wire' = Tail(wire)
        /\ mu' = "dispatch" /\ targets' \subseteq listening
    BY <1>3, <2>2 DEF Dispatch, Slot
  <2>7. owed' \in [Subs -> SUBSET Event]
    BY <1>3, <2>2 DEF Dispatch, PubSubInv, TypeOK
  <2>4. Len(wire') <= MaxWire
    BY <2>1, <2>2, <2>3, BoundsAssumption
  <2>5. TypeOK'
    BY <1>1, <2>2, <2>3, <2>4, <2>7 DEF PubSubInv, TypeOK, writeVars, connVars
  <2>6. DispatchInv'
    BY <1>1, <2>3 DEF PubSubInv, DispatchInv
  <2> QED BY <1>2, <2>5, <2>6 DEF PubSubInv
<1>4. CASE Unlock
  <2>1. /\ UNCHANGED <<wire, owed, targets>> /\ mu' = "free" /\ event' = <<>> /\ targets = {}
    BY <1>4 DEF Unlock, pipeVars
  <2>2. TypeOK' /\ DispatchInv'
    BY <1>1, <2>1 DEF PubSubInv, TypeOK, DispatchInv, writeVars, connVars, Slot
  <2> QED BY <1>2, <2>2 DEF PubSubInv
<1> QED BY <1>3, <1>4

\* A listener is sent the event; none of those it has yet to reach is closed.
LEMMA SendKeepsInv ==
    ASSUME PubSubInv, NEW c \in Subs, Send(c)
    PROVE  PubSubInv'
<1>1. UNCHANGED <<writeVars, wire, mu, event, connVars, conn, op, cancelled,
                  listening, hand, out, seen, owed>>
  BY DEF Send
<1>2. ~IsClosed(c)
  BY DEF Send, IsClosed, PubSubInv, DispatchInv
<1>3. /\ src' \in {src, [src EXCEPT ![c] = event]} /\ targets' = targets \ {c}
      /\ panicked' = panicked /\ mu = "dispatch"
  BY <1>2 DEF Send
<1>4. TypeOK'
  BY <1>1, <1>3 DEF PubSubInv, TypeOK, writeVars, connVars
<1>5. SlotsInv' /\ OpInv' /\ DispatchInv'
  BY <1>1, <1>3, SlotsUntouched DEF PubSubInv, OpInv, DispatchInv, connVars
<1> QED BY <1>4, <1>5 DEF PubSubInv

\* A subscription takes a slot of its connection, if there is one.
LEMMA AcquireKeepsInv ==
    ASSUME PubSubInv, NEW c \in Subs, NEW k \in Conns, Acquire(c, k)
    PROVE  PubSubInv'
<1>1. /\ UNCHANGED <<writeVars, wire, dispatchVars, closed, cancelled, listening, pipeVars>>
      /\ op[c] = "none" /\ conn' = [conn EXCEPT ![c] = k]
  BY DEF Acquire
<1>2. /\ op \in [Subs -> {"none", "refused", "ended"} \cup Running]
      /\ conn \in [Subs -> Conns \cup {NoConn}] /\ slots \in [Conns -> 0..Budget]
      /\ c \notin listening
  BY <1>1 DEF PubSubInv, TypeOK, OpInv
<1>3. DispatchInv'
  BY <1>1 DEF PubSubInv, DispatchInv, dispatchVars
<1>4. CASE slots[k] < Budget
  <2>1. /\ slots' = [slots EXCEPT ![k] = @ + 1] /\ op' = [op EXCEPT ![c] = "acquired"]
    BY <1>4 DEF Acquire
  <2>2. slots[k] \in Nat /\ slots[k] + 1 \in 0..Budget
    BY <1>2, <1>4, BoundsAssumption
  <2>3. TypeOK'
    BY <1>1, <1>2, <2>1, <2>2 DEF PubSubInv, TypeOK, writeVars, dispatchVars, pipeVars, Running
  <2>4. OpInv'
    BY <1>1, <1>2, <2>1 DEF PubSubInv, OpInv
  <2>5. SlotsInv'
    <3>1. /\ Holders(k)' = Holders(k) \cup {c} /\ c \notin Holders(k)
          /\ \A j \in Conns : j # k => Holders(j)' = Holders(j)
      BY <1>1, <1>2, <2>1 DEF Holders, Running
    <3>2. IsFiniteSet(Holders(k)) /\ slots[k] = Cardinality(Holders(k))
      BY DEF PubSubInv, SlotsInv
    <3>3. /\ IsFiniteSet(Holders(k) \cup {c})
          /\ Cardinality(Holders(k) \cup {c}) = Cardinality(Holders(k)) + 1
      BY <3>1, <3>2, FS_AddElement
    <3>4. slots'[k] = slots[k] + 1 /\ \A j \in Conns : j # k => slots'[j] = slots[j]
      BY <1>2, <2>1
    <3> QED BY <3>1, <3>2, <3>3, <3>4 DEF PubSubInv, SlotsInv
  <2> QED BY <1>3, <2>3, <2>4, <2>5 DEF PubSubInv
<1>5. CASE ~(slots[k] < Budget)
  <2>1. slots' = slots /\ op' = [op EXCEPT ![c] = "refused"]
    BY <1>5 DEF Acquire
  <2>2. TypeOK'
    BY <1>1, <1>2, <2>1 DEF PubSubInv, TypeOK, writeVars, dispatchVars, pipeVars
  <2>3. OpInv'
    BY <1>1, <1>2, <2>1 DEF PubSubInv, OpInv
  <2>4. \A j \in Conns : Holders(j)' = Holders(j)
    BY <1>1, <1>2, <2>1 DEF Holders, Running
  <2>5. SlotsInv'
    BY <2>1, <2>4 DEF PubSubInv, SlotsInv
  <2> QED BY <1>3, <2>2, <2>3, <2>5 DEF PubSubInv
<1> QED BY <1>4, <1>5

\* Listening begins and ends while nobody dispatches; contexts end at any time.
LEMMA ListenerKeepsInv ==
    ASSUME PubSubInv,
           \/ \E c \in Subs : Register(c) \/ Complete(c) \/ Unsubscribe(c)
           \/ \E k \in Conns : CloseConn(k)
    PROVE  PubSubInv'
<1>1. UNCHANGED <<writeVars, wire, dispatchVars, slots, conn, pipeVars>>
  BY DEF Register, Complete, Unsubscribe, CloseConn, connVars
<1>2. closed' \subseteq Conns /\ cancelled' \subseteq Subs
  BY DEF Register, Complete, Unsubscribe, CloseConn, connVars, PubSubInv, TypeOK
<1>3. CASE op' = op /\ (listening' = listening \/ (mu = "free" /\ listening' \subseteq listening))
  <2>1. TypeOK'
    BY <1>1, <1>2, <1>3 DEF PubSubInv, TypeOK, writeVars, dispatchVars, pipeVars
  <2>2. OpInv' /\ SlotsInv' /\ DispatchInv'
    BY <1>1, <1>3, SlotsUntouched DEF PubSubInv, OpInv, DispatchInv, dispatchVars
  <2> QED BY <2>1, <2>2 DEF PubSubInv
<1>4. CASE \E c \in Subs : Register(c)
  <2>1. PICK c \in Subs : /\ op[c] = "acquired" /\ op' = [op EXCEPT ![c] = "bridging"]
                          /\ listening' = listening \cup {c} /\ mu = "free"
    BY <1>4 DEF Register
  <2>2. op \in [Subs -> {"none", "refused", "ended"} \cup Running]
    BY DEF PubSubInv, TypeOK
  <2>3. \A d \in Subs : op'[d] \in Running <=> op[d] \in Running
    BY <2>1, <2>2 DEF Running
  <2>4. TypeOK'
    BY <1>1, <1>2, <2>1, <2>2 DEF PubSubInv, TypeOK, writeVars, dispatchVars, pipeVars, Running
  <2>5. OpInv' /\ SlotsInv' /\ DispatchInv'
    BY <1>1, <2>1, <2>2, <2>3, SlotsUntouched DEF PubSubInv, OpInv, DispatchInv, dispatchVars
  <2> QED BY <2>4, <2>5 DEF PubSubInv
<1> QED BY <1>3, <1>4 DEF Complete, Unsubscribe, CloseConn, connVars

\* An event moves on towards the client.
LEMMA MoveKeepsInv ==
    ASSUME PubSubInv, NEW c \in Subs, BridgeTake(c) \/ BridgeSend(c) \/ Receive(c)
    PROVE  PubSubInv'
<1>1. UNCHANGED <<writeVars, wire, dispatchVars, connVars, conn, op, cancelled, listening>>
  BY DEF BridgeTake, BridgeSend, Receive
<1>2. /\ src' \in [Subs -> Slot] /\ hand' \in [Subs -> Slot] /\ out' \in [Subs -> Slot]
      /\ seen' \in [Subs -> Slot] /\ owed' \in [Subs -> SUBSET Event]
  BY DEF BridgeTake, BridgeSend, Receive, PubSubInv, TypeOK, Slot
<1>3. TypeOK'
  BY <1>1, <1>2 DEF PubSubInv, TypeOK, writeVars, dispatchVars, connVars
<1>4. SlotsInv' /\ OpInv' /\ DispatchInv'
  BY <1>1, SlotsUntouched DEF PubSubInv, OpInv, DispatchInv, dispatchVars, connVars
<1> QED BY <1>3, <1>4 DEF PubSubInv

\* The bridge ends once and gives back the one slot it had.
LEMMA BridgeEndKeepsInv ==
    ASSUME PubSubInv, NEW c \in Subs, BridgeEnd(c)
    PROVE  PubSubInv'
<1>0. PICK k \in Conns : k = conn[c]
  BY DEF BridgeEnd, PubSubInv, OpInv
<1>1. /\ UNCHANGED <<writeVars, wire, dispatchVars, closed, conn, cancelled, listening,
                     src, out, seen, owed>>
      /\ op[c] = "bridging" /\ op' = [op EXCEPT ![c] = "ended"]
      /\ hand' = [hand EXCEPT ![c] = <<>>] /\ slots' = [slots EXCEPT ![k] = @ - 1]
  BY <1>0 DEF BridgeEnd
<1>2. /\ op \in [Subs -> {"none", "refused", "ended"} \cup Running]
      /\ slots \in [Conns -> 0..Budget]
  BY DEF PubSubInv, TypeOK
<1>3. IsFiniteSet(Holders(k)) /\ slots[k] = Cardinality(Holders(k))
  BY <1>2 DEF PubSubInv, SlotsInv
<1>4. /\ Holders(k)' = Holders(k) \ {c} /\ c \in Holders(k)
      /\ \A j \in Conns : j # k => Holders(j)' = Holders(j)
  BY <1>0, <1>1, <1>2 DEF Holders, Running
<1>5. /\ IsFiniteSet(Holders(k) \ {c})
      /\ Cardinality(Holders(k) \ {c}) = Cardinality(Holders(k)) - 1
      /\ Cardinality(Holders(k) \ {c}) \in Nat
  BY <1>3, <1>4, FS_RemoveElement, FS_CardinalityType
<1>6. slots'[k] = slots[k] - 1 /\ \A j \in Conns : j # k => slots'[j] = slots[j]
  BY <1>1, <1>2
<1>7. slots' \in [Conns -> 0..Budget]
  <2>1. slots[k] - 1 \in 0..Budget
    BY <1>2, <1>3, <1>5, BoundsAssumption
  <2> QED BY <1>1, <1>2, <2>1
<1>8. TypeOK'
  BY <1>1, <1>2, <1>7 DEF PubSubInv, TypeOK, writeVars, dispatchVars, Slot
<1>9. SlotsInv'
  BY <1>3, <1>4, <1>5, <1>6 DEF PubSubInv, SlotsInv
<1>10. OpInv' /\ DispatchInv'
  BY <1>1, <1>2 DEF PubSubInv, OpInv, DispatchInv, dispatchVars
<1> QED BY <1>8, <1>9, <1>10 DEF PubSubInv

\* What is over is forgotten.
LEMMA ForgetKeepsInv ==
    ASSUME PubSubInv, NEW c \in Subs, Forget(c)
    PROVE  PubSubInv'
<1>1. /\ UNCHANGED <<writeVars, wire, dispatchVars, connVars, listening, hand>>
      /\ op[c] \in {"refused", "ended"} /\ op' = [op EXCEPT ![c] = "none"] /\ c \notin listening
      /\ conn' = [conn EXCEPT ![c] = NoConn]
      /\ cancelled' \subseteq cancelled /\ owed' = [owed EXCEPT ![c] = {}]
      /\ src' = [src EXCEPT ![c] = <<>>] /\ out' = [out EXCEPT ![c] = <<>>]
      /\ seen' = [seen EXCEPT ![c] = <<>>]
  BY DEF Forget, PubSubInv, OpInv
<1>2. /\ op \in [Subs -> {"none", "refused", "ended"} \cup Running]
      /\ conn \in [Subs -> Conns \cup {NoConn}]
  BY DEF PubSubInv, TypeOK
<1>3. TypeOK'
  BY <1>1, <1>2 DEF PubSubInv, TypeOK, writeVars, dispatchVars, connVars, Slot
<1>4. \A k \in Conns : Holders(k)' = Holders(k)
  BY <1>1, <1>2 DEF Holders, Running
<1>5. SlotsInv'
  BY <1>1, <1>4 DEF PubSubInv, SlotsInv, connVars
<1>6. OpInv' /\ DispatchInv'
  BY <1>1, <1>2 DEF PubSubInv, OpInv, DispatchInv, dispatchVars
<1> QED BY <1>3, <1>5, <1>6 DEF PubSubInv

\* The invariant is inductive.
LEMMA NextKeepsPubSubInv == PubSubInv /\ [Next]_vars => PubSubInv'
<1> SUFFICES ASSUME PubSubInv, [Next]_vars PROVE PubSubInv'
  OBVIOUS
<1>1. CASE \E w \in Writers : Publish(w) \/ \E p \in Profiles : Commit(w, p)
  BY <1>1, WriterKeepsInv
<1>2. CASE Pump
  BY <1>2, DispatchKeepsInv, SendKeepsInv DEF Pump
<1>3. CASE \E k \in Conns : CloseConn(k) \/ \E c \in Subs : Acquire(c, k)
  BY <1>3, ListenerKeepsInv, AcquireKeepsInv
<1>4. CASE \E c \in Subs : Register(c) \/ Complete(c) \/ Unsubscribe(c)
  BY <1>4, ListenerKeepsInv
<1>5. CASE \E c \in Subs : Bridge(c) \/ Receive(c) \/ Forget(c)
  BY <1>5, MoveKeepsInv, BridgeEndKeepsInv, ForgetKeepsInv DEF Bridge
<1>6. CASE UNCHANGED vars
  BY <1>6, SlotsUntouched DEF vars, dispatchVars, writeVars, connVars, pipeVars, PubSubInv, TypeOK,
     OpInv, DispatchInv
<1> QED BY <1>1, <1>2, <1>3, <1>4, <1>5, <1>6 DEF Next

\* PubSubInv holds in every reachable state.
LEMMA PubSubInvHolds == Spec => []PubSubInv
BY InitHasPubSubInv, NextKeepsPubSubInv, PTL DEF Spec

(***************************************************************************)
(* The order of events                                                     *)
(***************************************************************************)

\* While one mutation at a time changes a profile.
OneMutationPerProfile ==
    \A w, x \in Writers :
        writing[w] # <<>> /\ writing[x] # <<>> /\ writing[w][1].p = writing[x][1].p => w = x

\* Whatever of p has yet to be dispatched is later than v.
Ahead(onWire, unsent, row, p, v) ==
    /\ \A i \in 1..Len(onWire) : onWire[i].p = p => v < onWire[i].v
    /\ \A w \in Writers : unsent[w] # <<>> /\ unsent[w][1].p = p => v < unsent[w][1].v
    /\ v <= row[p]

Before(a, b) == a # <<>> /\ b # <<>> => a[1].v < b[1].v

\* What an operation has on the way to its client is in order, and before
\* anything of its profile that is still to come.
InOrder(toClient, sent, inHand, got) ==
    /\ Before(toClient, sent) /\ Before(toClient, inHand) /\ Before(toClient, got)
    /\ Before(sent, inHand) /\ Before(sent, got) /\ Before(inHand, got)

Held(c) == {seen[c], out[c], hand[c], src[c]}
Owner(c) == User[conn[c]]

PipesInv == \A c \in Subs :
    /\ InOrder(seen[c], out[c], hand[c], src[c])
    /\ op[c] \in {"none", "refused", "acquired"} => \A s \in Held(c) : s = <<>>
    /\ op[c] = "ended" => hand[c] = <<>>
    /\ \A s \in Held(c) : s # <<>> => Ahead(wire, writing, rev, Owner(c), s[1].v)

EventInv ==
    /\ event # <<>> => Ahead(wire, writing, rev, event[1].p, event[1].v)
    /\ \A c \in targets : /\ event[1].p = Owner(c)
                          /\ \A s \in Held(c) : Before(s, event)

\* Events are on the wire in the order of their revisions.
WireInv ==
    /\ \A i, j \in 1..Len(wire) : i < j /\ wire[i].p = wire[j].p => wire[i].v < wire[j].v
    /\ \A i \in 1..Len(wire), w \in Writers :
          writing[w] # <<>> /\ writing[w][1].p = wire[i].p => wire[i].v < writing[w][1].v
    /\ \A i \in 1..Len(wire) : wire[i].v <= rev[wire[i].p]
    /\ \A w \in Writers : writing[w] # <<>> => writing[w][1].v <= rev[writing[w][1].p]

OrderInv == PubSubInv /\ PipesInv /\ EventInv /\ WireInv

\* Before anything is published, OrderInv holds.
LEMMA InitHasOrderInv == Init => OrderInv
<1> SUFFICES ASSUME Init PROVE OrderInv
  OBVIOUS
<1>1. wire = <<>> /\ Len(wire) = 0
  BY DEF Init
<1>2. PipesInv /\ EventInv
  BY DEF Init, PipesInv, EventInv, InOrder, Before, Held
<1>3. WireInv
  <2>1. \A w \in Writers : writing[w] = <<>>
    BY DEF Init
  <2>2. ~\E i \in 1..Len(wire) : TRUE
    BY <1>1
  <2> QED BY <2>1, <2>2 DEF WireInv
<1> QED BY <1>2, <1>3, InitHasPubSubInv DEF OrderInv

\* An event that an operation holds is of a profile.
LEMMA HeldIsTyped ==
    ASSUME PubSubInv, PipesInv, NEW c \in Subs, NEW s \in Held(c), s # <<>>
    PROVE  s[1].v \in Nat /\ Owner(c) \in Profiles /\ op[c] \in {"bridging", "ended"}
<1>1. s \in Slot
  BY DEF Held, PubSubInv, TypeOK
<1>2. PICK e \in Event : s = <<e>>
  BY <1>1 DEF Slot
<1>3. s[1].v \in Nat
  BY <1>2, BoundsAssumption DEF Event
<1>4. op[c] \in {"bridging", "ended"}
  BY DEF PipesInv, PubSubInv, TypeOK, Running
<1>5. conn[c] \in Conns
  BY <1>4 DEF PubSubInv, OpInv
<1> QED BY <1>3, <1>4, <1>5, UserAssumption DEF Owner

\* So is the one being dispatched.
LEMMA EventIsTyped ==
    ASSUME TypeOK, event # <<>>
    PROVE  event[1].p \in Profiles /\ event[1].v \in Nat
<1>1. PICK e \in Event : event = <<e>>
  BY DEF TypeOK, Slot
<1> QED BY <1>1, BoundsAssumption DEF Event

\* What changes rows, writers or the wire alone keeps the pipes in order, if all
\* that was ahead stays ahead.
LEMMA AheadKeepsPipes ==
    ASSUME OrderInv, UNCHANGED <<event, targets, conn, op, src, hand, out, seen>>,
           \A q \in Profiles, v \in Nat :
              Ahead(wire, writing, rev, q, v) => Ahead(wire', writing', rev', q, v)
    PROVE  PipesInv' /\ EventInv'
<1>1. \A c \in Subs : Held(c)' = Held(c) /\ Owner(c)' = Owner(c)
  BY DEF Held, Owner
<1>2. ASSUME NEW c \in Subs, NEW s \in Held(c), s # <<>>
      PROVE  Ahead(wire', writing', rev', Owner(c), s[1].v)
  BY <1>2, HeldIsTyped DEF OrderInv, PipesInv
<1>3. PipesInv'
  BY <1>1, <1>2 DEF OrderInv, PipesInv
<1>4. event # <<>> => Ahead(wire', writing', rev', event[1].p, event[1].v)
  BY EventIsTyped DEF OrderInv, PubSubInv, EventInv
<1>5. EventInv'
  <2>1. targets \subseteq Subs
    BY DEF OrderInv, PubSubInv, TypeOK
  <2>2. \A c \in targets : event[1].p = Owner(c)' /\ \A s \in Held(c)' : Before(s, event)
    BY <1>1, <2>1 DEF OrderInv, EventInv
  <2> QED BY <1>4, <2>2 DEF EventInv
<1> QED BY <1>3, <1>5

\* A commit comes after everything.
LEMMA CommitKeepsOrder ==
    ASSUME OrderInv, NEW w \in Writers, NEW p \in Profiles, Commit(w, p)
    PROVE  PipesInv' /\ EventInv' /\ WireInv'
<1> DEFINE new == <<[p |-> p, v |-> rev[p] + 1]>>
<1>1. /\ UNCHANGED <<wire, event, targets, conn, op, src, hand, out, seen>>
      /\ writing[w] = <<>> /\ rev' = [rev EXCEPT ![p] = @ + 1] /\ writing' = [writing EXCEPT ![w] = new]
  BY DEF Commit, dispatchVars, pipeVars
<1>2. /\ rev \in [Profiles -> 0..MaxRev] /\ writing \in [Writers -> Slot]
      /\ wire \in Seq(Event) /\ rev[p] \in Nat
  BY BoundsAssumption DEF OrderInv, PubSubInv, TypeOK
<1>3. new # <<>> /\ new[1].p = p /\ new[1].v = rev[p] + 1
  OBVIOUS
<1> HIDE DEF new
<1>4. /\ writing'[w] = new /\ \A x \in Writers : x # w => writing'[x] = writing[x]
      /\ \A q \in Profiles : rev'[q] = IF q = p THEN rev[p] + 1 ELSE rev[q]
      /\ \A q \in Profiles : rev[q] \in Nat
  BY <1>1, <1>2, BoundsAssumption
<1>5. \A q \in Profiles, v \in Nat :
         Ahead(wire, writing, rev, q, v) => Ahead(wire', writing', rev', q, v)
  <2> SUFFICES ASSUME NEW q \in Profiles, NEW v \in Nat, Ahead(wire, writing, rev, q, v)
               PROVE  Ahead(wire, writing', rev', q, v)
    BY <1>1
  <2>1. v <= rev'[q] /\ v <= rev[q]
    BY <1>2, <1>4 DEF Ahead
  <2>2. ASSUME NEW x \in Writers, writing'[x] # <<>>, writing'[x][1].p = q
        PROVE  v < writing'[x][1].v
    <3>1. CASE x = w
      BY <1>2, <1>3, <1>4, <2>1, <2>2, <3>1
    <3>2. CASE x # w
      BY <1>4, <2>2, <3>2 DEF Ahead
    <3> QED BY <3>1, <3>2
  <2> QED BY <2>1, <2>2 DEF Ahead
<1>6. WireInv'
  <2>1. \A i \in 1..Len(wire) : wire[i].p \in Profiles /\ wire[i].v \in Nat
    <3>1. \A i \in 1..Len(wire) : wire[i] \in Event
      BY <1>2
    <3>2. \A e \in Event : e.p \in Profiles /\ e.v \in Nat
      BY BoundsAssumption DEF Event
    <3> QED BY <3>1, <3>2
  <2>2. ASSUME NEW i \in 1..Len(wire)
        PROVE  wire[i].v <= rev'[wire[i].p]
    BY <1>4, <2>1 DEF OrderInv, WireInv
  <2>3. ASSUME NEW i \in 1..Len(wire), NEW x \in Writers,
               writing'[x] # <<>>, writing'[x][1].p = wire[i].p
        PROVE  wire[i].v < writing'[x][1].v
    <3>1. CASE x = w
      BY <1>3, <1>4, <2>1, <2>3, <3>1 DEF OrderInv, WireInv
    <3>2. CASE x # w
      BY <1>4, <2>3, <3>2 DEF OrderInv, WireInv
    <3> QED BY <3>1, <3>2
  <2>4. ASSUME NEW x \in Writers, writing'[x] # <<>>
        PROVE  writing'[x][1].v <= rev'[writing'[x][1].p]
    <3>1. CASE x = w
      BY <1>2, <1>3, <1>4, <3>1
    <3>2. CASE x # w
      <4>1. PICK e \in Event : writing[x] = <<e>>
        BY <1>2, <1>4, <2>4, <3>2 DEF Slot
      <4>2. e.v <= rev[e.p] /\ e.p \in Profiles /\ e.v \in Nat
        BY <4>1, BoundsAssumption DEF Event, OrderInv, WireInv
      <4> QED BY <1>4, <3>2, <4>1, <4>2
    <3> QED BY <3>1, <3>2
  <2>5. \A i, j \in 1..Len(wire) : i < j /\ wire[i].p = wire[j].p => wire[i].v < wire[j].v
    BY DEF OrderInv, WireInv
  <2> QED BY <1>1, <2>2, <2>3, <2>4, <2>5 DEF WireInv
<1> QED BY <1>1, <1>5, <1>6, AheadKeepsPipes

\* Nobody else has an event of the profile to publish, so what is published is
\* the last on the wire.
LEMMA PublishKeepsOrder ==
    ASSUME OrderInv, OneMutationPerProfile, NEW w \in Writers, Publish(w)
    PROVE  PipesInv' /\ EventInv' /\ WireInv'
<1>1. /\ UNCHANGED <<rev, event, targets, conn, op, src, hand, out, seen>>
      /\ writing[w] # <<>> /\ writing' = [writing EXCEPT ![w] = <<>>]
      /\ wire' = wire \/ wire' = wire \o writing[w]
  BY DEF Publish, dispatchVars, pipeVars
<1>2. /\ writing \in [Writers -> Slot] /\ wire \in Seq(Event) /\ Len(wire) \in Nat
      /\ \A x \in Writers : x # w => writing'[x] = writing[x]
      /\ writing'[w] = <<>>
  BY <1>1 DEF OrderInv, PubSubInv, TypeOK
<1>3. PICK e \in Event : writing[w] = <<e>>
  BY <1>1, <1>2 DEF Slot
<1>4. PICK n \in Nat : /\ n = Len(wire) /\ \A i \in 1..n : wire'[i] = wire[i] /\ wire[i] \in Event
                       /\ wire' = wire \/ (Len(wire') = n + 1 /\ wire'[n + 1] = e)
  BY <1>1, <1>2, <1>3
<1>5. PICK m \in Nat : /\ m = Len(wire') /\ (m = n \/ (m = n + 1 /\ wire'[m] = e))
  BY <1>4
<1>6. \A i \in 1..m : i \in 1..n \/ (i = m /\ m = n + 1 /\ wire'[i] = e)
  BY <1>4, <1>5
<1>7. \A x \in Writers : writing'[x] # <<>> => x # w /\ writing[x] = writing'[x] /\ writing[x][1].p # e.p
  BY <1>1, <1>2, <1>3 DEF OneMutationPerProfile
<1>8. \A q \in Profiles, v \in Nat :
         Ahead(wire, writing, rev, q, v) => Ahead(wire', writing', rev', q, v)
  <2> SUFFICES ASSUME NEW q \in Profiles, NEW v \in Nat, Ahead(wire, writing, rev, q, v)
               PROVE  Ahead(wire', writing', rev, q, v)
    BY <1>1
  <2>1. \A i \in 1..n : wire[i].p = q => v < wire[i].v
    BY <1>4 DEF Ahead
  <2>2. e.p = q => v < e.v
    BY <1>3 DEF Ahead
  <2>3. \A i \in 1..m : wire'[i].p = q => v < wire'[i].v
    BY <1>4, <1>6, <2>1, <2>2
  <2>4. \A x \in Writers : writing'[x] # <<>> /\ writing'[x][1].p = q => v < writing'[x][1].v
    BY <1>7 DEF Ahead
  <2> QED BY <1>5, <2>3, <2>4 DEF Ahead
<1>9. WireInv'
  <2>1. /\ \A i, j \in 1..n : i < j /\ wire[i].p = wire[j].p => wire[i].v < wire[j].v
        /\ \A i \in 1..n, x \in Writers :
              writing[x] # <<>> /\ writing[x][1].p = wire[i].p => wire[i].v < writing[x][1].v
        /\ \A i \in 1..n : wire[i].v <= rev[wire[i].p]
        /\ \A x \in Writers : writing[x] # <<>> => writing[x][1].v <= rev[writing[x][1].p]
    BY <1>4 DEF OrderInv, WireInv
  <2>2. e.v <= rev[e.p] /\ \A i \in 1..n : wire[i].p = e.p => wire[i].v < e.v
    BY <1>3, <2>1
  <2>3. ASSUME NEW i \in 1..m, NEW j \in 1..m, i < j, wire'[i].p = wire'[j].p
        PROVE  wire'[i].v < wire'[j].v
    <3>1. i \in 1..n
      BY <1>5, <2>3
    <3>2. CASE j \in 1..n
      BY <1>4, <2>1, <2>3, <3>1, <3>2
    <3>3. CASE wire'[j] = e
      BY <1>4, <2>2, <2>3, <3>1, <3>3
    <3> QED BY <1>6, <3>2, <3>3
  <2>4. ASSUME NEW i \in 1..m
        PROVE  /\ \A x \in Writers :
                     writing'[x] # <<>> /\ writing'[x][1].p = wire'[i].p => wire'[i].v < writing'[x][1].v
               /\ wire'[i].v <= rev[wire'[i].p]
    <3>1. CASE i \in 1..n
      BY <1>4, <1>7, <2>1, <3>1
    <3>2. CASE wire'[i] = e
      BY <1>7, <2>2, <3>2
    <3> QED BY <1>6, <3>1, <3>2
  <2>5. \A x \in Writers : writing'[x] # <<>> => writing'[x][1].v <= rev[writing'[x][1].p]
    BY <1>7, <2>1
  <2> QED BY <1>1, <1>5, <2>3, <2>4, <2>5 DEF WireInv
<1> QED BY <1>1, <1>8, <1>9, AheadKeepsPipes

\* The next event is later than what its listeners hold, and earlier than what
\* is left.
LEMMA DispatchKeepsOrder ==
    ASSUME OrderInv, Dispatch
    PROVE  PipesInv' /\ EventInv' /\ WireInv'
<1>1. /\ UNCHANGED <<rev, writing, conn, op, src, hand, out, seen>>
      /\ wire # <<>> /\ event' = <<Head(wire)>> /\ wire' = Tail(wire)
      /\ targets' = {c \in listening : User[conn[c]] = Head(wire).p}
  BY DEF Dispatch, writeVars
<1>2. wire \in Seq(Event) /\ listening \subseteq Subs
  BY DEF OrderInv, PubSubInv, TypeOK
<1>3. PICK n \in Nat : /\ Len(wire) = n + 1 /\ Len(wire') = n /\ wire[1] = Head(wire)
                       /\ \A i \in 1..n : wire'[i] = wire[i + 1]
  <2>1. PICK m \in Nat : m = Len(wire)
    BY <1>2
  <2>2. m # 0
    BY <1>1, <1>2, <2>1
  <2>3. /\ Len(Tail(wire)) = m - 1 /\ wire[1] = Head(wire)
        /\ \A i \in 1..(m - 1) : Tail(wire)[i] = wire[i + 1]
    BY <1>1, <1>2, <2>1
  <2>4. m - 1 \in Nat /\ m = (m - 1) + 1
    BY <2>2
  <2> QED BY <1>1, <2>1, <2>3, <2>4
<1>4. PICK e \in Event : e = Head(wire) /\ wire[1] = e /\ event' = <<e>>
  BY <1>1, <1>2, <1>3
<1>5. 1 \in 1..(n + 1) /\ \A i \in 1..n : i + 1 \in 1..(n + 1) /\ 1 < i + 1
  OBVIOUS
<1>6. ASSUME NEW q, NEW v, Ahead(wire, writing, rev, q, v)
      PROVE  Ahead(wire', writing', rev', q, v) /\ (e.p = q => v < e.v)
  BY <1>1, <1>3, <1>4, <1>5, <1>6 DEF Ahead
<1>7. PipesInv'
  <2>1. \A c \in Subs : Held(c)' = Held(c) /\ Owner(c)' = Owner(c)
    BY <1>1 DEF Held, Owner
  <2>2. \A c \in Subs : \A s \in Held(c) : s # <<>> => Ahead(wire', writing', rev', Owner(c), s[1].v)
    BY <1>6 DEF OrderInv, PipesInv
  <2> QED BY <1>1, <2>1, <2>2 DEF OrderInv, PipesInv
<1>8. EventInv'
  <2>1. Ahead(wire', writing', rev', e.p, e.v)
    BY <1>1, <1>3, <1>4, <1>5 DEF Ahead, OrderInv, WireInv
  <2>2. ASSUME NEW c \in targets', NEW s \in Held(c), s # <<>>
        PROVE  s[1].v < e.v
    <3>1. c \in Subs /\ Owner(c) = e.p
      BY <1>1, <1>2, <1>4, <2>2 DEF Owner
    <3> QED BY <1>6, <2>2, <3>1 DEF OrderInv, PipesInv
  <2>3. \A c \in targets' : Owner(c)' = e.p /\ Held(c)' = Held(c)
    BY <1>1, <1>4 DEF Owner, Held
  <2>4. event' # <<>> /\ event'[1] = e
    BY <1>4
  <2> QED BY <2>1, <2>2, <2>3, <2>4 DEF EventInv, Before
<1>9. WireInv'
  <2>1. ASSUME NEW i \in 1..n, NEW j \in 1..n, i < j, wire'[i].p = wire'[j].p
        PROVE  wire'[i].v < wire'[j].v
    <3>1. i + 1 < j + 1
      BY <2>1
    <3> QED BY <1>3, <1>5, <2>1, <3>1 DEF OrderInv, WireInv
  <2> QED BY <1>1, <1>3, <1>5, <2>1 DEF OrderInv, WireInv
<1> QED BY <1>7, <1>8, <1>9

\* A step that moves the events of one operation keeps the order if the pipe it
\* leaves is in order and holds nothing that was not there or being dispatched.
LEMMA MoveKeepsOrder ==
    ASSUME OrderInv, NEW c \in Subs,
           UNCHANGED <<rev, writing, wire, event>>, targets' \subseteq targets,
           \A d \in Subs : d # c =>
              /\ conn'[d] = conn[d] /\ op'[d] = op[d] /\ src'[d] = src[d] /\ hand'[d] = hand[d]
              /\ out'[d] = out[d] /\ seen'[d] = seen[d],
           InOrder(seen'[c], out'[c], hand'[c], src'[c]),
           \A s \in Held(c)' : s # <<>> =>
              conn'[c] = conn[c] /\ (s \in Held(c) \/ (s = event /\ c \in targets)),
           c \in targets' => conn'[c] = conn[c] /\ \A s \in Held(c)' : s \in Held(c) \cup {<<>>},
           op'[c] \in {"none", "refused", "acquired"} => \A s \in Held(c)' : s = <<>>,
           op'[c] = "ended" => hand'[c] = <<>>
    PROVE  PipesInv' /\ EventInv' /\ WireInv'
<1>1. \A d \in Subs : d # c => Held(d)' = Held(d) /\ Owner(d)' = Owner(d)
  BY DEF Held, Owner
<1>2. targets \subseteq Subs
  BY DEF OrderInv, PubSubInv, TypeOK
<1>3. ASSUME NEW s \in Held(c)', s # <<>>
      PROVE  Ahead(wire, writing, rev, User[conn'[c]], s[1].v)
  <2>1. conn'[c] = conn[c]
    BY <1>3
  <2>2. CASE s \in Held(c)
    BY <1>3, <2>1, <2>2 DEF OrderInv, PipesInv, Owner
  <2>3. CASE s = event /\ c \in targets
    BY <1>3, <2>1, <2>3 DEF OrderInv, EventInv, Owner
  <2> QED BY <1>3, <2>2, <2>3
<1>4. PipesInv'
  <2> SUFFICES ASSUME NEW d \in Subs
               PROVE  /\ InOrder(seen'[d], out'[d], hand'[d], src'[d])
                      /\ op'[d] \in {"none", "refused", "acquired"} => \A s \in Held(d)' : s = <<>>
                      /\ op'[d] = "ended" => hand'[d] = <<>>
                      /\ \A s \in Held(d)' : s # <<>> => Ahead(wire, writing, rev, Owner(d)', s[1].v)
    BY DEF PipesInv
  <2>1. CASE d = c
    BY <1>3, <2>1 DEF Owner
  <2>2. CASE d # c
    BY <1>1, <2>2 DEF OrderInv, PipesInv
  <2> QED BY <2>1, <2>2
<1>5. EventInv'
  <2> SUFFICES ASSUME NEW d \in targets'
               PROVE  event[1].p = Owner(d)' /\ \A s \in Held(d)' : Before(s, event)
    BY DEF OrderInv, EventInv
  <2>1. d \in targets /\ d \in Subs
    BY <1>2
  <2>2. event[1].p = Owner(d) /\ \A s \in Held(d) : Before(s, event)
    BY <2>1 DEF OrderInv, EventInv
  <2>3. CASE d = c
    BY <2>2, <2>3 DEF Owner, Before
  <2>4. CASE d # c
    BY <1>1, <2>1, <2>2, <2>4
  <2> QED BY <2>3, <2>4
<1>6. WireInv'
  BY DEF OrderInv, WireInv
<1> QED BY <1>4, <1>5, <1>6

\* The steps of the bridge and the client, and those that end or begin an
\* operation, keep the order.
LEMMA StepOfOneKeepsOrder ==
    ASSUME OrderInv, NEW c \in Subs,
           \/ Send(c) \/ BridgeTake(c) \/ BridgeSend(c) \/ BridgeEnd(c) \/ Receive(c) \/ Forget(c)
           \/ Register(c) \/ \E k \in Conns : Acquire(c, k)
    PROVE  PipesInv' /\ EventInv' /\ WireInv'
<1>1. /\ src \in [Subs -> Slot] /\ hand \in [Subs -> Slot] /\ out \in [Subs -> Slot]
      /\ seen \in [Subs -> Slot] /\ conn \in [Subs -> Conns \cup {NoConn}]
      /\ op \in [Subs -> {"none", "refused", "ended"} \cup Running]
  BY DEF OrderInv, PubSubInv, TypeOK
<1>2. UNCHANGED <<rev, writing, wire, event>> /\ targets' \subseteq targets
  BY DEF Send, BridgeTake, BridgeSend, BridgeEnd, Receive, Forget, Register, Acquire,
         writeVars, dispatchVars
<1>3. \A d \in Subs : d # c =>
         /\ conn'[d] = conn[d] /\ op'[d] = op[d] /\ src'[d] = src[d] /\ hand'[d] = hand[d]
         /\ out'[d] = out[d] /\ seen'[d] = seen[d]
  BY <1>1 DEF Send, BridgeTake, BridgeSend, BridgeEnd, Receive, Forget, Register, Acquire, pipeVars
<1>4. InOrder(seen[c], out[c], hand[c], src[c])
  BY DEF OrderInv, PipesInv
<1> USE DEF Held
<1>5. CASE Send(c)
  <2>1. /\ UNCHANGED <<hand, out, seen, conn, op>> /\ c \in targets /\ ~(c \in targets')
        /\ src'[c] = src[c] \/ src'[c] = event
    BY <1>1, <1>5 DEF Send
  <2>2. \A s \in Held(c) : Before(s, event)
    BY <2>1 DEF OrderInv, EventInv
  <2>3. c \in listening
    BY <2>1 DEF OrderInv, PubSubInv, DispatchInv
  <2>4. op[c] \in {"bridging", "ended"}
    BY <2>3 DEF OrderInv, PubSubInv, OpInv
  <2>5. InOrder(seen'[c], out'[c], hand'[c], src'[c])
    BY <1>4, <2>1, <2>2 DEF InOrder, Before
  <2>6. op'[c] = "ended" => hand'[c] = <<>>
    BY <2>1 DEF OrderInv, PipesInv
  <2> QED BY <1>2, <1>3, <2>1, <2>4, <2>5, <2>6, MoveKeepsOrder
<1>6. CASE BridgeTake(c) \/ BridgeSend(c) \/ Receive(c)
  <2>1. /\ UNCHANGED <<conn, op>>
        /\ \/ /\ hand[c] = <<>> /\ hand'[c] = src[c] /\ src'[c] = <<>> /\ UNCHANGED <<out, seen>>
              /\ op[c] = "bridging"
           \/ /\ out[c] = <<>> /\ out'[c] = hand[c] /\ hand'[c] = <<>> /\ UNCHANGED <<src, seen>>
              /\ op[c] = "bridging"
           \/ seen'[c] = out[c] /\ out'[c] = <<>> /\ UNCHANGED <<src, hand>> /\ out[c] # <<>>
    BY <1>1, <1>6 DEF BridgeTake, BridgeSend, Receive
  <2>2. InOrder(seen'[c], out'[c], hand'[c], src'[c])
    BY <1>4, <2>1 DEF InOrder, Before
  <2>3. \A s \in Held(c)' : s = <<>> \/ s \in Held(c)
    BY <2>1
  <2>4. op[c] \notin {"none", "refused", "acquired"}
    BY <2>1 DEF OrderInv, PipesInv
  <2>5. op'[c] = "ended" => hand'[c] = <<>>
    BY <2>1 DEF OrderInv, PipesInv
  <2> QED BY <1>2, <1>3, <2>1, <2>2, <2>3, <2>4, <2>5, MoveKeepsOrder
<1>7. CASE BridgeEnd(c)
  <2>1. UNCHANGED <<conn, src, out, seen>> /\ hand'[c] = <<>> /\ op'[c] = "ended"
    BY <1>1, <1>7 DEF BridgeEnd
  <2>2. InOrder(seen'[c], out'[c], hand'[c], src'[c])
    BY <1>4, <2>1 DEF InOrder, Before
  <2>3. \A s \in Held(c)' : s = <<>> \/ s \in Held(c)
    BY <2>1
  <2> QED BY <1>2, <1>3, <2>1, <2>2, <2>3, MoveKeepsOrder
<1>8. CASE Forget(c)
  <2>1. /\ src'[c] = <<>> /\ out'[c] = <<>> /\ seen'[c] = <<>> /\ hand'[c] = <<>>
        /\ op'[c] = "none" /\ c \notin targets
    BY <1>1, <1>8 DEF Forget, OrderInv, PipesInv, PubSubInv, OpInv, DispatchInv
  <2>2. \A s \in Held(c)' : s = <<>>
    BY <2>1
  <2>3. InOrder(seen'[c], out'[c], hand'[c], src'[c])
    BY <2>1 DEF InOrder, Before
  <2> QED BY <1>2, <1>3, <2>1, <2>2, <2>3, MoveKeepsOrder
<1>9. CASE Register(c) \/ \E k \in Conns : Acquire(c, k)
  <2>1. /\ UNCHANGED <<src, hand, out, seen>> /\ op[c] \in {"none", "acquired"} /\ op'[c] # "ended"
    BY <1>1, <1>9 DEF Register, Acquire, pipeVars
  <2>2. c \notin targets
    BY <2>1 DEF OrderInv, PubSubInv, OpInv, DispatchInv
  <2>3. \A s \in Held(c)' : s = <<>>
    BY <2>1 DEF OrderInv, PipesInv
  <2> QED BY <1>2, <1>3, <1>4, <2>1, <2>2, <2>3, MoveKeepsOrder
<1> QED BY <1>5, <1>6, <1>7, <1>8, <1>9

\* The order is kept while one mutation at a time changes a profile.
LEMMA NextKeepsOrderInv == OrderInv /\ OneMutationPerProfile /\ [Next]_vars => OrderInv'
<1> SUFFICES ASSUME OrderInv, OneMutationPerProfile, [Next]_vars PROVE OrderInv'
  OBVIOUS
<1>1. SUFFICES PipesInv' /\ EventInv' /\ WireInv'
  BY NextKeepsPubSubInv DEF OrderInv
<1>2. CASE \E w \in Writers : Publish(w) \/ \E p \in Profiles : Commit(w, p)
  BY <1>2, CommitKeepsOrder, PublishKeepsOrder
<1>3. CASE Dispatch
  BY <1>3, DispatchKeepsOrder
<1>4. CASE \E c \in Subs :
              \/ Send(c) \/ BridgeTake(c) \/ BridgeSend(c) \/ BridgeEnd(c) \/ Receive(c) \/ Forget(c)
              \/ Register(c) \/ \E k \in Conns : Acquire(c, k)
  BY <1>4, StepOfOneKeepsOrder
<1>5. CASE \/ Unlock \/ UNCHANGED vars
           \/ \E c \in Subs : Complete(c) \/ Unsubscribe(c)
           \/ \E k \in Conns : CloseConn(k)
  <2>1. /\ UNCHANGED <<rev, writing, wire, targets, conn, op, src, hand, out, seen>>
        /\ event' = event \/ (event' = <<>> /\ targets = {})
    BY <1>5 DEF Unlock, vars, Complete, Unsubscribe, CloseConn, dispatchVars, writeVars, pipeVars
  <2>2. \A c \in Subs : Held(c)' = Held(c) /\ Owner(c)' = Owner(c)
    BY <2>1 DEF Held, Owner
  <2>3. PipesInv' /\ WireInv'
    BY <2>1, <2>2 DEF OrderInv, PipesInv, WireInv
  <2>4. EventInv'
    <3>1. targets \subseteq Subs
      BY DEF OrderInv, PubSubInv, TypeOK
    <3>2. CASE event' = event
      <4>1. event # <<>> => Ahead(wire', writing', rev', event[1].p, event[1].v)
        BY <2>1 DEF OrderInv, EventInv
      <4>2. \A c \in targets : event[1].p = Owner(c)' /\ \A s \in Held(c)' : Before(s, event)
        BY <2>2, <3>1 DEF OrderInv, EventInv
      <4> QED BY <2>1, <3>2, <4>1, <4>2 DEF EventInv
    <3>3. CASE event' = <<>> /\ targets = {}
      BY <2>1, <3>3 DEF EventInv
    <3> QED BY <2>1, <3>2, <3>3
  <2> QED BY <2>3, <2>4
<1> QED BY <1>2, <1>3, <1>4, <1>5 DEF Next, Pump, Bridge

(***************************************************************************)
(* What follows                                                            *)
(***************************************************************************)

\* Types: buffers hold one event at most, no connection has more subscriptions
\* than its budget, and none gives back a slot that was not taken.
THEOREM PubSubTypes == Spec => []TypeOK
BY PubSubInvHolds, PTL DEF PubSubInv

\* The slots taken of a connection are those of the subscriptions running on it.
\* (acquireSubscription and the bridge's release)
THEOREM SlotsAreCounted == Spec => []SlotsInv
BY PubSubInvHolds, PTL DEF PubSubInv

\* The dispatcher never sends on a closed channel.  (pubsub.go, 100)
THEOREM ChannelsAreOpen == Spec => []NoSendOnClosedChannel
<1>1. PubSubInv => NoSendOnClosedChannel
  BY DEF PubSubInv, DispatchInv, NoSendOnClosedChannel
<1> QED BY <1>1, PubSubInvHolds, PTL

\* While one mutation at a time changes a profile, no subscriber is shown the
\* same state twice or an older one after a newer one, whatever is lost or
\* skipped on the way.  (dispatch, ProfileUpdated's bridge)
THEOREM SubscribersOnlyAdvance == Spec /\ []OneMutationPerProfile => StatesOnlyAdvance
<1>1. ASSUME OrderInv, [Next]_vars, NEW c \in Subs,
             out[c] # <<>>, out'[c] = <<>>, seen[c] # <<>>, seen'[c] # <<>>
      PROVE  seen'[c][1].v > seen[c][1].v
  <2>1. seen'[c] = out[c]
    <3>1. out \in [Subs -> Slot] /\ seen \in [Subs -> Slot]
      BY <1>1 DEF OrderInv, PubSubInv, TypeOK
    <3>2. ASSUME UNCHANGED out PROVE FALSE
      BY <1>1, <3>2
    <3>3. ASSUME NEW d \in Subs, BridgeSend(d) PROVE FALSE
      BY <1>1, <3>1, <3>3 DEF BridgeSend
    <3>4. ASSUME NEW d \in Subs, Forget(d) PROVE FALSE
      BY <1>1, <3>1, <3>4 DEF Forget
    <3>5. ASSUME NEW d \in Subs, Receive(d) PROVE seen'[c] = out[c]
      BY <1>1, <3>1, <3>5 DEF Receive
    <3>6. CASE Next /\ out' # out
      <4>1. \E d \in Subs : BridgeSend(d) \/ Receive(d) \/ Forget(d)
        BY <3>6 DEF Next, Publish, Commit, Pump, Dispatch, Unlock, Send, CloseConn, Acquire,
           Register, Complete, Unsubscribe, Bridge, BridgeTake, BridgeEnd, pipeVars
      <4> QED BY <3>3, <3>4, <3>5, <4>1
    <3> QED BY <1>1, <3>2, <3>6 DEF vars, pipeVars
  <2>2. InOrder(seen[c], out[c], hand[c], src[c])
    BY <1>1 DEF OrderInv, PipesInv
  <2>3. seen[c][1].v < out[c][1].v
    BY <1>1, <2>2 DEF InOrder, Before
  <2>4. seen[c][1].v \in Nat /\ out[c][1].v \in Nat
    BY <1>1, HeldIsTyped DEF OrderInv, Held
  <2> QED BY <2>1, <2>3, <2>4
<1>2. ASSUME OrderInv, [Next]_vars
      PROVE  [\A c \in Subs :
                out[c] # <<>> /\ out'[c] = <<>> /\ seen[c] # <<>> /\ seen'[c] # <<>>
                   => seen'[c][1].v > seen[c][1].v]_vars
  BY <1>1, <1>2
<1>3. Spec /\ []OneMutationPerProfile => []OrderInv
  BY InitHasOrderInv, NextKeepsOrderInv, PTL DEF Spec
<1> QED BY <1>2, <1>3, PTL DEF Spec, StatesOnlyAdvance
=============================================================================
