---------------------------- MODULE SurfaceProofs ----------------------------
(***************************************************************************)
(* Proofs about the HTTP surface: the budgets of Edge, alone and with      *)
(* Session's sockets drawing on them, the life of a socket, and Readiness, *)
(* for any number of clients, sockets and probes, any chain of proxies and *)
(* any budgets, time limits and outages.                                   *)
(***************************************************************************)
EXTENDS Readiness, Session, TLAPS

\* A dependency that changes keeps its type.
LEMMA FlipTypes ==
    ASSUME BackendsTypeOK, NEW d \in Deps, NEW status \in Statuses, Flip(d, status)
    PROVE  /\ dep' \in [Deps -> Statuses] /\ outages' \in 0..MaxOutages /\ now' = now
<1>1. dep' = [dep EXCEPT ![d] = status] /\ now' = now
  BY DEF Flip
<1>2. outages' = outages + 1 /\ outages < MaxOutages /\ outages \in Nat
  BY BackendsAssumption DEF Flip, BackendsTypeOK
<1> QED BY <1>1, <1>2, BackendsAssumption DEF BackendsTypeOK

(***************************************************************************)
(* Arithmetic of budgets                                                   *)
(***************************************************************************)

\* One more pass costs one cost more.
LEMMA OneMore == \A m \in Nat, k \in Nat : m * k \in Nat /\ (m + 1) * k = m * k + k
OBVIOUS

\* Passes that cost more than all but one of n have cost as much as n.
LEMMA FullBurst ==
    ASSUME NEW m \in Nat, NEW n \in Nat, NEW k \in Nat \ {0}, m * k + k > n * k
    PROVE  m * k >= n * k
<1>1. CASE m >= n
  <2>1. PICK d \in Nat : m = n + d
    <3>1. m - n \in Nat /\ m = n + (m - n)
      BY <1>1
    <3> QED BY <3>1
  <2>2. m * k = n * k + d * k /\ d * k \in Nat /\ n * k \in Nat
    BY <2>1
  <2> QED BY <2>2
<1>2. CASE m < n
  <2>1. PICK d \in Nat : n = m + 1 + d
    <3>1. n - (m + 1) \in Nat /\ n = m + 1 + (n - (m + 1))
      BY <1>2
    <3> QED BY <3>1
  <2>2. n * k = m * k + k + d * k /\ d * k \in Nat
    BY <2>1
  <2>3. m * k \in Nat
    OBVIOUS
  <2> QED BY <2>2, <2>3
<1> QED BY <1>1, <1>2

\* What an event costs, and what a full bucket holds.
LEMMA BucketSizes ==
    ASSUME NEW b \in Buckets
    PROVE  /\ Cost(b) \in Nat \ {0}
           /\ Size(b) \in Nat
           /\ \E n \in Nat : Size(b) = n * Cost(b)
BY EdgeAssumption DEF Cost, Size

(***************************************************************************)
(* The client's address                                                    *)
(***************************************************************************)

\* Whatever a client types into its header, the entry the trusted proxies
\* vouch for is the client.
LEMMA ForwardedIsClient ==
    ASSUME NEW c \in Clients, NEW typed \in Typed
    PROVE  ForwardedIP(IF c \in Direct THEN <<>> ELSE Chain(typed, c), Peer(c)) = c
<1> USE EdgeAssumption DEF Addresses
<1>1. CASE c \in Direct
  BY <1>1 DEF ForwardedIP, Peer
<1>2. CASE Hops = 0
  BY <1>2 DEF ForwardedIP, Peer
<1>3. CASE c \notin Direct /\ Hops # 0
  <2> DEFINE vouched == [i \in 1..Hops |-> IF i = 1 THEN c ELSE Proxy]
             chain == Chain(typed, c)
  <2>1. vouched \in Seq(Addresses \cup {Junk}) /\ Len(vouched) = Hops
    OBVIOUS
  <2>2. typed \in Seq(Addresses \cup {Junk}) /\ Len(typed) \in Nat
    OBVIOUS
  <2>3. chain = typed \o vouched
    BY DEF Chain
  <2>4. vouched[1] = c
    BY <1>3
  <2> HIDE DEF vouched, chain
  <2>5. Len(chain) = Len(typed) + Hops /\ chain[Len(typed) + 1] = vouched[1]
    <3> DEFINE S == Addresses \cup {Junk}
    <3>1. \A u, v \in Seq(S) : Len(u) \in Nat /\ Len(u \o v) = Len(u) + Len(v)
                             /\ \A i \in 1..Len(v) : (u \o v)[Len(u) + i] = v[i]
      OBVIOUS
    <3>2. 1 \in 1..Len(vouched)
      BY <1>3, <2>1
    <3>3. typed \in Seq(S) /\ vouched \in Seq(S)
      BY <2>1, <2>2
    <3> HIDE DEF S
    <3>4. /\ Len(typed \o vouched) = Len(typed) + Len(vouched)
          /\ (typed \o vouched)[Len(typed) + 1] = vouched[1]
      BY <3>1, <3>2, <3>3
    <3> QED BY <2>1, <2>3, <3>4
  <2>6. chain # <<>> /\ Len(chain) - Hops + 1 = Len(typed) + 1
    BY <1>3, <2>2, <2>5
  <2>7. ForwardedIP(chain, Peer(c)) = c
    BY <1>3, <2>2, <2>4, <2>5, <2>6 DEF ForwardedIP
  <2> QED BY <1>3, <2>7 DEF chain
<1> QED BY <1>1, <1>2, <1>3

(***************************************************************************)
(* Budgets                                                                 *)
(***************************************************************************)

\* The time bucket b is spent up to, no sooner than now.
Spent(b) == IF tat[b] > now THEN tat[b] ELSE now

\* No bucket owes more than it holds; what has been let through since the
\* counting began has been spent, and from an idle start nothing else has.
SpentInv ==
    /\ since <= now
    /\ \A b \in Buckets : tat[b] <= now + Size(b)
    /\ passed * Cost(watched) <= Spent(watched) - since
    /\ since = 0 => tat[watched] <= now + passed * Cost(watched)

\* A request is charged to its client.
AddressInv == \A c \in Clients : req[c].stage # "none" => req[c].addr = c

EdgeInv == EdgeTypeOK /\ SpentInv /\ AddressInv

\* A client's buckets.
LEMMA KeysAreBuckets ==
    ASSUME NEW a \in Addresses, NEW route
    PROVE  RateKey(route, a) \in Buckets /\ GateKey(a) \in Buckets
BY EdgeAssumption DEF RateKey, GateKey, Buckets, Scopes, Networks

\* Work that is let through on a bucket of its own network's keeps the budgets.
LEMMA LetThroughKeepsSpent ==
    ASSUME EdgeTypeOK, SpentInv, NEW b \in Buckets, NEW at, LetThrough(b, b, at),
           UNCHANGED <<now, since, watched>>
    PROVE  SpentInv' /\ tat' \in [Buckets -> Nat] /\ passed' \in Nat
<1>t. /\ now \in Nat /\ since \in Nat /\ passed \in Nat /\ watched \in Buckets
      /\ tat \in [Buckets -> Nat]
  BY BackendsAssumption DEF EdgeTypeOK, BackendsTypeOK
<1>s. \A d \in Buckets : Cost(d) \in Nat \ {0} /\ Size(d) \in Nat
  BY BucketSizes
<1>1. CASE FailsOpen(at)
  BY <1>1, <1>t DEF FailsOpen, SpentInv, Spent
<1>2. CASE Charge(b, b)
  <2>1. /\ Spent(b) + Cost(b) <= now + Size(b)
        /\ tat' = [tat EXCEPT ![b] = Spent(b) + Cost(b)]
        /\ passed' = IF b = watched THEN passed + 1 ELSE passed
    BY <1>2 DEF Charge, SpentUpTo, Spent
  <2>2. Spent(b) \in Nat /\ Spent(b) >= now /\ Spent(b) >= tat[b] /\ Spent(watched) \in Nat
    BY <1>t DEF Spent
  <2>3. tat' \in [Buckets -> Nat] /\ passed' \in Nat
    BY <2>1, <2>2, <1>t, <1>s
  <2>4. \A d \in Buckets : tat'[d] <= now + Size(d)
    BY <2>1, <2>2, <1>t, <1>s DEF SpentInv
  <2>5. CASE b = watched
    <3> DEFINE cost == Cost(watched)
    <3>1. /\ passed' * cost = passed * cost + cost
          /\ passed * cost \in Nat /\ cost \in Nat
      BY <2>1, <2>5, <1>t, <1>s, OneMore
    <3>2. tat'[watched] = Spent(watched) + cost /\ Spent(watched) >= now
      BY <2>1, <2>2, <2>5, <1>t
    <3>3. Spent(watched)' = Spent(watched) + cost
      BY <3>1, <3>2, <2>2, <1>t DEF Spent
    <3>4. since = 0 => Spent(watched) <= now + passed * cost
      BY <3>1, <1>t DEF SpentInv, Spent
    <3>5. passed' * cost <= Spent(watched)' - since
      BY <3>1, <3>3, <2>2, <1>t DEF SpentInv
    <3>6. since = 0 => tat'[watched] <= now + passed' * cost
      BY <3>1, <3>2, <3>4, <2>2, <1>t
    <3> QED BY <2>3, <2>4, <3>5, <3>6 DEF SpentInv, Cost
  <2>6. CASE b # watched
    <3>1. tat'[watched] = tat[watched] /\ passed' = passed
      BY <2>1, <2>6, <1>t
    <3> QED BY <2>3, <2>4, <3>1 DEF SpentInv, Spent, Cost
  <2> QED BY <2>5, <2>6
<1> QED BY <1>1, <1>2 DEF LetThrough

\* The address a request is charged to is its client's.
LEMMA ArriveKeepsEdgeInv ==
    ASSUME EdgeInv, NEW c \in Clients, NEW route \in Routes, NEW typed \in Typed,
           Arrive(c, route, typed)
    PROVE  EdgeInv'
<1>1. req' = [req EXCEPT ![c] =
                [stage |-> "charge", route |-> route, at |-> now, addr |-> c]]
  BY ForwardedIsClient DEF Arrive
<1>2. req' \in [Clients ->
                  [stage : {"none", "charge", "gate"}, route : Routes \cup {"/livez"},
                   addr : Addresses, at : 0..MaxTime]]
  BY <1>1 DEF EdgeInv, EdgeTypeOK, BackendsTypeOK, Addresses
<1>3. AddressInv'
  BY <1>1 DEF EdgeInv, EdgeTypeOK, AddressInv
<1>4. UNCHANGED <<now, dep, outages, tat, since, watched, passed>>
  BY DEF Arrive, depVars
<1>5. EdgeTypeOK'
  BY <1>2, <1>4 DEF EdgeInv, EdgeTypeOK, BackendsTypeOK
<1> QED BY <1>3, <1>4, <1>5 DEF EdgeInv, SpentInv, Spent, Cost

\* A request is over, or a dev page goes on to its own gate.
LEMMA ReqTypes ==
    ASSUME EdgeTypeOK, AddressInv, NEW c \in Clients,
           Done(c) \/ (req' = [req EXCEPT ![c].stage = "gate", ![c].at = now]
                       /\ req[c].stage # "none")
    PROVE  /\ req' \in [Clients ->
                          [stage : {"none", "charge", "gate"}, route : Routes \cup {"/livez"},
                           addr : Addresses, at : 0..MaxTime]]
           /\ AddressInv'
<1>t. req[c] \in [stage : {"none", "charge", "gate"}, route : Routes \cup {"/livez"},
                  addr : Addresses, at : 0..MaxTime]
  BY DEF EdgeTypeOK
<1>1. CASE Done(c)
  <2>1. NoRequest \in [stage : {"none", "charge", "gate"}, route : Routes \cup {"/livez"},
                       addr : Addresses, at : 0..MaxTime]
    BY BackendsAssumption DEF NoRequest, Addresses
  <2>2. NoRequest.stage = "none"
    BY DEF NoRequest
  <2> QED BY <1>1, <2>1, <2>2 DEF Done, EdgeTypeOK, AddressInv
<1>2. CASE /\ req' = [req EXCEPT ![c].stage = "gate", ![c].at = now]
           /\ req[c].stage # "none"
  <2>1. req' = [req EXCEPT ![c] = [req[c] EXCEPT !.stage = "gate", !.at = now]]
    BY <1>2 DEF EdgeTypeOK
  <2> DEFINE moved == [req[c] EXCEPT !.stage = "gate", !.at = now]
  <2>2. /\ moved \in [stage : {"none", "charge", "gate"}, route : Routes \cup {"/livez"},
                      addr : Addresses, at : 0..MaxTime]
        /\ moved.addr = req[c].addr
    BY <1>t DEF EdgeTypeOK, BackendsTypeOK
  <2> HIDE DEF moved
  <2> QED BY <1>2, <2>1, <2>2 DEF EdgeTypeOK, AddressInv
<1> QED BY <1>1, <1>2

\* The middleware and the gate charge a request to a bucket of its client's.
LEMMA EdgeStepKeepsEdgeInv ==
    ASSUME EdgeInv, NEW c \in Clients, EdgeStep(c)
    PROVE  EdgeInv'
<1> USE DEF EdgeInv
<1>1. UNCHANGED <<now, dep, outages, since, watched>> /\ req[c].stage # "none"
  BY DEF EdgeStep, RateLimit, DevGate, depVars
<1>2. req[c].addr = c /\ c \in Addresses
  BY <1>1 DEF AddressInv, Addresses
<1>3. \/ Done(c)
      \/ (req' = [req EXCEPT ![c].stage = "gate", ![c].at = now] /\ req[c].stage # "none")
  BY <1>1 DEF EdgeStep, RateLimit, DevGate
<1>4. PICK b \in Buckets : LetThrough(b, b, req[c].at) \/ Refused(b)
  <2>1. CASE RateLimit(c)
    BY <2>1, <1>2, KeysAreBuckets DEF RateLimit
  <2>2. CASE DevGate(c)
    BY <2>2, <1>2, KeysAreBuckets DEF DevGate
  <2> QED BY <2>1, <2>2 DEF EdgeStep
<1>5. SpentInv' /\ tat' \in [Buckets -> Nat] /\ passed' \in Nat
  <2>1. CASE Refused(b)
    BY <1>1, <2>1 DEF Refused, SpentInv, Spent, Cost, EdgeTypeOK
  <2> QED BY <1>1, <1>4, <2>1, LetThroughKeepsSpent
<1>6. AddressInv' /\ EdgeTypeOK'
  BY <1>1, <1>3, <1>5, ReqTypes DEF EdgeTypeOK, BackendsTypeOK
<1> QED BY <1>5, <1>6

\* Time refills the buckets: one that owes nothing any more expires.
LEMMA EdgeTickKeepsEdgeInv ==
    ASSUME EdgeInv, EdgeTick
    PROVE  EdgeInv'
<1> USE DEF EdgeInv
<1>t. /\ now \in Nat /\ since \in Nat /\ passed \in Nat /\ watched \in Buckets
      /\ tat \in [Buckets -> Nat]
  BY BackendsAssumption DEF EdgeTypeOK, BackendsTypeOK
<1>1. /\ now' = now + 1 /\ UNCHANGED <<dep, outages, req, since, watched, passed>>
      /\ tat' = [b \in Buckets |-> IF tat[b] <= now + 1 THEN 0 ELSE tat[b]]
      /\ now' \in 0..MaxTime
  BY <1>t, BackendsAssumption DEF EdgeTick, Tick, depVars, EdgeTypeOK, BackendsTypeOK
<1>2. EdgeTypeOK' /\ AddressInv'
  BY <1>1, <1>t DEF EdgeTypeOK, BackendsTypeOK, AddressInv
<1>3. \A b \in Buckets : tat'[b] <= now' + Size(b)
  BY <1>1, <1>t, BucketSizes DEF SpentInv
<1>4. passed * Cost(watched) \in Nat
  BY <1>t, BucketSizes, OneMore
<1>5. Spent(watched)' >= Spent(watched) /\ Spent(watched) \in Nat /\ Spent(watched)' \in Nat
  BY <1>1, <1>t DEF Spent
<1>6. passed' * Cost(watched)' <= Spent(watched)' - since
  BY <1>1, <1>t, <1>4, <1>5 DEF SpentInv, Cost
<1>7. since' = 0 => tat'[watched] <= now' + passed' * Cost(watched)'
  BY <1>1, <1>t, <1>4 DEF SpentInv, Cost
<1>8. since' <= now'
  BY <1>1, <1>t DEF SpentInv
<1> QED BY <1>1, <1>2, <1>3, <1>6, <1>7, <1>8 DEF SpentInv, Cost, Size

\* Every step of the edge keeps the budgets.
LEMMA EdgeNextKeepsEdgeInv ==
    ASSUME EdgeInv, EdgeNext
    PROVE  EdgeInv'
<1>1. CASE \E c \in Clients, route \in Routes, typed \in Typed : Arrive(c, route, typed)
  BY <1>1, ArriveKeepsEdgeInv
<1>2. CASE \E c \in Clients : EdgeStep(c)
  BY <1>2, EdgeStepKeepsEdgeInv
<1>3. CASE StartCounting
  <2>1. /\ since' = now /\ passed' = 0 /\ now > 0
        /\ UNCHANGED <<now, dep, outages, tat, req, watched>>
    BY <1>3 DEF StartCounting, depVars
  <2>2. now \in 0..MaxTime /\ now \in Nat /\ tat \in [Buckets -> Nat] /\ watched \in Buckets
    BY BackendsAssumption DEF EdgeInv, EdgeTypeOK, BackendsTypeOK
  <2>3. 0 * Cost(watched) = 0
    BY <2>2, BucketSizes
  <2>4. EdgeTypeOK' /\ AddressInv'
    BY <2>1, <2>2 DEF EdgeInv, EdgeTypeOK, BackendsTypeOK, AddressInv
  <2> QED BY <2>1, <2>2, <2>3, <2>4 DEF EdgeInv, SpentInv, Spent, Cost, Size
<1>4. CASE \E status \in Statuses : Flip("redis", status) /\ UNCHANGED edgeVars
  <2>1. UNCHANGED <<now, tat, req, since, watched, passed>>
    BY <1>4 DEF Flip, edgeVars
  <2>2. dep' \in [Deps -> Statuses] /\ outages' \in 0..MaxOutages
    BY <1>4, FlipTypes DEF EdgeInv, EdgeTypeOK, Deps
  <2> QED BY <2>1, <2>2 DEF EdgeInv, EdgeTypeOK, BackendsTypeOK, AddressInv,
                           SpentInv, Spent, Cost, Size
<1>5. CASE EdgeTick
  BY <1>5, EdgeTickKeepsEdgeInv
<1> QED BY <1>1, <1>2, <1>3, <1>4, <1>5 DEF EdgeNext

\* At the start nothing has been spent, and nothing was let through.
LEMMA InitEdgeInv == BackendsInit /\ EdgeInit => EdgeInv
<1> SUFFICES ASSUME BackendsInit, EdgeInit PROVE EdgeInv
  OBVIOUS
<1>1. EdgeTypeOK
  BY BackendsAssumption DEF BackendsInit, EdgeInit, EdgeTypeOK, BackendsTypeOK,
                            NoRequest, Addresses, Deps, Statuses
<1>2. AddressInv
  BY DEF EdgeInit, AddressInv, NoRequest
<1>3. 0 * Cost(watched) = 0 /\ \A b \in Buckets : Size(b) \in Nat
  BY BucketSizes DEF EdgeInit
<1>4. SpentInv
  BY <1>3 DEF BackendsInit, EdgeInit, SpentInv, Spent
<1> QED BY <1>1, <1>2, <1>4 DEF EdgeInv

\* What has been spent bounds what was let through.
LEMMA SpentWithinBudget == EdgeInv => WorkIsBudgeted
<1> SUFFICES ASSUME EdgeInv PROVE WorkIsBudgeted
  OBVIOUS
<1>1. /\ now \in Nat /\ since \in Nat /\ passed \in Nat /\ watched \in Buckets
      /\ tat[watched] \in Nat
  BY BackendsAssumption DEF EdgeInv, EdgeTypeOK, BackendsTypeOK
<1>2. passed * Cost(watched) \in Nat /\ Size(watched) \in Nat
  BY <1>1, BucketSizes, OneMore
<1>3. Spent(watched) <= now + Size(watched) /\ Spent(watched) \in Nat
  BY <1>1, <1>2 DEF EdgeInv, SpentInv, Spent
<1> QED BY <1>1, <1>2, <1>3 DEF EdgeInv, SpentInv, WorkIsBudgeted

\* A client who is refused at a bucket has spent all of it.
LEMMA RefusedMeansSpent ==
    ASSUME EdgeInv, since = 0, Refused(watched)
    PROVE  passed * Cost(watched) >= Size(watched)
<1>1. /\ now \in Nat /\ passed \in Nat /\ watched \in Buckets /\ tat[watched] \in Nat
  BY BackendsAssumption DEF EdgeInv, EdgeTypeOK, BackendsTypeOK
<1> DEFINE m == passed
           k == Cost(watched)
<1>2. k \in Nat \ {0} /\ m * k \in Nat
  BY <1>1, BucketSizes, OneMore
<1>3. PICK n \in Nat : Size(watched) = n * k
  BY <1>1, BucketSizes
<1>4. n * k \in Nat
  BY <1>2, <1>3, OneMore
<1>5. Spent(watched) <= now + m * k
  BY <1>1, <1>2 DEF EdgeInv, SpentInv, Spent
<1>6. Spent(watched) + k > now + n * k
  BY <1>3 DEF Refused, SpentUpTo, Spent
<1>7. m * k + k > n * k
  BY <1>1, <1>2, <1>4, <1>5, <1>6 DEF Spent
<1> QED BY <1>1, <1>2, <1>3, <1>7, FullBurst

\* Every reachable state of the edge keeps the budgets.
LEMMA ReachableEdgeInv == EdgeSpec => []EdgeInv
<1>1. EdgeInv /\ [EdgeNext]_<<now, depVars, edgeVars>> => EdgeInv'
  <2> SUFFICES ASSUME EdgeInv, [EdgeNext]_<<now, depVars, edgeVars>> PROVE EdgeInv'
    OBVIOUS
  <2>1. CASE UNCHANGED <<now, depVars, edgeVars>>
    BY <2>1 DEF depVars, edgeVars, EdgeInv, EdgeTypeOK, BackendsTypeOK, AddressInv,
                SpentInv, Spent, Cost, Size
  <2> QED BY <2>1, EdgeNextKeepsEdgeInv
<1> QED BY <1>1, InitEdgeInv, PTL DEF EdgeSpec

\* Every variable of the edge keeps its type.
THEOREM EdgeTypes == EdgeSpec => []EdgeTypeOK
<1>1. EdgeInv => EdgeTypeOK
  BY DEF EdgeInv
<1> QED BY <1>1, ReachableEdgeInv, PTL

\* No network is let through more than its budget refills plus one full burst,
\* whatever its clients write into their headers, for any number of clients and
\* proxies, any budget, and any outages of Redis: what is let through is spent
\* (SpentInv) on the bucket of the client it came from (AddressInv).
THEOREM EdgeWorkIsBudgeted == EdgeSpec => []WorkIsBudgeted
BY SpentWithinBudget, ReachableEdgeInv, PTL

\* What ends a request while Redis is up and nothing is let through is a refusal.
LEMMA EndedUnchargedIsRefused ==
    ASSUME EdgeInv, EdgeNext, NEW c \in Clients, req[c].stage # "none",
           req'[c].stage = "none", dep["redis"] = "up", passed' = passed, since = 0,
           watched = IF req[c].stage = "gate" THEN GateKey(c) ELSE RateKey(req[c].route, c)
    PROVE  Refused(watched)
<1> USE DEF EdgeInv
<1>p. passed \in Nat /\ passed + 1 # passed
  BY DEF EdgeTypeOK
<1>1. PICK d \in Clients : EdgeStep(d)
  <2>1. ~\E e \in Clients, route \in Routes, typed \in Typed : Arrive(e, route, typed)
    BY DEF Arrive, EdgeTypeOK
  <2>2. ~StartCounting
    BY DEF StartCounting
  <2>3. ~(\E status \in Statuses : Flip("redis", status) /\ UNCHANGED edgeVars)
    BY DEF edgeVars
  <2>4. ~EdgeTick
    BY DEF EdgeTick
  <2> QED BY <2>1, <2>2, <2>3, <2>4 DEF EdgeNext
<1>2. d = c
  BY <1>1 DEF EdgeStep, RateLimit, DevGate, Done, EdgeTypeOK
<1>3. req[c].addr = c /\ ~FailsOpen(req[c].at)
  BY DEF AddressInv, FailsOpen
<1>4. ~Charge(watched, watched)
  BY <1>p DEF Charge
<1>5. CASE RateLimit(c)
  <2>1. req[c].stage = "charge"
    BY <1>5 DEF RateLimit
  <2>2. watched = RateKey(req[c].route, c)
    BY <2>1
  <2> QED BY <1>3, <1>4, <1>5, <2>2 DEF RateLimit, LetThrough
<1>6. CASE DevGate(c)
  <2>1. watched = GateKey(c)
    BY <1>6 DEF DevGate
  <2> QED BY <1>3, <1>4, <1>6, <2>1 DEF DevGate, LetThrough
<1> QED BY <1>1, <1>2, <1>5, <1>6 DEF EdgeStep

\* A client is refused only when its own network has spent a full burst, for
\* any number of clients: what was not let through for it was never spent on it.
THEOREM EdgeRefusedForOwnWork == EdgeSpec => RefusedForOwnWork
<1> DEFINE OwnWork(c) ==
      /\ req[c].stage # "none" /\ req'[c].stage = "none"
      /\ dep["redis"] = "up" /\ passed' = passed /\ since = 0
      /\ watched = IF req[c].stage = "gate" THEN GateKey(c) ELSE RateKey(req[c].route, c)
      => passed * Cost(watched) >= Size(watched)
<1>1. ASSUME EdgeInv, EdgeNext, NEW c \in Clients PROVE OwnWork(c)
  BY <1>1, EndedUnchargedIsRefused, RefusedMeansSpent
<1>2. EdgeInv /\ [EdgeNext]_<<now, depVars, edgeVars>> =>
         [\A c \in Clients : OwnWork(c)]_<<now, depVars, edgeVars>>
  BY <1>1
<1> QED BY <1>2, ReachableEdgeInv, PTL DEF EdgeSpec, RefusedForOwnWork

(***************************************************************************)
(* Sockets                                                                 *)
(***************************************************************************)

SocketRec == [stage : {"none", "init", "open"} \cup LookupStages, client : Addresses,
              key : Buckets, at : 0..MaxTime, exp : 0..Never,
              ends : 0..(MaxTime + Skew + 1), user : 0..1]
OpRec == [stage : {"none", "charge", "run"} \cup LookupStages, at : 0..MaxTime, user : 0..1]

\* The stages of a lookup whose token had not expired.
VerifiedStages == LookupStages \ {"verify"}

\* A token that Verify accepts, by its expiry.
InTime(exp) == exp = Never \/ now <= exp + Skew

\* A socket is charged on its client's bucket and ends with its token.
SocketInv(s) ==
    /\ sock[s].key = RateKey("/graphql", sock[s].client)
    /\ sock[s].stage = "open" =>
          sock[s].ends = IF sock[s].exp = Never THEN Never ELSE sock[s].exp + Skew

\* An operation belongs to an open socket; once its token has been verified it
\* goes on not past the token's end, and the copy it writes to Redis, for no more
\* than one call, is of the row as it was when the call began.
OpInv(s, o) ==
    LET x == op[<<s, o>>]
    IN /\ x.stage # "none" => sock[s].stage = "open" /\ x.at <= now
       /\ x.stage = "fill" =>
            /\ now <= x.at + Attempts * RedisReadTimeout
            /\ x.user = rev \/ x.at <= changedAt
       /\ x.stage \in VerifiedStages \cup {"run"} /\ sock[s].exp # Never =>
            now <= sock[s].exp + Skew

SessionInv ==
    /\ SessionTypeOK
    /\ changedAt # Never => rev = 1
    /\ \A s \in Sockets : SocketInv(s)
    /\ \A s \in Sockets, o \in Ops : OpInv(s, o)

\* What the sockets change of themselves.
SocketMoves(s) ==
    \E x \in SocketRec :
        /\ sock' = [sock EXCEPT ![s] = x]
        /\ x.key = RateKey("/graphql", x.client)
        /\ \/ sock[s].stage # "open" /\ x.stage \in {"init"} \cup LookupStages /\ op' = op
           \/ /\ sock[s].stage # "open" /\ x.stage = "open" /\ op' = op
              /\ x.ends = IF x.exp = Never THEN Never ELSE x.exp + Skew
           \/ /\ x.stage = "none"
              /\ op' = [q \in Sockets \X Ops |-> IF q[1] = s THEN NoOp ELSE op[q]]

\* What an operation x of socket s becomes.
OpMovesTo(s, x, y) ==
    \/ y.stage = "none"
    \/ y.stage \in {"charge", "verify"} /\ y.at = now
    \/ /\ y.stage \in VerifiedStages /\ y.at = now
       /\ \/ x.stage \in VerifiedStages
          \/ x.stage = "verify" /\ InTime(sock[s].exp)
       /\ y.stage = "fill" => y.user = rev
    \/ /\ y.stage = "run" /\ y.at = 0 /\ x.stage \in VerifiedStages
       /\ \/ y.user = rev \/ now < changedAt + ProfileTTL + Hold
          \/ x.stage = "fill" /\ y.user = x.user

OpMoves(s) ==
    \E o \in Ops, y \in OpRec :
        /\ sock' = sock /\ op' = [op EXCEPT ![<<s, o>>] = y]
        /\ y.stage # "none" => sock[s].stage = "open"
        /\ OpMovesTo(s, op[<<s, o>>], y)

\* Time and the users' world stand still while a socket moves.
LEMMA SocketStepIsInstant ==
    ASSUME NEW s \in Sockets, SocketStep(s)
    PROVE  UNCHANGED <<now, dep, outages, since, watched, rev, changedAt>>
BY DEF SocketStep, Upgrade, ConnectionInit, InitTimesOut, InitGoesOn, InitFunc, Opens,
       InitRefused, TokenExpires, Close, Send, ChargeOp, RefreshGoesOn, RefreshUser, Runs,
       OpGoes, OpEnds, depVars, edgeVars

\* A lookup goes on from verified to verified, and reads the row to write it.
LEMMA LookupGoesOn ==
    ASSUME NEW x, NEW exp, NEW stage \in LookupStages, NEW user,
           LooksUp(x, exp, stage, user)
    PROVE  /\ x.stage \in LookupStages /\ stage \in VerifiedStages
           /\ \/ x.stage \in VerifiedStages
              \/ x.stage = "verify" /\ InTime(exp)
           /\ stage = "fill" => user = rev
<1>s. stage \in LookupStages /\ "verify" \in LookupStages
  BY DEF LookupStages
<1>1. CASE x.stage = "verify" /\ Verified(exp, stage)
  BY <1>1 DEF Verified, InTime, LookupStages, VerifiedStages
<1>2. ASSUME x.stage # "verify"
      PROVE  x.stage \in VerifiedStages /\ stage \in VerifiedStages
  BY <1>s, <1>2 DEF LooksUp, FromCache, FromDatabase, LookupStages, VerifiedStages
<1>3. stage = "fill" => user = rev
  BY <1>s DEF LooksUp, Verified, FromCache, FromDatabase
<1>4. CASE x.stage = "verify"
  BY <1>1, <1>4 DEF LooksUp
<1>5. CASE x.stage # "verify"
  <2>1. x.stage \in LookupStages
    BY <1>2, <1>5 DEF VerifiedStages
  <2> QED BY <1>2, <1>3, <1>5, <2>1
<1> QED BY <1>4, <1>5

\* It ends with a copy, with the row or with what it wrote.
LEMMA LookupFinds ==
    ASSUME NEW x, NEW exp, NEW user, LooksUp(x, exp, "found", user)
    PROVE  /\ x.stage \in VerifiedStages
           /\ \/ user = rev \/ now < changedAt + ProfileTTL + Hold
              \/ x.stage = "fill" /\ user = x.user
<1> USE DEF LookupStages, VerifiedStages
<1>1. CASE x.stage = "verify" /\ Verified(exp, "found")
  BY <1>1 DEF Verified
<1>2. CASE x.stage = "get" /\ FromCache("found", user)
  BY <1>2 DEF FromCache
<1>3. CASE x.stage = "select" /\ FromDatabase(exp, "found", user)
  BY <1>3 DEF FromDatabase
<1>4. CASE x.stage = "fill" /\ user = x.user
  BY <1>4
<1> QED BY <1>1, <1>2, <1>3, <1>4 DEF LooksUp

\* Every step of a socket is one of those.
LEMMA SocketStepMoves ==
    ASSUME SessionInv, AddressInv, NEW s \in Sockets, SocketStep(s)
    PROVE  SocketMoves(s) \/ OpMoves(s)
<1>t. /\ sock \in [Sockets -> SocketRec] /\ op \in [Sockets \X Ops -> OpRec]
      /\ sock[s] \in SocketRec /\ now \in 0..MaxTime /\ MaxTime \in Nat /\ Skew \in Nat
      /\ Never \in Nat /\ 0 \in 0..MaxTime /\ 0 \in 0..1
  BY BackendsAssumption, SessionAssumption
     DEF SessionInv, SessionTypeOK, EdgeTypeOK, BackendsTypeOK, SocketRec, OpRec, Never
<1>o. ASSUME NEW o \in Ops PROVE op[<<s, o>>] \in OpRec /\ OpInv(s, o)
  BY <1>t DEF SessionInv
<1>k. SocketInv(s)
  BY DEF SessionInv
<1>n. /\ NoSocket \in SocketRec /\ NoSocket.stage = "none" /\ NoOp \in OpRec
      /\ NoOp.stage = "none" /\ NoSocket.key = RateKey("/graphql", NoSocket.client)
  <2>1. RateKey("/graphql", Proxy) \in Buckets /\ Proxy \in Addresses
    BY KeysAreBuckets DEF Addresses
  <2> QED BY <1>t, <2>1 DEF NoSocket, NoOp, SocketRec, OpRec, Never
<1>1. CASE \E c \in Clients : Upgrade(s, c)
  <2> PICK c \in Clients : Upgrade(s, c)
    BY <1>1
  <2>1. req[c].addr = c /\ c \in Addresses /\ RateKey("/graphql", c) \in Buckets
    BY KeysAreBuckets DEF Upgrade, AddressInv, Addresses
  <2> DEFINE x == [NoSocket EXCEPT !.stage = "init", !.client = c,
                                   !.key = RateKey("/graphql", c), !.at = now]
  <2>2. /\ sock' = [sock EXCEPT ![s] = x] /\ sock[s].stage = "none" /\ op' = op
    BY <2>1 DEF Upgrade
  <2>3. x \in SocketRec /\ x.stage = "init" /\ x.client = c /\ x.key = RateKey("/graphql", c)
    BY <1>t, <1>n, <2>1 DEF SocketRec
  <2> HIDE DEF x
  <2> QED BY <2>2, <2>3 DEF SocketMoves
<1>2. CASE \E exp \in Expiries : ConnectionInit(s, exp)
  <2> PICK exp \in Expiries : ConnectionInit(s, exp)
    BY <1>2
  <2> DEFINE x == [sock[s] EXCEPT !.stage = "verify", !.at = now, !.exp = exp]
  <2>1. /\ sock' = [sock EXCEPT ![s] = x] /\ sock[s].stage = "init" /\ op' = op
    BY <1>t DEF ConnectionInit
  <2>2. /\ x \in SocketRec /\ x.stage \in LookupStages /\ x.client = sock[s].client
        /\ x.key = sock[s].key
    BY <1>t, SessionAssumption DEF SocketRec, LookupStages
  <2> HIDE DEF x
  <2> QED BY <1>k, <2>1, <2>2 DEF SocketMoves, SocketInv
<1>3. CASE InitFunc(s)
  <2> DEFINE ends == IF sock[s].exp = Never THEN Never ELSE sock[s].exp + Skew
  <2>1. PICK user \in 0..1 :
           /\ LooksUp(sock[s], sock[s].exp, "found", user)
           /\ sock' = [sock EXCEPT ![s].stage = "open", ![s].user = user, ![s].ends = ends]
    BY <1>3 DEF InitFunc, Opens
  <2> DEFINE x == [sock[s] EXCEPT !.stage = "open", !.user = user, !.ends = ends]
  <2>2. /\ sock' = [sock EXCEPT ![s] = x] /\ sock[s].stage # "open" /\ op' = op
    BY <1>t, <1>3, <2>1 DEF InitFunc, Opens, LooksUp
  <2>3. ends \in 0..(MaxTime + Skew + 1)
    BY <1>t DEF SocketRec, Never
  <2>4. /\ x \in SocketRec /\ x.stage = "open" /\ x.client = sock[s].client
        /\ x.key = sock[s].key /\ x.exp = sock[s].exp /\ x.ends = ends
    BY <1>t, <2>3 DEF SocketRec
  <2>5. x.ends = IF x.exp = Never THEN Never ELSE x.exp + Skew
    BY <2>4
  <2> HIDE DEF x, ends
  <2> QED BY <1>k, <2>2, <2>4, <2>5 DEF SocketMoves, SocketInv
<1>3a. CASE InitGoesOn(s)
  <2>1. PICK stage \in LookupStages, user \in 0..1 :
           /\ LooksUp(sock[s], sock[s].exp, stage, user)
           /\ sock' = [sock EXCEPT ![s].stage = stage, ![s].at = now, ![s].user = user]
    BY <1>3a DEF InitGoesOn
  <2> DEFINE x == [sock[s] EXCEPT !.stage = stage, !.at = now, !.user = user]
  <2>2. /\ sock' = [sock EXCEPT ![s] = x] /\ sock[s].stage # "open" /\ op' = op
    BY <1>t, <1>3a, <2>1 DEF InitGoesOn, LooksUp
  <2>3. /\ x \in SocketRec /\ x.stage \in LookupStages /\ x.client = sock[s].client
        /\ x.key = sock[s].key
    BY <1>t DEF SocketRec
  <2> HIDE DEF x
  <2> QED BY <1>k, <2>2, <2>3 DEF SocketMoves, SocketInv
<1>4. CASE InitTimesOut(s) \/ InitRefused(s) \/ TokenExpires(s) \/ Close(s)
  <2>1. /\ sock' = [sock EXCEPT ![s] = NoSocket]
        /\ op' = [q \in DOMAIN op |-> IF q[1] = s THEN NoOp ELSE op[q]]
    BY <1>4 DEF InitTimesOut, InitRefused, TokenExpires, Close
  <2>2. DOMAIN op = Sockets \X Ops
    BY <1>t
  <2> QED BY <1>n, <2>1, <2>2 DEF SocketMoves
<1>5. ASSUME NEW o \in Ops, Send(s, o) PROVE OpMoves(s)
  <2> DEFINE y == [NoOp EXCEPT !.stage = "charge", !.at = now]
  <2>1. sock' = sock /\ op' = [op EXCEPT ![<<s, o>>] = y] /\ sock[s].stage = "open"
    BY <1>5 DEF Send
  <2>2. y \in OpRec /\ y.stage = "charge" /\ y.at = now
    BY <1>t DEF NoOp, OpRec
  <2> HIDE DEF y
  <2> QED BY <2>1, <2>2 DEF OpMoves, OpMovesTo
<1>6. ASSUME NEW o \in Ops, ChargeOp(s, o) PROVE OpMoves(s)
  <2>1. PICK stage \in {"none", "verify"} : OpGoes(s, o, stage)
    BY <1>6 DEF ChargeOp
  <2> DEFINE y == [NoOp EXCEPT !.stage = stage, !.at = now]
  <2>2. sock' = sock /\ op' = [op EXCEPT ![<<s, o>>] = y]
    BY <2>1 DEF OpGoes
  <2>3. sock[s].stage = "open"
    BY <1>6, <1>o DEF ChargeOp, OpInv
  <2>4. y \in OpRec /\ y.stage = stage /\ y.at = now
    BY <1>t DEF NoOp, OpRec, LookupStages
  <2> HIDE DEF y
  <2> QED BY <2>1, <2>2, <2>3, <2>4 DEF OpMoves, OpMovesTo
<1>7. ASSUME NEW o \in Ops, RefreshGoesOn(s, o) PROVE OpMoves(s)
  <2>1. PICK stage \in LookupStages, user \in 0..1 :
           /\ LooksUp(op[<<s, o>>], sock[s].exp, stage, user)
           /\ op' = [op EXCEPT ![<<s, o>>] = [stage |-> stage, at |-> now, user |-> user]]
    BY <1>7 DEF RefreshGoesOn
  <2> DEFINE y == [stage |-> stage, at |-> now, user |-> user]
  <2>2. y \in OpRec /\ y.stage = stage /\ y.at = now /\ y.user = user
    BY <1>t DEF OpRec
  <2>3. sock' = sock /\ sock[s].exp \in 0..Never
    BY <1>t, <1>7 DEF RefreshGoesOn, SocketRec
  <2>4. OpMovesTo(s, op[<<s, o>>], y) /\ op[<<s, o>>].stage \in LookupStages
    <3> HIDE DEF y
    <3> QED BY <2>1, <2>2, <2>3, LookupGoesOn DEF OpMovesTo
  <2>5. sock[s].stage = "open"
    BY <1>o, <2>4 DEF OpInv, LookupStages
  <2> QED BY <2>1, <2>2, <2>3, <2>4, <2>5 DEF OpMoves
<1>7a. ASSUME NEW o \in Ops, RefreshUser(s, o) PROVE OpMoves(s)
  <2>1. PICK user \in 0..1 : LooksUp(op[<<s, o>>], sock[s].exp, "found", user) /\ Runs(s, o, user)
    BY <1>7a DEF RefreshUser
  <2> DEFINE y == [NoOp EXCEPT !.stage = "run", !.user = user]
  <2>2. sock' = sock /\ op' = [op EXCEPT ![<<s, o>>] = y] /\ sock[s].exp \in 0..Never
    BY <1>t, <2>1 DEF Runs, SocketRec
  <2>3. y \in OpRec /\ y.stage = "run" /\ y.user = user /\ y.at = 0
    BY <1>t DEF NoOp, OpRec
  <2>4. OpMovesTo(s, op[<<s, o>>], y) /\ op[<<s, o>>].stage \in VerifiedStages
    <3> HIDE DEF y
    <3> QED BY <2>1, <2>2, <2>3, LookupFinds DEF OpMovesTo
  <2>5. sock[s].stage = "open"
    BY <1>o, <2>4 DEF OpInv, VerifiedStages, LookupStages
  <2> HIDE DEF y
  <2> QED BY <2>2, <2>3, <2>4, <2>5 DEF OpMoves
<1>8. ASSUME NEW o \in Ops, OpEnds(s, o) PROVE OpMoves(s)
  BY <1>8, <1>n DEF OpEnds, OpMoves, OpMovesTo
<1> QED BY <1>1, <1>2, <1>3, <1>3a, <1>4, <1>5, <1>6, <1>7, <1>7a, <1>8 DEF SocketStep

\* A moving socket keeps the types of all sockets and operations.
LEMMA SocketMovesKeepTypes ==
    ASSUME SessionInv, NEW s \in Sockets, SocketMoves(s) \/ OpMoves(s)
    PROVE  /\ sock' \in [Sockets -> SocketRec]
           /\ op' \in [Sockets \X Ops -> OpRec]
<1>t. sock \in [Sockets -> SocketRec] /\ op \in [Sockets \X Ops -> OpRec]
  BY DEF SessionInv, SessionTypeOK, SocketRec, OpRec
<1>1. CASE SocketMoves(s)
  <2>1. NoOp \in OpRec
    BY BackendsAssumption DEF NoOp, OpRec
  <2>2. PICK x \in SocketRec :
          /\ sock' = [sock EXCEPT ![s] = x]
          /\ \/ op' = op
             \/ op' = [q \in Sockets \X Ops |-> IF q[1] = s THEN NoOp ELSE op[q]]
    BY <1>1 DEF SocketMoves
  <2>3. sock' \in [Sockets -> SocketRec]
    BY <1>t, <2>2
  <2>4. op' \in [Sockets \X Ops -> OpRec]
    BY <1>t, <2>1, <2>2
  <2> QED BY <2>3, <2>4
<1>2. CASE OpMoves(s)
  BY <1>2, <1>t DEF OpMoves
<1> QED BY <1>1, <1>2

\* And what is promised of them.
LEMMA SocketMovesKeepInv ==
    ASSUME SessionInv, NEW s \in Sockets, SocketMoves(s) \/ OpMoves(s),
           UNCHANGED <<now, rev, changedAt>>, NEW t \in Sockets
    PROVE  SocketInv(t)' /\ \A o \in Ops : OpInv(t, o)'
<1>t. /\ sock \in [Sockets -> SocketRec] /\ op \in [Sockets \X Ops -> OpRec]
      /\ now \in 0..MaxTime /\ MaxTime \in Nat
      /\ Attempts * RedisReadTimeout \in Nat
  BY BackendsAssumption, SessionAssumption, EdgeAssumption
     DEF SessionInv, SessionTypeOK, EdgeTypeOK, BackendsTypeOK, SocketRec, OpRec
<1>i. SocketInv(t) /\ \A o \in Ops : OpInv(t, o)
  BY DEF SessionInv
<1>1. CASE SocketMoves(s)
  <2>1. PICK x \in SocketRec :
          /\ sock' = [sock EXCEPT ![s] = x]
          /\ x.key = RateKey("/graphql", x.client)
          /\ \/ /\ sock[s].stage # "open" /\ x.stage \in {"init"} \cup LookupStages
                /\ op' = op
             \/ /\ sock[s].stage # "open" /\ x.stage = "open" /\ op' = op
                /\ x.ends = IF x.exp = Never THEN Never ELSE x.exp + Skew
             \/ /\ x.stage = "none"
                /\ op' = [q \in Sockets \X Ops |-> IF q[1] = s THEN NoOp ELSE op[q]]
    BY <1>1 DEF SocketMoves
  <2>2. CASE t # s
    <3>1. sock'[t] = sock[t] /\ \A o \in Ops : op'[<<t, o>>] = op[<<t, o>>]
      BY <1>t, <2>1, <2>2
    <3> QED BY <1>i, <3>1 DEF SocketInv, OpInv
  <2>3. CASE t = s
    <3>1. sock'[t] = x
      BY <1>t, <2>1, <2>3
    <3>2. SocketInv(t)'
      BY <2>1, <3>1 DEF SocketInv, LookupStages
    <3>3. ASSUME NEW o \in Ops PROVE op'[<<t, o>>].stage = "none"
      <4>1. CASE op' = op /\ sock[s].stage # "open"
        BY <4>1, <1>i, <2>3 DEF OpInv
      <4>2. CASE op' = [q \in Sockets \X Ops |-> IF q[1] = s THEN NoOp ELSE op[q]]
        BY <4>2, <2>3 DEF NoOp
      <4> QED BY <2>1, <4>1, <4>2
    <3> QED BY <3>2, <3>3 DEF OpInv, VerifiedStages, LookupStages
  <2> QED BY <2>2, <2>3
<1>2. CASE OpMoves(s)
  <2>1. PICK p \in Ops, y \in OpRec :
          /\ sock' = sock /\ op' = [op EXCEPT ![<<s, p>>] = y]
          /\ y.stage # "none" => sock[s].stage = "open"
          /\ OpMovesTo(s, op[<<s, p>>], y)
    BY <1>2 DEF OpMoves
  <2>2. SocketInv(t)'
    BY <1>i, <2>1 DEF SocketInv
  <2>3. ASSUME NEW o \in Ops PROVE OpInv(t, o)'
    <3>1. CASE <<t, o>> # <<s, p>>
      <4>1. op'[<<t, o>>] = op[<<t, o>>]
        BY <1>t, <2>1, <3>1
      <4> QED BY <1>i, <2>1, <4>1 DEF OpInv
    <3>2. CASE t = s /\ o = p
      <4>1. op'[<<t, o>>] = y
        BY <1>t, <2>1, <3>2
      <4>2. OpInv(t, o)
        BY <1>i
      <4>3. now >= 0 /\ now <= now + Attempts * RedisReadTimeout
        BY <1>t
      <4>4. y.stage # "none" => sock[s].stage = "open" /\ y.at <= now
        BY <1>t, <2>1, <4>3 DEF OpMovesTo
      <4>5. y.stage = "fill" => now <= y.at + Attempts * RedisReadTimeout /\ y.user = rev
        BY <2>1, <4>3 DEF OpMovesTo, VerifiedStages
      <4>6. y.stage \in VerifiedStages \cup {"run"} /\ sock[s].exp # Never =>
               now <= sock[s].exp + Skew
        BY <2>1, <3>2, <4>2 DEF OpMovesTo, OpInv, InTime, VerifiedStages, LookupStages
      <4> QED BY <2>1, <3>2, <4>1, <4>4, <4>5, <4>6 DEF OpInv
    <3> QED BY <3>1, <3>2
  <2> QED BY <2>2, <2>3
<1> QED BY <1>1, <1>2

\* The sockets charge their operations as the edge charges its requests.
LEMMA SocketStepKeepsEdgeInv ==
    ASSUME EdgeInv, SessionInv, NEW s \in Sockets, SocketStep(s)
    PROVE  EdgeInv'
<1> USE DEF EdgeInv
<1>u. UNCHANGED <<now, dep, outages, since, watched>>
  BY SocketStepIsInstant
<1>k. sock[s].key = RateKey("/graphql", sock[s].client) /\ sock[s].client \in Addresses
  BY DEF SessionInv, SocketInv, SessionTypeOK
<1>1. CASE \E c \in Clients : Upgrade(s, c)
  <2> PICK c \in Clients : Upgrade(s, c)
    BY <1>1
  <2>1. req[c].addr = c /\ c \in Addresses
    BY DEF Upgrade, AddressInv, Addresses
  <2> DEFINE b == RateKey("/graphql", c)
  <2>2. b \in Buckets /\ LetThrough(b, b, req[c].at) /\ Done(c)
    BY <2>1, KeysAreBuckets DEF Upgrade
  <2> HIDE DEF b
  <2>3. SpentInv' /\ tat' \in [Buckets -> Nat] /\ passed' \in Nat
    BY <1>u, <2>2, LetThroughKeepsSpent
  <2>4. AddressInv' /\ EdgeTypeOK'
    BY <1>u, <2>2, <2>3, ReqTypes DEF EdgeTypeOK, BackendsTypeOK
  <2> QED BY <2>3, <2>4
<1>2. CASE \E o \in Ops : ChargeOp(s, o)
  <2> PICK o \in Ops : ChargeOp(s, o)
    BY <1>2
  <2> DEFINE b == RateKey("/graphql", sock[s].client)
  <2>1. b \in Buckets /\ (LetThrough(b, b, op[<<s, o>>].at) \/ Refused(b)) /\ req' = req
    BY <1>k, KeysAreBuckets DEF ChargeOp, OpGoes
  <2> HIDE DEF b
  <2>2. SpentInv' /\ tat' \in [Buckets -> Nat] /\ passed' \in Nat
    <3>1. CASE Refused(b)
      BY <1>u, <3>1 DEF Refused, SpentInv, Spent, Cost, EdgeTypeOK
    <3> QED BY <1>u, <2>1, <3>1, LetThroughKeepsSpent
  <2> QED BY <1>u, <2>1, <2>2 DEF EdgeTypeOK, BackendsTypeOK, AddressInv
<1>3. CASE UNCHANGED <<tat, req, passed>>
  BY <1>u, <1>3 DEF EdgeTypeOK, BackendsTypeOK, AddressInv, SpentInv, Spent, Cost
<1>4. \/ \E c \in Clients : Upgrade(s, c)
      \/ \E o \in Ops : ChargeOp(s, o)
      \/ UNCHANGED <<tat, req, passed>>
  BY DEF SocketStep, ConnectionInit, InitTimesOut, InitGoesOn, InitFunc, Opens,
         InitRefused, TokenExpires, Close, Send, RefreshGoesOn, RefreshUser, Runs, OpEnds,
         edgeVars
<1> QED BY <1>1, <1>2, <1>3, <1>4

\* Time passes no token's end and no operation's call of Redis.
LEMMA EdgeNextKeepsSessionInv ==
    ASSUME EdgeInv, SessionInv, EdgeNext, EdgeTypeOK', now' # now => SocketsWait,
           UNCHANGED sessionVars
    PROVE  SessionInv'
<1>t. /\ sock \in [Sockets -> SocketRec] /\ op \in [Sockets \X Ops -> OpRec]
      /\ now \in 0..MaxTime /\ MaxTime \in Nat /\ Skew \in Nat
      /\ Attempts * RedisReadTimeout \in Nat
  BY BackendsAssumption, SessionAssumption, EdgeAssumption
     DEF SessionInv, SessionTypeOK, EdgeTypeOK, BackendsTypeOK, SocketRec, OpRec
<1>u. UNCHANGED <<sock, op, rev, changedAt>>
  BY DEF sessionVars
<1>n. now' = now \/ (now' = now + 1 /\ now < MaxTime)
  BY DEF EdgeNext, Arrive, EdgeStep, RateLimit, DevGate, StartCounting, Flip, EdgeTick,
         Tick
<1>1. SessionTypeOK'
  BY <1>u DEF SessionInv, SessionTypeOK
<1>2. ASSUME NEW s \in Sockets PROVE SocketInv(s)'
  BY <1>u DEF SessionInv, SocketInv
<1>3. ASSUME NEW s \in Sockets, NEW o \in Ops PROVE OpInv(s, o)'
  <2>1. SocketInv(s) /\ OpInv(s, o) /\ sock[s] \in SocketRec /\ op[<<s, o>>] \in OpRec
    BY <1>t DEF SessionInv
  <2>2. CASE now' = now
    BY <1>u, <2>1, <2>2 DEF OpInv
  <2>3. CASE now' # now
    <3>1. now' = now + 1 /\ now < MaxTime
      BY <1>n, <2>3
    <3>2. /\ sock[s].stage = "open" => sock[s].ends = Never \/ now < sock[s].ends
          /\ op[<<s, o>>].stage = "fill" => ~CallOver(op[<<s, o>>].at)
      BY <1>t, <2>3 DEF SocketsWait, LookupWaits, LookupStages
    <3>3. op[<<s, o>>].stage = "fill" =>
             now + 1 <= op[<<s, o>>].at + Attempts * RedisReadTimeout
      BY <1>t, <2>1, <3>2 DEF CallOver, OpRec
    <3>4. op[<<s, o>>].stage \in VerifiedStages \cup {"run"} /\ sock[s].exp # Never =>
             now + 1 <= sock[s].exp + Skew
      BY <1>t, <2>1, <3>1, <3>2 DEF OpInv, SocketInv, SocketRec, Never, VerifiedStages,
         LookupStages
    <3> QED BY <1>t, <1>u, <2>1, <3>1, <3>3, <3>4 DEF OpInv, OpRec
  <2> QED BY <2>2, <2>3
<1> QED BY <1>u, <1>1, <1>2, <1>3 DEF SessionInv

\* Every reachable state of the surface keeps the budgets and the promises.
LEMMA ReachableSessionInv == SessionSpec => [](EdgeInv /\ SessionInv)
<1> DEFINE allVars == <<now, depVars, edgeVars, sessionVars>>
<1>1. BackendsInit /\ EdgeInit /\ SessionInit => EdgeInv /\ SessionInv
  <2> SUFFICES ASSUME BackendsInit, EdgeInit, SessionInit PROVE EdgeInv /\ SessionInv
    OBVIOUS
  <2>1. EdgeInv
    BY InitEdgeInv
  <2>2. /\ RateKey("/graphql", Proxy) \in Buckets /\ Proxy \in Addresses
        /\ MaxTime \in Nat /\ Skew \in Nat
    BY KeysAreBuckets, BackendsAssumption, SessionAssumption DEF Addresses
  <2>3. NoSocket \in SocketRec /\ NoOp \in OpRec
    BY <2>2 DEF NoSocket, NoOp, SocketRec, OpRec, Never
  <2>4. SessionTypeOK
    BY <2>1, <2>2, <2>3 DEF EdgeInv, SessionInit, SessionTypeOK, SocketRec, OpRec, Never
  <2>5. ASSUME NEW s \in Sockets PROVE SocketInv(s)
    BY DEF SessionInit, SocketInv, NoSocket
  <2>6. ASSUME NEW s \in Sockets, NEW o \in Ops PROVE OpInv(s, o)
    <3>1. op[<<s, o>>].stage = "none"
      BY DEF SessionInit, NoOp
    <3> QED BY <3>1 DEF OpInv, VerifiedStages, LookupStages
  <2> QED BY <2>1, <2>4, <2>5, <2>6 DEF SessionInv, SessionInit
<1>2. EdgeInv /\ SessionInv /\ [SessionNext]_allVars => (EdgeInv /\ SessionInv)'
  <2> SUFFICES ASSUME EdgeInv, SessionInv, [SessionNext]_allVars
               PROVE  (EdgeInv /\ SessionInv)'
    OBVIOUS
  <2>1. ASSUME UNCHANGED <<now, depVars, edgeVars>> PROVE EdgeInv'
    BY <2>1 DEF depVars, edgeVars, EdgeInv, EdgeTypeOK, BackendsTypeOK, AddressInv,
                SpentInv, Spent, Cost, Size
  <2>2. CASE UNCHANGED allVars
    <3>1. EdgeInv'
      BY <2>1, <2>2
    <3>2. UNCHANGED <<now, sock, op, rev, changedAt>>
      BY <2>2 DEF sessionVars
    <3> QED BY <3>1, <3>2 DEF EdgeInv, SessionInv, SessionTypeOK, SocketInv, OpInv
  <2>3. ASSUME NEW s \in Sockets, SocketStep(s) PROVE (EdgeInv /\ SessionInv)'
    <3>1. EdgeInv'
      BY <2>3, SocketStepKeepsEdgeInv
    <3>2. UNCHANGED <<now, rev, changedAt>>
      BY <2>3, SocketStepIsInstant
    <3>3. SocketMoves(s) \/ OpMoves(s)
      BY <2>3, SocketStepMoves DEF EdgeInv
    <3>4. /\ sock' \in [Sockets -> SocketRec] /\ op' \in [Sockets \X Ops -> OpRec]
          /\ \A t \in Sockets : SocketInv(t)' /\ \A o \in Ops : OpInv(t, o)'
      BY <3>2, <3>3, SocketMovesKeepTypes, SocketMovesKeepInv
    <3>5. SessionTypeOK'
      BY <3>1, <3>2, <3>4 DEF EdgeInv, SessionInv, SessionTypeOK, SocketRec, OpRec
    <3> QED BY <3>1, <3>2, <3>4, <3>5 DEF SessionInv
  <2>4. CASE EdgeNext /\ (now' # now => SocketsWait) /\ UNCHANGED sessionVars
    <3>1. EdgeInv'
      BY <2>4, EdgeNextKeepsEdgeInv
    <3> QED BY <2>4, <3>1, EdgeNextKeepsSessionInv DEF EdgeInv
  <2>5. CASE ProfileChanges
    <3>1. EdgeInv' /\ now \in 0..MaxTime /\ MaxTime \in Nat
      BY <2>1, <2>5, BackendsAssumption
         DEF ProfileChanges, EdgeInv, EdgeTypeOK, BackendsTypeOK
    <3>2. /\ UNCHANGED <<now, sock, op>> /\ rev' = 1 /\ changedAt' = now
          /\ now \in 0..Never
      BY <2>5, <3>1 DEF ProfileChanges, Never
    <3>3. ASSUME NEW s \in Sockets, NEW o \in Ops PROVE OpInv(s, o)'
      BY <3>2 DEF SessionInv, OpInv
    <3> QED BY <3>1, <3>2, <3>3 DEF EdgeInv, SessionInv, SessionTypeOK, SocketInv
  <2>6. CASE \E status \in Statuses :
               Flip("database", status) /\ UNCHANGED <<edgeVars, sessionVars>>
    <3>1. dep' \in [Deps -> Statuses] /\ outages' \in 0..MaxOutages /\ now' = now
      BY <2>6, FlipTypes DEF EdgeInv, EdgeTypeOK, Deps
    <3>2. UNCHANGED <<tat, req, since, watched, passed, sock, op, rev, changedAt>>
      BY <2>6 DEF edgeVars, sessionVars
    <3>3. EdgeInv'
      BY <3>1, <3>2 DEF EdgeInv, EdgeTypeOK, BackendsTypeOK, AddressInv, SpentInv, Spent,
                        Cost, Size
    <3> QED BY <3>1, <3>2, <3>3 DEF EdgeInv, SessionInv, SessionTypeOK, SocketInv, OpInv
  <2> QED BY <2>2, <2>3, <2>4, <2>5, <2>6 DEF SessionNext
<1> QED BY <1>1, <1>2, PTL DEF SessionSpec

\* The variables of sockets and operations keep their types.
THEOREM SessionTypes == SessionSpec => []SessionTypeOK
<1>1. SessionInv => SessionTypeOK
  BY DEF SessionInv
<1> QED BY <1>1, ReachableSessionInv, PTL

\* The budgets hold with sockets as well: an operation over a socket is charged
\* on the same bucket as its client's requests.
THEOREM SessionWorkIsBudgeted == SessionSpec => []WorkIsBudgeted
BY SpentWithinBudget, ReachableSessionInv, PTL

\* Nothing runs over a socket after its token, for any number of sockets and
\* operations and any delays of Redis: OpInv bounds every moment at which an
\* operation that has been verified may still wait or run.
THEOREM SessionNothingOutlivesToken == SessionSpec => []NothingOutlivesToken
<1>1. SessionInv => NothingOutlivesToken
  BY DEF SessionInv, OpInv, NothingOutlivesToken
<1> QED BY <1>1, ReachableSessionInv, PTL

\* An operation starts as a user who was current less than the profile cache's
\* TTL and the hold of a reader ago, through however many calls of Redis, the key
\* set and the database it found that out.  A cached copy is no older by what
\* ProfileCache shows; one it wrote itself took no longer than the call.
THEOREM SessionRunsAsCurrentUser == SessionSpec => RunsAsCurrentUser
<1> DEFINE Current(s, o) ==
      op[<<s, o>>].stage # "run" /\ op'[<<s, o>>].stage = "run" =>
          op'[<<s, o>>].user = rev \/ now < changedAt + ProfileTTL + Hold
<1>1. ASSUME EdgeInv, SessionInv, [SessionNext]_<<now, depVars, edgeVars, sessionVars>>,
             NEW s \in Sockets, NEW o \in Ops, op[<<s, o>>].stage # "run",
             op'[<<s, o>>].stage = "run"
      PROVE  op'[<<s, o>>].user = rev \/ now < changedAt + ProfileTTL + Hold
  <2>1. PICK t \in Sockets : SocketStep(t)
    BY <1>1 DEF SessionNext, ProfileChanges, sessionVars
  <2>2. SocketMoves(t) \/ OpMoves(t)
    BY <1>1, <2>1, SocketStepMoves DEF EdgeInv
  <2>3. op \in [Sockets \X Ops -> OpRec]
    BY <1>1 DEF SessionInv, SessionTypeOK, OpRec
  <2>4. ~SocketMoves(t)
    BY <1>1, <2>3 DEF SocketMoves, NoOp
  <2>5. \/ op'[<<s, o>>].user = rev \/ now < changedAt + ProfileTTL + Hold
        \/ op[<<s, o>>].stage = "fill" /\ op'[<<s, o>>].user = op[<<s, o>>].user
    BY <1>1, <2>2, <2>3, <2>4 DEF OpMoves, OpMovesTo, VerifiedStages, LookupStages
  <2>6. CASE op[<<s, o>>].stage = "fill" /\ op'[<<s, o>>].user = op[<<s, o>>].user
    <3>1. /\ now <= op[<<s, o>>].at + Attempts * RedisReadTimeout
          /\ op[<<s, o>>].user = rev \/ op[<<s, o>>].at <= changedAt
      BY <1>1, <2>6 DEF SessionInv, OpInv
    <3>2. /\ now \in 0..MaxTime /\ MaxTime \in Nat /\ op[<<s, o>>].at \in 0..MaxTime
          /\ changedAt \in Nat /\ ProfileTTL \in Nat \ {0} /\ Hold \in Nat
          /\ Attempts * RedisReadTimeout \in Nat /\ Attempts * RedisReadTimeout <= Hold
      BY <1>1, BackendsAssumption, SessionAssumption, EdgeAssumption
         DEF SessionInv, SessionTypeOK, EdgeTypeOK, BackendsTypeOK, Never
    <3> QED BY <2>6, <3>1, <3>2
  <2> QED BY <2>5, <2>6
<1>2. EdgeInv /\ SessionInv /\ [SessionNext]_<<now, depVars, edgeVars, sessionVars>> =>
         [\A s \in Sockets, o \in Ops : Current(s, o)]_sessionVars
  BY <1>1
<1> QED BY <1>2, ReachableSessionInv, PTL DEF SessionSpec, RunsAsCurrentUser

(***************************************************************************)
(* Readiness                                                               *)
(***************************************************************************)

\* The lock is handed on in the order of arrival, which is that of the
\* deadlines, and only its holder has got past waiting.
QueueInv ==
    /\ \A i, j \in 1..Len(mu) : mu[i] = mu[j] => i = j
    /\ \A i, j \in 1..Len(mu) : i <= j => deadline[mu[i]] <= deadline[mu[j]]
    /\ \A i \in 1..Len(mu) : probe[mu[i]] # "idle" /\ (i > 1 => probe[mu[i]] = "wait")
    /\ \A p \in Probes : probe[p] # "idle" => \E i \in 1..Len(mu) : mu[i] = p

\* What a probe under way knows, and that it is not late: the last tick of the
\* clock since it came had a dependency that hung.
ProbeInv(p) ==
    /\ probe[p] # "idle" =>
         /\ deadline[p] <= now + HealthCheckTimeout
         /\ now < deadline[p] + RedisReadTimeout
         /\ now > deadline[p] - HealthCheckTimeout => \E d \in Deps : LastBad(d) >= now
    /\ attempt[p] # 0 =>
         probe[p] = "redis" /\ attempt[p] < deadline[p] + RedisReadTimeout
    /\ p \in failed =>
         /\ probe[p] = "redis"
         /\ \/ p \in gone \/ now >= deadline[p]
            \/ LastBad("database") >= deadline[p] - HealthCheckTimeout
    /\ probe[p] = "redis" /\ p \notin failed =>
         LastUp("database") >= deadline[p] - HealthCheckTimeout

\* The verdict that is kept, if there is one, was true when it was found.
VerdictInv ==
    /\ cached.at <= now
    /\ cached.ok =>
         /\ LastUp("database") > cached.at - HealthCheckTimeout
         /\ LastUp("redis") > cached.at - HealthCheckTimeout
    /\ ~cached.ok /\ cached.at > -CacheFor =>
         \E d \in Deps : LastBad(d) > cached.at - HealthCheckTimeout

PastInv == \A d \in Deps : wasUp[d] <= now /\ wasBad[d] <= now

ReadyInv ==
    /\ ReadyTypeOK /\ PastInv /\ QueueInv /\ VerdictInv
    /\ \A p \in Probes : ProbeInv(p)

\* A probe changes nothing of the backends, nor of another probe.
LEMMA ReadyStepIsLocal ==
    ASSUME ReadyTypeOK, NEW p \in Probes, ReadyStep(p)
    PROVE  /\ UNCHANGED <<now, dep, outages, wasUp, wasBad>>
           /\ \A q \in Probes : q # p =>
                /\ probe'[q] = probe[q] /\ deadline'[q] = deadline[q]
                /\ attempt'[q] = attempt[q] /\ answer'[q] = answer[q]
                /\ (q \in gone' <=> q \in gone) /\ (q \in failed' <=> q \in failed)
<1> USE DEF ReadyTypeOK, depVars, historyVars
<1>1. CASE Ready(p)
  BY <1>1 DEF Ready
<1>2. CASE HangUp(p)
  BY <1>2 DEF HangUp
<1>3. CASE UseCached(p)
  BY <1>3 DEF UseCached, Answer
<1>4. CASE StartPings(p)
  BY <1>4 DEF StartPings
<1>5. CASE PingDatabase(p)
  BY <1>5 DEF PingDatabase
<1>6. CASE AttemptRedis(p)
  BY <1>6 DEF AttemptRedis
<1>7. CASE AttemptTimesOut(p)
  BY <1>7 DEF AttemptTimesOut
<1>8. CASE PingRedis(p)
  BY <1>8 DEF PingRedis, RedisPinged, Answer
<1> QED BY <1>1, <1>2, <1>3, <1>4, <1>5, <1>6, <1>7, <1>8 DEF ReadyStep

\* A probe that is answered held the lock.
LEMMA PastWaitingHolds ==
    ASSUME ReadyTypeOK, QueueInv, NEW p \in Probes, probe[p] \notin {"idle", "wait"}
    PROVE  mu # <<>> /\ mu[1] = p
<1>1. PICK i \in 1..Len(mu) : mu[i] = p
  BY DEF QueueInv
<1>2. i = 1
  BY <1>1 DEF QueueInv
<1>3. mu \in Seq(Probes) /\ Len(mu) \in Nat
  BY DEF ReadyTypeOK
<1> QED BY <1>1, <1>2, <1>3

\* Whoever joins the queue has the latest deadline.
LEMMA JoinKeepsQueue ==
    ASSUME ReadyTypeOK, QueueInv, NEW p \in Probes, Ready(p),
           \A q \in Probes : probe[q] # "idle" => deadline[q] <= now + HealthCheckTimeout
    PROVE  QueueInv'
<1> DEFINE n == Len(mu)
<1>1. mu \in Seq(Probes) /\ n \in Nat /\ \A i \in 1..n : mu[i] \in Probes /\ mu[i] # p
  <2>1. mu \in Seq(Probes) /\ n \in Nat /\ \A i \in 1..n : mu[i] \in Probes
    BY DEF ReadyTypeOK
  <2> QED BY <2>1 DEF Ready, QueueInv
<1>2. /\ mu' = Append(mu, p) /\ Len(mu') = n + 1 /\ mu'[n + 1] = p
      /\ \A i \in 1..n : mu'[i] = mu[i]
  BY <1>1 DEF Ready
<1>3. /\ probe'[p] = "wait" /\ deadline'[p] = now + HealthCheckTimeout
      /\ \A q \in Probes : q # p => probe'[q] = probe[q] /\ deadline'[q] = deadline[q]
  BY DEF Ready, ReadyTypeOK
<1>h. HealthCheckTimeout \in Nat /\ now \in Int
  BY ReadinessAssumption, BackendsAssumption DEF ReadyTypeOK, BackendsTypeOK
<1>4. \A i \in 1..Len(mu') : i = n + 1 \/ i \in 1..n
  BY <1>1, <1>2
<1> HIDE DEF n
<1>5. \A i, j \in 1..Len(mu') : mu'[i] = mu'[j] => i = j
  BY <1>1, <1>2, <1>4 DEF QueueInv, n
<1>6. \A i, j \in 1..Len(mu') : i <= j => deadline'[mu'[i]] <= deadline'[mu'[j]]
  <2> TAKE i, j \in 1..Len(mu')
  <2> HAVE i <= j
  <2>1. CASE j = n + 1 /\ i = n + 1
    BY <1>2, <1>3, <1>h, <2>1
  <2>2. CASE j = n + 1 /\ i \in 1..n
    <3>1. deadline[mu[i]] <= now + HealthCheckTimeout
      BY <1>1, <2>2 DEF QueueInv, n
    <3> QED BY <1>1, <1>2, <1>3, <2>2, <3>1
  <2>3. CASE i \in 1..n /\ j \in 1..n
    BY <1>1, <1>2, <1>3, <2>3 DEF QueueInv, n
  <2>4. j \in 1..n => i \in 1..n
    BY <1>1, <1>2, <1>4
  <2> QED BY <1>4, <2>1, <2>2, <2>3, <2>4
<1>7. \A i \in 1..Len(mu') : probe'[mu'[i]] # "idle" /\ (i > 1 => probe'[mu'[i]] = "wait")
  BY <1>1, <1>2, <1>3, <1>4 DEF QueueInv, n
<1>8. ASSUME NEW q \in Probes, probe'[q] # "idle"
      PROVE  \E i \in 1..Len(mu') : mu'[i] = q
  <2>1. CASE q = p
    BY <1>1, <1>2, <2>1
  <2>2. CASE q # p
    <3>1. PICK i \in 1..n : mu[i] = q
      BY <1>3, <1>8, <2>2 DEF QueueInv, n
    <3> QED BY <1>1, <1>2, <3>1
  <2> QED BY <2>1, <2>2
<1> QED BY <1>5, <1>6, <1>7, <1>8 DEF QueueInv

\* An answered probe leaves the head of the queue.
LEMMA AnswerKeepsQueue ==
    ASSUME ReadyTypeOK, QueueInv, NEW p \in Probes, mu # <<>>, mu[1] = p,
           NEW ok, Answer(p, ok)
    PROVE  QueueInv'
<1> DEFINE n == Len(mu)
<1>1. /\ mu \in Seq(Probes) /\ n \in Nat \ {0}
      /\ \A i \in 1..n : mu[i] \in Probes
  BY DEF ReadyTypeOK
<1>2. /\ Len(mu') = n - 1 /\ \A i \in 1..(n - 1) : mu'[i] = mu[i + 1]
  BY <1>1 DEF Answer
<1>3. \A i \in 1..(n - 1) : i + 1 \in 1..n /\ i + 1 > 1 /\ mu[i + 1] # p
  BY <1>1 DEF QueueInv
<1>4. /\ probe'[p] = "idle"
      /\ \A q \in Probes : q # p => probe'[q] = probe[q] /\ deadline'[q] = deadline[q]
  BY DEF Answer, ReadyTypeOK
<1>5. \A i, j \in 1..Len(mu') : mu'[i] = mu'[j] => i = j
  BY <1>1, <1>2, <1>3 DEF QueueInv
<1>6. \A i, j \in 1..Len(mu') : i <= j => deadline'[mu'[i]] <= deadline'[mu'[j]]
  <2> SUFFICES ASSUME NEW i \in 1..(n - 1), NEW j \in 1..(n - 1), i <= j
               PROVE  deadline'[mu'[i]] <= deadline'[mu'[j]]
    BY <1>1, <1>2
  <2>1. deadline'[mu'[i]] = deadline[mu[i + 1]] /\ deadline'[mu'[j]] = deadline[mu[j + 1]]
    BY <1>1, <1>2, <1>3, <1>4
  <2>2. i + 1 \in 1..Len(mu) /\ j + 1 \in 1..Len(mu) /\ i + 1 <= j + 1
    BY <1>3
  <2> QED BY <2>1, <2>2 DEF QueueInv
<1>7. \A i \in 1..Len(mu') : probe'[mu'[i]] # "idle" /\ (i > 1 => probe'[mu'[i]] = "wait")
  <2> SUFFICES ASSUME NEW i \in 1..(n - 1)
               PROVE  probe'[mu'[i]] = "wait"
    BY <1>1, <1>2
  <2>1. i + 1 \in 1..Len(mu) /\ i + 1 > 1 /\ mu[i + 1] # p
    BY <1>3
  <2>2. mu'[i] = mu[i + 1] /\ mu[i + 1] \in Probes
    BY <1>1, <1>2, <2>1
  <2>3. probe[mu[i + 1]] = "wait"
    BY <2>1 DEF QueueInv
  <2> QED BY <1>4, <2>1, <2>2, <2>3
<1>8. ASSUME NEW q \in Probes, probe'[q] # "idle"
      PROVE  \E i \in 1..Len(mu') : mu'[i] = q
  <2>1. PICK i \in 1..n : mu[i] = q
    BY <1>4, <1>8 DEF QueueInv
  <2>2. i # 1
    BY <1>4, <1>8, <2>1
  <2>3. i - 1 \in 1..(n - 1) /\ mu'[i - 1] = q
    BY <1>1, <1>2, <2>1, <2>2
  <2> QED BY <1>2, <2>3
<1> QED BY <1>5, <1>6, <1>7, <1>8 DEF QueueInv

\* A step that moves nobody in the queue keeps its order.
LEMMA StayKeepsQueue ==
    ASSUME ReadyTypeOK, QueueInv, NEW p \in Probes, UNCHANGED <<mu, deadline>>,
           probe' = probe \/ (probe[p] # "idle" /\ mu[1] = p /\
                              \E at \in {"database", "redis"} : probe' = [probe EXCEPT ![p] = at])
    PROVE  QueueInv'
<1>1. mu \in Seq(Probes) /\ \A i \in 1..Len(mu) : mu[i] \in Probes
  BY DEF ReadyTypeOK
<1>2. CASE probe' = probe
  BY <1>2 DEF QueueInv
<1>3. CASE /\ probe[p] # "idle" /\ mu[1] = p
           /\ \E at \in {"database", "redis"} : probe' = [probe EXCEPT ![p] = at]
  <2>1. probe'[p] # "idle" /\ \A q \in Probes : q # p => probe'[q] = probe[q]
    BY <1>3 DEF ReadyTypeOK
  <2>2. \A i \in 1..Len(mu) : i > 1 => mu[i] # p
    <3>1. Len(mu) \in Nat
      BY <1>1
    <3> QED BY <1>3, <3>1 DEF QueueInv
  <2>3. \A i \in 1..Len(mu) : probe'[mu[i]] # "idle" /\ (i > 1 => probe'[mu[i]] = "wait")
    BY <1>1, <2>1, <2>2 DEF QueueInv
  <2>4. \A q \in Probes : probe'[q] # "idle" => probe[q] # "idle"
    BY <1>3, <2>1
  <2> QED BY <2>3, <2>4 DEF QueueInv
<1> QED BY <1>2, <1>3

\* The types a step of a probe must keep.
ProbeTypes ==
    /\ mu \in Seq(Probes)
    /\ probe \in [Probes -> {"idle", "wait", "database", "redis"}]
    /\ deadline \in [Probes -> 0..(MaxTime + HealthCheckTimeout)]
    /\ gone \subseteq Probes /\ failed \subseteq Probes
    /\ attempt \in [Probes -> 0..(MaxTime + RedisReadTimeout)]
    /\ cached \in [ok : BOOLEAN, at : -CacheFor..MaxTime]
    /\ answer \in [Probes -> {0, 200, 503}]

\* An answer keeps them.
LEMMA AnswerTypes ==
    ASSUME ReadyTypeOK, NEW p \in Probes, mu # <<>>, NEW ok, Answer(p, ok)
    PROVE  /\ mu' \in Seq(Probes)
           /\ probe' \in [Probes -> {"idle", "wait", "database", "redis"}]
           /\ deadline' \in [Probes -> 0..(MaxTime + HealthCheckTimeout)]
           /\ gone' \subseteq Probes /\ failed' \subseteq Probes
           /\ attempt' \in [Probes -> 0..(MaxTime + RedisReadTimeout)]
           /\ answer' \in [Probes -> {0, 200, 503}]
<1>1. mu' \in Seq(Probes)
  BY DEF Answer, ReadyTypeOK
<1>2. MaxTime \in Nat /\ HealthCheckTimeout \in Nat /\ RedisReadTimeout \in Nat
  BY BackendsAssumption, ReadinessAssumption
<1>3. (IF ok THEN 200 ELSE 503) \in {0, 200, 503}
  OBVIOUS
<1> QED BY SMTT(30), <1>1, <1>2, <1>3 DEF Answer, ReadyTypeOK

\* A step of a probe keeps the types.
LEMMA ReadyStepKeepsTypes ==
    ASSUME ReadyTypeOK, QueueInv, NEW p \in Probes, ReadyStep(p)
    PROVE  ReadyTypeOK'
<1>c. /\ MaxTime \in Nat /\ HealthCheckTimeout \in Nat /\ RedisReadTimeout \in Nat
      /\ now \in 0..MaxTime
  BY BackendsAssumption, ReadinessAssumption DEF ReadyTypeOK, BackendsTypeOK
<1>u. UNCHANGED <<now, dep, outages, wasUp, wasBad>>
  BY ReadyStepIsLocal
<1> SUFFICES ProbeTypes'
  BY <1>u DEF ReadyTypeOK, BackendsTypeOK, ProbeTypes
<1> USE DEF ReadyTypeOK, ProbeTypes
<1>1. CASE Ready(p)
  <2>1. mu' \in Seq(Probes)
    BY <1>1 DEF Ready
  <2>2. deadline' \in [Probes -> 0..(MaxTime + HealthCheckTimeout)]
    BY <1>1, <1>c DEF Ready
  <2> QED BY <1>1, <2>1, <2>2 DEF Ready
<1>2. CASE HangUp(p)
  BY <1>2 DEF HangUp
<1>3. CASE UseCached(p)
  BY SMTT(30), <1>3, AnswerTypes DEF UseCached, Holds
<1>4. CASE StartPings(p)
  BY <1>4 DEF StartPings
<1>5. CASE PingDatabase(p)
  BY <1>5 DEF PingDatabase
<1>6. CASE AttemptRedis(p)
  <2>1. attempt' \in [Probes -> 0..(MaxTime + RedisReadTimeout)]
    BY <1>6, <1>c DEF AttemptRedis
  <2> QED BY <1>6, <2>1 DEF AttemptRedis
<1>7. CASE AttemptTimesOut(p)
  <2>1. attempt' \in [Probes -> 0..(MaxTime + RedisReadTimeout)]
    BY <1>7, <1>c DEF AttemptTimesOut
  <2> QED BY <1>7, <2>1 DEF AttemptTimesOut
<1>8. CASE PingRedis(p)
  <2>1. PICK ok \in BOOLEAN : RedisPinged(p, ok)
    BY <1>8 DEF PingRedis
  <2>2. mu # <<>>
    BY <1>8, PastWaitingHolds DEF PingRedis
  <2>3. cached' \in [ok : BOOLEAN, at : -CacheFor..MaxTime]
    <3>1. (ok /\ p \notin failed) \in BOOLEAN /\ now \in -CacheFor..MaxTime
      BY <1>c, ReadinessAssumption
    <3> QED BY <2>1, <3>1 DEF RedisPinged
  <2>4. Answer(p, ok /\ p \notin failed)
    BY <2>1 DEF RedisPinged
  <2> HIDE DEF ReadyTypeOK
  <2> QED BY <2>2, <2>3, <2>4, AnswerTypes
<1> QED BY <1>1, <1>2, <1>3, <1>4, <1>5, <1>6, <1>7, <1>8 DEF ReadyStep

\* And the order of the queue.
LEMMA ReadyStepKeepsQueue ==
    ASSUME ReadyInv, NEW p \in Probes, ReadyStep(p)
    PROVE  QueueInv'
<1> USE DEF ReadyInv
<1>1. CASE Ready(p)
  BY <1>1, JoinKeepsQueue DEF ProbeInv
<1>2. CASE HangUp(p) \/ AttemptRedis(p) \/ AttemptTimesOut(p)
  BY <1>2, StayKeepsQueue DEF HangUp, AttemptRedis, AttemptTimesOut
<1>3. CASE UseCached(p)
  <2>1. mu # <<>> /\ mu[1] = p /\ Answer(p, cached.ok)
    BY <1>3 DEF UseCached, Holds, ReadyTypeOK
  <2> QED BY <2>1, AnswerKeepsQueue
<1>4. CASE StartPings(p)
  <2>1. mu # <<>> /\ mu[1] = p /\ probe[p] # "idle"
    BY <1>4 DEF StartPings, Holds, ReadyTypeOK
  <2> QED BY <1>4, <2>1, StayKeepsQueue DEF StartPings
<1>5. CASE PingDatabase(p)
  <2>1. mu[1] = p /\ probe[p] # "idle"
    BY <1>5, PastWaitingHolds DEF PingDatabase
  <2> QED BY <1>5, <2>1, StayKeepsQueue DEF PingDatabase
<1>6. CASE PingRedis(p)
  <2>1. PICK ok \in BOOLEAN : RedisPinged(p, ok)
    BY <1>6 DEF PingRedis
  <2>2. mu # <<>> /\ mu[1] = p
    BY <1>6, PastWaitingHolds DEF PingRedis
  <2> QED BY <2>1, <2>2, AnswerKeepsQueue DEF RedisPinged
<1> QED BY <1>1, <1>2, <1>3, <1>4, <1>5, <1>6 DEF ReadyStep

\* What a probe knows and the kept verdict stay true.
LEMMA ReadyStepKeepsProbeInv ==
    ASSUME ReadyInv, NEW p \in Probes, ReadyStep(p), NEW q \in Probes
    PROVE  ProbeInv(q)'
<1> DEFINE up == LastUp("database")
           bad == LastBad("database")
<1>c. /\ now \in Nat /\ HealthCheckTimeout \in Nat \ {0} /\ RedisReadTimeout \in Nat \ {0}
      /\ "database" \in Deps
  BY BackendsAssumption, ReadinessAssumption DEF ReadyInv, ReadyTypeOK, BackendsTypeOK, Deps
<1>u. /\ UNCHANGED <<now, dep, wasUp, wasBad>>
      /\ \A d \in Deps : LastUp(d)' = LastUp(d) /\ LastBad(d)' = LastBad(d)
  BY ReadyStepIsLocal DEF ReadyInv, LastUp, LastBad
<1>i. ProbeInv(q) /\ ProbeInv(p)
  BY DEF ReadyInv
<1>t. /\ deadline[p] \in Nat /\ attempt[p] \in Nat
      /\ up \in 0..now /\ bad \in Int /\ bad <= now
  <2>1. /\ deadline[p] \in 0..(MaxTime + HealthCheckTimeout)
        /\ attempt[p] \in 0..(MaxTime + RedisReadTimeout)
    BY DEF ReadyInv, ReadyTypeOK
  <2>2. /\ wasUp["database"] \in 0..MaxTime /\ wasUp["database"] <= now
        /\ wasBad["database"] \in -(Lookback + 1)..MaxTime /\ wasBad["database"] <= now
    BY <1>c DEF ReadyInv, ReadyTypeOK, PastInv
  <2>3. MaxTime \in Nat /\ Lookback \in Nat
    BY <1>c, BackendsAssumption DEF Lookback
  <2> QED BY <1>c, <2>1, <2>2, <2>3 DEF LastUp, LastBad
<1> HIDE DEF up, bad
<1>1. CASE q # p
  <2>1. /\ probe'[q] = probe[q] /\ deadline'[q] = deadline[q] /\ attempt'[q] = attempt[q]
        /\ (q \in gone' <=> q \in gone) /\ (q \in failed' <=> q \in failed)
    BY <1>1, ReadyStepIsLocal DEF ReadyInv
  <2> QED BY <1>c, <1>i, <1>u, <2>1 DEF ProbeInv
<1>2. CASE q = p
  <2> SUFFICES ProbeInv(p)'
    BY <1>2
  <2>1. CASE Ready(p)
    <3>1. /\ probe'[p] = "wait" /\ deadline'[p] = now + HealthCheckTimeout
          /\ attempt'[p] = attempt[p] /\ failed' = failed /\ probe[p] = "idle"
      BY <2>1 DEF Ready, ReadyInv, ReadyTypeOK
    <3> QED BY <1>c, <1>i, <1>u, <3>1 DEF ProbeInv
  <2>2. CASE HangUp(p)
    <3>1. /\ UNCHANGED <<probe, deadline, attempt, failed>> /\ p \in gone'
      BY <2>2 DEF HangUp, ReadyInv, ReadyTypeOK
    <3> QED BY <1>c, <1>i, <1>u, <3>1 DEF ProbeInv
  <2>3. ASSUME NEW ok, Answer(p, ok) PROVE ProbeInv(p)'
    <3>1. /\ probe'[p] = "idle" /\ attempt'[p] = 0 /\ p \notin failed'
      BY <2>3 DEF Answer, ReadyInv, ReadyTypeOK
    <3> QED BY <3>1 DEF ProbeInv
  <2>4. CASE StartPings(p)
    <3>1. /\ probe'[p] = "database" /\ probe[p] = "wait"
          /\ UNCHANGED <<deadline, attempt, failed, gone>>
      BY <2>4 DEF StartPings, ReadyInv, ReadyTypeOK
    <3> QED BY <1>c, <1>i, <1>u, <3>1 DEF ProbeInv
  <2>5. CASE PingDatabase(p)
    <3>1. /\ probe'[p] = "redis" /\ probe[p] = "database"
          /\ UNCHANGED <<deadline, attempt, gone>>
      BY <2>5 DEF PingDatabase, ReadyInv, ReadyTypeOK
    <3>2. p \notin failed /\ attempt[p] = 0 /\ deadline[p] <= now + HealthCheckTimeout
      BY <1>i, <3>1 DEF ProbeInv
    <3>3. p \in failed' => CtxEnded(p) \/ bad = now
      BY <2>5, <3>2 DEF PingDatabase, bad, LastBad
    <3>4. p \notin failed' => up = now
      BY <2>5, <3>2 DEF PingDatabase, up, LastUp
    <3>5. /\ p \in failed' => \/ p \in gone \/ now >= deadline[p]
                              \/ bad >= deadline[p] - HealthCheckTimeout
          /\ p \notin failed' => up >= deadline[p] - HealthCheckTimeout
      BY <1>c, <1>t, <3>2, <3>3, <3>4 DEF CtxEnded
    <3> QED BY <1>c, <1>i, <1>u, <3>1, <3>2, <3>5 DEF ProbeInv, up, bad
  <2>6. CASE AttemptRedis(p)
    <3>1. /\ probe[p] = "redis" /\ attempt'[p] = now + RedisReadTimeout
          /\ UNCHANGED <<probe, deadline, failed, gone>> /\ now < deadline[p]
      BY <1>c, <1>t, <2>6 DEF AttemptRedis, CtxEnded, ReadyInv, ReadyTypeOK
    <3>2. attempt'[p] < deadline[p] + RedisReadTimeout
      BY <1>c, <1>t, <3>1
    <3> QED BY <1>i, <1>u, <1>c, <3>1, <3>2 DEF ProbeInv
  <2>7. CASE AttemptTimesOut(p)
    <3>1. attempt'[p] = 0 /\ UNCHANGED <<probe, deadline, failed, gone>>
      BY <2>7 DEF AttemptTimesOut, ReadyInv, ReadyTypeOK
    <3> QED BY <1>c, <1>i, <1>u, <3>1 DEF ProbeInv
  <2>8. CASE UseCached(p)
    BY <2>3, <2>8 DEF UseCached
  <2>9. CASE PingRedis(p)
    BY <2>3, <2>9 DEF PingRedis, RedisPinged
  <2> QED BY <2>1, <2>2, <2>4, <2>5, <2>6, <2>7, <2>8, <2>9 DEF ReadyStep
<1> QED BY <1>1, <1>2

\* A verdict is only kept by a probe whose context has not ended, so both of
\* its pings were answered since it came.
LEMMA ReadyStepKeepsVerdict ==
    ASSUME ReadyInv, NEW p \in Probes, ReadyStep(p)
    PROVE  VerdictInv'
<1>c. /\ now \in Nat /\ HealthCheckTimeout \in Nat \ {0} /\ RedisReadTimeout \in Nat \ {0}
      /\ "database" \in Deps /\ "redis" \in Deps /\ deadline[p] \in Nat
  <2>1. deadline[p] \in 0..(MaxTime + HealthCheckTimeout)
    BY DEF ReadyInv, ReadyTypeOK
  <2> QED BY <2>1, BackendsAssumption, ReadinessAssumption
          DEF ReadyInv, ReadyTypeOK, BackendsTypeOK, Deps
<1>u. /\ UNCHANGED <<now, dep, wasUp, wasBad>>
      /\ \A d \in Deps : LastUp(d)' = LastUp(d) /\ LastBad(d)' = LastBad(d)
  BY ReadyStepIsLocal DEF ReadyInv, LastUp, LastBad
<1>1. CASE cached' = cached
  BY <1>1, <1>u, <1>c DEF ReadyInv, VerdictInv
<1>2. CASE cached' # cached
  <2>1. PingRedis(p)
    BY <1>2 DEF ReadyStep, Ready, HangUp, UseCached, StartPings, PingDatabase,
                AttemptRedis, AttemptTimesOut
  <2>2. PICK ok \in BOOLEAN : /\ RedisPinged(p, ok) /\ probe[p] = "redis"
                              /\ ok => dep["redis"] = "up"
                              /\ ~ok => dep["redis"] = "down" \/ CtxEnded(p)
    BY <2>1 DEF PingRedis
  <2>3. /\ cached' = [ok |-> ok /\ p \notin failed, at |-> now]
        /\ p \notin gone /\ now < deadline[p]
    BY <1>2, <1>c, <2>2 DEF RedisPinged, CtxEnded
  <2>4. ProbeInv(p) /\ deadline[p] - HealthCheckTimeout > now - HealthCheckTimeout
    BY <1>c, <2>3 DEF ReadyInv
  <2>5. CASE ok /\ p \notin failed
    <3>1. LastUp("database") >= deadline[p] - HealthCheckTimeout
      BY <2>2, <2>4, <2>5 DEF ProbeInv
    <3>2. LastUp("redis") = now
      BY <2>2, <2>5 DEF LastUp
    <3>3. LastUp("database") \in Int
      BY <1>c DEF LastUp, ReadyInv, ReadyTypeOK
    <3>4. cached'.ok /\ cached'.at = now
      BY <2>3, <2>5
    <3> QED BY <1>c, <1>u, <2>4, <3>1, <3>2, <3>3, <3>4 DEF VerdictInv
  <2>6. CASE ~(ok /\ p \notin failed)
    <3>1. ~cached'.ok /\ cached'.at = now
      BY <2>3, <2>6
    <3>2. \E d \in Deps : LastBad(d) > now - HealthCheckTimeout
      <4>1. CASE ~ok
        <5>1. LastBad("redis") = now
          BY <1>c, <2>2, <2>3, <4>1 DEF CtxEnded, LastBad
        <5> QED BY <1>c, <5>1
      <4>2. CASE p \in failed
        <5>1. LastBad("database") >= deadline[p] - HealthCheckTimeout
          BY <1>c, <2>3, <2>4, <4>2 DEF ProbeInv
        <5>2. LastBad("database") \in Int
          BY <1>c DEF LastBad, ReadyInv, ReadyTypeOK
        <5> QED BY <1>c, <2>4, <5>1, <5>2
      <4> QED BY <2>6, <4>1, <4>2
    <3> QED BY <1>c, <1>u, <3>1, <3>2 DEF VerdictInv
  <2> QED BY <2>5, <2>6
<1> QED BY <1>1, <1>2

\* Time passes only while the holder of the lock waits for a dependency that
\* hangs, and no further than one read attempt past its deadline, which is the
\* earliest of all.
LEMMA ReadyTickKeepsReadyInv ==
    ASSUME ReadyInv, ProbesWait, Tick, UNCHANGED <<historyVars, probeVars>>
    PROVE  ReadyInv'
<1>c. /\ now \in 0..MaxTime /\ MaxTime \in Nat /\ now' = now + 1 /\ now' \in 0..MaxTime
      /\ HealthCheckTimeout \in Nat /\ RedisReadTimeout \in Nat \ {0} /\ CacheFor \in Nat
      /\ "database" \in Deps /\ "redis" \in Deps
  BY BackendsAssumption, ReadinessAssumption
     DEF Tick, ReadyInv, ReadyTypeOK, BackendsTypeOK, Deps
<1>u. UNCHANGED <<dep, outages, wasUp, wasBad, mu, probe, deadline, gone, failed, attempt,
                  cached, answer>>
  BY DEF Tick, depVars, historyVars, probeVars
<1>t. /\ \A d \in Deps : /\ wasUp[d] \in 0..MaxTime /\ wasUp[d] <= now
                         /\ wasBad[d] \in Int /\ wasBad[d] <= now
      /\ \A p \in Probes : deadline[p] \in Nat /\ attempt[p] \in Nat
      /\ mu \in Seq(Probes)
      /\ cached.at \in Int
  <2>1. \A d \in Deps : wasUp[d] \in 0..MaxTime /\ wasUp[d] <= now /\ wasBad[d] <= now
    BY DEF ReadyInv, ReadyTypeOK, PastInv
  <2>2. \A d \in Deps : wasBad[d] \in Int
    BY DEF ReadyInv, ReadyTypeOK
  <2>3. \A p \in Probes : deadline[p] \in Nat /\ attempt[p] \in Nat
    BY DEF ReadyInv, ReadyTypeOK
  <2>4. mu \in Seq(Probes) /\ cached.at \in Int
    BY DEF ReadyInv, ReadyTypeOK
  <2> QED BY <2>1, <2>2, <2>3, <2>4
<1>l. \A d \in Deps : /\ LastUp(d)' >= LastUp(d) /\ LastBad(d)' >= LastBad(d)
                      /\ LastUp(d) \in Int /\ LastBad(d) \in Int
                      /\ LastUp(d)' \in Int /\ LastBad(d)' \in Int
  BY <1>c, <1>u, <1>t DEF LastUp, LastBad
<1>1. ReadyTypeOK' /\ PastInv'
  BY SMTT(30), <1>c, <1>u, <1>t DEF ReadyInv, ReadyTypeOK, BackendsTypeOK, PastInv
<1>2. QueueInv'
  BY <1>u DEF ReadyInv, QueueInv
<1>3. VerdictInv'
  <2>1. /\ VerdictInv /\ cached' = cached /\ cached.at \in Int
    BY <1>u, <1>t DEF ReadyInv
  <2>2. cached.ok =>
          /\ LastUp("database")' > cached.at - HealthCheckTimeout
          /\ LastUp("redis")' > cached.at - HealthCheckTimeout
    BY <1>c, <1>l, <2>1 DEF VerdictInv
  <2>3. ~cached.ok /\ cached.at > -CacheFor =>
          \E d \in Deps : LastBad(d)' > cached.at - HealthCheckTimeout
    BY <1>c, <1>l, <2>1 DEF VerdictInv
  <2>4. cached.at <= now + 1
    BY <1>c, <2>1 DEF VerdictInv
  <2> QED BY <1>c, <2>1, <2>2, <2>3, <2>4 DEF VerdictInv
<1>4. ASSUME NEW q \in Probes PROVE ProbeInv(q)'
  <2>1. CASE probe[q] = "idle"
    BY <1>u, <1>c, <2>1 DEF ReadyInv, ProbeInv
  <2>2. CASE probe[q] # "idle"
    <3>1. PICK i \in 1..Len(mu) : mu[i] = q
      BY <2>2 DEF ReadyInv, QueueInv
    <3> DEFINE h == mu[1]
    <3>2. h \in Probes /\ Holds(h) /\ deadline[h] <= deadline[q]
      <4>1. 1 \in 1..Len(mu) /\ 1 <= i /\ mu # <<>> /\ h \in Probes /\ Head(mu) = h
        BY <1>t, <3>1
      <4> QED BY <3>1, <4>1 DEF ReadyInv, QueueInv, Holds
    <3> HIDE DEF h
    <3>3. \/ dep["database"] = "hung" /\ now < deadline[h]
          \/ attempt[h] > now /\ dep["redis"] = "hung"
      BY <1>c, <1>t, <3>2 DEF ProbesWait, CtxEnded
    <3>4. now + 1 < deadline[h] + RedisReadTimeout
      <4>1. attempt[h] # 0 => attempt[h] < deadline[h] + RedisReadTimeout
        BY <3>2 DEF ReadyInv, ProbeInv
      <4> QED BY <1>c, <1>t, <3>2, <3>3, <4>1
    <3>5. \E d \in Deps : LastBad(d)' = now + 1
      BY <1>c, <1>u, <3>3 DEF LastBad
    <3>6. ProbeInv(q)
      BY DEF ReadyInv
    <3>7. /\ deadline[q] <= now + 1 + HealthCheckTimeout
          /\ now + 1 < deadline[q] + RedisReadTimeout
      BY <1>c, <1>t, <2>2, <3>2, <3>4, <3>6 DEF ProbeInv
    <3>8. /\ q \in failed =>
               /\ probe[q] = "redis"
               /\ \/ q \in gone \/ now + 1 >= deadline[q]
                  \/ LastBad("database")' >= deadline[q] - HealthCheckTimeout
          /\ probe[q] = "redis" /\ q \notin failed =>
               LastUp("database")' >= deadline[q] - HealthCheckTimeout
      <4> DEFINE up == LastUp("database")
                 bad == LastBad("database")
      <4>1. /\ up' >= up /\ bad' >= bad /\ up \in Int /\ bad \in Int
            /\ up' \in Int /\ bad' \in Int /\ deadline[q] \in Nat
        BY <1>c, <1>t, <1>l
      <4>2. /\ q \in failed =>
                 /\ probe[q] = "redis"
                 /\ q \in gone \/ now >= deadline[q] \/ bad >= deadline[q] - HealthCheckTimeout
            /\ probe[q] = "redis" /\ q \notin failed =>
                 up >= deadline[q] - HealthCheckTimeout
        BY <3>6 DEF ProbeInv
      <4> HIDE DEF up, bad
      <4>3. /\ q \in failed =>
                 /\ probe[q] = "redis"
                 /\ \/ q \in gone \/ now + 1 >= deadline[q]
                    \/ bad' >= deadline[q] - HealthCheckTimeout
            /\ probe[q] = "redis" /\ q \notin failed =>
                 up' >= deadline[q] - HealthCheckTimeout
        BY <1>c, <4>1, <4>2
      <4> QED BY <4>3 DEF up, bad
    <3> QED BY <1>c, <1>u, <3>5, <3>6, <3>7, <3>8 DEF ProbeInv
  <2> QED BY <2>1, <2>2
<1> QED BY <1>1, <1>2, <1>3, <1>4 DEF ReadyInv

\* A dependency that changes is remembered.
LEMMA DepChangeKeepsReadyInv ==
    ASSUME ReadyInv, NEW d \in Deps, NEW status \in Statuses, DepChanges(d, status)
    PROVE  ReadyInv'
<1>c. /\ now \in 0..MaxTime /\ MaxTime \in Nat /\ now' = now
      /\ HealthCheckTimeout \in Nat /\ RedisReadTimeout \in Nat
      /\ "database" \in Deps /\ "redis" \in Deps
  BY BackendsAssumption, ReadinessAssumption
     DEF DepChanges, Flip, ReadyInv, ReadyTypeOK, BackendsTypeOK, Deps
<1>u. UNCHANGED <<mu, probe, deadline, gone, failed, attempt, cached, answer>>
  BY DEF DepChanges, probeVars
<1>d. dep' \in [Deps -> Statuses] /\ outages' \in 0..MaxOutages
  BY FlipTypes DEF DepChanges, ReadyInv, ReadyTypeOK
<1>t. \A e \in Deps : /\ wasUp[e] \in 0..MaxTime /\ wasUp[e] <= now
                      /\ wasBad[e] \in -(Lookback + 1)..MaxTime /\ wasBad[e] <= now
  BY DEF ReadyInv, ReadyTypeOK, PastInv
<1>b. now \in -(Lookback + 1)..MaxTime /\ -(Lookback + 1) \in Int
  BY <1>c DEF Lookback
<1>e. \A e \in Deps : wasBad[e] \in Int
  BY <1>t, <1>b, <1>c
<1>h. /\ \A e \in Deps : wasUp'[e] = (IF e = d THEN LastUp(e) ELSE wasUp[e])
      /\ \A e \in Deps : wasBad'[e] = (IF e = d THEN LastBad(e) ELSE wasBad[e])
      /\ \A e \in Deps : e # d => dep'[e] = dep[e]
  BY DEF DepChanges, Flip, ReadyInv, ReadyTypeOK, BackendsTypeOK
<1>l. \A e \in Deps : LastUp(e)' >= LastUp(e) /\ LastBad(e)' >= LastBad(e)
  BY <1>c, <1>t, <1>e, <1>h DEF LastUp, LastBad
<1>i. \A e \in Deps : /\ LastUp(e) \in Int /\ LastBad(e) \in Int
                      /\ LastUp(e)' \in Int /\ LastBad(e)' \in Int
  BY <1>c, <1>t, <1>e, <1>h DEF LastUp, LastBad
<1>1. ReadyTypeOK'
  <2>1. wasUp' \in [Deps -> 0..MaxTime]
    <3>1. LastUp(d) \in 0..MaxTime
      BY <1>c, <1>t DEF LastUp
    <3> QED BY <3>1 DEF DepChanges, ReadyInv, ReadyTypeOK
  <2>2. wasBad' \in [Deps -> -(Lookback + 1)..MaxTime]
    <3>1. LastBad(d) \in -(Lookback + 1)..MaxTime
      BY <1>b, <1>t DEF LastBad
    <3> QED BY <3>1 DEF DepChanges, ReadyInv, ReadyTypeOK
  <2> QED BY <1>c, <1>u, <1>d, <2>1, <2>2 DEF ReadyInv, ReadyTypeOK, BackendsTypeOK
<1>2. PastInv'
  BY <1>c, <1>t, <1>h, <1>e DEF PastInv, LastUp, LastBad
<1>3. QueueInv'
  BY <1>u DEF ReadyInv, QueueInv
<1>4. VerdictInv'
  <2>1. cached.at \in Int
    BY DEF ReadyInv, ReadyTypeOK
  <2> QED BY <1>c, <1>u, <1>l, <1>i, <2>1 DEF ReadyInv, VerdictInv
<1>5. ASSUME NEW q \in Probes PROVE ProbeInv(q)'
  <2>1. ProbeInv(q)
    BY DEF ReadyInv
  <2>2. deadline[q] \in Nat /\ now \in Nat
    BY <1>c DEF ReadyInv, ReadyTypeOK
  <2>3. /\ (\E e \in Deps : LastBad(e) >= now) => \E e \in Deps : LastBad(e)' >= now
        /\ LastBad("database") >= deadline[q] - HealthCheckTimeout =>
              LastBad("database")' >= deadline[q] - HealthCheckTimeout
        /\ LastUp("database") >= deadline[q] - HealthCheckTimeout =>
              LastUp("database")' >= deadline[q] - HealthCheckTimeout
    BY <1>c, <1>l, <1>i, <2>2
  <2> QED BY <1>c, <1>u, <2>1, <2>3 DEF ProbeInv
<1> QED BY <1>1, <1>2, <1>3, <1>4, <1>5 DEF ReadyInv

\* Every reachable state keeps the queue, the probes and the verdict.
LEMMA ReachableReadyInv == ReadySpec => []ReadyInv
<1>1. BackendsInit /\ ReadyInit => ReadyInv
  <2> SUFFICES ASSUME BackendsInit, ReadyInit PROVE ReadyInv
    OBVIOUS
  <2>1. /\ MaxTime \in Nat /\ Lookback \in Nat /\ CacheFor \in Nat /\ MaxOutages \in Nat
        /\ HealthCheckTimeout \in Nat /\ RedisReadTimeout \in Nat
    BY BackendsAssumption, ReadinessAssumption DEF Lookback
  <2>2. -(Lookback + 1) \in -(Lookback + 1)..MaxTime /\ -CacheFor \in -CacheFor..MaxTime
    BY <2>1
  <2>3. ReadyTypeOK
    BY <2>1, <2>2 DEF BackendsInit, ReadyInit, ReadyTypeOK, BackendsTypeOK, Statuses
  <2>4. PastInv
    BY <2>1 DEF BackendsInit, ReadyInit, PastInv
  <2>5. QueueInv
    BY DEF ReadyInit, QueueInv
  <2>6. VerdictInv
    BY <2>1 DEF BackendsInit, ReadyInit, VerdictInv
  <2>7. \A p \in Probes : ProbeInv(p)
    BY DEF ReadyInit, ProbeInv
  <2> QED BY <2>3, <2>4, <2>5, <2>6, <2>7 DEF ReadyInv
<1>2. ReadyInv /\ [ReadyNext]_readyVars => ReadyInv'
  <2> SUFFICES ASSUME ReadyInv, [ReadyNext]_readyVars PROVE ReadyInv'
    OBVIOUS
  <2>1. CASE UNCHANGED readyVars
    BY <2>1 DEF readyVars, depVars, historyVars, probeVars, ReadyInv, ReadyTypeOK,
                BackendsTypeOK, PastInv, QueueInv, VerdictInv, ProbeInv, LastUp, LastBad
  <2>2. ASSUME NEW p \in Probes, ReadyStep(p) PROVE ReadyInv'
    <3>1. ReadyTypeOK'
      BY <2>2, ReadyStepKeepsTypes DEF ReadyInv
    <3>2. PastInv'
      BY <2>2, ReadyStepIsLocal DEF ReadyInv, PastInv
    <3> QED BY <2>2, <3>1, <3>2, ReadyStepKeepsQueue, ReadyStepKeepsVerdict,
               ReadyStepKeepsProbeInv DEF ReadyInv
  <2>3. CASE \E d \in Deps, status \in Statuses : DepChanges(d, status)
    BY <2>3, DepChangeKeepsReadyInv
  <2>4. CASE ProbesWait /\ Tick /\ UNCHANGED <<historyVars, probeVars>>
    BY <2>4, ReadyTickKeepsReadyInv
  <2> QED BY <2>1, <2>2, <2>3, <2>4 DEF ReadyNext
<1> QED BY <1>1, <1>2, PTL DEF ReadySpec

\* The variables of the probes keep their types.
THEOREM ReadinessTypes == ReadySpec => []ReadyTypeOK
<1>1. ReadyInv => ReadyTypeOK
  BY DEF ReadyInv
<1> QED BY <1>1, ReachableReadyInv, PTL

\* However many probes are queued, each is answered before one read attempt
\* after its timeout is over: time waits for the holder of the lock alone, and
\* the holder's deadline is the earliest.
THEOREM ReadinessAnswersInTime == ReadySpec => []ProbeAnswersInTime
<1>1. ReadyInv => ProbeAnswersInTime
  BY DEF ReadyInv, ProbeInv, ProbeAnswersInTime
<1> QED BY <1>1, ReachableReadyInv, PTL

\* Who answers a probe, and from what.
LEMMA ToldSteps ==
    ASSUME ReadyInv, ReadyNext, NEW p \in Probes, NEW code \in {200, 503}, Told(p, code)
    PROVE  \/ /\ Fresh /\ probe[p] = "wait"
              /\ code = IF cached.ok THEN 200 ELSE 503
           \/ /\ probe[p] = "redis" /\ code = 200
              /\ dep["redis"] = "up" /\ p \notin failed
           \/ /\ probe[p] = "redis" /\ code = 503
              /\ dep["redis"] = "down" \/ CtxEnded(p) \/ p \in failed
<1>t. ReadyTypeOK /\ answer \in [Probes -> {0, 200, 503}] /\ code # 0
  BY DEF ReadyInv, ReadyTypeOK
<1>1. PICK q \in Probes : ReadyStep(q)
  <2>1. answer' # answer
    BY DEF Told
  <2> QED BY <2>1 DEF ReadyNext, DepChanges, probeVars
<1>2. q = p
  <2>1. answer'[p] # answer[p]
    BY <1>t DEF Told
  <2> QED BY <1>t, <1>1, <2>1, ReadyStepIsLocal
<1>3. ASSUME NEW ok, Answer(p, ok) PROVE code = IF ok THEN 200 ELSE 503
  BY <1>3, <1>t DEF Answer, Told
<1>4. CASE UseCached(p)
  BY <1>3, <1>4 DEF UseCached
<1>5. CASE PingRedis(p)
  <2>1. probe[p] = "redis"
    BY <1>5 DEF PingRedis
  <2>2. CASE dep["redis"] = "up" /\ RedisPinged(p, TRUE)
    <3>1. code = IF TRUE /\ p \notin failed THEN 200 ELSE 503
      BY <1>3, <2>2 DEF RedisPinged
    <3> QED BY <2>1, <2>2, <3>1
  <2>3. CASE (dep["redis"] = "down" \/ CtxEnded(p)) /\ RedisPinged(p, FALSE)
    <3>1. code = IF FALSE /\ p \notin failed THEN 200 ELSE 503
      BY <1>3, <2>3 DEF RedisPinged
    <3> QED BY <2>1, <2>3, <3>1
  <2> QED BY <1>5, <2>2, <2>3 DEF PingRedis
<1>6. CASE ~UseCached(p) /\ ~PingRedis(p)
  <2>1. answer' = answer \/ answer' = [answer EXCEPT ![p] = 0]
    BY <1>1, <1>2, <1>6 DEF ReadyStep, Ready, HangUp, StartPings, PingDatabase,
                            AttemptRedis, AttemptTimesOut
  <2> QED BY <1>t, <2>1 DEF Told
<1> QED BY <1>4, <1>5, <1>6

\* The clock and the times of the dependencies are numbers.
LEMMA TimesAreNumbers ==
    ASSUME ReadyInv
    PROVE  /\ now \in Nat /\ HealthCheckTimeout \in Nat \ {0} /\ RedisReadTimeout \in Nat
           /\ CacheFor \in Nat /\ CacheFor <= RedisReadTimeout /\ cached.at \in Int
           /\ \A p \in Probes : deadline[p] \in Nat
           /\ \A d \in Deps : LastUp(d) \in Int /\ LastBad(d) \in Int /\ LastBad(d) <= now
           /\ "database" \in Deps /\ "redis" \in Deps
           /\ \A d \in Deps : d = "database" \/ d = "redis"
<1>1. /\ now \in 0..MaxTime /\ MaxTime \in Nat /\ HealthCheckTimeout \in Nat \ {0}
      /\ RedisReadTimeout \in Nat /\ CacheFor \in Nat /\ CacheFor <= RedisReadTimeout
  BY BackendsAssumption, ReadinessAssumption DEF ReadyInv, ReadyTypeOK, BackendsTypeOK
<1>2. cached.at \in Int /\ \A p \in Probes : deadline[p] \in Nat
  BY <1>1 DEF ReadyInv, ReadyTypeOK
<1>3. \A d \in Deps : wasUp[d] \in Int /\ wasBad[d] \in Int /\ wasBad[d] <= now
  BY DEF ReadyInv, ReadyTypeOK, PastInv
<1> QED BY <1>1, <1>2, <1>3 DEF LastUp, LastBad, Deps

\* Whoever is told that a replica is ready, by a ping or by a kept verdict, can
\* rely on each dependency having been up within the lookback.
THEOREM ReadinessIsRecent == ReadySpec => ReadyIsRecent
<1>1. ASSUME ReadyInv, ReadyNext, NEW p \in Probes, Told(p, 200), NEW d \in Deps
      PROVE  now - LastUp(d) <= Lookback
  <2>1. CASE Fresh /\ cached.ok
    BY <1>1, <2>1, TimesAreNumbers DEF Fresh, ReadyInv, VerdictInv, Lookback
  <2>2. CASE probe[p] = "redis" /\ dep["redis"] = "up" /\ p \notin failed
    <3>1. LastUp("redis") = now
      BY <2>2 DEF LastUp
    <3>2. /\ LastUp("database") >= deadline[p] - HealthCheckTimeout
          /\ now < deadline[p] + RedisReadTimeout
      BY <1>1, <2>2 DEF ReadyInv, ProbeInv
    <3> QED BY <1>1, <3>1, <3>2, TimesAreNumbers DEF Lookback
  <2> QED BY <1>1, <2>1, <2>2, ToldSteps
<1>2. ReadyInv /\ [ReadyNext]_readyVars =>
        [\A p \in Probes : Told(p, 200) => \A d \in Deps : now - LastUp(d) <= Lookback]_readyVars
  BY <1>1
<1> QED BY <1>2, ReachableReadyInv, PTL DEF ReadySpec, ReadyIsRecent

\* A probe whose client is still there is told "not ready" only if a dependency
\* was bad within the lookback: a probe that was cut short leaves no verdict, and
\* one that ran out of time did so because a dependency hung.
THEOREM ReadinessDrainsForCause == ReadySpec => HealthyReplicaIsReady
<1>1. ASSUME ReadyInv, ReadyNext, NEW p \in Probes, Told(p, 503), p \notin gone
      PROVE  \E d \in Deps : now - LastBad(d) <= Lookback
  <2>1. CASE Fresh /\ ~cached.ok
    <3>1. cached.at > -CacheFor
      BY <1>1, <2>1, TimesAreNumbers DEF Fresh, ReadyInv, VerdictInv
    <3> QED BY <1>1, <2>1, <3>1, TimesAreNumbers DEF Fresh, ReadyInv, VerdictInv, Lookback
  <2>2. CASE probe[p] = "redis" /\ (dep["redis"] = "down" \/ CtxEnded(p) \/ p \in failed)
    <3>1. ProbeInv(p) /\ probe[p] # "idle"
      BY <1>1, <2>2 DEF ReadyInv
    <3>2. CASE dep["redis"] = "down"
      <4>1. LastBad("redis") = now
        BY <3>2 DEF LastBad
      <4> QED BY <1>1, <4>1, TimesAreNumbers DEF Lookback
    <3>3. CASE now >= deadline[p]
      <4>1. \E d \in Deps : LastBad(d) >= now
        BY <1>1, <3>1, <3>3, TimesAreNumbers DEF ProbeInv
      <4> QED BY <1>1, <4>1, TimesAreNumbers DEF Lookback
    <3>4. CASE p \in failed /\ ~(now >= deadline[p])
      <4>1. /\ LastBad("database") >= deadline[p] - HealthCheckTimeout
            /\ now < deadline[p] + RedisReadTimeout
        BY <1>1, <3>1, <3>4 DEF ProbeInv
      <4> QED BY <1>1, <4>1, TimesAreNumbers DEF Lookback
    <3> QED BY <1>1, <2>2, <3>2, <3>3, <3>4 DEF CtxEnded
  <2> QED BY <1>1, <2>1, <2>2, ToldSteps
<1>2. ReadyInv /\ [ReadyNext]_readyVars =>
        [\A p \in Probes : Told(p, 503) /\ p \notin gone =>
            \E d \in Deps : now - LastBad(d) <= Lookback]_readyVars
  BY <1>1
<1> QED BY <1>2, ReachableReadyInv, PTL DEF ReadySpec, HealthyReplicaIsReady
=============================================================================
