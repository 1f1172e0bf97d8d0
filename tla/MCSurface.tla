------------------------------ MODULE MCSurface ------------------------------
(***************************************************************************)
(* A small instance of the HTTP surface.  Probes, requests of one route    *)
(* and sockets meet only in the clock, Redis and, for sockets, the         *)
(* budgets, and what an operation does meets none of them; so each         *)
(* behaviour has a focus: the probes, one route, the sockets, or a family  *)
(* of operations, in every configuration that a server comes up with.      *)
(***************************************************************************)
EXTENDS Readiness, Session, MCExecution, TLC

CONSTANTS alice, bob, Horizon  \* Horizon: how far requests get; sockets get one step less far

\* Every client has a network of its own; alice may write bob's address into her
\* header.
Networks1 == [a \in Addresses |-> a]
Typed1 == {<<>>, <<bob>>}

VARIABLE focus

\* Three families of operations: what is sent in each.
Sent ==
    [avatars |-> AvatarDocuments \X {"text"}, guards |-> GuardDocuments \X {"text"},
     caps |-> CapDocuments \X {"text", "both", "hash"}]

Init ==
    /\ BackendsInit /\ ReadyInit /\ EdgeInit /\ SessionInit /\ ExecInit
    /\ \E f \in {<<"/readyz", "rl", bob>>, <<"/dev", "rl:dev", alice>>, <<"/dev", "rl", bob>>,
                 <<"/graphql", "rl:auth", alice>>, <<"socket", "rl:auth", alice>>}
                \cup {<<family, "rl", bob>> : family \in DOMAIN Sent} :
          focus = f[1] /\ watched = <<f[2], f[3]>>
    /\ focus \in DOMAIN Sent \/ cfg = Trimmed(Sound)

Requested(clients, route) ==
    \A c \in Clients : req'[c].stage # "none" => c \in clients /\ req'[c].route = route

ProbesMove == ReadyNext /\ UNCHANGED <<edgeVars, sessionVars>>

RequestsMove ==
    /\ EdgeNext /\ Requested(Clients, focus) /\ now' <= Horizon
    /\ UNCHANGED <<historyVars, probeVars, sessionVars>>

\* Alice spends the budget of her socket by requests of her own before it.
SocketsMove ==
    /\ SessionNext /\ since' = 0 /\ now' < Horizon
    /\ Requested({c \in {alice} : \A s \in Sockets : sock[s].stage = "none"}, "/graphql")
    /\ UNCHANGED <<historyVars, probeVars>>

OperationsMove ==
    /\ \/ \E r \in Requests, caller \in Profiles \cup {Anonymous}, sent \in Sent[focus] :
             /\ focus = "avatars" => caller # Anonymous
             /\ Submit(r, caller, sent[1], sent[2])
       \/ \E r \in Requests : (\E i \in DOMAIN exec[r].field : Resolve(r, i)) \/ Reply(r)
       \/ \E f \in Files :
             focus = "avatars" /\ started = 0 /\ Import(user, PermanentLink(cfg, <<f>>))
    /\ UNCHANGED <<now, depVars, historyVars, probeVars, edgeVars, sessionVars>>

Next ==
    /\ \/ focus = "/readyz" /\ ProbesMove /\ UNCHANGED execVars
       \/ focus \in Routes /\ RequestsMove /\ UNCHANGED execVars
       \/ focus = "socket" /\ SocketsMove /\ UNCHANGED execVars
       \/ focus \in DOMAIN Sent /\ OperationsMove
    /\ UNCHANGED focus

Spec ==
    Init /\ [][Next]_<<now, depVars, historyVars, probeVars, edgeVars, sessionVars, execVars, focus>>

Symmetry == Permutations(Probes) \cup Permutations(Requests)
=============================================================================
