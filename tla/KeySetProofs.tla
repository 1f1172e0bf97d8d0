----------------------------- MODULE KeySetProofs -----------------------------
(***************************************************************************)
(* Proofs about KeySet, for any callers, keys, tokens and intervals.  The  *)
(* invariant dates what is known of the provider's keys: what a set held   *)
(* was published, at the earliest, when the set was asked for.             *)
(***************************************************************************)
EXTENDS KeySet, TLAPS

\* Only the caller that holds the lock fetches, for no longer than a fetch may
\* last, and the clock is never behind what it stamped.
LockInv ==
    /\ mu # Free => now <= fetchedAt + FetchTime /\ fetches # 0
    /\ fetchedAt <= now /\ loadedAt <= now
    /\ fetches = 0 => fetchedAt = 0
    /\ fetches # 0 => fetchedAt >= Boot

\* What the provider handed out: the keys it published then, and no set is empty.
BodyInv == \A c \in Callers : pc[c] = "read" =>
    /\ body # {}
    /\ keys \cap Published \subseteq body
    /\ \A k \in body : /\ provider[k] # "new"
                       /\ provider[k] = "removed" => fetchedAt <= changedAt[k]
    /\ \A k \in Published \ body : fetchedAt <= changedAt[k]

\* A key that was loaded had been published, and is removed no sooner than that
\* set was asked for.
KeysInv == \A k \in keys :
    /\ provider[k] # "new"
    /\ provider[k] = "removed" => loadedAt <= changedAt[k] + FetchTime

\* When the last fetch did not fail, what it loaded is what was published then.
FreshInv == ~lastFailed /\ mu = Free =>
    /\ fetchedAt <= loadedAt
    /\ fetches # 0 => keys # {}
    /\ \A k \in Published \ keys : fetchedAt <= changedAt[k]

\* Fetches are MinInterval apart while none fails, and never less than RetryEvery.
FetchesInv ==
    /\ fetches <= fetchedAt
    /\ failures = 0 => ~lastFailed /\ fetches * MinInterval <= fetchedAt

KeySetInv == TypeOK /\ Published # {} /\ LockInv /\ BodyInv /\ KeysInv /\ FreshInv /\ FetchesInv

\* The caller that reads what the provider handed out holds the lock.
LEMMA ReaderHoldsLock ==
    ASSUME TypeOK, NEW c \in Callers, pc[c] = "read" PROVE mu = c /\ mu # Free
BY NobodyAssumption DEF TypeOK

\* The invariant holds before the first token arrives.
LEMMA InitHasKeySetInv == Init => KeySetInv
<1> SUFFICES ASSUME Init PROVE KeySetInv
  OBVIOUS
<1> USE DEF Init, Boot
<1>1. TypeOK
  <2>1. now \in Boot..MaxTime /\ 0 \in 0..MaxTime /\ failures \in 0..MaxFailures
    BY IntervalsAssumption
  <2>2. pc \in [Callers -> {"idle", "lock", "fetch", "read"} \cup Answers]
        /\ \A c \in Callers : mu # c /\ pc[c] = "idle"
    BY NobodyAssumption
  <2>3. provider \in [Keys -> {"new", "published", "removed"}]
        /\ changedAt \in [Keys -> 0..MaxTime]
    BY <2>1
  <2> QED BY <2>1, <2>2, <2>3 DEF TypeOK
<1>2. Published # {}
  OBVIOUS
<1>3. LockInv /\ BodyInv /\ KeysInv
  BY IntervalsAssumption DEF LockInv, BodyInv, KeysInv
<1>4. FreshInv /\ FetchesInv
  <2>1. 0 * MinInterval = 0
    BY IntervalsAssumption
  <2>2. \A k \in Keys : changedAt[k] = 0
    OBVIOUS
  <2> QED BY <2>1, <2>2 DEF FreshInv, FetchesInv, Published
<1> QED BY <1>1, <1>2, <1>3, <1>4 DEF KeySetInv

\* A caller presents a token.
LEMMA PresentKeepsInv ==
    ASSUME KeySetInv, NEW c \in Callers, NEW t \in Tokens, Present(c, t) PROVE KeySetInv'
<1>1. /\ UNCHANGED <<now, provider, changedAt, keys, fetchedAt, loadedAt, mu, body, fetches,
                     failures, lastFailed>>
      /\ \E s \in {"401", "lock"} : pc' = [pc EXCEPT ![c] = s]
      /\ tok' \in {tok, [tok EXCEPT ![c] = t]} /\ pc[c] \in {"idle"} \cup Answers
  BY DEF Present, world, history
<1>2. TypeOK'
  BY <1>1 DEF KeySetInv, TypeOK, Answers
<1>3. \A d \in Callers : pc'[d] = "read" => pc[d] = "read"
  BY <1>1 DEF KeySetInv, TypeOK
<1>4. BodyInv'
  BY <1>1, <1>3 DEF KeySetInv, BodyInv, Published
<1>5. Published' # {} /\ LockInv' /\ KeysInv' /\ FreshInv' /\ FetchesInv'
  BY <1>1 DEF KeySetInv, LockInv, KeysInv, FreshInv, FetchesInv, Published
<1> QED BY <1>2, <1>4, <1>5 DEF KeySetInv

\* The set at hand answers.
LEMMA VerifyKeepsInv ==
    ASSUME KeySetInv, NEW c \in Callers, Verify(c) PROVE KeySetInv'
<1>1. /\ UNCHANGED <<now, provider, changedAt, keys, fetchedAt, loadedAt, mu, body, fetches,
                     failures, lastFailed>>
      /\ \E s \in {"200", "401"} : pc' = [pc EXCEPT ![c] = s]
      /\ tok' = [tok EXCEPT ![c] = NoToken] /\ pc[c] = "lock"
  BY DEF Verify, Answer, world, history
<1>2. TypeOK'
  BY <1>1 DEF KeySetInv, TypeOK, Answers
<1>3. \A d \in Callers : pc'[d] = "read" => pc[d] = "read"
  BY <1>1 DEF KeySetInv, TypeOK
<1>4. BodyInv'
  BY <1>1, <1>3 DEF KeySetInv, BodyInv, Published
<1>5. Published' # {} /\ LockInv' /\ KeysInv' /\ FreshInv' /\ FetchesInv'
  BY <1>1 DEF KeySetInv, LockInv, KeysInv, FreshInv, FetchesInv, Published
<1> QED BY <1>2, <1>4, <1>5 DEF KeySetInv

\* A fetch begins: MinInterval after the last one that did not fail.
LEMMA StartFetchKeepsInv ==
    ASSUME KeySetInv, NEW c \in Callers, StartFetch(c) PROVE KeySetInv'
<1>1. /\ UNCHANGED <<now, provider, changedAt, keys, loadedAt, body, tok, failures, lastFailed>>
      /\ mu' = c /\ pc' = [pc EXCEPT ![c] = "fetch"] /\ fetchedAt' = now
      /\ fetches' = fetches + 1 /\ mu = Free /\ pc[c] = "lock"
  BY DEF StartFetch, world
<1>2. /\ now \in Nat /\ fetchedAt \in Nat /\ loadedAt \in Nat /\ fetches \in Nat /\ now >= Boot
      /\ now <= MaxTime /\ mu' # Free
  BY <1>1, IntervalsAssumption, NobodyAssumption DEF KeySetInv, TypeOK, Boot
<1>3. now - fetchedAt >= RetryEvery
  BY <1>2, IntervalsAssumption DEF StartFetch, MustFetch, Wait, Since
<1>4. fetches + 1 <= now
  BY <1>2, <1>3, IntervalsAssumption DEF KeySetInv, FetchesInv
<1>5. TypeOK'
  <2>1. fetchedAt' \in 0..MaxTime /\ fetches' \in 0..MaxTime
    BY <1>1, <1>2, <1>4, IntervalsAssumption
  <2>2. pc' \in [Callers -> {"idle", "lock", "fetch", "read"} \cup Answers]
        /\ \A d \in Callers : mu' = d <=> pc'[d] \in {"fetch", "read"}
    BY <1>1, NobodyAssumption DEF KeySetInv, TypeOK
  <2> QED BY <1>1, <2>1, <2>2 DEF KeySetInv, TypeOK
<1>6. LockInv'
  BY <1>1, <1>2, IntervalsAssumption DEF KeySetInv, LockInv, Boot
<1>7. BodyInv'
  <2>1. \A d \in Callers : pc'[d] # "read"
    BY <1>1, ReaderHoldsLock DEF KeySetInv, TypeOK
  <2> QED BY <2>1 DEF BodyInv
<1>8. FetchesInv'
  <2>1. ASSUME failures = 0, fetches # 0
        PROVE  now - fetchedAt >= MinInterval
    <3>1. fetchedAt <= loadedAt /\ keys # {}
      BY <1>1, <2>1 DEF KeySetInv, FetchesInv, FreshInv
    <3>2. CASE Missing(c) /\ Since >= Wait
      BY <3>1, <3>2 DEF Since, Wait
    <3>3. CASE Stale
      BY <1>2, <3>1, <3>3, IntervalsAssumption DEF Stale
    <3> QED BY <3>2, <3>3 DEF StartFetch, MustFetch
  <2>2. ASSUME failures = 0
        PROVE  (fetches + 1) * MinInterval <= now
    <3>1. CASE fetches = 0
      BY <1>2, <3>1, IntervalsAssumption DEF Boot
    <3>2. CASE fetches # 0
      <4>1. fetches * MinInterval <= fetchedAt /\ now - fetchedAt >= MinInterval
        BY <2>1, <2>2, <3>2 DEF KeySetInv, FetchesInv
      <4>2. (fetches + 1) * MinInterval = fetches * MinInterval + MinInterval
            /\ fetches * MinInterval \in Nat
        BY <1>2, IntervalsAssumption
      <4> QED BY <1>2, <4>1, <4>2, IntervalsAssumption
    <3> QED BY <3>1, <3>2
  <2> QED BY <1>1, <1>4, <2>2 DEF KeySetInv, FetchesInv
<1>9. Published' # {} /\ KeysInv' /\ FreshInv'
  BY <1>1, <1>2 DEF KeySetInv, KeysInv, FreshInv, Published
<1> QED BY <1>5, <1>6, <1>7, <1>8, <1>9 DEF KeySetInv

\* The provider writes its answer: what it publishes now.
LEMMA ServeKeepsInv ==
    ASSUME KeySetInv, NEW c \in Callers, Serve(c) PROVE KeySetInv'
<1>1. /\ UNCHANGED <<now, provider, changedAt, keys, fetchedAt, loadedAt, mu, tok, fetches,
                     failures, lastFailed>>
      /\ body' = Published /\ pc' = [pc EXCEPT ![c] = "read"] /\ pc[c] = "fetch"
  BY DEF Serve, world, history
<1>2. TypeOK'
  BY <1>1 DEF KeySetInv, TypeOK, Published
<1>3. Published' = Published
  BY <1>1 DEF Published
<1>4. BodyInv'
  <2>1. \A k \in Published : provider[k] = "published"
    BY DEF Published
  <2> QED BY <1>1, <1>3, <2>1 DEF KeySetInv, BodyInv
<1>5. Published' # {} /\ LockInv' /\ KeysInv' /\ FreshInv' /\ FetchesInv'
  BY <1>1, <1>3 DEF KeySetInv, LockInv, KeysInv, FreshInv, FetchesInv
<1> QED BY <1>2, <1>4, <1>5 DEF KeySetInv

\* What ends a fetch: its caller lets the lock go and is answered.
FetchEnds(c) ==
    /\ UNCHANGED <<now, provider, changedAt, fetchedAt, fetches>>
    /\ mu' = Free /\ body' = {} /\ tok' = [tok EXCEPT ![c] = NoToken]
    /\ \E s \in {"200", "401"} : pc' = [pc EXCEPT ![c] = s]
    /\ pc[c] \in {"fetch", "read"}

\* Nobody reads when a fetch has ended.
LEMMA FetchEndsFreesLock ==
    ASSUME TypeOK, NEW c \in Callers, FetchEnds(c)
    PROVE  /\ \A d \in Callers : ~(pc'[d] \in {"fetch", "read"}) /\ mu' # d
           /\ pc' \in [Callers -> {"idle", "lock", "fetch", "read"} \cup Answers]
           /\ tok' \in [Callers -> Tokens \cup {NoToken}]
           /\ mu = c /\ mu # Free
BY NobodyAssumption DEF TypeOK, FetchEnds, Answers

\* A fetch that succeeded replaces the set.
LEMMA LoadKeepsInv ==
    ASSUME KeySetInv, NEW c \in Callers, Load(c) PROVE KeySetInv'
<1>1. FetchEnds(c)
  BY DEF Load, Answer, FetchEnds, world
<1>2. /\ UNCHANGED <<now, provider, changedAt, fetchedAt, fetches, failures>> /\ pc[c] = "read"
      /\ keys' = body /\ loadedAt' = now /\ lastFailed' = FALSE /\ mu' = Free /\ body' = {}
  BY DEF Load, world
<1>3. /\ \A d \in Callers : ~(pc'[d] \in {"fetch", "read"}) /\ mu' # d
      /\ pc' \in [Callers -> {"idle", "lock", "fetch", "read"} \cup Answers]
      /\ tok' \in [Callers -> Tokens \cup {NoToken}] /\ mu # Free
  BY <1>1, FetchEndsFreesLock DEF KeySetInv
<1>4. /\ now \in Nat /\ fetchedAt \in Nat /\ now <= MaxTime /\ changedAt \in [Keys -> Nat]
      /\ keys \subseteq Keys /\ body \subseteq Keys
  BY IntervalsAssumption DEF KeySetInv, TypeOK, Boot
<1>5. TypeOK'
  <2>1. now \in 0..MaxTime
    BY <1>4, IntervalsAssumption
  <2>2. /\ keys' \subseteq Keys /\ body' \subseteq Keys /\ loadedAt' \in 0..MaxTime
        /\ mu' \in Callers \cup {Free} /\ lastFailed' \in BOOLEAN
    BY <1>2, <1>4, <2>1
  <2> QED BY <1>2, <1>3, <2>2 DEF KeySetInv, TypeOK
<1>6. Published' = Published
  BY <1>2 DEF Published
<1>7. BodyInv' /\ LockInv'
  BY <1>2, <1>3, <1>4 DEF KeySetInv, LockInv, BodyInv
<1>8. KeysInv'
  <2> SUFFICES ASSUME NEW k \in body
               PROVE  /\ provider[k] # "new"
                      /\ provider[k] = "removed" => now <= changedAt[k] + FetchTime
    BY <1>2 DEF KeysInv
  <2>1. /\ provider[k] # "new" /\ (provider[k] = "removed" => fetchedAt <= changedAt[k])
        /\ now <= fetchedAt + FetchTime /\ changedAt[k] \in Nat
    BY <1>2, <1>3, <1>4 DEF KeySetInv, BodyInv, LockInv
  <2> QED BY <1>4, <2>1, IntervalsAssumption
<1>9. FreshInv'
  BY <1>2, <1>6 DEF KeySetInv, BodyInv, LockInv, FreshInv
<1>10. Published' # {} /\ FetchesInv'
  BY <1>2, <1>6 DEF KeySetInv, FetchesInv
<1> QED BY <1>5, <1>7, <1>8, <1>9, <1>10 DEF KeySetInv

\* One that failed keeps it.
LEMMA FailFetchKeepsInv ==
    ASSUME KeySetInv, NEW c \in Callers, FailFetch(c) PROVE KeySetInv'
<1>1. FetchEnds(c)
  BY DEF FailFetch, Answer, FetchEnds, world
<1>2. /\ UNCHANGED <<now, provider, changedAt, keys, fetchedAt, loadedAt, fetches>>
      /\ failures < MaxFailures /\ failures' = failures + 1 /\ lastFailed' = TRUE
      /\ mu' = Free /\ body' = {}
  BY DEF FailFetch, world
<1>3. /\ \A d \in Callers : ~(pc'[d] \in {"fetch", "read"}) /\ mu' # d
      /\ pc' \in [Callers -> {"idle", "lock", "fetch", "read"} \cup Answers]
      /\ tok' \in [Callers -> Tokens \cup {NoToken}]
  BY <1>1, FetchEndsFreesLock DEF KeySetInv
<1>4. failures' \in 0..MaxFailures /\ failures' # 0
  BY <1>2, IntervalsAssumption DEF KeySetInv, TypeOK
<1>5. TypeOK'
  BY <1>2, <1>3, <1>4 DEF KeySetInv, TypeOK
<1>6. BodyInv' /\ LockInv' /\ FreshInv'
  BY <1>2, <1>3 DEF KeySetInv, LockInv, BodyInv, FreshInv
<1>7. Published' # {} /\ KeysInv' /\ FetchesInv'
  BY <1>2, <1>4 DEF KeySetInv, KeysInv, FetchesInv, Published
<1> QED BY <1>5, <1>6, <1>7 DEF KeySetInv

\* The provider publishes or removes a key.
LEMMA RotateKeepsInv ==
    ASSUME KeySetInv, NEW k \in Keys, Rotate(k) PROVE KeySetInv'
<1>1. /\ UNCHANGED <<now, keys, fetchedAt, loadedAt, mu, body, pc, tok, fetches, failures, lastFailed>>
      /\ changedAt' = [changedAt EXCEPT ![k] = now] /\ Published # {k}
  BY DEF Rotate, history
<1>2. /\ now \in Nat /\ now <= MaxTime /\ fetchedAt <= now /\ loadedAt <= now
      /\ fetchedAt \in Nat /\ loadedAt \in Nat
      /\ changedAt \in [Keys -> 0..MaxTime]
      /\ provider \in [Keys -> {"new", "published", "removed"}]
      /\ keys \subseteq Keys /\ body \subseteq Keys
  BY IntervalsAssumption DEF KeySetInv, TypeOK, Boot, LockInv
<1>3. /\ changedAt' \in [Keys -> 0..MaxTime] /\ changedAt'[k] = now
      /\ provider' \in [Keys -> {"new", "published", "removed"}]
      /\ \A j \in Keys : j # k => changedAt'[j] = changedAt[j] /\ provider'[j] = provider[j]
      /\ \/ provider[k] = "new" /\ provider'[k] = "published"
         \/ provider[k] = "published" /\ provider'[k] = "removed"
  BY <1>1, <1>2 DEF Rotate
<1>4. \A j \in Keys : /\ j \in Published <=> provider[j] = "published"
                      /\ j \in Published' <=> provider'[j] = "published"
  BY DEF Published
<1>5. TypeOK'
  BY <1>1, <1>3 DEF KeySetInv, TypeOK
<1>6. Published' # {}
  <2>1. CASE provider[k] = "new"
    BY <1>3, <1>4, <2>1
  <2>2. CASE provider[k] = "published"
    <3>1. PICK j \in Published : j # k
      BY <1>1, <1>4, <2>2
    <3>2. j \in Keys /\ j \in Published'
      BY <1>3, <1>4, <3>1 DEF Published
    <3> QED BY <3>2
  <2> QED BY <1>3, <2>1, <2>2
<1>7. LockInv' /\ FetchesInv'
  BY <1>1 DEF KeySetInv, LockInv, FetchesInv
<1>8. BodyInv'
  <2> SUFFICES ASSUME NEW c \in Callers, pc[c] = "read"
               PROVE  /\ body # {}
                      /\ \A j \in Keys : /\ j \in keys /\ j \in Published' => j \in body
                                         /\ j \in body => provider'[j] # "new"
                                         /\ j \in body /\ provider'[j] = "removed"
                                               => fetchedAt <= changedAt'[j]
                                         /\ j \in Published' /\ j \notin body
                                               => fetchedAt <= changedAt'[j]
    <3>1. \A j \in Published' : j \in Keys
      BY DEF Published
    <3> QED BY <1>1, <1>2, <3>1 DEF BodyInv
  <2>1. /\ body # {} /\ keys \cap Published \subseteq body
        /\ \A j \in body : /\ provider[j] # "new"
                           /\ provider[j] = "removed" => fetchedAt <= changedAt[j]
        /\ \A j \in Published \ body : fetchedAt <= changedAt[j]
        /\ \A j \in keys : provider[j] # "new"
    BY DEF KeySetInv, BodyInv, KeysInv
  <2> SUFFICES ASSUME NEW j \in Keys
               PROVE  /\ j \in keys /\ j \in Published' => j \in body
                      /\ j \in body => provider'[j] # "new"
                      /\ j \in body /\ provider'[j] = "removed" => fetchedAt <= changedAt'[j]
                      /\ j \in Published' /\ j \notin body => fetchedAt <= changedAt'[j]
    BY <2>1
  <2>2. CASE j = k
    BY <1>2, <1>3, <1>4, <2>1, <2>2
  <2>3. CASE j # k
    BY <1>2, <1>3, <1>4, <2>1, <2>3
  <2> QED BY <2>2, <2>3
<1>9. KeysInv'
  <2> SUFFICES ASSUME NEW j \in keys
               PROVE  /\ provider'[j] # "new"
                      /\ provider'[j] = "removed" => loadedAt <= changedAt'[j] + FetchTime
    BY <1>1 DEF KeysInv
  <2>1. CASE j = k
    BY <1>2, <1>3, <2>1, IntervalsAssumption
  <2>2. CASE j # k
    BY <1>2, <1>3, <2>2 DEF KeySetInv, KeysInv
  <2> QED BY <2>1, <2>2
<1>10. FreshInv'
  <2> SUFFICES ASSUME ~lastFailed, mu = Free, NEW j \in Published', j \notin keys
               PROVE  fetchedAt <= changedAt'[j]
    BY <1>1 DEF KeySetInv, FreshInv
  <2>1. j \in Keys
    BY DEF Published
  <2>2. CASE j = k
    BY <1>2, <1>3, <2>2
  <2>3. CASE j # k
    BY <1>3, <1>4, <2>1, <2>3 DEF KeySetInv, FreshInv
  <2> QED BY <2>2, <2>3
<1> QED BY <1>5, <1>6, <1>7, <1>8, <1>9, <1>10 DEF KeySetInv

\* Time passes, but not for longer than a fetch may last.
LEMMA TickKeepsInv ==
    ASSUME KeySetInv, Tick PROVE KeySetInv'
<1>1. /\ UNCHANGED <<provider, changedAt, keys, fetchedAt, loadedAt, mu, body, pc, tok, fetches,
                     failures, lastFailed>>
      /\ now < MaxTime /\ now' = now + 1 /\ (mu # Free => now < fetchedAt + FetchTime)
  BY DEF Tick, history
<1>2. now \in Boot..MaxTime /\ fetchedAt \in Nat /\ loadedAt \in Nat /\ now \in Nat
  BY IntervalsAssumption DEF KeySetInv, TypeOK, Boot
<1>3. now' \in Boot..MaxTime
  BY <1>1, <1>2, IntervalsAssumption DEF Boot
<1>4. TypeOK'
  BY <1>1, <1>3 DEF KeySetInv, TypeOK
<1>5. LockInv'
  BY <1>1, <1>2, IntervalsAssumption DEF KeySetInv, LockInv
<1>6. Published' # {} /\ BodyInv' /\ KeysInv' /\ FreshInv' /\ FetchesInv'
  BY <1>1 DEF KeySetInv, BodyInv, KeysInv, FreshInv, FetchesInv, Published
<1> QED BY <1>4, <1>5, <1>6 DEF KeySetInv

\* The invariant is inductive.
LEMMA NextKeepsKeySetInv == KeySetInv /\ [Next]_vars => KeySetInv'
<1> SUFFICES ASSUME KeySetInv, [Next]_vars PROVE KeySetInv'
  OBVIOUS
<1>1. CASE \E c \in Callers : \E t \in Tokens : Present(c, t)
  BY <1>1, PresentKeepsInv
<1>2. CASE \E c \in Callers : Verify(c) \/ StartFetch(c)
  BY <1>2, VerifyKeepsInv, StartFetchKeepsInv
<1>3. CASE \E c \in Callers : Fetch(c)
  BY <1>3, ServeKeepsInv, LoadKeepsInv, FailFetchKeepsInv DEF Fetch
<1>4. CASE \E k \in Keys : Rotate(k)
  BY <1>4, RotateKeepsInv
<1>5. CASE Tick
  BY <1>5, TickKeepsInv
<1>6. CASE UNCHANGED vars
  BY <1>6 DEF vars, world, history, KeySetInv, TypeOK, LockInv, BodyInv, KeysInv, FreshInv,
     FetchesInv, Published
<1> QED BY <1>1, <1>2, <1>3, <1>4, <1>5, <1>6 DEF Next

\* It holds of every state.
LEMMA KeySetInvHolds == Spec => []KeySetInv
BY InitHasKeySetInv, NextKeepsKeySetInv, PTL DEF Spec

(***************************************************************************)
(* What follows from it                                                    *)
(***************************************************************************)

\* Types: the lock is held by the caller that fetches, the clock is bounded.
THEOREM KeySetTypes == Spec => []TypeOK
BY KeySetInvHolds, PTL DEF KeySetInv

\* Invented key ids cost the provider at most one fetch per MinInterval, from
\* however many callers, once nothing fails.  (keyset.go, 23)
THEOREM FetchesAreSpaced == Spec => []ProviderIsSpared
<1>1. KeySetInv => ProviderIsSpared
  <2> SUFFICES ASSUME KeySetInv, failures = 0
               PROVE  fetches * MinInterval <= now - Boot + MinInterval
    BY DEF ProviderIsSpared
  <2>1. fetches * MinInterval <= fetchedAt /\ fetchedAt <= now
    BY DEF KeySetInv, FetchesInv, LockInv
  <2>2. now - Boot + MinInterval = now /\ now \in Nat /\ fetchedAt \in Nat /\ fetches \in Nat
    BY IntervalsAssumption DEF KeySetInv, TypeOK, Boot
  <2>3. fetches * MinInterval \in Nat
    BY <2>2, IntervalsAssumption
  <2> QED BY <2>1, <2>2, <2>3
<1> QED BY <1>1, KeySetInvHolds, PTL

\* Which of the steps of a caller answer it, from which set.
LEMMA AnsweringSteps ==
    ASSUME KeySetInv, [Next]_vars, NEW c \in Callers,
           pc[c] \in {"lock", "fetch", "read"}, pc'[c] \in Answers
    PROVE  \/ Verify(c) /\ (pc'[c] = "200" <=> tok[c].signer \in keys)
           \/ Load(c) /\ (pc'[c] = "200" <=> tok[c].signer \in body)
           \/ FailFetch(c) /\ lastFailed'
<1>1. pc \in [Callers -> {"idle", "lock", "fetch", "read"} \cup Answers]
  BY DEF KeySetInv, TypeOK
<1>2. ASSUME NEW d \in Callers, NEW t \in Tokens, Present(d, t) PROVE FALSE
  <2>1. d # c /\ \E s \in {"401", "lock"} : pc' = [pc EXCEPT ![d] = s]
    BY <1>2 DEF Present, Answers
  <2> QED BY <1>1, <2>1 DEF Answers
<1>3. ASSUME NEW d \in Callers, Verify(d) \/ Load(d) \/ FailFetch(d)
      PROVE  d = c /\ (pc'[c] = "200" <=> \/ Verify(d) /\ tok[c].signer \in keys
                                          \/ Load(d) /\ tok[c].signer \in body
                                          \/ FailFetch(d) /\ tok[c].signer \in keys)
  <2>1. \E s \in {"200", "401"} : pc' = [pc EXCEPT ![d] = s]
    BY <1>3 DEF Verify, Load, FailFetch, Answer
  <2>2. d = c
    BY <1>1, <2>1 DEF Answers
  <2>3. Verify(c) => (pc'[c] = "200" <=> tok[c].signer \in keys) /\ pc[c] = "lock"
    BY <1>1 DEF Verify, Answer
  <2>4. Load(c) => (pc'[c] = "200" <=> tok[c].signer \in body) /\ pc[c] = "read" /\ ~lastFailed'
    BY <1>1 DEF Load, Answer
  <2>5. FailFetch(c) => (pc'[c] = "200" <=> tok[c].signer \in keys) /\ pc[c] # "lock" /\ lastFailed'
    BY <1>1 DEF FailFetch, Answer
  <2> QED BY <1>3, <2>2, <2>3, <2>4, <2>5
<1>4. ASSUME NEW d \in Callers, StartFetch(d) \/ Serve(d) PROVE FALSE
  <2>1. \E s \in {"fetch", "read"} : pc' = [pc EXCEPT ![d] = s]
    BY <1>4 DEF StartFetch, Serve
  <2> QED BY <1>1, <2>1 DEF Answers
<1>5. ASSUME UNCHANGED pc PROVE FALSE
  BY <1>5 DEF Answers
<1>6. ~(\E k \in Keys : Rotate(k)) /\ ~Tick /\ ~UNCHANGED vars
  BY <1>5 DEF Rotate, Tick, vars
<1>7. PICK d \in Callers : Verify(d) \/ Load(d) \/ FailFetch(d)
  BY <1>2, <1>4, <1>6 DEF Next, Fetch
<1>8. d = c /\ (FailFetch(c) => lastFailed')
  BY <1>3, <1>7 DEF FailFetch
<1>9. /\ Verify(c) => (pc'[c] = "200" <=> tok[c].signer \in keys)
      /\ Load(c) => (pc'[c] = "200" <=> tok[c].signer \in body)
  BY <1>1 DEF Verify, Load, Answer
<1> QED BY <1>7, <1>8, <1>9

\* A removed key is accepted for at most MaxAge and the one fetch that was
\* reading it, unless the last fetch failed.  (constants.go, 97)
THEOREM RemovedKeysStop == Spec => RemovedKeyStops
<1>1. ASSUME KeySetInv, [Next]_vars, NEW c \in Callers, NEW k \in Keys,
             Accepts(c), tok[c].signer = k, k \notin Published
      PROVE  /\ provider[k] = "removed"
             /\ now < changedAt[k] + MaxAge + FetchTime \/ lastFailed'
  <2>1. /\ now \in Nat /\ fetchedAt \in Nat /\ loadedAt \in Nat /\ changedAt[k] \in Nat
        /\ provider[k] \in {"new", "removed"}
    BY <1>1, IntervalsAssumption DEF KeySetInv, TypeOK, Boot, Published
  <2>2. CASE Verify(c) /\ k \in keys
    <3>1. provider[k] = "removed" /\ loadedAt <= changedAt[k] + FetchTime
      BY <1>1, <2>1, <2>2 DEF KeySetInv, KeysInv
    <3>2. CASE ~Stale
      BY <2>1, <2>2, <3>1, <3>2, IntervalsAssumption DEF Stale
    <3>3. CASE Stale /\ Since < RetryEvery
      <4>1. mu = Free /\ lastFailed' = lastFailed
        BY <2>2 DEF Verify, history
      <4>2. lastFailed
        <5> SUFFICES ASSUME ~lastFailed PROVE FALSE
          BY <1>1 DEF KeySetInv, TypeOK
        <5>1. fetchedAt <= loadedAt
          BY <1>1, <4>1 DEF KeySetInv, FreshInv
        <5> QED BY <2>1, <3>3, <5>1, IntervalsAssumption DEF Stale, Since
      <4> QED BY <3>1, <4>1, <4>2
    <3>4. ~(Stale /\ Since >= RetryEvery)
      BY <2>2 DEF Verify, MustFetch
    <3>5. Since \in Int
      BY <2>1 DEF Since
    <3> QED BY <3>2, <3>3, <3>4, <3>5, IntervalsAssumption
  <2>3. CASE Load(c) /\ k \in body
    <3>1. pc[c] = "read"
      BY <2>3 DEF Load
    <3>2. provider[k] = "removed" /\ fetchedAt <= changedAt[k]
      BY <1>1, <2>1, <2>3, <3>1 DEF KeySetInv, BodyInv
    <3>3. now <= fetchedAt + FetchTime
      BY <1>1, <3>1, ReaderHoldsLock DEF KeySetInv, LockInv
    <3> QED BY <2>1, <3>2, <3>3, IntervalsAssumption
  <2>4. CASE FailFetch(c)
    <3>1. k \in keys /\ lastFailed'
      BY <1>1, <2>4 DEF Accepts, FailFetch, Answer, KeySetInv, TypeOK
    <3> QED BY <1>1, <2>1, <3>1 DEF KeySetInv, KeysInv
  <2> QED BY <1>1, <2>2, <2>3, <2>4, AnsweringSteps DEF Accepts, Answers
<1>2. ASSUME KeySetInv, [Next]_vars
      PROVE  [\A c \in Callers, k \in Keys :
                Accepts(c) /\ tok[c].signer = k /\ k \notin Published =>
                   /\ provider[k] = "removed"
                   /\ now < changedAt[k] + MaxAge + FetchTime \/ lastFailed']_vars
  BY <1>1, <1>2
<1> QED BY <1>2, KeySetInvHolds, PTL DEF Spec, RemovedKeyStops

\* A genuine token of a published key is refused only shortly after its key was
\* published, or when a fetch has failed since.  (constants.go, 92)
THEOREM RotationsLand == Spec => RotationLands
<1>1. ASSUME KeySetInv, [Next]_vars, NEW c \in Callers,
             Refuses(c), Genuine(tok[c]), tok[c].signer \in Published
      PROVE  now < changedAt[tok[c].signer] + MinInterval \/ lastFailed'
  <2> DEFINE k == tok[c].signer
  <2>1. /\ now \in Nat /\ fetchedAt \in Nat /\ loadedAt \in Nat /\ changedAt[k] \in Nat
        /\ now >= Boot /\ fetches \in Nat /\ lastFailed \in BOOLEAN /\ k \in Keys
    BY <1>1, IntervalsAssumption DEF KeySetInv, TypeOK, Boot, Published
  <2>2. CASE Verify(c) /\ k \notin keys
    <3>1. mu = Free /\ lastFailed' = lastFailed /\ Missing(c)
      BY <1>1, <2>2 DEF Verify, history, Genuine, Missing
    <3>2. ~(Since >= Wait)
      BY <2>2, <3>1 DEF Verify, MustFetch
    <3> SUFFICES ASSUME ~lastFailed PROVE now < changedAt[k] + MinInterval
      BY <2>1, <3>1
    <3>3. fetchedAt <= changedAt[k] /\ (keys = {} => fetches = 0)
      BY <1>1, <2>2, <3>1 DEF KeySetInv, FreshInv
    <3>4. keys # {}
      <4> SUFFICES ASSUME keys = {} PROVE FALSE
        OBVIOUS
      <4>1. fetchedAt = 0
        BY <1>1, <3>3 DEF KeySetInv, LockInv
      <4> QED BY <2>1, <3>2, <4>1, IntervalsAssumption DEF Since, Wait, Boot
    <3> QED BY <2>1, <3>2, <3>3, <3>4, IntervalsAssumption DEF Since, Wait
  <2>3. CASE Load(c) /\ k \notin body
    <3>1. pc[c] = "read"
      BY <2>3 DEF Load
    <3>2. fetchedAt <= changedAt[k]
      BY <1>1, <2>3, <3>1 DEF KeySetInv, BodyInv
    <3>3. now <= fetchedAt + FetchTime
      BY <1>1, <3>1, ReaderHoldsLock DEF KeySetInv, LockInv
    <3> QED BY <2>1, <3>2, <3>3, IntervalsAssumption
  <2> QED BY <1>1, <2>2, <2>3, AnsweringSteps DEF Refuses, Answers
<1>2. ASSUME KeySetInv, [Next]_vars
      PROVE  [\A c \in Callers :
                Refuses(c) /\ Genuine(tok[c]) /\ tok[c].signer \in Published =>
                   \/ now < changedAt[tok[c].signer] + MinInterval
                   \/ lastFailed']_vars
  BY <1>1, <1>2
<1> QED BY <1>2, KeySetInvHolds, PTL DEF Spec, RotationLands

\* What was loaded is trusted until the provider itself withdraws it, whatever
\* fails.  (keyset.go, 72)
THEOREM LoadedKeysAreKept == Spec => OutageKeepsKeys
<1>1. ASSUME KeySetInv, [Next]_vars, NEW k \in Keys, k \in keys, k \in Published
      PROVE  k \in keys'
  <2>1. CASE \E c \in Callers : Load(c)
    <3>1. PICK c \in Callers : Load(c)
      BY <2>1
    <3> QED BY <1>1, <3>1 DEF Load, KeySetInv, BodyInv
  <2>2. CASE \E c \in Callers : \E t \in Tokens : Present(c, t)
    BY <1>1, <2>2 DEF Present
  <2>3. CASE \E c \in Callers : Verify(c) \/ StartFetch(c) \/ Serve(c) \/ FailFetch(c)
    BY <1>1, <2>3 DEF Verify, StartFetch, Serve, FailFetch
  <2>4. CASE (\E j \in Keys : Rotate(j)) \/ Tick \/ UNCHANGED vars
    BY <1>1, <2>4 DEF Rotate, Tick, vars
  <2> QED BY <1>1, <2>1, <2>2, <2>3, <2>4 DEF Next, Fetch
<1>2. ASSUME KeySetInv, [Next]_vars
      PROVE  [\A k \in Keys : k \in keys /\ k \in Published => k \in keys']_vars
  BY <1>1, <1>2
<1> QED BY <1>2, KeySetInvHolds, PTL DEF Spec, OutageKeepsKeys
===============================================================================
