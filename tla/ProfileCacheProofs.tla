------------------------- MODULE ProfileCacheProofs -------------------------
(***************************************************************************)
(* Proofs about ProfileCache, for any number of requests, subjects and     *)
(* revisions and any TTL and Hold.  The invariants say how old the copy in *)
(* Redis may be (CopyInv) and how old the row is that a request is about   *)
(* to copy there (HeldInv).                                                *)
(***************************************************************************)
EXTENDS ProfileCache, TLAPS

Hit(s) == cache[s].tag = "hit"
Holding == {"del", "fill"}

\* The copy of s expires soon, and soon after its revision was superseded.
CopyInv(s) ==
    Hit(s) =>
        /\ cache[s].rev \in 1..db[s]
        /\ now < cache[s].exp /\ cache[s].exp <= now + TTL
        /\ cache[s].rev < db[s] =>
               cache[s].exp <= superseded[s][cache[s].rev] + TTL + Hold

\* What r is about to copy was read from the database a moment ago, and before
\* it was superseded.
HeldInv(r) ==
    pc[r] \in Holding =>
        /\ got[r] \in 1..db[sub[r]]
        /\ readAt[r] <= now /\ now <= readAt[r] + Hold
        /\ got[r] < db[sub[r]] => readAt[r] <= superseded[sub[r]][got[r]]

\* Who makes which call: only a writer deletes a copy and sees that fail, and
\* neither a lookup nor a writer creates a profile.
KindInv(r) ==
    /\ pc[r] \in {"change", "del"} => kind[r] \in {"update", "role"}
    /\ pc[r] = "create" => kind[r] \in {"login", "mock"}
    /\ pc[r] = "select" => kind[r] \in {"login", "lookup", "mock"}
    /\ pc[r] \in {"get", "drop"} => kind[r] \in {"login", "lookup"}
    /\ pc[r] = "fill" => kind[r] \in {"login", "lookup", "update"}
    /\ pc[r] = "failed" => kind[r] \in {"lookup", "role"}

AgeInv ==
    /\ \A s \in Subs : CopyInv(s)
    /\ \A r \in Requests : HeldInv(r) /\ KindInv(r)

(***************************************************************************)
(* Type correctness                                                        *)
(***************************************************************************)

\* What the service may find or leave in Redis.
LEMMA CopiesAreTyped ==
    /\ Miss \in Copies /\ Garbage \in Copies
    /\ \A v \in 0..MaxRev, e \in 0..(MaxTime + TTL) : Copy(v, e) \in Copies
    /\ \A c \in Copies : c.rev \in 0..MaxRev /\ c.exp \in 0..(MaxTime + TTL)
BY ClockAssumption, BoundsAssumption DEF Copies, Miss, Garbage, Copy

\* Where the answer of the database sends a request.
LEMMA HoldsGoesOn ==
    ASSUME TypeOK, NEW r \in Requests, NEW v \in 0..MaxRev, Holds(r, v)
    PROVE  /\ pc' \in [Requests -> PCs] /\ got' \in [Requests -> 0..MaxRev]
           /\ readAt' \in [Requests -> 0..MaxTime]
           /\ got'[r] = v /\ readAt'[r] = now
           /\ pc'[r] = IF kind[r] = "mock" THEN "done"
                       ELSE IF kind[r] \in {"update", "role"} THEN "del" ELSE "fill"
BY DEF Holds, TypeOK, PCs, Final, Calls

\* What the actions may set pc to.
LEMMA NamedPCs ==
    {"idle", "done", "failed", "dberror", "crashed", "get", "drop", "select",
     "create", "change", "del", "fill"} = PCs
BY DEF PCs, Final, Calls

\* Every step of a request keeps the types of what it writes.
LEMMA StepKeepsTypes ==
    ASSUME TypeOK, NEW r \in Requests, Step(r)
    PROVE  TypeOK'
<1> USE ClockAssumption, BoundsAssumption, NamedPCs
<1>s. /\ sub[r] \in Subs /\ got[r] \in 0..MaxRev /\ now + TTL \in 0..(MaxTime + TTL)
      /\ cache[sub[r]] \in Copies /\ db[sub[r]] \in 0..MaxRev
  BY DEF TypeOK
<1>m. \A s \in Subs, c \in Copies : [cache EXCEPT ![s] = c] \in [Subs -> Copies]
  BY DEF TypeOK
<1>a. \A s \in Subs, v \in 0..MaxRev : Ack(s, v) => acked' \in [Subs -> 0..MaxRev]
  BY DEF Ack, TypeOK
<1>p. \A p \in PCs : [pc EXCEPT ![r] = p] \in [Requests -> PCs]
  BY DEF TypeOK
<1>f. RedisFails => faults' \in 0..MaxRedisFaults
  BY DEF RedisFails, TypeOK
<1>d. DbFails(r) => pc' \in [Requests -> PCs] /\ got' = got /\ readAt' = readAt
  BY <1>p DEF DbFails
<1>1. CASE \E k \in Kinds, s \in Subs : Start(r, k, s)
  <2> PICK k \in Kinds, s \in Subs : Start(r, k, s)
    BY <1>1
  <2>1. pc' \in [Requests -> PCs]
    BY <1>p DEF Start
  <2> QED BY <2>1 DEF Start, TypeOK, clock, rowVars
<1>2. CASE Get(r)
  <2>1. cache[sub[r]].rev \in 0..MaxRev
    BY <1>s, CopiesAreTyped
  <2>2. got' \in [Requests -> 0..MaxRev]
    BY <1>2, <2>1 DEF Get, TypeOK
  <2>3. pc' \in [Requests -> PCs]
    BY <1>2, <1>p DEF Get
  <2>4. faults' \in 0..MaxRedisFaults
    BY <1>2, <1>f DEF Get, TypeOK
  <2> QED BY <1>2, <2>2, <2>3, <2>4 DEF Get, TypeOK, rowVars, callVars
<1>3. CASE Drop(r)
  <2>1. cache' \in [Subs -> Copies] /\ faults' \in 0..MaxRedisFaults
    <3>1. cache' = cache \/ cache' = [cache EXCEPT ![sub[r]] = Miss]
      BY <1>3 DEF Drop
    <3>2. [cache EXCEPT ![sub[r]] = Miss] \in [Subs -> Copies]
      BY <1>s, <1>m, CopiesAreTyped
    <3>3. faults' = faults \/ RedisFails
      BY <1>3 DEF Drop
    <3> QED BY <3>1, <3>2, <3>3, <1>f DEF TypeOK
  <2>2. pc' \in [Requests -> PCs]
    BY <1>3, <1>p DEF Drop
  <2> QED BY <1>3, <2>1, <2>2 DEF Drop, TypeOK, rowVars, callVars
<1>4. CASE Select(r)
  <2>1. /\ pc' \in [Requests -> PCs] /\ got' \in [Requests -> 0..MaxRev]
        /\ readAt' \in [Requests -> 0..MaxTime]
    <3>1. CASE Holds(r, db[sub[r]])
      BY <3>1, <1>s, HoldsGoesOn
    <3>2. CASE ~Holds(r, db[sub[r]])
      BY <1>4, <3>2, <1>p, <1>d DEF Select, TypeOK
    <3> QED BY <3>1, <3>2
  <2> QED BY <1>4, <2>1 DEF Select, TypeOK, clock, rowVars, callVars
<1>5. CASE Create(r)
  <2>1. db' \in [Subs -> 0..MaxRev] /\ db'[sub[r]] \in 0..MaxRev
    BY <1>5, <1>s DEF Create, TypeOK
  <2>2. /\ pc' \in [Requests -> PCs] /\ got' \in [Requests -> 0..MaxRev]
        /\ readAt' \in [Requests -> 0..MaxTime]
    <3>1. CASE Holds(r, db'[sub[r]])
      BY <3>1, <2>1, HoldsGoesOn
    <3>2. CASE DbFails(r)
      BY <3>2, <1>d DEF TypeOK
    <3> QED BY <1>5, <3>1, <3>2 DEF Create
  <2> QED BY <1>5, <2>1, <2>2 DEF Create, TypeOK, clock, callVars
<1>6. CASE Change(r)
  <2>1. db[sub[r]] + 1 \in 0..MaxRev
    BY <1>6, <1>s DEF Change
  <2>2. db' \in [Subs -> 0..MaxRev] /\ raced' \subseteq Subs
    <3>1. \/ db' = db /\ raced' = raced
          \/ /\ db' = [db EXCEPT ![sub[r]] = db[sub[r]] + 1]
             /\ raced' = raced \/ raced' = raced \cup {sub[r]}
      BY <1>6 DEF Change, rowVars
    <3>2. [db EXCEPT ![sub[r]] = db[sub[r]] + 1] \in [Subs -> 0..MaxRev]
      BY <1>s, <2>1 DEF TypeOK
    <3>3. raced \cup {sub[r]} \subseteq Subs
      BY <1>s DEF TypeOK
    <3> QED BY <3>1, <3>2, <3>3 DEF TypeOK
  <2>3. superseded' \in [Subs -> [Revs -> 0..MaxTime]]
    <3>1. CASE superseded' = superseded
      BY <3>1 DEF TypeOK
    <3>2. CASE superseded' = [superseded EXCEPT ![sub[r]][db[sub[r]]] = now]
      <4>1. \A v : [superseded[sub[r]] EXCEPT ![v] = now] \in [Revs -> 0..MaxTime]
        BY <1>s DEF TypeOK
      <4>2. superseded' = [superseded EXCEPT ![sub[r]] =
                             [superseded[sub[r]] EXCEPT ![db[sub[r]]] = now]]
        BY <3>2
      <4> QED BY <4>1, <4>2, <1>s DEF TypeOK
    <3> QED BY <1>6, <3>1, <3>2 DEF Change, rowVars
  <2>4. /\ pc' \in [Requests -> PCs] /\ got' \in [Requests -> 0..MaxRev]
        /\ readAt' \in [Requests -> 0..MaxTime]
    <3>1. CASE Holds(r, db[sub[r]] + 1)
      BY <3>1, <2>1, HoldsGoesOn
    <3>2. CASE DbFails(r)
      BY <3>2, <1>d DEF TypeOK
    <3> QED BY <1>6, <3>1, <3>2 DEF Change
  <2> QED BY <1>6, <2>2, <2>3, <2>4 DEF Change, TypeOK, clock, callVars
<1>7. CASE Del(r)
  <2>1. cache' \in [Subs -> Copies] /\ faults' \in 0..MaxRedisFaults
    <3>1. cache' = cache \/ cache' = [cache EXCEPT ![sub[r]] = Miss]
      BY <1>7 DEF Del
    <3>2. [cache EXCEPT ![sub[r]] = Miss] \in [Subs -> Copies]
      BY <1>s, <1>m, CopiesAreTyped
    <3>3. faults' = faults \/ RedisFails
      BY <1>7 DEF Del
    <3> QED BY <3>1, <3>2, <3>3, <1>f DEF TypeOK
  <2>2. acked' \in [Subs -> 0..MaxRev]
    BY <1>7, <1>s, <1>a DEF Del, TypeOK
  <2>3. pc' \in [Requests -> PCs]
    BY <1>7, <1>p DEF Del
  <2> QED BY <1>7, <2>1, <2>2, <2>3 DEF Del, TypeOK, rowVars, callVars
<1>8. CASE Fill(r)
  <2>1. cache' \in [Subs -> Copies] /\ faults' \in 0..MaxRedisFaults
    <3> DEFINE c == Copy(got[r], now + TTL)
    <3>1. cache' = cache \/ cache' = [cache EXCEPT ![sub[r]] = c]
      BY <1>8 DEF Fill
    <3>2. [cache EXCEPT ![sub[r]] = c] \in [Subs -> Copies]
      BY <1>s, <1>m, CopiesAreTyped
    <3>3. faults' = faults \/ RedisFails
      BY <1>8 DEF Fill
    <3> QED BY <3>1, <3>2, <3>3, <1>f DEF TypeOK
  <2>2. acked' \in [Subs -> 0..MaxRev]
    BY <1>8, <1>s, <1>a DEF Fill, TypeOK
  <2>3. pc' \in [Requests -> PCs]
    BY <1>8, <1>p DEF Fill
  <2> QED BY <1>8, <2>1, <2>2, <2>3 DEF Fill, TypeOK, rowVars, callVars
<1>9. CASE Crash(r)
  <2>1. pc' \in [Requests -> PCs]
    BY <1>9, <1>p DEF Crash
  <2> QED BY <1>9, <2>1 DEF Crash, TypeOK, clock, rowVars, callVars
<1>10. CASE Return(r)
  <2>1. pc' \in [Requests -> PCs]
    BY <1>10, <1>p DEF Return
  <2> QED BY <1>10, <2>1 DEF Return, TypeOK, clock, rowVars
<1> QED BY <1>1, <1>2, <1>3, <1>4, <1>5, <1>6, <1>7, <1>8, <1>9, <1>10 DEF Step

\* So does the clock, which drops a copy when its time has come.
LEMMA TickKeepsTypes ==
    ASSUME TypeOK, Tick
    PROVE  TypeOK'
BY ClockAssumption, BoundsAssumption, CopiesAreTyped
   DEF TypeOK, Tick, rowVars, callVars

\* The initial states have the types.
LEMMA InitTypes == Init => TypeOK
<1> SUFFICES ASSUME Init PROVE TypeOK
  OBVIOUS
<1>1. cache \in [Subs -> Copies]
  BY CopiesAreTyped DEF Init
<1>2. pc \in [Requests -> PCs]
  BY NamedPCs DEF Init
<1>3. superseded \in [Subs -> [Revs -> 0..MaxTime]]
  BY ClockAssumption DEF Init
<1> QED BY <1>1, <1>2, <1>3, ClockAssumption, BoundsAssumption DEF Init, TypeOK

\* The variables keep their types.
THEOREM ProfileCacheTypeOK == Spec => []TypeOK
<1>1. Init => TypeOK
  BY InitTypes
<1>2. TypeOK /\ [Next]_vars => TypeOK'
  <2> SUFFICES ASSUME TypeOK, [Next]_vars PROVE TypeOK'
    OBVIOUS
  <2>1. CASE UNCHANGED vars
    BY <2>1 DEF TypeOK, vars
  <2> QED BY <2>1, StepKeepsTypes, TickKeepsTypes DEF Next
<1> QED BY <1>1, <1>2, PTL DEF Spec

(***************************************************************************)
(* What a step of a request does                                           *)
(***************************************************************************)

\* It writes nothing of another request.
LEMMA StepIsLocal ==
    ASSUME TypeOK, NEW r \in Requests, Step(r), NEW q \in Requests, q # r
    PROVE  /\ pc'[q] = pc[q] /\ kind'[q] = kind[q] /\ sub'[q] = sub[q]
           /\ got'[q] = got[q] /\ readAt'[q] = readAt[q] /\ floor'[q] = floor[q]
<1> USE DEF TypeOK, callVars
<1>1. CASE \E k \in Kinds, s \in Subs : Start(r, k, s)
  BY <1>1 DEF Start
<1>2. CASE Get(r)
  BY <1>2 DEF Get
<1>3. CASE Drop(r)
  BY <1>3 DEF Drop
<1>4. CASE Select(r)
  BY <1>4 DEF Select, Holds, DbFails
<1>5. CASE Create(r)
  BY <1>5 DEF Create, Holds, DbFails
<1>6. CASE Change(r)
  BY <1>6 DEF Change, Holds, DbFails
<1>7. CASE Del(r)
  BY <1>7 DEF Del
<1>8. CASE Fill(r)
  BY <1>8 DEF Fill
<1>9. CASE Crash(r)
  BY <1>9 DEF Crash
<1>10. CASE Return(r)
  BY <1>10 DEF Return
<1> QED BY <1>1, <1>2, <1>3, <1>4, <1>5, <1>6, <1>7, <1>8, <1>9, <1>10 DEF Step

\* A copy only appears when its request writes the revision it holds.
LEMMA CopySteps ==
    ASSUME TypeOK, NEW r \in Requests, Step(r), NEW s \in Subs
    PROVE  \/ cache'[s] = cache[s]
           \/ ~Hit(s)'
           \/ /\ pc[r] = "fill" /\ s = sub[r] /\ pc'[r] = "done"
              /\ cache'[s] = Copy(got[r], now + TTL)
<1> USE DEF TypeOK, Hit
<1>1. CASE Drop(r)
  BY <1>1 DEF Drop, Miss
<1>2. CASE Del(r)
  BY <1>2 DEF Del, Miss
<1>3. CASE Fill(r)
  <2>1. pc'[r] = "done" /\ pc[r] = "fill"
    BY <1>3 DEF Fill
  <2> QED BY <1>3, <2>1 DEF Fill
<1>4. CASE ~Drop(r) /\ ~Del(r) /\ ~Fill(r)
  BY <1>4 DEF Step, Start, Get, Select, Create, Change, Crash, Return
<1> QED BY <1>1, <1>2, <1>3, <1>4

\* A row only appears at its first revision and only advances one revision at
\* a time, when the one it was at is marked as superseded; and unless that is
\* a race, no request is about to copy the old one.
LEMMA RowSteps ==
    ASSUME TypeOK, NEW r \in Requests, Step(r), NEW s \in Subs
    PROVE  /\ now' = now
           /\ s \notin raced' => s \notin raced
           /\ \/ db'[s] = db[s] /\ superseded'[s] = superseded[s]
              \/ db[s] = 0 /\ db'[s] = 1 /\ superseded'[s] = superseded[s]
              \/ /\ pc[r] = "change" /\ s = sub[r] /\ db'[s] = db[s] + 1
                 /\ \A v \in Revs : superseded'[s][v] =
                        IF v = db[s] THEN now ELSE superseded[s][v]
                 /\ s \notin raced' => \A q \in Requests :
                        sub[q] = s => pc[q] \notin Holding
<1>1. CASE Create(r)
  <2>1. UNCHANGED <<now, superseded, raced>>
    BY <1>1 DEF Create, clock
  <2>2. db' = db \/ db' = [db EXCEPT ![sub[r]] = IF @ = 0 THEN 1 ELSE @]
    BY <1>1 DEF Create
  <2> QED BY <2>1, <2>2 DEF TypeOK
<1>2. CASE Change(r)
  <2>1. CASE UNCHANGED rowVars
    BY <1>2, <2>1 DEF Change, rowVars, clock
  <2>2. CASE ~UNCHANGED rowVars
    <3>1. /\ pc[r] = "change" /\ now' = now
          /\ db' = [db EXCEPT ![sub[r]] = @ + 1]
          /\ superseded' = [superseded EXCEPT ![sub[r]][db[sub[r]]] = now]
      BY <1>2, <2>2 DEF Change, clock
    <3>2. raced' = IF \E q \in Requests : sub[q] = sub[r] /\ pc[q] \in Holding
                   THEN raced \cup {sub[r]} ELSE raced
      BY <1>2, <2>2 DEF Change, Holding
    <3>3. CASE s # sub[r]
      BY <3>1, <3>2, <3>3 DEF TypeOK
    <3>4. CASE s = sub[r]
      <4>1. db'[s] = db[s] + 1
        BY <3>1, <3>4 DEF TypeOK
      <4>2. superseded'[s] = [superseded[s] EXCEPT ![db[s]] = now]
        BY <3>1, <3>4 DEF TypeOK
      <4>3. \A v \in Revs : superseded'[s][v] =
                IF v = db[s] THEN now ELSE superseded[s][v]
        BY <4>2 DEF TypeOK
      <4> QED BY <3>1, <3>2, <3>4, <4>1, <4>3
    <3> QED BY <3>3, <3>4
  <2> QED BY <2>1, <2>2
<1>3. CASE ~Create(r) /\ ~Change(r)
  <2>1. UNCHANGED <<now, db, superseded, raced>>
    BY <1>3 DEF Step, Start, Get, Drop, Select, Del, Fill, Crash, Return, clock, rowVars
  <2> QED BY <2>1
<1> QED BY <1>1, <1>2, <1>3

\* Who is about to copy a row was already, or has it from the database now.
LEMMA HeldSteps ==
    ASSUME TypeOK, NEW r \in Requests, Step(r), pc'[r] \in Holding
    PROVE  /\ sub'[r] = sub[r] /\ kind'[r] = kind[r] /\ floor'[r] = floor[r]
           /\ \/ pc[r] \in Holding /\ got'[r] = got[r] /\ readAt'[r] = readAt[r]
              \/ /\ got'[r] = db'[sub[r]] /\ db'[sub[r]] > 0 /\ readAt'[r] = now
                 /\ pc[r] \in {"select", "create", "change"}
<1> USE DEF Holding
<1>1. CASE \E k \in Kinds, s \in Subs : Start(r, k, s)
  BY <1>1 DEF Start, TypeOK
<1>2. CASE Get(r)
  BY <1>2 DEF Get, TypeOK
<1>3. CASE Drop(r)
  BY <1>3 DEF Drop, TypeOK
<1>4. CASE Select(r)
  <2>1. ~DbFails(r)
    BY DEF DbFails, TypeOK
  <2>2. CASE db[sub[r]] > 0 /\ Holds(r, db[sub[r]])
    <3>1. got'[r] = db[sub[r]] /\ readAt'[r] = now
      BY <2>2, HoldsGoesOn DEF TypeOK
    <3> QED BY <1>4, <2>2, <3>1 DEF Select, callVars, rowVars
  <2> QED BY <1>4, <2>1, <2>2 DEF Select, TypeOK
<1>5. CASE Create(r)
  <2>1. ~DbFails(r)
    BY DEF DbFails, TypeOK
  <2>2. /\ db' = [db EXCEPT ![sub[r]] = IF @ = 0 THEN 1 ELSE @]
        /\ Holds(r, db'[sub[r]])
    BY <1>5, <2>1 DEF Create
  <2>3. db'[sub[r]] \in 1..MaxRev
    BY <2>2, BoundsAssumption DEF TypeOK
  <2>4. got'[r] = db'[sub[r]] /\ readAt'[r] = now
    BY <2>2, <2>3, HoldsGoesOn
  <2> QED BY <1>5, <2>3, <2>4 DEF Create, callVars
<1>6. CASE Change(r)
  <2>1. ~DbFails(r)
    BY DEF DbFails, TypeOK
  <2>2. /\ db' = [db EXCEPT ![sub[r]] = @ + 1] /\ db[sub[r]] < MaxRev
        /\ Holds(r, db[sub[r]] + 1)
    BY <1>6, <2>1 DEF Change
  <2>3. db'[sub[r]] = db[sub[r]] + 1 /\ db'[sub[r]] \in 1..MaxRev
    BY <2>2, BoundsAssumption DEF TypeOK
  <2>4. got'[r] = db'[sub[r]] /\ readAt'[r] = now
    BY <2>2, <2>3, HoldsGoesOn
  <2> QED BY <1>6, <2>3, <2>4 DEF Change, callVars
<1>7. CASE Del(r)
  BY <1>7 DEF Del, callVars
<1>8. CASE Fill(r)
  BY <1>8 DEF Fill, TypeOK
<1>9. CASE Crash(r)
  BY <1>9 DEF Crash, TypeOK
<1>10. CASE Return(r)
  BY <1>10 DEF Return, TypeOK
<1> QED BY <1>1, <1>2, <1>3, <1>4, <1>5, <1>6, <1>7, <1>8, <1>9, <1>10 DEF Step

(***************************************************************************)
(* How old a copy may be                                                   *)
(***************************************************************************)

\* A step of one request keeps the age of every copy within its bound.
LEMMA StepKeepsCopyInv ==
    ASSUME TypeOK, TypeOK', NEW r \in Requests, Step(r), HeldInv(r),
           NEW s \in Subs, CopyInv(s)
    PROVE  CopyInv(s)'
<1> USE ClockAssumption, BoundsAssumption
<1> SUFFICES ASSUME Hit(s)'
             PROVE  /\ cache'[s].rev \in 1..db'[s]
                    /\ now < cache'[s].exp /\ cache'[s].exp <= now + TTL
                    /\ cache'[s].rev < db'[s] =>
                         cache'[s].exp <= superseded'[s][cache'[s].rev] + TTL + Hold
  BY RowSteps DEF CopyInv
<1>t. /\ now \in Nat /\ db[s] \in 0..MaxRev /\ db'[s] \in 0..MaxRev
      /\ \A v \in Revs : superseded[s][v] \in Nat /\ superseded'[s][v] \in Nat
  BY DEF TypeOK
<1>1. \/ db'[s] = db[s] /\ superseded'[s] = superseded[s]
      \/ db[s] = 0 /\ db'[s] = 1 /\ superseded'[s] = superseded[s]
      \/ /\ db'[s] = db[s] + 1
         /\ \A v \in Revs : superseded'[s][v] =
                IF v = db[s] THEN now ELSE superseded[s][v]
  BY RowSteps
<1>2. CASE cache'[s] = cache[s]
  <2>1. Hit(s)
    BY <1>2 DEF Hit
  <2>2. cache[s].rev \in 1..db[s] /\ cache[s].rev \in Revs /\ cache[s].exp \in Nat
    <3>1. cache[s] \in Copies
      BY DEF TypeOK
    <3> QED BY <3>1, <2>1, <1>t, CopiesAreTyped DEF CopyInv, Revs
  <2> QED BY <1>1, <1>2, <1>t, <2>1, <2>2 DEF CopyInv
<1>3. CASE pc[r] = "fill" /\ s = sub[r] /\ cache'[s] = Copy(got[r], now + TTL)
  <2>1. cache'[s].rev = got[r] /\ cache'[s].exp = now + TTL
    BY <1>3 DEF Copy
  <2>2. /\ got[r] \in 1..db[s] /\ got[r] \in Revs
        /\ readAt[r] \in Nat /\ now <= readAt[r] + Hold
        /\ got[r] < db[s] => readAt[r] <= superseded[s][got[r]]
    BY <1>3, <1>t DEF HeldInv, Holding, Revs, TypeOK
  <2> QED BY <1>1, <1>t, <2>1, <2>2
<1> QED BY <1>2, <1>3, CopySteps DEF Hit

\* And the age of what every request is about to copy.
LEMMA StepKeepsHeldInv ==
    ASSUME TypeOK, TypeOK', NEW r \in Requests, Step(r), NEW q \in Requests,
           HeldInv(q)
    PROVE  HeldInv(q)'
<1> USE ClockAssumption, BoundsAssumption
<1> SUFFICES ASSUME pc'[q] \in Holding
             PROVE  /\ got'[q] \in 1..db'[sub'[q]]
                    /\ readAt'[q] <= now /\ now <= readAt'[q] + Hold
                    /\ got'[q] < db'[sub'[q]] =>
                         readAt'[q] <= superseded'[sub'[q]][got'[q]]
  BY RowSteps DEF HeldInv, Holding, TypeOK
<1> DEFINE s == sub[q]
<1>1. /\ sub'[q] = s
      /\ \/ pc[q] \in Holding /\ got'[q] = got[q] /\ readAt'[q] = readAt[q]
         \/ got'[q] = db'[s] /\ db'[s] > 0 /\ readAt'[q] = now
  BY HeldSteps, StepIsLocal
<1>t. /\ s \in Subs /\ now \in Nat /\ db[s] \in 0..MaxRev /\ db'[s] \in 0..MaxRev
      /\ \A v \in Revs : superseded[s][v] \in Nat /\ superseded'[s][v] \in Nat
      /\ readAt[q] \in Nat
  BY DEF TypeOK
<1>2. \/ db'[s] = db[s] /\ superseded'[s] = superseded[s]
      \/ db[s] = 0 /\ db'[s] = 1 /\ superseded'[s] = superseded[s]
      \/ /\ db'[s] = db[s] + 1
         /\ \A v \in Revs : superseded'[s][v] =
                IF v = db[s] THEN now ELSE superseded[s][v]
  BY <1>t, RowSteps
<1>3. CASE got'[q] = db'[s] /\ db'[s] > 0 /\ readAt'[q] = now
  BY <1>1, <1>3, <1>t
<1>4. CASE pc[q] \in Holding /\ got'[q] = got[q] /\ readAt'[q] = readAt[q]
  <2>1. /\ got[q] \in 1..db[s] /\ got[q] \in Revs
        /\ readAt[q] <= now /\ now <= readAt[q] + Hold
        /\ got[q] < db[s] => readAt[q] <= superseded[s][got[q]]
    BY <1>4, <1>t DEF HeldInv, Revs
  <2> QED BY <1>1, <1>2, <1>4, <1>t, <2>1
<1> QED BY <1>1, <1>3, <1>4

\* A request only makes the calls of its kind.
LEMMA StepKeepsKindInv ==
    ASSUME TypeOK, NEW r \in Requests, Step(r), KindInv(r)
    PROVE  KindInv(r)'
<1> USE DEF KindInv, TypeOK
<1>k. kind[r] \in AllKinds \cup {"none"}
  BY BoundsAssumption
<1>1. CASE \E k \in Kinds, s \in Subs : Start(r, k, s)
  <2> PICK k \in Kinds, s \in Subs : Start(r, k, s)
    BY <1>1
  <2>1. kind'[r] = k /\ k \in AllKinds
    BY BoundsAssumption DEF Start
  <2>2. pc'[r] = IF k \in {"login", "lookup"} THEN "get"
                 ELSE IF k = "mock" THEN "select" ELSE "change"
    BY DEF Start
  <2> QED BY <2>1, <2>2 DEF AllKinds
<1>2. CASE Get(r)
  BY <1>2 DEF Get, callVars
<1>3. CASE Drop(r)
  BY <1>3 DEF Drop, callVars
<1>4. CASE Select(r)
  <2>1. CASE Holds(r, db[sub[r]])
    BY <1>4, <2>1, HoldsGoesOn DEF Select, callVars
  <2>2. CASE ~Holds(r, db[sub[r]])
    BY <1>4, <2>2 DEF Select, DbFails, callVars
  <2> QED BY <2>1, <2>2
<1>5. CASE Create(r)
  <2>1. CASE Holds(r, db'[sub[r]])
    <3>1. db'[sub[r]] \in 0..MaxRev
      BY <1>5, BoundsAssumption DEF Create
    <3> QED BY <1>5, <2>1, <3>1, HoldsGoesOn DEF Create, callVars
  <2>2. CASE DbFails(r)
    BY <1>5, <2>2 DEF Create, DbFails, callVars
  <2> QED BY <1>5, <2>1, <2>2 DEF Create
<1>6. CASE Change(r)
  <2>1. CASE Holds(r, db[sub[r]] + 1)
    <3>1. db[sub[r]] + 1 \in 0..MaxRev
      BY <1>6, BoundsAssumption DEF Change
    <3> QED BY <1>6, <2>1, <3>1, HoldsGoesOn DEF Change, callVars
  <2>2. CASE DbFails(r)
    BY <1>6, <2>2 DEF Change, DbFails, callVars
  <2> QED BY <1>6, <2>1, <2>2 DEF Change
<1>7. CASE Del(r)
  BY <1>7 DEF Del, callVars
<1>8. CASE Fill(r)
  BY <1>8 DEF Fill, callVars
<1>9. CASE Crash(r)
  BY <1>9 DEF Crash, callVars
<1>10. CASE Return(r)
  BY <1>10 DEF Return
<1> QED BY <1>1, <1>2, <1>3, <1>4, <1>5, <1>6, <1>7, <1>8, <1>9, <1>10 DEF Step

\* Time passes no copy's expiry and no request's Hold.
LEMMA TickKeepsAgeInv ==
    ASSUME TypeOK, AgeInv, Tick
    PROVE  AgeInv'
<1> USE ClockAssumption, BoundsAssumption
<1>1. ASSUME NEW s \in Subs PROVE CopyInv(s)'
  <2>1. CopyInv(s) /\ db' = db /\ superseded' = superseded /\ now' = now + 1
    BY DEF AgeInv, Tick, rowVars
  <2>2. Hit(s)' => cache'[s] = cache[s] /\ cache[s].exp # now + 1 /\ Hit(s)
    BY DEF Tick, Hit, Miss
  <2>3. now \in Nat /\ cache[s].exp \in Nat
    BY CopiesAreTyped DEF TypeOK
  <2> QED BY <2>1, <2>2, <2>3 DEF CopyInv
<1>2. ASSUME NEW r \in Requests PROVE HeldInv(r)'
  <2>1. /\ HeldInv(r) /\ now' = now + 1 /\ UNCHANGED <<pc, got, sub, db, readAt, superseded>>
        /\ pc[r] \in Holding => now < readAt[r] + Hold
    BY DEF AgeInv, Tick, rowVars, callVars, Holding
  <2>2. now \in Nat /\ readAt[r] \in Nat
    BY DEF TypeOK
  <2> QED BY <2>1, <2>2 DEF HeldInv
<1>3. ASSUME NEW r \in Requests PROVE KindInv(r)'
  BY DEF AgeInv, KindInv, Tick, callVars
<1> QED BY <1>1, <1>2, <1>3 DEF AgeInv

\* No copy is there yet, and nobody is about to write one.
LEMMA InitAgeInv == Init => AgeInv
BY DEF Init, AgeInv, CopyInv, HeldInv, KindInv, Hit, Holding, Miss, Garbage

\* A step keeps the types and the ages.
LEMMA NextAgeInv == TypeOK /\ AgeInv /\ [Next]_vars => (TypeOK /\ AgeInv)'
<1> SUFFICES ASSUME TypeOK, AgeInv, [Next]_vars PROVE (TypeOK /\ AgeInv)'
  OBVIOUS
<1>1. CASE UNCHANGED vars
  BY <1>1 DEF TypeOK, AgeInv, CopyInv, HeldInv, KindInv, Hit, vars
<1>2. CASE Tick
  BY <1>2, TickKeepsTypes, TickKeepsAgeInv
<1>3. ASSUME NEW r \in Requests, Step(r) PROVE (TypeOK /\ AgeInv)'
  <2>1. TypeOK'
    BY <1>3, StepKeepsTypes
  <2>2. ASSUME NEW s \in Subs PROVE CopyInv(s)'
    BY <1>3, <2>1, StepKeepsCopyInv DEF AgeInv
  <2>3. ASSUME NEW q \in Requests PROVE HeldInv(q)'
    BY <1>3, <2>1, StepKeepsHeldInv DEF AgeInv
  <2>4. ASSUME NEW q \in Requests PROVE KindInv(q)'
    <3>1. CASE q = r
      BY <1>3, <3>1, StepKeepsKindInv DEF AgeInv
    <3>2. CASE q # r
      <4>1. pc'[q] = pc[q] /\ kind'[q] = kind[q]
        BY <1>3, <3>2, StepIsLocal
      <4> QED BY <4>1 DEF AgeInv, KindInv
    <3> QED BY <3>1, <3>2
  <2> QED BY <2>1, <2>2, <2>3, <2>4 DEF AgeInv
<1> QED BY <1>1, <1>2, <1>3 DEF Next

\* Every reachable state is typed and keeps the ages.
LEMMA ReachableAgeInv == Spec => [](TypeOK /\ AgeInv)
<1>1. Init => TypeOK
  BY InitTypes
<1> QED BY <1>1, InitAgeInv, NextAgeInv, PTL DEF Spec

\* What the cache answers was current less than TTL + Hold ago, whatever
\* reads, fills, changes, faults and crashes came in between: an answer comes
\* from a copy, and CopyInv bounds the copy's expiry, which is still ahead.
THEOREM StaleAnswersAreYoung == Spec => StalenessBounded
<1> DEFINE Young(r) == pc[r] = "get" /\ pc'[r] = "done" =>
       \/ got'[r] = db[sub[r]]
       \/ /\ got'[r] \in 1..(db[sub[r]] - 1)
          /\ now < superseded[sub[r]][got'[r]] + TTL + Hold
<1>1. ASSUME TypeOK, AgeInv, Next, NEW r \in Requests, pc[r] = "get",
             pc'[r] = "done"
      PROVE  Young(r)
  <2> DEFINE s == sub[r]
  <2>1. Hit(s) /\ got'[r] = cache[s].rev
    <3>1. PICK q \in Requests : Step(q)
      BY <1>1 DEF Next, Tick
    <3>2. q = r
      BY <1>1, <3>1, StepIsLocal
    <3>3. Get(r)
      <4>1. CASE \E k \in Kinds, t \in Subs : Start(r, k, t)
        BY <1>1, <4>1 DEF Start
      <4> QED BY <1>1, <3>1, <3>2, <4>1
              DEF Step, Drop, Select, Create, Change, Del, Fill, Crash, Return,
                  Calls, Final, TypeOK
    <3> QED BY <1>1, <3>3 DEF Get, Hit, TypeOK
  <2>2. s \in Subs /\ CopyInv(s)
    BY <1>1 DEF TypeOK, AgeInv
  <2>3. cache[s] \in Copies /\ db[s] \in 0..MaxRev /\ now \in Nat
    BY <1>1, <2>2 DEF TypeOK
  <2>4. cache[s].rev \in 1..db[s] /\ cache[s].exp \in Nat
    BY <2>1, <2>2, <2>3, ClockAssumption, CopiesAreTyped DEF CopyInv
  <2>5. superseded[s][cache[s].rev] \in Nat
    <3>1. cache[s].rev \in Revs
      BY <2>3, <2>4, BoundsAssumption DEF Revs
    <3> QED BY <1>1, <2>2, <3>1 DEF TypeOK
  <2> QED BY <2>1, <2>2, <2>3, <2>4, <2>5, ClockAssumption DEF CopyInv
<1>2. TypeOK /\ AgeInv /\ [Next]_vars => [\A r \in Requests : Young(r)]_vars
  BY <1>1
<1> QED BY <1>2, ReachableAgeInv, PTL DEF Spec, StalenessBounded

\* No login fails unless the database does, with or without Redis and however
\* many replicas race to create the row: only a lookup of a row that is not
\* there and an operator whose DEL fails end in "failed".
THEOREM LoginsSucceed == Spec => []LoginSucceeds
<1>1. AgeInv => LoginSucceeds
  BY DEF AgeInv, KindInv, LoginSucceeds
<1> QED BY <1>1, ReachableAgeInv, PTL

(***************************************************************************)
(* Finished changes are visible                                            *)
(***************************************************************************)

\* A profile that has not been changed under a request holding its row.
Calm(s) == s \notin raced

\* What is in the cache of a calm profile is no older than what is finished.
SeenInv(s) ==
    /\ acked[s] <= db[s]
    /\ Calm(s) /\ Hit(s) => cache[s].rev >= acked[s]

\* Requests hold the current row of a calm profile.  An update whose DEL went
\* through has left no old copy; if it failed, no other call to Redis fails.
CurrentInv(r) ==
    /\ floor[r] <= acked[sub[r]]
    /\ Calm(sub[r]) /\ pc[r] \in Holding => got[r] = db[sub[r]]
    /\ Calm(sub[r]) /\ pc[r] = "fill" /\ kind[r] = "update" /\ Hit(sub[r]) =>
          (faults < MaxRedisFaults => cache[sub[r]].rev = db[sub[r]])
    /\ Calm(sub[r]) /\ pc[r] \in {"fill", "done"} /\ kind[r] \in {"login", "lookup"}
          => got[r] >= floor[r]

VisibleInv ==
    /\ \A s \in Subs : SeenInv(s)
    /\ \A r \in Requests : CurrentInv(r)

\* A change is finished by the request that holds it, at its last call to
\* Redis: no copy is left, or the copy is the change, or the SET has failed.
LEMMA AckSteps ==
    ASSUME TypeOK, NEW r \in Requests, Step(r), NEW s \in Subs
    PROVE  /\ faults' >= faults
           /\ acked'[s] >= acked[s]
           /\ acked'[s] # acked[s] =>
                /\ s = sub[r] /\ pc[r] \in Holding /\ pc'[r] = "done"
                /\ acked'[s] = got[r]
                /\ \/ ~Hit(s)'
                   \/ cache'[s].rev = got[r]
                   \/ /\ pc[r] = "fill" /\ kind[r] = "update"
                      /\ cache'[s] = cache[s] /\ faults < MaxRedisFaults
<1> USE BoundsAssumption DEF TypeOK
<1>1. CASE Del(r)
  <2>1. faults' >= faults
    BY <1>1 DEF Del, RedisFails
  <2>2. CASE acked' = acked
    BY <2>1, <2>2
  <2>3. CASE acked' # acked
    <3>1. /\ pc[r] = "del" /\ pc'[r] = "done" /\ Ack(sub[r], got[r])
          /\ cache' = [cache EXCEPT ![sub[r]] = Miss]
      BY <1>1, <2>3 DEF Del
    <3>2. acked' = [acked EXCEPT ![sub[r]] = IF got[r] > @ THEN got[r] ELSE @]
      BY <3>1 DEF Ack
    <3>3. sub[r] = s => ~Hit(s)'
      BY <3>1 DEF Hit, Miss
    <3> QED BY <2>1, <3>1, <3>2, <3>3 DEF Holding
  <2> QED BY <2>2, <2>3
<1>2. CASE Fill(r)
  <2>1. faults' >= faults
    BY <1>2 DEF Fill, RedisFails
  <2>2. CASE acked' = acked
    BY <2>1, <2>2
  <2>3. CASE acked' # acked
    <3>1. /\ pc[r] = "fill" /\ pc'[r] = "done" /\ Ack(sub[r], got[r])
          /\ kind[r] = "update"
      BY <1>2, <2>3 DEF Fill
    <3>2. acked' = [acked EXCEPT ![sub[r]] = IF got[r] > @ THEN got[r] ELSE @]
      BY <3>1 DEF Ack
    <3>3. \/ cache' = [cache EXCEPT ![sub[r]] = Copy(got[r], now + TTL)]
          \/ cache' = cache /\ faults < MaxRedisFaults
      BY <1>2 DEF Fill, RedisFails
    <3>4. sub[r] = s => \/ cache'[s].rev = got[r]
                        \/ cache' = cache /\ faults < MaxRedisFaults
      BY <3>3 DEF Copy
    <3> QED BY <2>1, <3>1, <3>2, <3>4 DEF Holding
  <2> QED BY <2>2, <2>3
<1>3. CASE ~Del(r) /\ ~Fill(r)
  <2>1. acked' = acked /\ faults' >= faults
    BY <1>3 DEF Step, Start, Get, Drop, Select, Create, Change, Crash, Return,
                clock, RedisFails
  <2> QED BY <2>1
<1> QED BY <1>1, <1>2, <1>3

\* What a request must answer with at least is what was finished when it began.
LEMMA FloorSteps ==
    ASSUME TypeOK, NEW r \in Requests, Step(r)
    PROVE  \/ floor'[r] = floor[r] /\ sub'[r] = sub[r]
           \/ floor'[r] = acked[sub'[r]] /\ acked' = acked
           \/ floor'[r] = 0
<1> USE DEF TypeOK, callVars
<1>1. CASE \E k \in Kinds, s \in Subs : Start(r, k, s)
  BY <1>1 DEF Start
<1>2. CASE Return(r)
  BY <1>2 DEF Return
<1>3. CASE ~Return(r) /\ ~\E k \in Kinds, s \in Subs : Start(r, k, s)
  <2>1. UNCHANGED <<floor, sub>>
    BY <1>3 DEF Step, Get, Drop, Select, Create, Change, Del, Fill, Crash
  <2> QED BY <2>1
<1> QED BY <1>1, <1>2, <1>3

\* A login or a lookup answers from the database or from the cache.
LEMMA AnswerSteps ==
    ASSUME TypeOK, NEW r \in Requests, KindInv(r), Step(r),
           pc'[r] \in {"fill", "done"}, kind'[r] \in {"login", "lookup"}
    PROVE  /\ sub'[r] = sub[r] /\ floor'[r] = floor[r]
           /\ \/ pc[r] = "fill" /\ got'[r] = got[r] /\ kind[r] = kind'[r]
              \/ got'[r] = db'[sub[r]]
              \/ Hit(sub[r]) /\ got'[r] = cache[sub[r]].rev
<1>1. CASE pc'[r] = "fill"
  <2>1. pc[r] \notin {"del", "change"}
    BY <1>1, HeldSteps DEF Holding, KindInv
  <2> QED BY <1>1, <2>1, HeldSteps DEF Holding
<1>2. CASE pc'[r] = "done"
  <2> USE <1>2 DEF TypeOK, callVars
  <2>1. CASE \E k \in Kinds, s \in Subs : Start(r, k, s)
    BY <2>1 DEF Start
  <2>2. CASE Get(r)
    BY <2>2 DEF Get, Hit
  <2>3. CASE Fill(r)
    BY <2>3 DEF Fill
  <2>4. CASE Del(r)
    BY <2>4 DEF Del, KindInv
  <2>5. CASE Select(r)
    <3>1. CASE Holds(r, db[sub[r]])
      BY <2>5, <3>1, HoldsGoesOn DEF Select
    <3> QED BY <2>5, <3>1 DEF Select, DbFails
  <2>6. CASE Create(r)
    <3>1. CASE Holds(r, db'[sub[r]])
      <4>1. db'[sub[r]] \in 0..MaxRev
        BY <2>6, BoundsAssumption DEF Create
      <4> QED BY <2>6, <3>1, <4>1, HoldsGoesOn DEF Create
    <3> QED BY <2>6, <3>1 DEF Create, DbFails
  <2>7. CASE Change(r)
    <3>1. kind'[r] = kind[r] /\ kind[r] \in {"update", "role"}
      BY <2>7 DEF Change, KindInv
    <3> QED BY <3>1
  <2>8. CASE Drop(r)
    BY <2>8 DEF Drop
  <2>9. CASE Crash(r)
    BY <2>9 DEF Crash
  <2>10. CASE Return(r)
    BY <2>10 DEF Return
  <2> QED BY <2>1, <2>2, <2>3, <2>4, <2>5, <2>6, <2>7, <2>8, <2>9, <2>10 DEF Step
<1> QED BY <1>1, <1>2

\* While a profile stays calm, a row that a request holds stays the current one.
LEMMA HeldRowStays ==
    ASSUME TypeOK, NEW r \in Requests, Step(r), NEW q \in Requests, HeldInv(q),
           sub[q] \notin raced', pc[q] \in Holding
    PROVE  db'[sub[q]] = db[sub[q]]
<1>1. sub[q] \in Subs
  BY DEF TypeOK
<1>2. got[q] \in 1..db[sub[q]] /\ db[sub[q]] \in 0..MaxRev
  BY <1>1 DEF HeldInv, TypeOK
<1>3. db[sub[q]] # 0
  BY <1>2
<1> QED BY <1>1, <1>3, RowSteps

\* An update goes on to its SET after its DEL: no copy is left, or the DEL was
\* the one call to Redis that may fail.
LEMMA UpdateSteps ==
    ASSUME TypeOK, MaxRedisFaults <= 1, NEW r \in Requests, KindInv(r), Step(r),
           pc'[r] = "fill", kind'[r] = "update"
    PROVE  ~Hit(sub[r])' \/ faults' >= MaxRedisFaults
<1> USE DEF TypeOK, callVars
<1>1. pc[r] \in Holding \cup {"select", "create", "change"} /\ kind[r] = "update"
  BY HeldSteps DEF Holding
<1>2. pc[r] \in {"del", "fill", "change"}
  BY <1>1 DEF KindInv, Holding
<1>3. CASE Del(r)
  <2>1. CASE cache' = [cache EXCEPT ![sub[r]] = Miss]
    BY <1>3, <2>1 DEF Del, Hit, Miss
  <2>2. CASE RedisFails
    BY <2>2, BoundsAssumption DEF RedisFails
  <2> QED BY <1>3, <2>1, <2>2 DEF Del
<1>4. CASE Change(r)
  <2>1. ~DbFails(r)
    BY DEF DbFails
  <2>2. Holds(r, db[sub[r]] + 1) /\ db[sub[r]] + 1 \in 0..MaxRev
    BY <1>4, <2>1, BoundsAssumption DEF Change
  <2> QED BY <1>1, <2>2, HoldsGoesOn
<1>5. CASE ~Del(r) /\ ~Change(r)
  BY <1>2, <1>5 DEF Step, Start, Get, Drop, Select, Create, Fill, Crash, Return
<1> QED BY <1>3, <1>4, <1>5

\* A step keeps what is visible of every profile.
LEMMA StepKeepsSeenInv ==
    ASSUME TypeOK, TypeOK', NEW r \in Requests, Step(r), HeldInv(r),
           CurrentInv(r), NEW s \in Subs, SeenInv(s)
    PROVE  SeenInv(s)'
<1>t. /\ acked[s] \in Nat /\ db[s] \in Nat /\ acked'[s] \in Nat /\ db'[s] \in Nat
      /\ got[r] \in Nat /\ db'[s] >= db[s] /\ (Calm(s)' => Calm(s))
  <2>1. acked[s] \in Nat /\ db[s] \in Nat /\ got[r] \in Nat
    BY DEF TypeOK
  <2>2. acked'[s] \in Nat /\ db'[s] \in Nat
    BY DEF TypeOK
  <2> QED BY <2>1, <2>2, RowSteps DEF Calm
<1>h. s = sub[r] /\ pc[r] \in Holding =>
         got[r] <= db[s] /\ (Calm(s) => got[r] = db[s])
  BY <1>t DEF HeldInv, CurrentInv
<1>1. acked'[s] <= db'[s]
  BY <1>t, <1>h, AckSteps DEF SeenInv
<1>2. ASSUME Calm(s)', Hit(s)' PROVE cache'[s].rev >= acked'[s]
  <2>1. CASE acked'[s] = acked[s]
    <3>1. CASE cache'[s] = cache[s]
      BY <1>2, <1>t, <2>1, <3>1 DEF SeenInv, Hit
    <3>2. CASE pc[r] = "fill" /\ s = sub[r] /\ cache'[s] = Copy(got[r], now + TTL)
      BY <1>2, <1>t, <1>h, <2>1, <3>2 DEF SeenInv, Copy, Holding
    <3> QED BY <1>2, <3>1, <3>2, CopySteps
  <2>2. CASE acked'[s] # acked[s]
    <3>1. /\ s = sub[r] /\ pc[r] \in Holding /\ acked'[s] = got[r]
          /\ \/ cache'[s].rev = got[r]
             \/ /\ pc[r] = "fill" /\ kind[r] = "update"
                /\ cache'[s] = cache[s] /\ faults < MaxRedisFaults
      BY <1>2, <2>2, AckSteps
    <3>2. CASE cache'[s].rev = got[r]
      BY <1>t, <3>1, <3>2
    <3>3. CASE cache'[s] = cache[s] /\ pc[r] = "fill" /\ kind[r] = "update"
                 /\ faults < MaxRedisFaults
      <4>1. cache[s].rev = db[s]
        BY <1>2, <1>t, <3>1, <3>3 DEF CurrentInv, Hit
      <4> QED BY <1>2, <1>t, <1>h, <3>1, <3>3, <4>1
    <3> QED BY <3>1, <3>2, <3>3
  <2> QED BY <2>1, <2>2
<1> QED BY <1>1, <1>2 DEF SeenInv

\* And what is visible to every request.
LEMMA StepKeepsCurrentInv ==
    ASSUME TypeOK, TypeOK', AgeInv, VisibleInv, MaxRedisFaults <= 1,
           NEW r \in Requests, Step(r), NEW q \in Requests
    PROVE  CurrentInv(q)'
<1>a. /\ HeldInv(q) /\ KindInv(q) /\ CurrentInv(q) /\ CurrentInv(r)
      /\ HeldInv(r) /\ KindInv(r)
  BY DEF AgeInv, VisibleInv
<1>b. /\ q # r => /\ pc'[q] = pc[q] /\ kind'[q] = kind[q] /\ sub'[q] = sub[q]
                  /\ got'[q] = got[q] /\ floor'[q] = floor[q]
      /\ sub[q] \in Subs /\ sub'[q] \in Subs
  <2>1. sub[q] \in Subs
    BY DEF TypeOK
  <2>2. sub'[q] \in Subs
    BY DEF TypeOK
  <2> QED BY <2>1, <2>2, StepIsLocal
<1>c. \A s \in Subs : /\ acked'[s] >= acked[s] /\ db'[s] >= db[s]
                      /\ s \notin raced' => Calm(s)
                      /\ acked[s] \in Nat /\ acked'[s] \in Nat /\ acked[s] <= db[s]
                      /\ db[s] \in Nat /\ db'[s] \in Nat
  <2> TAKE s \in Subs
  <2>1. acked[s] \in Nat /\ db[s] \in Nat
    BY DEF TypeOK
  <2>2. acked'[s] \in Nat /\ db'[s] \in Nat
    BY DEF TypeOK
  <2> QED BY <2>1, <2>2, AckSteps, RowSteps DEF Calm, VisibleInv, SeenInv
<1>d. floor[q] \in Nat /\ got[q] \in Nat
  BY DEF TypeOK
<1>1. floor'[q] <= acked'[sub'[q]]
  <2>1. CASE floor'[q] = floor[q] /\ sub'[q] = sub[q]
    BY <1>a, <1>b, <1>c, <1>d, <2>1 DEF CurrentInv
  <2>2. CASE floor'[q] = acked[sub'[q]] \/ floor'[q] = 0
    BY <1>b, <1>c, <2>2
  <2> QED BY <1>b, <2>1, <2>2, FloorSteps
<1>2. ASSUME sub'[q] \notin raced', pc'[q] \in Holding
      PROVE  got'[q] = db'[sub'[q]]
  <2>1. /\ sub'[q] = sub[q]
        /\ \/ pc[q] \in Holding /\ got'[q] = got[q]
           \/ got'[q] = db'[sub[q]]
    BY <1>2, <1>b, HeldSteps
  <2>2. CASE pc[q] \in Holding /\ got'[q] = got[q]
    <3>1. got[q] = db[sub[q]]
      BY <1>2, <1>a, <1>b, <1>c, <2>1, <2>2 DEF CurrentInv
    <3>2. db'[sub[q]] = db[sub[q]]
      BY <1>2, <1>a, <2>1, <2>2, HeldRowStays
    <3> QED BY <2>1, <2>2, <3>1, <3>2
  <2> QED BY <2>1, <2>2
<1>3. ASSUME sub'[q] \notin raced', pc'[q] = "fill", kind'[q] = "update",
             cache'[sub'[q]].tag = "hit", faults' < MaxRedisFaults
      PROVE  cache'[sub'[q]].rev = db'[sub'[q]]
  <2>1. CASE q = r
    <3>1. faults' \in Nat
      BY DEF TypeOK
    <3> QED BY <1>3, <1>a, <2>1, <3>1, UpdateSteps, BoundsAssumption DEF Hit
  <2>2. CASE q # r
    <3> DEFINE s == sub[q]
    <3>1. s \in Subs /\ s \notin raced' /\ Calm(s) /\ sub'[q] = s
      BY <1>3, <1>b, <1>c, <2>2
    <3>2. pc[q] = "fill" /\ pc[q] \in Holding /\ kind[q] = "update"
      BY <1>3, <1>b, <2>2 DEF Holding
    <3>3. db'[s] = db[s]
      BY <1>a, <3>1, <3>2, HeldRowStays
    <3>4. CASE cache'[s] = cache[s]
      <4>1. faults < MaxRedisFaults
        <5>1. faults' >= faults
          BY <3>1, AckSteps
        <5>2. faults \in Nat
          BY DEF TypeOK
        <5>3. faults' \in Nat
          BY DEF TypeOK
        <5> QED BY <1>3, <5>1, <5>2, <5>3, BoundsAssumption
      <4>2. cache[s].rev = db[s]
        BY <1>3, <1>a, <3>1, <3>2, <3>4, <4>1 DEF CurrentInv, Hit
      <4> QED BY <3>1, <3>3, <3>4, <4>2
    <3>5. CASE pc[r] = "fill" /\ s = sub[r] /\ cache'[s] = Copy(got[r], now + TTL)
      <4>1. got[r] = db[s]
        BY <1>a, <3>1, <3>5 DEF CurrentInv, Holding
      <4> QED BY <3>1, <3>3, <3>5, <4>1 DEF Copy
    <3> QED BY <1>3, <3>1, <3>4, <3>5, CopySteps DEF Hit
  <2> QED BY <2>1, <2>2
<1>4. ASSUME sub'[q] \notin raced', pc'[q] \in {"fill", "done"},
             kind'[q] \in {"login", "lookup"}
      PROVE  got'[q] >= floor'[q]
  <2>1. CASE q # r
    BY <1>4, <1>a, <1>b, <1>c, <2>1 DEF CurrentInv
  <2>2. CASE q = r
    <3> DEFINE s == sub[q]
    <3>1. /\ sub'[q] = s /\ floor'[q] = floor[q]
          /\ \/ pc[q] = "fill" /\ got'[q] = got[q] /\ kind[q] = kind'[q]
             \/ got'[q] = db'[s]
             \/ Hit(s) /\ got'[q] = cache[s].rev
      BY <1>4, <1>a, <2>2, AnswerSteps
    <3>2. s \in Subs /\ Calm(s) /\ SeenInv(s) /\ floor[q] <= acked[s]
      BY <1>4, <1>a, <1>b, <1>c, <3>1 DEF VisibleInv, CurrentInv
    <3>3. CASE pc[q] = "fill" /\ got'[q] = got[q] /\ kind[q] = kind'[q]
      BY <1>4, <1>a, <3>1, <3>2, <3>3 DEF CurrentInv
    <3>4. CASE got'[q] = db'[s]
      BY <1>c, <1>d, <3>1, <3>2, <3>4
    <3>5. CASE Hit(s) /\ got'[q] = cache[s].rev
      <4>1. cache[s].rev >= acked[s] /\ cache[s].rev \in 0..MaxRev
        BY <3>2, <3>5, CopiesAreTyped DEF SeenInv, TypeOK
      <4> QED BY <1>c, <1>d, <3>1, <3>2, <3>5, <4>1
    <3> QED BY <3>1, <3>3, <3>4, <3>5
  <2> QED BY <2>1, <2>2
<1> QED BY <1>1, <1>2, <1>3, <1>4 DEF CurrentInv, Calm, Hit

\* Time only takes copies away.
LEMMA TickKeepsVisibleInv ==
    ASSUME VisibleInv, TypeOK, Tick
    PROVE  VisibleInv'
<1>1. UNCHANGED <<db, raced, acked, pc, kind, sub, floor, got, faults>>
  BY DEF Tick, rowVars, callVars
<1>2. ASSUME NEW s \in Subs, Hit(s)' PROVE Hit(s) /\ cache'[s] = cache[s]
  BY <1>2 DEF Tick, Hit, Miss
<1>3. ASSUME NEW s \in Subs PROVE SeenInv(s)'
  BY <1>1, <1>2 DEF VisibleInv, SeenInv, Calm
<1>4. ASSUME NEW r \in Requests PROVE CurrentInv(r)'
  <2>1. sub[r] \in Subs /\ CurrentInv(r)
    BY DEF TypeOK, VisibleInv
  <2> QED BY <1>1, <1>2, <2>1 DEF CurrentInv, Calm, Hit
<1> QED BY <1>3, <1>4 DEF VisibleInv

\* If at most one call to Redis fails, every finished change stays visible to
\* later reads, unless a request held the row while it was changed: then no
\* old copy is left when the change is finished, for the DEL or the SET has
\* gone through, and no request that holds an old row is left to write one.
THEOREM FinishedChangesAreVisible ==
    ASSUME MaxRedisFaults <= 1
    PROVE  Spec => []ChangeIsVisibleUnlessRaced
<1>1. Init => VisibleInv
  BY SMTT(30) DEF Init, VisibleInv, SeenInv, CurrentInv, Hit, Holding, Miss, Garbage
<1>2. TypeOK /\ AgeInv /\ VisibleInv /\ [Next]_vars /\ TypeOK' => VisibleInv'
  <2> SUFFICES ASSUME TypeOK, AgeInv, VisibleInv, [Next]_vars, TypeOK'
               PROVE  VisibleInv'
    OBVIOUS
  <2>1. CASE UNCHANGED vars
    BY <2>1 DEF VisibleInv, SeenInv, CurrentInv, Calm, Hit, vars
  <2>2. CASE Tick
    BY <2>2, TickKeepsVisibleInv
  <2>3. ASSUME NEW r \in Requests, Step(r) PROVE VisibleInv'
    <3>1. ASSUME NEW s \in Subs PROVE SeenInv(s)'
      BY <2>3, StepKeepsSeenInv DEF AgeInv, VisibleInv
    <3>2. ASSUME NEW q \in Requests PROVE CurrentInv(q)'
      BY <2>3, StepKeepsCurrentInv
    <3> QED BY <3>1, <3>2 DEF VisibleInv
  <2> QED BY <2>1, <2>2, <2>3 DEF Next
<1>3. VisibleInv => ChangeIsVisibleUnlessRaced
  BY DEF VisibleInv, CurrentInv, Calm, ChangeIsVisibleUnlessRaced
<1> QED BY <1>1, <1>2, <1>3, ReachableAgeInv, PTL DEF Spec
=============================================================================
