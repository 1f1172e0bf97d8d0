---------------------------- MODULE LifecycleProofs ----------------------------
(***************************************************************************)
(* Proofs about Lifecycle, for any number of replicas, migrations, starts  *)
(* and crashes.  The argument is that what a replica has open is always    *)
(* told by the length of its cleanup list, which is a prefix of Build's    *)
(* steps, and that length by where the replica is.                         *)
(***************************************************************************)
EXTENDS Lifecycle, SequenceTheorems, TLAPS

\* How many of Build's steps have a function in the cleanup list: the first five.
Cleanups == 5

Places == {"off", "ping", "lock", "migrate", "run", "shutdown", "close", "exited"}

(***************************************************************************)
(* The steps of Build                                                      *)
(***************************************************************************)

\* Build has seven steps; those with a function for Close come first.
LEMMA StepsOfBuild ==
    /\ Len(Steps) = 7 /\ DOMAIN Steps = 1..7
    /\ StepNames = {"db", "redis", "pubsub", "queueClient", "worker", "i18n", "upload"}
    /\ Closed = {"db", "redis", "pubsub", "queueClient", "worker"}
    /\ \A k \in 1..Cleanups : Steps[k] \in Closed
    /\ Head(Steps) = "db"
<1>1. Len(Steps) = 7 /\ DOMAIN Steps = 1..7 /\ Head(Steps) = "db"
  BY DEF Steps
<1>2. StepNames = {"db", "redis", "pubsub", "queueClient", "worker", "i18n", "upload"}
  <2>1. \A k \in 1..7 : k = 1 \/ k = 2 \/ k = 3 \/ k = 4 \/ k = 5 \/ k = 6 \/ k = 7
    OBVIOUS
  <2>2. /\ Steps[1] = "db" /\ Steps[2] = "redis" /\ Steps[3] = "pubsub"
        /\ Steps[4] = "queueClient" /\ Steps[5] = "worker" /\ Steps[6] = "i18n"
        /\ Steps[7] = "upload"
    BY DEF Steps
  <2> QED BY <1>1, <2>1, <2>2 DEF StepNames
<1>3. Closed = {"db", "redis", "pubsub", "queueClient", "worker"}
  BY <1>2 DEF Closed
<1>4. \A k \in 1..Cleanups : Steps[k] \in Closed
  BY <1>3 DEF Steps, Cleanups
<1> QED BY <1>1, <1>2, <1>3, <1>4

\* Where each step of Build is, and what comes after it.
LEMMA StepsAfter ==
    /\ \A k \in 1..7 : \A j \in 1..7 : Steps[j] = Steps[k] => j = k
    /\ \A k \in 1..6 : After(Steps[k]) = Steps[k + 1]
    /\ After(Steps[7]) = "run"
    /\ \A k \in 1..7 : Steps[k] \in Closed <=> k <= Cleanups
    /\ \A k \in 1..7 : Steps[k] \in StepNames /\ Steps[k] \notin Places
<1>1. \A k \in 1..7 : \A j \in 1..7 : Steps[j] = Steps[k] => j = k
  BY DEF Steps
<1>2. ASSUME NEW k \in 1..7
      PROVE  After(Steps[k]) = IF k = 7 THEN "run" ELSE Steps[k + 1]
  <2>1. (CHOOSE j \in DOMAIN Steps : Steps[j] = Steps[k]) = k
    BY <1>1, StepsOfBuild
  <2> QED BY <2>1, StepsOfBuild DEF After
<1>3. \A k \in 1..7 : Steps[k] \in Closed <=> k <= Cleanups
  BY StepsOfBuild DEF Steps, Cleanups
<1>4. \A k \in 1..7 : Steps[k] \in StepNames /\ Steps[k] \notin Places
  BY StepsOfBuild DEF Steps, Places
<1>5. \A k \in 1..6 : k \in 1..7 /\ k # 7
  OBVIOUS
<1> QED BY <1>1, <1>2, <1>3, <1>4, <1>5

(***************************************************************************)
(* The inductive invariant                                                 *)
(***************************************************************************)

Size(r) == Len(cleanup[r])
Built(n) == {Steps[k] : k \in 1..n}

\* The cleanup list is a prefix of Build's steps, and what is open is what is on it.
CleanupInv == \A r \in Replicas :
    /\ Size(r) <= Cleanups
    /\ \A k \in 1..Size(r) : cleanup[r][k] = Steps[k]
    /\ open[r] = Built(Size(r))

\* Where a replica is tells how long the list is, until it closes.
StageInv == \A r \in Replicas :
    /\ pc[r] \in {"off", "ping", "lock", "migrate", "exited"} => Size(r) = 0
    /\ \A k \in 1..7 : pc[r] = Steps[k] =>
          Size(r) = IF k <= Cleanups THEN k - 1 ELSE Cleanups
    /\ pc[r] \in {"run", "shutdown"} => Size(r) = Cleanups

\* A request that is waited for runs before Close, a job as long as the worker
\* is on the list, the pump as long as the subscription is, a statement as long
\* as the pool is.
UserInv == \A r \in Replicas :
    /\ handler[r] /\ ended[r] \notin {"deadline", "failed"} => pc[r] \in {"run", "shutdown"}
    /\ job[r] => Size(r) = 5
    /\ pump[r] => Size(r) >= 3
    /\ query[r] => Size(r) >= 1

\* Only the holder of the lock migrates, and what it found pending still is.
LockInv == \A r \in Replicas :
    /\ lock = r <=> pc[r] = "migrate"
    /\ pc[r] = "migrate" => next[r] = schema + 1

\* Past the migrations the schema is the latest.
SchemaInv ==
    /\ \A k \in 1..Latest : applied[k] = IF k <= schema THEN 1 ELSE 0
    /\ \A r \in Replicas : pc[r] \in StepNames \cup {"run", "shutdown"} => schema = Latest

LifeInv == TypeOK /\ CleanupInv /\ StageInv /\ UserInv /\ LockInv /\ SchemaInv

Step(r) == Start(r) \/ Signal(r) \/ Crash(r) \/ Boot(r) \/ End(r) \/ Use(r)

(***************************************************************************)
(* What a step does                                                        *)
(***************************************************************************)

\* The initial states have the invariant.
LEMMA InitHasLifeInv == Init => LifeInv
<1> SUFFICES ASSUME Init PROVE LifeInv
  OBVIOUS
<1> USE NumbersAssumption
<1>1. TypeOK
  <2>1. <<>> \in Seq(Closed) /\ {} \in SUBSET Closed
    OBVIOUS
  <2>2. cleanup \in [Replicas -> Seq(Closed)] /\ open \in [Replicas -> SUBSET Closed]
    BY <2>1 DEF Init
  <2>3. applied \in [1..Latest -> Nat] /\ schema \in 0..Latest
    BY DEF Init
  <2>4. next \in [Replicas -> 0..(Latest + 1)] /\ attempt \in [Replicas -> 0..MaxRetries]
    BY DEF Init
  <2> QED BY <2>2, <2>3, <2>4 DEF Init, TypeOK
<1>2. \A r \in Replicas : cleanup[r] = <<>> /\ Size(r) = 0 /\ open[r] = {} /\ pc[r] = "off"
  BY DEF Init, Size
<1>3. CleanupInv
  BY <1>2 DEF CleanupInv, Built, Cleanups
<1>4. \A r \in Replicas : pc[r] \notin StepNames \cup {"run", "shutdown", "migrate"}
  BY <1>2, StepsOfBuild
<1>5. StageInv
  BY <1>2, <1>4, StepsAfter DEF StageInv
<1>6. UserInv
  BY DEF Init, UserInv
<1>7. LockInv
  BY <1>4, FreeAssumption DEF Init, LockInv
<1>8. SchemaInv
  BY <1>4 DEF Init, SchemaInv
<1> QED BY <1>1, <1>3, <1>5, <1>6, <1>7, <1>8 DEF LifeInv

\* A step of one replica leaves what is the others' alone.
LEMMA StepIsLocal ==
    ASSUME TypeOK, NEW r \in Replicas, Step(r), NEW q \in Replicas, q # r
    PROVE  /\ pc'[q] = pc[q] /\ next'[q] = next[q]
           /\ open'[q] = open[q] /\ cleanup'[q] = cleanup[q]
           /\ handler'[q] = handler[q] /\ job'[q] = job[q] /\ pump'[q] = pump[q]
           /\ query'[q] = query[q] /\ ended'[q] = ended[q]
           /\ lock' # lock => lock' \in {r, Free} /\ lock \in {r, Free}
<1> USE DEF TypeOK, Goto, shared, app, users, counts, boot
<1>1. CASE Start(r) \/ Signal(r) \/ Crash(r)
  BY <1>1 DEF Start, Signal, Crash, Gone
<1>2. CASE Ping(r) \/ Lock(r) \/ LockFails(r) \/ Apply(r) \/ Migrated(r)
  BY <1>2 DEF Ping, Lock, LockFails, Apply, Migrated
<1>3. CASE \E s \in StepNames : Construct(r, s) \/ ConstructFails(r, s)
  BY <1>3 DEF Construct, ConstructFails
<1>4. CASE End(r)
  BY <1>4 DEF End, RunEnds, RunIsOver, ShutdownEnds, Close, Exit, Gone
<1>5. CASE Use(r)
  BY <1>5 DEF Use, Request, Respond, JobStarts, JobEnds, PumpEnds, Query, QueryEnds
<1> QED BY <1>1, <1>2, <1>3, <1>4, <1>5 DEF Step, Boot

\* Where a step takes a replica, and what it does to its cleanup list.
LEMMA StepMoves ==
    ASSUME TypeOK, NEW r \in Replicas, Step(r)
    PROVE  \/ Start(r) \/ Crash(r) \/ Close(r)
           \/ \E s \in Closed : Construct(r, s)
           \/ \E s \in StepNames \ Closed :
                 pc[r] = s /\ pc'[r] = After(s) /\ UNCHANGED app
           \/ pc'[r] = pc[r] /\ UNCHANGED app
           \/ /\ UNCHANGED app /\ pc[r] = "ping" /\ pc'[r] \in {"lock", "exited"}
           \/ /\ UNCHANGED app /\ pc[r] = "lock" /\ pc'[r] \in {"migrate", "exited"}
           \/ /\ UNCHANGED app /\ pc[r] = "migrate" /\ pc'[r] \in {"db", "exited"}
           \/ /\ UNCHANGED app /\ pc[r] \in StepNames \cup {"run", "shutdown"} /\ pc'[r] = "close"
           \/ /\ UNCHANGED app /\ pc[r] = "run" /\ pc'[r] = "shutdown"
           \/ UNCHANGED app /\ pc[r] = "close" /\ cleanup[r] = <<>> /\ pc'[r] = "exited"
<1> USE DEF TypeOK, Goto, app
<1>1. CASE Start(r) \/ Crash(r) \/ Close(r)
  BY <1>1
<1>2. CASE Signal(r) \/ Apply(r) \/ Use(r)
  BY <1>2 DEF Signal, Apply, Use, Request, Respond, JobStarts, JobEnds, PumpEnds, Query, QueryEnds
<1>3. CASE Ping(r) \/ Lock(r) \/ LockFails(r)
  BY <1>3 DEF Ping, Lock, LockFails
<1>4. CASE Migrated(r)
  BY <1>4, StepsOfBuild DEF Migrated
<1>5. ASSUME NEW s \in StepNames, Construct(r, s) PROVE
        \/ \E t \in Closed : Construct(r, t)
        \/ \E t \in StepNames \ Closed : pc[r] = t /\ pc'[r] = After(t) /\ UNCHANGED app
  <2>1. CASE s \in Closed
    BY <1>5, <2>1
  <2>2. CASE s \notin Closed
    <3>1. pc[r] = s /\ pc'[r] = After(s) /\ UNCHANGED app
      BY <1>5, <2>2 DEF Construct
    <3> QED BY <3>1, <2>2
  <2> QED BY <2>1, <2>2
<1>6. CASE \E s \in StepNames : ConstructFails(r, s)
  BY <1>6 DEF ConstructFails
<1>7. CASE RunEnds(r) \/ ShutdownEnds(r) \/ Exit(r)
  BY <1>7 DEF RunEnds, ShutdownEnds, Exit, Gone
<1> QED BY <1>1, <1>2, <1>3, <1>4, <1>5, <1>6, <1>7 DEF Step, Boot, End

\* The list is a sequence, and its size a number.
LEMMA ListIsFinite ==
    ASSUME TypeOK, NEW r \in Replicas
    PROVE  cleanup[r] \in Seq(Closed) /\ Size(r) \in Nat
BY DEF TypeOK, Size

\* A list that is left alone keeps its size, and an empty one has none.
LEMMA SizeKept ==
    ASSUME NEW q \in Replicas
    PROVE  /\ cleanup'[q] = cleanup[q] => Size(q)' = Size(q)
           /\ UNCHANGED app => Size(q)' = Size(q)
           /\ cleanup'[q] = <<>> => Size(q)' = 0
           /\ cleanup[q] = <<>> => Size(q) = 0
BY DEF Size, app

\* One more function on a list, and its last one taken off.
LEMMA ListMoves ==
    ASSUME NEW list \in Seq(Closed)
    PROVE  /\ Len(list) \in Nat
           /\ \A s \in Closed :
                 /\ Append(list, s) \in Seq(Closed)
                 /\ Len(Append(list, s)) = Len(list) + 1
                 /\ Append(list, s)[Len(list) + 1] = s
                 /\ \A k \in 1..Len(list) : Append(list, s)[k] = list[k]
           /\ list # <<>> => /\ Front(list) \in Seq(Closed) /\ Len(list) >= 1
                             /\ Len(Front(list)) = Len(list) - 1
                             /\ \A k \in 1..(Len(list) - 1) : Front(list)[k] = list[k]
<1>1. Len(list) \in Nat
  OBVIOUS
<1>2. ASSUME NEW s \in Closed
      PROVE  /\ Append(list, s) \in Seq(Closed)
             /\ Len(Append(list, s)) = Len(list) + 1
             /\ Append(list, s)[Len(list) + 1] = s
             /\ \A k \in 1..Len(list) : Append(list, s)[k] = list[k]
  OBVIOUS
<1>3. ASSUME list # <<>>
      PROVE  /\ Front(list) \in Seq(Closed) /\ Len(list) >= 1
             /\ Len(Front(list)) = Len(list) - 1
             /\ \A k \in 1..(Len(list) - 1) : Front(list)[k] = list[k]
  <2>1. PICK m \in Nat : Len(list) = m + 1
    <3>1. Len(list) - 1 \in Nat /\ Len(list) = (Len(list) - 1) + 1
      BY <1>3
    <3> QED BY <3>1
  <2>2. (Len(list) - 1) = m /\ \A k \in 1..m : list[k] \in Closed
    BY <2>1
  <2>3. /\ SubSeq(list, 1, m) \in Seq(Closed)
        /\ Len(SubSeq(list, 1, m)) = IF 1 <= m THEN m - 1 + 1 ELSE 0
        /\ \A k \in 1..(m - 1 + 1) : SubSeq(list, 1, m)[k] = list[1 + k - 1]
    BY <2>2, SubSeqProperties
  <2>4. m - 1 + 1 = m /\ (~(1 <= m) => m = 0) /\ \A k \in 1..m : 1 + k - 1 = k
    OBVIOUS
  <2>5. Front(list) = SubSeq(list, 1, m)
    BY <2>2 DEF Front
  <2>6. Len(Front(list)) = m
    BY <2>3, <2>4, <2>5
  <2>7. \A k \in 1..m : Front(list)[k] = list[k]
    BY <2>3, <2>4, <2>5
  <2> QED BY <2>1, <2>2, <2>3, <2>5, <2>6, <2>7
<1> QED BY <1>1, <1>2, <1>3

\* A constructor with a function is one of the first five steps of Build, ...
LEMMA ConstructMoves ==
    ASSUME TypeOK, CleanupInv, StageInv, NEW r \in Replicas, NEW s \in Closed, Construct(r, s)
    PROVE  \E k \in 1..Cleanups :
              /\ s = Steps[k] /\ pc[r] = Steps[k] /\ Size(r) = k - 1
              /\ pc'[r] = Steps[k + 1] /\ k + 1 \in 1..7
              /\ open'[r] = open[r] \cup {Steps[k]}
              /\ cleanup'[r] = Append(cleanup[r], Steps[k])
              /\ Size(r)' = k
<1>1. PICK k \in 1..7 : s = Steps[k]
  BY StepsOfBuild DEF Closed, StepNames
<1>2. k \in 1..Cleanups
  BY <1>1, StepsAfter DEF Cleanups
<1>3. pc[r] = Steps[k] /\ Size(r) = k - 1
  BY <1>1, <1>2 DEF Construct, StageInv, Cleanups
<1>4. pc'[r] = Steps[k + 1] /\ k + 1 \in 1..7
  BY SMTT(30), <1>1, <1>2, StepsAfter DEF Construct, Goto, TypeOK, Cleanups
<1>5. open'[r] = open[r] \cup {Steps[k]} /\ cleanup'[r] = Append(cleanup[r], Steps[k])
  BY <1>1 DEF Construct, TypeOK
<1>6. Size(r)' = k
  <2>1. Len(Append(cleanup[r], s)) = Len(cleanup[r]) + 1
    BY ListMoves, ListIsFinite
  <2> QED BY <1>1, <1>2, <1>3, <1>5, <2>1 DEF Size, Cleanups
<1> QED BY <1>1, <1>2, <1>3, <1>4, <1>5, <1>6

\* ... and Close calls the last function of the list.
LEMMA CloseMoves ==
    ASSUME TypeOK, CleanupInv, NEW r \in Replicas, Close(r)
    PROVE  \E n \in 1..Cleanups :
              /\ Size(r) = n /\ Last(cleanup[r]) = Steps[n]
              /\ Size(r)' = n - 1 /\ cleanup'[r] = Front(cleanup[r])
              /\ open'[r] = open[r] \ {Steps[n]}
              /\ pc[r] = "close" /\ pc'[r] = "close"
<1> DEFINE n == Size(r)
<1>1. cleanup[r] # <<>> /\ cleanup[r] \in Seq(Closed) /\ n \in Nat /\ n <= Cleanups
  BY ListIsFinite DEF Close, CleanupInv
<1>2. n \in 1..Cleanups
  <2>1. n >= 1
    BY <1>1, ListMoves DEF Size
  <2> QED BY <1>1, <2>1 DEF Cleanups
<1>3. Last(cleanup[r]) = Steps[n]
  <2>1. n \in 1..Size(r)
    BY <1>1, <1>2
  <2> QED BY <2>1 DEF CleanupInv, Last, Size
<1>4. /\ cleanup'[r] = Front(cleanup[r]) /\ open'[r] = open[r] \ {Steps[n]}
      /\ pc[r] = "close" /\ pc'[r] = "close"
  BY <1>3 DEF Close, TypeOK
<1>5. Size(r)' = n - 1
  BY <1>1, <1>4, ListMoves DEF Size
<1> QED BY <1>2, <1>3, <1>4, <1>5

(***************************************************************************)
(* The invariant is kept                                                   *)
(***************************************************************************)

\* The list stays a prefix of Build's steps and the account of what is open.
LEMMA StepKeepsCleanup ==
    ASSUME LifeInv, NEW r \in Replicas, Step(r)
    PROVE  CleanupInv'
<1> USE DEF LifeInv
<1> DEFINE Kept(q) == /\ Size(q)' <= Cleanups
                      /\ \A k \in 1..Size(q)' : cleanup'[q][k] = Steps[k]
                      /\ open'[q] = Built(Size(q)')
<1>1. ASSUME NEW q \in Replicas, UNCHANGED <<open[q], cleanup[q]>> PROVE Kept(q)
  BY <1>1, SizeKept DEF CleanupInv
<1>2. ASSUME Start(r) \/ Crash(r) PROVE Kept(r)
  <2>1. open'[r] = {} /\ cleanup'[r] = <<>> /\ Size(r)' = 0
    BY <1>2, SizeKept DEF Start, Crash, TypeOK
  <2> QED BY <2>1 DEF Built, Cleanups
<1>3. ASSUME \E s \in Closed : Construct(r, s) PROVE Kept(r)
  <2>1. PICK k \in 1..Cleanups :
            /\ Size(r) = k - 1 /\ open'[r] = open[r] \cup {Steps[k]}
            /\ cleanup'[r] = Append(cleanup[r], Steps[k]) /\ Size(r)' = k
    BY <1>3, ConstructMoves
  <2>2. cleanup[r] \in Seq(Closed) /\ Steps[k] \in Closed /\ k \in Nat /\ k <= Cleanups
    BY StepsOfBuild DEF TypeOK, Cleanups
  <2>3. \A j \in 1..k : cleanup'[r][j] = Steps[j]
    <3>1. \A j \in 1..k : j = k \/ j \in 1..(k - 1)
      BY <2>2
    <3> QED BY <2>1, <2>2, <3>1, ListMoves DEF CleanupInv, Size
  <2>4. Built(k) = Built(k - 1) \cup {Steps[k]}
    BY <2>2 DEF Built
  <2> QED BY <2>1, <2>2, <2>3, <2>4 DEF CleanupInv
<1>4. ASSUME Close(r) PROVE Kept(r)
  <2>1. PICK n \in 1..Cleanups :
            /\ Size(r) = n /\ Size(r)' = n - 1
            /\ cleanup'[r] = Front(cleanup[r]) /\ open'[r] = open[r] \ {Steps[n]}
    BY <1>4, CloseMoves
  <2>2. cleanup[r] \in Seq(Closed) /\ n \in Nat /\ cleanup[r] # <<>>
    BY <1>4 DEF TypeOK, Close, Cleanups
  <2>3. \A j \in 1..(n - 1) : cleanup'[r][j] = Steps[j]
    <3>1. \A j \in 1..(n - 1) : cleanup'[r][j] = cleanup[r][j]
      <4>1. Len(cleanup[r]) - 1 = n - 1
        BY <2>1, <2>2 DEF Size
      <4>2. \A j \in 1..(Len(cleanup[r]) - 1) : Front(cleanup[r])[j] = cleanup[r][j]
        BY <2>2, ListMoves
      <4> QED BY <2>1, <4>1, <4>2
    <3>2. \A j \in 1..(n - 1) : j \in 1..n
      BY <2>2
    <3> QED BY <2>1, <3>1, <3>2 DEF CleanupInv
  <2>4. Built(n) \ {Steps[n]} = Built(n - 1)
    <3>1. \A j \in 1..(n - 1) : Steps[j] # Steps[n]
      BY <2>2, StepsAfter DEF Cleanups
    <3>2. \A j \in 1..n : j = n \/ j \in 1..(n - 1)
      BY <2>2
    <3>3. \A j \in 1..(n - 1) : j \in 1..n
      BY <2>2
    <3> QED BY <3>1, <3>2, <3>3 DEF Built
  <2> QED BY <2>1, <2>2, <2>3, <2>4 DEF CleanupInv, Cleanups
<1>5. ASSUME UNCHANGED app PROVE Kept(r)
  BY <1>1, <1>5 DEF app
<1>6. Kept(r)
  BY <1>1, <1>2, <1>3, <1>4, <1>5, StepMoves DEF app
<1>7. \A q \in Replicas : q # r => Kept(q)
  BY <1>1, StepIsLocal
<1> QED BY <1>6, <1>7 DEF CleanupInv

\* The length of the list goes with where the replica is.
LEMMA StepKeepsStage ==
    ASSUME LifeInv, NEW r \in Replicas, Step(r)
    PROVE  StageInv'
<1> USE DEF LifeInv
<1> DEFINE Early == {"off", "ping", "lock", "migrate", "exited"}
           Staged(at, n) ==
              /\ at \in Early => n = 0
              /\ \A k \in 1..7 : at = Steps[k] => n = IF k <= Cleanups THEN k - 1 ELSE Cleanups
              /\ at \in {"run", "shutdown"} => n = Cleanups
<1>1. \A q \in Replicas : Staged(pc[q], Size(q))
  BY DEF StageInv
<1>2. \A at \in Early : Staged(at, 0)
  BY StepsAfter DEF Places
<1>3. \A n \in Nat : Staged("close", n)
  BY StepsAfter DEF Places
<1>4. \A k \in 1..7 : Staged(Steps[k], IF k <= Cleanups THEN k - 1 ELSE Cleanups)
  BY StepsAfter DEF Places
<1>5. Staged("run", Cleanups) /\ Staged("shutdown", Cleanups)
  BY StepsAfter DEF Places
<1>6. \A q \in Replicas : Size(q) \in Nat
  BY ListIsFinite
<1> HIDE DEF Staged
<1>7. ASSUME Start(r) \/ Crash(r) PROVE Staged(pc'[r], Size(r)')
  <2>1. pc'[r] \in Early /\ cleanup'[r] = <<>>
    BY <1>7 DEF Start, Crash, TypeOK, Goto
  <2> QED BY <2>1, <1>2, SizeKept
<1>8. ASSUME Close(r) PROVE Staged(pc'[r], Size(r)')
  <2>1. pc'[r] = "close" /\ Size(r)' \in Nat
    BY <1>8, CloseMoves DEF Cleanups
  <2> QED BY <2>1, <1>3
<1>9. ASSUME \E s \in Closed : Construct(r, s) PROVE Staged(pc'[r], Size(r)')
  <2>1. PICK k \in 1..Cleanups :
           pc'[r] = Steps[k + 1] /\ k + 1 \in 1..7 /\ Size(r)' = k
    BY <1>9, ConstructMoves
  <2>2. k = IF k + 1 <= Cleanups THEN (k + 1) - 1 ELSE Cleanups
    BY DEF Cleanups
  <2> QED BY <2>1, <2>2, <1>4
<1>10. ASSUME NEW s \in StepNames \ Closed, pc[r] = s, pc'[r] = After(s), UNCHANGED app
       PROVE  Staged(pc'[r], Size(r)')
  <2>1. PICK k \in 1..7 : s = Steps[k]
    BY StepsOfBuild DEF StepNames
  <2>2. k = 6 \/ k = 7
    BY <2>1, StepsAfter DEF Cleanups
  <2>3. Size(r)' = Cleanups
    BY <1>10, <2>1, <2>2, SizeKept DEF StageInv, Cleanups
  <2>4. pc'[r] = "run" \/ (pc'[r] = Steps[7] /\ 7 \in 1..7)
    BY <1>10, <2>1, <2>2, StepsAfter
  <2>5. Staged(Steps[7], Cleanups)
    BY <1>4 DEF Cleanups
  <2> QED BY <2>3, <2>4, <2>5, <1>5
<1>11. ASSUME pc'[r] = pc[r] /\ UNCHANGED app PROVE Staged(pc'[r], Size(r)')
  BY <1>11, <1>1, SizeKept
<1>12. ASSUME UNCHANGED app, pc[r] \in {"ping", "lock", "migrate"},
              pc'[r] \in {"lock", "migrate", "db", "exited"}
       PROVE  Staged(pc'[r], Size(r)')
  <2>1. Size(r)' = 0
    BY <1>12, SizeKept DEF StageInv
  <2>2. Staged("db", 0)
    BY <1>4 DEF Cleanups, Steps
  <2> QED BY <2>1, <2>2, <1>12, <1>2
<1>13. ASSUME UNCHANGED app /\ pc'[r] = "close" PROVE Staged(pc'[r], Size(r)')
  BY <1>13, <1>3, <1>6, SizeKept
<1>14. ASSUME UNCHANGED app /\ pc[r] = "run" /\ pc'[r] = "shutdown" PROVE Staged(pc'[r], Size(r)')
  BY <1>14, <1>5, SizeKept DEF StageInv
<1>15. ASSUME UNCHANGED app /\ cleanup[r] = <<>> /\ pc'[r] = "exited" PROVE Staged(pc'[r], Size(r)')
  BY <1>15, <1>2, SizeKept
<1>16. Staged(pc'[r], Size(r)')
  BY <1>7, <1>8, <1>9, <1>10, <1>11, <1>12, <1>13, <1>14, <1>15, StepMoves
<1>17. \A q \in Replicas : q # r => Staged(pc'[q], Size(q)')
  BY <1>1, StepIsLocal, SizeKept
<1> QED BY <1>16, <1>17 DEF StageInv, Staged

\* Requests, jobs and the pump are gone before what they use is.
LEMMA StepKeepsUsers ==
    ASSUME LifeInv, NEW r \in Replicas, Step(r)
    PROVE  UserInv'
<1> USE DEF LifeInv
<1> DEFINE Waited(q) ==
             handler[q] /\ ended[q] \notin {"deadline", "failed"} => pc[q] \in {"run", "shutdown"}
           Safe(q) == /\ Waited(q)'
                      /\ job'[q] => Size(q)' = 5
                      /\ pump'[q] => Size(q)' >= 3
                      /\ query'[q] => Size(q)' >= 1
<1>1. \A q \in Replicas : q # r => Safe(q)
  BY StepIsLocal, SizeKept DEF UserInv
<1>2. ASSUME Start(r) PROVE Safe(r)
  <2>1. Size(r) = 0
    BY <1>2 DEF Start, StageInv
  <2>2. ~job[r] /\ ~pump[r] /\ ~query[r] /\ (handler[r] => ended[r] \in {"deadline", "failed"})
    BY <1>2, <2>1 DEF UserInv, Start
  <2> QED BY <1>2, <2>2 DEF Start, users, TypeOK
<1>3. ASSUME Crash(r) \/ Exit(r) PROVE Safe(r)
  BY <1>3 DEF Crash, Exit, Gone, TypeOK
<1>4. ASSUME \E s \in Closed : Construct(r, s) PROVE Safe(r)
  <2>1. PICK k \in 1..Cleanups :
           /\ pc[r] = Steps[k] /\ Size(r) = k - 1 /\ Size(r)' = k
           /\ Construct(r, Steps[k])
    BY <1>4, ConstructMoves
  <2>2. k \in 1..7 /\ k \in Nat /\ k <= 5
    BY DEF Cleanups
  <2>3. pc[r] \notin {"run", "shutdown"}
    BY <2>1, <2>2, StepsAfter DEF Places
  <2>4. handler'[r] => ended'[r] \in {"deadline", "failed"}
    BY <2>1, <2>3 DEF UserInv, Construct
  <2>5. ~job'[r]
    BY <2>1, <2>2 DEF UserInv, Construct
  <2>6. pump'[r] => pump[r] \/ Steps[k] = "pubsub"
    BY <2>1 DEF Construct, TypeOK
  <2>7. Steps[k] = "pubsub" => k = 3
    BY <2>2, StepsAfter DEF Steps
  <2> QED BY <2>1, <2>2, <2>4, <2>5, <2>6, <2>7 DEF UserInv
<1>5. ASSUME Close(r) PROVE Safe(r)
  <2>1. PICK n \in 1..Cleanups :
           /\ Size(r) = n /\ Last(cleanup[r]) = Steps[n]
           /\ Size(r)' = n - 1 /\ pc[r] = "close" /\ pc'[r] = "close"
    BY <1>5, CloseMoves
  <2>2. /\ handler' = handler /\ job' = job /\ pump' = pump /\ query' = query /\ ended' = ended
        /\ Last(cleanup[r]) = "worker" => ~job[r]
        /\ Last(cleanup[r]) = "pubsub" => ~pump[r]
        /\ Last(cleanup[r]) = "db" => ~query[r]
    BY <1>5 DEF Close, users
  <2>3. n \in Nat /\ n <= 5 /\ (n = 5 => ~job[r]) /\ (n = 3 => ~pump[r]) /\ (n = 1 => ~query[r])
    BY <2>1, <2>2 DEF Cleanups, Steps
  <2> QED BY <2>1, <2>2, <2>3 DEF UserInv
<1>6. ASSUME JobStarts(r) PROVE Safe(r)
  <2>1. /\ "worker" \in open[r] /\ UNCHANGED <<pc, app, handler, pump, query, ended>>
    BY <1>6 DEF JobStarts
  <2>2. PICK k \in 1..Size(r) : Steps[k] = "worker"
    BY <2>1 DEF CleanupInv, Built
  <2>3. Size(r) \in Nat /\ Size(r) <= 5
    BY ListIsFinite DEF CleanupInv, Cleanups
  <2>4. k = 5
    BY <2>2, <2>3, StepsAfter DEF Steps
  <2>5. Size(r) = 5
    BY <2>2, <2>3, <2>4
  <2> QED BY <2>1, <2>5, SizeKept DEF UserInv, app
<1>7. ASSUME Request(r) PROVE Safe(r)
  BY <1>7, SizeKept DEF Request, UserInv, app, TypeOK
<1>8. ASSUME Respond(r) \/ JobEnds(r) \/ PumpEnds(r) \/ QueryEnds(r) PROVE Safe(r)
  BY <1>8, SizeKept DEF Respond, JobEnds, PumpEnds, QueryEnds, UserInv, app, TypeOK
<1>9. ASSUME RunEnds(r) \/ ShutdownEnds(r) PROVE Safe(r)
  BY <1>9, SizeKept DEF RunEnds, RunIsOver, ShutdownEnds, UserInv, app, TypeOK, Goto
<1>14. ASSUME Query(r) PROVE Safe(r)
  <2>1. "db" \in open[r] /\ UNCHANGED <<pc, app, handler, job, pump, ended>>
    BY <1>14 DEF Query
  <2>2. \E k \in 1..Size(r) : TRUE
    BY <2>1 DEF CleanupInv, Built
  <2>3. Size(r) >= 1
    BY <2>2, ListIsFinite
  <2> QED BY <2>1, <2>3, SizeKept DEF UserInv, app
<1>10. ASSUME Signal(r) \/ Apply(r) PROVE Safe(r)
  BY <1>10, SizeKept DEF Signal, Apply, UserInv, app, users
<1>11. ASSUME Ping(r) \/ Lock(r) \/ LockFails(r) \/ Migrated(r) PROVE Safe(r)
  <2>1. pc[r] \notin {"run", "shutdown"} /\ UNCHANGED <<app, users>>
    BY <1>11 DEF Ping, Lock, LockFails, Migrated
  <2> QED BY <2>1, SizeKept DEF UserInv, app, users
<1>12. ASSUME NEW s \in StepNames, ConstructFails(r, s) \/ (Construct(r, s) /\ s \notin Closed)
       PROVE  Safe(r)
  <2>1. pc[r] = s /\ UNCHANGED app /\ handler' = handler /\ job' = job
        /\ query' = query /\ ended' = ended
    BY <1>12 DEF ConstructFails, Construct, users
  <2>2. s \notin {"run", "shutdown", "pubsub"}
    BY <1>12, StepsOfBuild DEF Fallible, ConstructFails
  <2>3. pump'[r] => pump[r]
    BY <1>12, <2>2 DEF ConstructFails, Construct, users, TypeOK
  <2> QED BY <2>1, <2>2, <2>3, SizeKept DEF UserInv, app
<1>13. Safe(r)
  BY <1>2, <1>3, <1>4, <1>5, <1>6, <1>7, <1>8, <1>9, <1>10, <1>11, <1>12,
     <1>14 DEF Step, Boot, End, Use
<1> QED BY <1>1, <1>13 DEF UserInv

(***************************************************************************)
(* Migrations                                                              *)
(***************************************************************************)

\* What a step does to the lock, to what is pending and to the schema.
LEMMA StepMigrates ==
    ASSUME TypeOK, LockInv, NEW r \in Replicas, Step(r)
    PROVE  \/ /\ pc[r] = "migrate" /\ pc'[r] = "migrate" /\ lock' = lock /\ next[r] <= Latest
              /\ schema' = next[r] /\ next'[r] = next[r] + 1
              /\ applied' = [applied EXCEPT ![next[r]] = @ + 1]
           \/ /\ pc[r] = "lock" /\ pc'[r] = "migrate" /\ lock = Free /\ lock' = r
              /\ next'[r] = schema + 1 /\ UNCHANGED <<schema, applied>>
           \/ /\ pc[r] = "migrate" /\ pc'[r] = (IF next[r] > Latest THEN "db" ELSE "exited")
              /\ lock' = Free /\ UNCHANGED <<schema, applied>>
           \/ /\ pc[r] = "migrate" /\ pc'[r] = "off" /\ lock' = Free /\ UNCHANGED <<schema, applied>>
           \/ /\ pc[r] = pc'[r] /\ UNCHANGED <<lock, next, schema, applied>>
           \/ /\ pc[r] # "migrate" /\ UNCHANGED <<lock, schema, applied>>
              /\ \/ pc'[r] \in {"off", "ping", "lock", "close", "exited"}
                 \/ pc[r] \in StepNames \cup {"run"}
                    /\ pc'[r] \in StepNames \cup {"run", "shutdown"}
<1> USE DEF TypeOK, Goto, shared
<1>1. CASE Start(r)
  BY <1>1 DEF Start
<1>2. CASE Crash(r)
  BY <1>2 DEF Crash, Gone, LockInv
<1>3. CASE Signal(r) \/ Use(r) \/ Close(r)
  BY <1>3 DEF Signal, Use, Request, Respond, JobStarts, JobEnds, PumpEnds, Query, QueryEnds, Close, boot
<1>4. CASE Ping(r) \/ LockFails(r)
  BY <1>4 DEF Ping, LockFails
<1>5. CASE Lock(r)
  BY <1>5 DEF Lock
<1>6. CASE Apply(r)
  BY <1>6 DEF Apply
<1>7. CASE Migrated(r)
  BY <1>7, StepsOfBuild DEF Migrated, LockInv
<1>8. CASE \E s \in StepNames : Construct(r, s)
  <2>1. PICK s \in StepNames : Construct(r, s)
    BY <1>8
  <2>2. After(s) \in StepNames \cup {"run"}
    <3>1. PICK k \in 1..7 : s = Steps[k]
      BY StepsOfBuild DEF StepNames
    <3>2. k = 7 \/ (k \in 1..6 /\ k + 1 \in 1..7)
      OBVIOUS
    <3> QED BY <3>1, <3>2, StepsAfter
  <2>3. pc[r] = s /\ pc'[r] = After(s) /\ UNCHANGED <<lock, schema, applied>>
    BY <2>1 DEF Construct
  <2>4. s # "migrate"
    BY StepsOfBuild
  <2> QED BY <2>2, <2>3, <2>4
<1>9. CASE \E s \in StepNames : ConstructFails(r, s)
  BY <1>9, StepsOfBuild DEF ConstructFails
<1>10. CASE RunEnds(r) \/ ShutdownEnds(r)
  BY <1>10 DEF RunEnds, ShutdownEnds
<1>11. CASE Exit(r)
  BY <1>11 DEF Exit, Gone, LockInv
<1> QED BY <1>1, <1>2, <1>3, <1>4, <1>5, <1>6, <1>7, <1>8, <1>9, <1>10, <1>11
        DEF Step, Boot, End

\* The lock keeps migrations apart.
LEMMA StepKeepsLock ==
    ASSUME LifeInv, NEW r \in Replicas, Step(r)
    PROVE  LockInv'
<1> USE DEF LifeInv
<1>1. \A q \in Replicas : q # r => pc'[q] = pc[q] /\ next'[q] = next[q]
                                  /\ (lock' # lock => lock' \in {r, Free} /\ lock \in {r, Free})
  BY StepIsLocal
<1>2. r # Free /\ \A q \in Replicas : q # Free
  BY FreeAssumption
<1>3. \A q \in Replicas : q # r /\ pc[r] = "migrate" => pc[q] # "migrate"
  BY DEF LockInv
<1>4. ASSUME NEW q \in Replicas, q # r
      PROVE  /\ lock' = q <=> pc'[q] = "migrate"
             /\ pc'[q] = "migrate" => next'[q] = schema' + 1
  <2>1. lock' = q <=> lock = q
    BY <1>1, <1>2, <1>4
  <2>2. pc[q] = "migrate" => schema' = schema
    BY <1>3, <1>4, StepMigrates
  <2> QED BY <2>1, <2>2, <1>1, <1>4 DEF LockInv
<1>5. /\ lock' = r <=> pc'[r] = "migrate"
      /\ pc'[r] = "migrate" => next'[r] = schema' + 1
  BY <1>2, StepMigrates, StepsOfBuild DEF LockInv
<1> QED BY <1>4, <1>5 DEF LockInv

\* Every migration up to the schema was run once, and whoever builds came late
\* enough to find the schema complete.
LEMMA StepKeepsSchema ==
    ASSUME LifeInv, NEW r \in Replicas, Step(r)
    PROVE  SchemaInv'
<1> USE DEF LifeInv
<1> DEFINE Ready == StepNames \cup {"run", "shutdown"}
<1>1. schema \in 0..Latest /\ applied \in [1..Latest -> Nat] /\ Latest \in Nat
  BY NumbersAssumption DEF TypeOK
<1>2. \A q \in Replicas : q # r => pc'[q] = pc[q]
  BY StepIsLocal
<1>3. CASE /\ pc[r] = "migrate" /\ pc'[r] = "migrate" /\ next[r] <= Latest
           /\ schema' = next[r] /\ applied' = [applied EXCEPT ![next[r]] = @ + 1]
  <2>1. next[r] = schema + 1 /\ schema < Latest
    BY <1>1, <1>3 DEF LockInv
  <2>2. \A q \in Replicas : pc[q] \notin Ready
    BY <2>1, <1>1 DEF SchemaInv
  <2>3. \A k \in 1..Latest : applied'[k] = IF k <= schema' THEN 1 ELSE 0
    BY <1>1, <1>3, <2>1 DEF SchemaInv
  <2>4. "migrate" \notin Ready
    BY StepsOfBuild
  <2> QED BY <1>2, <1>3, <2>2, <2>3, <2>4 DEF SchemaInv
<1>4. CASE UNCHANGED <<schema, applied>>
  <2>1. pc'[r] \in Ready => schema = Latest
    <3>1. CASE pc[r] = "migrate" /\ pc'[r] = (IF next[r] > Latest THEN "db" ELSE "exited")
      <4>1. next[r] = schema + 1
        BY <3>1 DEF LockInv
      <4> QED BY <1>1, <3>1, <4>1, StepsOfBuild
    <3>2. pc[r] \in Ready => schema = Latest
      BY DEF SchemaInv
    <3> QED BY <3>1, <3>2, StepMigrates, StepsOfBuild
  <2> QED BY <1>2, <1>4, <2>1 DEF SchemaInv
<1> QED BY <1>3, <1>4, StepMigrates

(***************************************************************************)
(* Types                                                                   *)
(***************************************************************************)

\* The database and its lock keep their types, ...
LEMMA StepTypesSchema ==
    ASSUME TypeOK, LockInv, NEW r \in Replicas, Step(r)
    PROVE  /\ schema' \in 0..Latest /\ applied' \in [1..Latest -> Nat]
           /\ lock' \in Replicas \cup {Free}
<1>1. schema \in 0..Latest /\ applied \in [1..Latest -> Nat] /\ lock \in Replicas \cup {Free}
      /\ next[r] \in 0..(Latest + 1) /\ Latest \in Nat
  BY NumbersAssumption DEF TypeOK
<1>2. next[r] <= Latest => next[r] \in 0..Latest
  BY <1>1
<1>3. pc[r] = "migrate" /\ next[r] <= Latest =>
         [applied EXCEPT ![next[r]] = @ + 1] \in [1..Latest -> Nat]
  <2>1. pc[r] = "migrate" /\ next[r] <= Latest => next[r] \in 1..Latest
    BY <1>1 DEF LockInv
  <2>2. \A k \in 1..Latest : [applied EXCEPT ![k] = @ + 1] \in [1..Latest -> Nat]
    BY <1>1
  <2> QED BY <2>1, <2>2
<1> QED BY <1>1, <1>2, <1>3, StepMigrates

\* ... where the replicas are and what they count, ...
LEMMA StepTypesPlace ==
    ASSUME TypeOK, NEW r \in Replicas, Step(r)
    PROVE  /\ pc' \in [Replicas -> Places \cup StepNames]
           /\ attempt' \in [Replicas -> 0..MaxRetries]
           /\ next' \in [Replicas -> 0..(Latest + 1)]
           /\ signalled' \in [Replicas -> BOOLEAN]
           /\ starts' \in 0..MaxStarts /\ crashes' \in 0..MaxCrashes
<1> USE NumbersAssumption
<1>1. /\ pc \in [Replicas -> Places \cup StepNames]
      /\ attempt \in [Replicas -> 0..MaxRetries] /\ next \in [Replicas -> 0..(Latest + 1)]
      /\ signalled \in [Replicas -> BOOLEAN] /\ schema \in 0..Latest
      /\ starts \in 0..MaxStarts /\ crashes \in 0..MaxCrashes
  BY DEF TypeOK, Places
<1>2. \E s \in Places \cup StepNames : pc' = [pc EXCEPT ![r] = s]
  <2>0. \A s \in StepNames : After(s) \in Places \cup StepNames
    <3> SUFFICES ASSUME NEW s \in StepNames PROVE After(s) \in Places \cup StepNames
      OBVIOUS
    <3>1. PICK k \in 1..7 : s = Steps[k]
      BY StepsOfBuild DEF StepNames
    <3>2. k = 7 \/ (k \in 1..6 /\ k + 1 \in 1..7)
      OBVIOUS
    <3> QED BY <3>1, <3>2, StepsAfter DEF Places
  <2>1. pc' = pc => pc' = [pc EXCEPT ![r] = pc[r]] /\ pc[r] \in Places \cup StepNames
    BY <1>1
  <2>2. CASE Start(r) \/ Signal(r) \/ Crash(r)
    BY <2>1, <2>2 DEF Start, Signal, Crash, Goto, Places
  <2>3. CASE Ping(r) \/ Lock(r) \/ LockFails(r) \/ Apply(r)
    BY <2>1, <2>3 DEF Ping, Lock, LockFails, Apply, Goto, Places
  <2>4. CASE Migrated(r)
    BY <2>4, StepsOfBuild DEF Migrated, Goto, Places
  <2>5. CASE \E s \in StepNames : Construct(r, s) \/ ConstructFails(r, s)
    BY <2>0, <2>5 DEF Construct, ConstructFails, Goto, Places
  <2>6. CASE End(r)
    BY <2>1, <2>6 DEF End, RunEnds, RunIsOver, ShutdownEnds, Close, Exit, Goto, Places
  <2>7. CASE Use(r)
    BY <2>1, <2>7 DEF Use, Request, Respond, JobStarts, JobEnds, PumpEnds, Query, QueryEnds
  <2> QED BY <2>2, <2>3, <2>4, <2>5, <2>6, <2>7 DEF Step, Boot
<1>3. attempt' = attempt \/ attempt' = [attempt EXCEPT ![r] = 0]
      \/ (attempt[r] # MaxRetries /\ attempt' = [attempt EXCEPT ![r] = @ + 1])
  BY DEF Step, Boot, End, Use, Start, Signal, Crash, Ping, Lock, LockFails, Apply, Migrated,
         Construct, ConstructFails, RunEnds, ShutdownEnds, Close, Exit, Request, Respond,
         JobStarts, JobEnds, PumpEnds, Query, QueryEnds, boot
<1>4. next' = next \/ next' = [next EXCEPT ![r] = schema + 1]
      \/ (next[r] <= Latest /\ next' = [next EXCEPT ![r] = @ + 1])
  BY DEF Step, Boot, End, Use, Start, Signal, Crash, Ping, Lock, LockFails, Apply, Migrated,
         Construct, ConstructFails, RunEnds, ShutdownEnds, Close, Exit, Request, Respond,
         JobStarts, JobEnds, PumpEnds, Query, QueryEnds, boot
<1>5. \E b \in BOOLEAN : signalled' = signalled \/ signalled' = [signalled EXCEPT ![r] = b]
  BY DEF Step, Boot, End, Use, Start, Signal, Crash, Ping, Lock, LockFails, Apply, Migrated,
         Construct, ConstructFails, RunEnds, ShutdownEnds, Close, Exit, Request, Respond,
         JobStarts, JobEnds, PumpEnds, Query, QueryEnds
<1>6. /\ starts' = starts \/ (starts < MaxStarts /\ starts' = starts + 1)
      /\ crashes' = crashes \/ (crashes < MaxCrashes /\ crashes' = crashes + 1)
  BY DEF Step, Boot, End, Use, Start, Signal, Crash, Ping, Lock, LockFails, Apply, Migrated,
         Construct, ConstructFails, RunEnds, ShutdownEnds, Close, Exit, Request, Respond,
         JobStarts, JobEnds, PumpEnds, Query, QueryEnds, counts
<1>7. attempt' \in [Replicas -> 0..MaxRetries] /\ next' \in [Replicas -> 0..(Latest + 1)]
  <2>1. 0 \in 0..MaxRetries /\ schema + 1 \in 0..(Latest + 1)
    BY <1>1
  <2>2. attempt[r] # MaxRetries => attempt[r] + 1 \in 0..MaxRetries
    BY <1>1
  <2>3. next[r] <= Latest => next[r] + 1 \in 0..(Latest + 1)
    BY <1>1
  <2> QED BY <1>1, <1>3, <1>4, <2>1, <2>2, <2>3
<1>8. starts' \in 0..MaxStarts /\ crashes' \in 0..MaxCrashes
  BY <1>1, <1>6
<1> QED BY <1>1, <1>2, <1>5, <1>7, <1>8

\* ... what is open and the list, ...
LEMMA StepTypesList ==
    ASSUME TypeOK, NEW r \in Replicas, Step(r)
    PROVE  /\ open' \in [Replicas -> SUBSET Closed]
           /\ cleanup' \in [Replicas -> Seq(Closed)]
<1>1. open \in [Replicas -> SUBSET Closed] /\ cleanup \in [Replicas -> Seq(Closed)]
  BY DEF TypeOK
<1>2. CASE Start(r) \/ Crash(r)
  <2>1. <<>> \in Seq(Closed) /\ {} \in SUBSET Closed
    OBVIOUS
  <2>2. open' = [open EXCEPT ![r] = {}] /\ cleanup' = [cleanup EXCEPT ![r] = <<>>]
    BY <1>2 DEF Start, Crash
  <2> QED BY <1>1, <2>1, <2>2
<1>3. CASE Close(r)
  <2>1. /\ open' = [open EXCEPT ![r] = @ \ {Last(cleanup[r])}]
        /\ cleanup' = [cleanup EXCEPT ![r] = Front(@)] /\ cleanup[r] # <<>>
    BY <1>3 DEF Close
  <2>2. Front(cleanup[r]) \in Seq(Closed)
    BY <1>1, <2>1, ListMoves
  <2> QED BY <1>1, <2>1, <2>2
<1>4. CASE \E s \in StepNames : Construct(r, s)
  <2>1. PICK s \in StepNames : Construct(r, s)
    BY <1>4
  <2>2. CASE s \in Closed
    <3>1. /\ open' = [open EXCEPT ![r] = @ \cup {s}]
          /\ cleanup' = [cleanup EXCEPT ![r] = Append(@, s)]
      BY <2>1, <2>2 DEF Construct
    <3>2. Append(cleanup[r], s) \in Seq(Closed)
      BY <1>1, <2>2, ListMoves
    <3> QED BY <1>1, <2>2, <3>1, <3>2
  <2>3. CASE s \notin Closed
    BY <1>1, <2>1, <2>3 DEF Construct, app
  <2> QED BY <2>2, <2>3
<1>5. CASE UNCHANGED app
  BY <1>1, <1>5 DEF app
<1>6. Start(r) \/ Crash(r) \/ Close(r) \/ (\E s \in StepNames : Construct(r, s)) \/ UNCHANGED app
  BY DEF Step, Boot, End, Use, Signal, Ping, Lock, LockFails, Apply, Migrated,
         ConstructFails, RunEnds, ShutdownEnds, Exit, Request, Respond,
         JobStarts, JobEnds, PumpEnds, Query, QueryEnds
<1> QED BY <1>2, <1>3, <1>4, <1>5, <1>6

\* ... and who is at work.
LEMMA StepTypesUsers ==
    ASSUME TypeOK, NEW r \in Replicas, Step(r)
    PROVE  /\ handler' \in [Replicas -> BOOLEAN] /\ job' \in [Replicas -> BOOLEAN]
           /\ pump' \in [Replicas -> BOOLEAN] /\ query' \in [Replicas -> BOOLEAN]
           /\ ended' \in [Replicas -> {"no", "failed", "stopped", "deadline"}]
<1>1. /\ handler \in [Replicas -> BOOLEAN] /\ job \in [Replicas -> BOOLEAN]
      /\ pump \in [Replicas -> BOOLEAN] /\ query \in [Replicas -> BOOLEAN]
      /\ ended \in [Replicas -> {"no", "failed", "stopped", "deadline"}]
  BY DEF TypeOK
<1>2. CASE UNCHANGED users
  BY <1>1, <1>2 DEF users
<1>3. CASE Crash(r) \/ Exit(r)
  BY <1>1, <1>3 DEF Crash, Exit, Gone
<1>4. CASE \E s \in StepNames : Construct(r, s)
  BY <1>1, <1>4 DEF Construct
<1>5. CASE RunEnds(r) \/ ShutdownEnds(r)
  BY <1>1, <1>5 DEF RunEnds, RunIsOver, ShutdownEnds
<1>6. CASE Use(r)
  BY <1>1, <1>6 DEF Use, Request, Respond, JobStarts, JobEnds, PumpEnds, Query, QueryEnds
<1>7. UNCHANGED users \/ Crash(r) \/ Exit(r) \/ (\E s \in StepNames : Construct(r, s))
      \/ RunEnds(r) \/ ShutdownEnds(r) \/ Use(r)
  BY DEF Step, Boot, End, Start, Signal, Ping, Lock, LockFails, Apply, Migrated,
         ConstructFails, Close
<1> QED BY <1>2, <1>3, <1>4, <1>5, <1>6, <1>7

(***************************************************************************)
(* The theorems                                                            *)
(***************************************************************************)

\* The invariant is inductive.
LEMMA NextKeepsLifeInv == LifeInv /\ [Next]_vars => LifeInv'
<1> SUFFICES ASSUME LifeInv, [Next]_vars PROVE LifeInv'
  OBVIOUS
<1>1. ASSUME NEW r \in Replicas, Step(r) PROVE LifeInv'
  <2>1. TypeOK'
    BY <1>1, StepTypesSchema, StepTypesPlace, StepTypesList, StepTypesUsers
       DEF LifeInv, TypeOK, Places
  <2> QED BY <1>1, <2>1, StepKeepsCleanup, StepKeepsStage, StepKeepsUsers, StepKeepsLock,
             StepKeepsSchema DEF LifeInv
<1>2. CASE UNCHANGED vars
  <2>1. /\ UNCHANGED <<schema, applied, lock, pc, attempt, next, open, cleanup, signalled>>
        /\ UNCHANGED <<handler, job, pump, query, ended, starts, crashes>>
    BY <1>2 DEF vars, shared, boot, app, users, counts
  <2>2. TypeOK'
    BY <2>1 DEF LifeInv, TypeOK
  <2>3. CleanupInv' /\ StageInv' /\ UserInv'
    BY <2>1, SizeKept DEF LifeInv, CleanupInv, StageInv, UserInv
  <2>4. LockInv' /\ SchemaInv'
    BY <2>1 DEF LifeInv, LockInv, SchemaInv
  <2> QED BY <2>2, <2>3, <2>4 DEF LifeInv
<1> QED BY <1>1, <1>2 DEF Next, Step

\* Every reachable state has the invariant.
LEMMA LifeInvHolds == Spec => []LifeInv
BY InitHasLifeInv, NextKeepsLifeInv, PTL DEF Spec

\* Every variable keeps its type, whatever fails and whoever is killed.
THEOREM LifecycleTypes == Spec => []TypeOK
<1>1. LifeInv => TypeOK
  BY DEF LifeInv
<1> QED BY <1>1, LifeInvHolds, PTL

\* A list of some size has the first steps of Build open.
LEMMA OpenBySize ==
    ASSUME LifeInv, NEW r \in Replicas
    PROVE  /\ Size(r) = 5 => {"db", "redis"} \subseteq open[r]
           /\ Size(r) >= 3 => "redis" \in open[r]
           /\ Size(r) >= 1 => "db" \in open[r]
<1>1. Size(r) \in Nat /\ open[r] = Built(Size(r))
  BY ListIsFinite DEF LifeInv, CleanupInv
<1>2. Size(r) = 5 => 1 \in 1..Size(r) /\ 2 \in 1..Size(r)
  BY <1>1
<1>3. Size(r) >= 3 => 2 \in 1..Size(r)
  BY <1>1
<1>4. Steps[1] = "db" /\ Steps[2] = "redis"
  BY DEF Steps
<1>5. Size(r) >= 1 => 1 \in 1..Size(r)
  BY <1>1
<1> QED BY <1>1, <1>2, <1>3, <1>4, <1>5 DEF Built

\* A request has the database and Redis to its end, unless Shutdown came to its
\* deadline before, or the listener failed.  (server.go, app.Close)
THEOREM RequestsKeepTheirResources == Spec => []RequestsAreDrained
<1>1. LifeInv => RequestsAreDrained
  <2> SUFFICES ASSUME LifeInv, NEW r \in Replicas, handler[r],
                      ended[r] \notin {"deadline", "failed"}
               PROVE  {"db", "redis"} \subseteq open[r]
    BY DEF RequestsAreDrained
  <2>1. Size(r) = 5
    BY DEF LifeInv, UserInv, StageInv, Cleanups
  <2> QED BY <2>1, OpenBySize
<1> QED BY <1>1, LifeInvHolds, PTL

\* A job and the pump find Redis open as long as they run, and a statement its
\* connection.  (app.Close)
THEOREM UsersKeepTheirClients == Spec => []ClosedAfterItsUsers
<1>1. LifeInv => ClosedAfterItsUsers
  <2> SUFFICES ASSUME LifeInv, NEW r \in Replicas
               PROVE  /\ job[r] \/ pump[r] => "redis" \in open[r]
                      /\ query[r] => "db" \in open[r]
    BY DEF ClosedAfterItsUsers
  <2>1. job[r] \/ pump[r] => Size(r) = 5 \/ Size(r) >= 3
    BY DEF LifeInv, UserInv
  <2>2. query[r] => Size(r) >= 1
    BY DEF LifeInv, UserInv
  <2> QED BY <2>1, <2>2, OpenBySize
<1> QED BY <1>1, LifeInvHolds, PTL

\* However Build or Run ends, what was built is closed, once, and a replica
\* that is gone holds no lock.  (app.Build, app.Close, migrate.Up)
THEOREM WhatIsBuiltIsClosed == Spec => []NothingLeftOpen
<1>1. LifeInv => NothingLeftOpen
  <2> SUFFICES ASSUME LifeInv, NEW r \in Replicas
               PROVE  /\ pc[r] = "exited" => open[r] = {} /\ lock # r
                      /\ open[r] = {cleanup[r][k] : k \in DOMAIN cleanup[r]}
                      /\ Len(cleanup[r]) <= Len(Steps) /\ IsInjective(cleanup[r])
    BY DEF NothingLeftOpen
  <2>1. /\ Size(r) \in Nat /\ Size(r) <= 5 /\ open[r] = Built(Size(r))
        /\ \A k \in 1..Size(r) : cleanup[r][k] = Steps[k]
    BY ListIsFinite DEF LifeInv, CleanupInv, Cleanups
  <2>2. DOMAIN cleanup[r] = 1..Size(r)
    BY ListIsFinite DEF LifeInv, Size
  <2>3. pc[r] = "exited" => open[r] = {} /\ lock # r
    <3>1. pc[r] = "exited" => Size(r) = 0 /\ lock # r
      BY DEF LifeInv, StageInv, LockInv
    <3> QED BY <2>1, <3>1 DEF Built
  <2>4. open[r] = {cleanup[r][k] : k \in DOMAIN cleanup[r]}
    BY <2>1, <2>2 DEF Built
  <2>5. Len(cleanup[r]) <= Len(Steps)
    BY <2>1, StepsOfBuild DEF Size
  <2>6. \A k \in 1..Size(r) : k \in 1..7
    BY <2>1
  <2>7. IsInjective(cleanup[r])
    BY <2>1, <2>2, <2>6, StepsAfter DEF IsInjective
  <2> QED BY <2>3, <2>4, <2>5, <2>7
<1> QED BY <1>1, LifeInvHolds, PTL

\* However many replicas start at once, each migration runs once, and nobody
\* builds or serves before the last.  (migrate.Up, main)
THEOREM MigrationsRunOnce == Spec => []MigratedOnceBeforeServing
<1>1. LifeInv => MigratedOnceBeforeServing
  BY DEF LifeInv, SchemaInv, MigratedOnceBeforeServing
<1> QED BY <1>1, LifeInvHolds, PTL
=============================================================================
