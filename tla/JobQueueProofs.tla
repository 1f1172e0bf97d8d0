---------------------------- MODULE JobQueueProofs ----------------------------
(***************************************************************************)
(* Proofs about JobQueue, for any number of users, messages, replicas,     *)
(* handlers, retries, failures, shutdowns and deaths.                      *)
(***************************************************************************)
EXTENDS JobQueue, TLAPS

HeldBy(r) == running[r] \cup finished[r]
Waiting == {"pending", "active", "retry", "archived"}
States == Waiting \cup {"none", "completed"}

Types ==
    /\ state \in [Ids -> States]
    /\ msg \in [Ids -> Message \cup {NoMsg}]
    /\ running \in [Replicas -> SUBSET Ids] /\ finished \in [Replicas -> SUBSET Ids]
    /\ owed \in [Jobs -> BOOLEAN] /\ worked \in [Jobs -> BOOLEAN]
    /\ deaths \in Nat

\* The message under an id is of the user and message the id was made of.
OwnMessage == \A i \in Ids : state[i] # "none" => msg[i] \in Message /\ msg[i].by = i

\* A task is in at most one handler, and active as long as it is in one.
OneHandler ==
    /\ \A r \in Replicas : running[r] \cap finished[r] = {}
    /\ \A r \in Replicas : \A i \in HeldBy(r) : state[i] = "active"
    /\ \A r, q \in Replicas : r # q => HeldBy(r) \cap HeldBy(q) = {}

\* What is to be acknowledged has been worked on.
FinishedIsWorked == \A r \in Replicas : \A i \in finished[r] : worked[i]

\* What users were told of is in the queue.
OwedIsQueued == \A j \in Jobs : owed[j] => state[j] \in Waiting

\* While no worker has died, what has been worked on is acknowledged or about to be.
WorkedIsSettled ==
    deaths = 0 =>
        \A j \in Jobs : worked[j] =>
            state[j] = "completed" \/ \E r \in Replicas : j \in finished[r]

IInv ==
    /\ Types /\ OwnMessage /\ OneHandler
    /\ FinishedIsWorked /\ OwedIsQueued /\ WorkedIsSettled

\* The empty queue satisfies the invariant.
LEMMA InitIInv == Init => IInv
BY DEF Init, IInv, Types, OwnMessage, OneHandler, HeldBy, FinishedIsWorked,
       OwedIsQueued, WorkedIsSettled, Ids, States, Waiting

\* A new task is Waiting, and its message is of the job it is for.
LEMMA PushKeeps ==
    ASSUME IInv, NEW j \in Jobs, AddTestJob(j), Push(j)
    PROVE  IInv'
<1> USE DEF IInv, Ids, TaskId, workers
<1>0. UNCHANGED <<running, finished, worked, deaths>>
  BY DEF AddTestJob
<1> DEFINE m == [by |-> j, retried |-> 0, max |-> MaxRetry, kept |-> TRUE]
<1>1. /\ state[j] = "none" /\ state' = [state EXCEPT ![j] = "pending"]
      /\ msg' = [msg EXCEPT ![j] = m]
  BY DEF Push
<1>2. m \in Message /\ m.by = j
  BY NumbersAssumption DEF Message
<1>3. owed' \in [Jobs -> BOOLEAN] /\ \A k \in Jobs : k # j => owed'[k] = owed[k]
  BY DEF AddTestJob, Types
<1> HIDE DEF m
<1>4. Types'
  BY <1>0, <1>1, <1>2, <1>3 DEF Types, States, Waiting
<1>5. OwnMessage'
  BY <1>1, <1>2 DEF Types, OwnMessage
<1>6. OneHandler'
  BY <1>0, <1>1 DEF Types, OneHandler, HeldBy
<1>7. FinishedIsWorked' /\ OwedIsQueued'
  BY <1>0, <1>1, <1>3 DEF Types, FinishedIsWorked, OwedIsQueued, Waiting
<1>8. WorkedIsSettled'
  BY <1>0, <1>1 DEF Types, WorkedIsSettled
<1> QED BY <1>4, <1>5, <1>6, <1>7, <1>8

\* A user who is told yes without a new task has a task that waits or is done.
LEMMA DuplicateKeeps ==
    ASSUME IInv, NEW j \in Jobs, AddTestJob(j), UNCHANGED redis
    PROVE  IInv'
<1> USE DEF IInv, Ids, TaskId, workers, redis
<1>0. UNCHANGED <<running, finished, worked, deaths>>
  BY DEF AddTestJob
<1>1. /\ owed' \in [Jobs -> BOOLEAN] /\ \A k \in Jobs : k # j => owed'[k] = owed[k]
      /\ owed'[j] => owed[j] \/ state[j] \notin {"none", "completed"}
  BY DEF AddTestJob, Conflict, Recent, Push, Types, OwnMessage
<1>2. OwedIsQueued'
  BY <1>1 DEF Types, OwedIsQueued, States, Waiting
<1> QED BY <1>0, <1>1, <1>2
        DEF Types, OwnMessage, OneHandler, HeldBy, FinishedIsWorked, WorkedIsSettled

\* Starting a worker, and stopping it before and after its handlers end,
\* changes nothing the invariant is about.
LEMMA StartStopKeeps ==
    ASSUME IInv, NEW r \in Replicas, Start(r) \/ Stop(r) \/ Stopped(r)
    PROVE  IInv'
<1>1. UNCHANGED <<state, msg, running, finished, owed, worked, deaths>>
  BY DEF Start, Stop, Stopped, redis, history, counts
<1> QED BY <1>1 DEF IInv, Types, OwnMessage, OneHandler, HeldBy, FinishedIsWorked,
                    OwedIsQueued, WorkedIsSettled

\* A worker that dies holds nothing any more, and WorkedIsSettled ends with it.
LEMMA DieKeeps ==
    ASSUME IInv, NEW r \in Replicas, Die(r)
    PROVE  IInv'
<1> USE DEF IInv
<1>1. /\ UNCHANGED <<state, msg, owed, worked>>
      /\ deaths' = deaths + 1
      /\ running' = [running EXCEPT ![r] = {}] /\ finished' = [finished EXCEPT ![r] = {}]
  BY DEF Die, redis, history
<1>2. Types' /\ OwnMessage' /\ FinishedIsWorked' /\ OwedIsQueued'
  BY <1>1 DEF Types, OwnMessage, FinishedIsWorked, OwedIsQueued
<1>3. OneHandler'
  BY <1>1 DEF Types, OneHandler, HeldBy
<1>4. WorkedIsSettled'
  BY <1>1 DEF Types, WorkedIsSettled
<1> QED BY <1>2, <1>3, <1>4

\* A pending task is in no handler, so it is in one after it is taken.
LEMMA TakeKeeps ==
    ASSUME IInv, NEW r \in Replicas, NEW i \in Ids, Take(r, i)
    PROVE  IInv'
<1> USE DEF IInv, Ids
<1>1. /\ UNCHANGED <<msg, finished, owed, worked, deaths>>
      /\ state[i] = "pending" /\ state' = [state EXCEPT ![i] = "active"]
      /\ running' = [running EXCEPT ![r] = @ \cup {i}]
  BY DEF Take, counts
<1>2. \A q \in Replicas : i \notin HeldBy(q)
  BY <1>1 DEF OneHandler
<1>3. Types' /\ OwnMessage' /\ FinishedIsWorked' /\ OwedIsQueued'
  BY <1>1 DEF Types, OwnMessage, FinishedIsWorked, OwedIsQueued, States, Waiting
<1>4. OneHandler'
  BY <1>1, <1>2 DEF Types, OneHandler, HeldBy
<1>5. WorkedIsSettled'
  BY <1>1 DEF Types, WorkedIsSettled
<1> QED BY <1>3, <1>4, <1>5

\* A handler that returns leaves its task to be acknowledged, and worked on.
LEMMA WorkKeeps ==
    ASSUME IInv, NEW r \in Replicas, NEW i \in Ids, Work(r, i)
    PROVE  IInv'
<1> USE DEF IInv, Ids
<1>1. /\ UNCHANGED <<state, msg, owed, deaths>>
      /\ i \in running[r] /\ running' = [running EXCEPT ![r] = @ \ {i}]
      /\ finished' = [finished EXCEPT ![r] = @ \cup {i}]
      /\ worked' = [worked EXCEPT ![msg[i].by] = TRUE]
  BY DEF Work, redis, counts
<1>2. state[i] = "active" /\ msg[i].by = i
  BY <1>1 DEF OneHandler, OwnMessage, HeldBy
<1>3. Types' /\ OwnMessage' /\ FinishedIsWorked' /\ OwedIsQueued'
  BY <1>1, <1>2 DEF Types, OwnMessage, FinishedIsWorked, OwedIsQueued
<1>4. OneHandler'
  BY <1>1 DEF Types, OneHandler, HeldBy
<1>5. WorkedIsSettled'
  BY <1>1, <1>2 DEF Types, WorkedIsSettled
<1> QED BY <1>3, <1>4, <1>5

\* An attempt that failed leaves a task that waits or is given up, and a message
\* within its retries.
LEMMA RetryEffect ==
    ASSUME Types, OwnMessage, NEW i \in Ids, state[i] # "none", Retry(i)
    PROVE  /\ state' \in [Ids -> States] /\ msg' \in [Ids -> Message \cup {NoMsg}]
           /\ OwnMessage'
           /\ state'[i] \in Waiting \ {"active"}
           /\ \A k \in Ids : k # i => state'[k] = state[k]
<1> DEFINE s == IF msg[i].retried < msg[i].max THEN "retry" ELSE "archived"
           n == IF msg[i].retried < msg[i].max THEN msg[i].retried + 1 ELSE msg[i].retried
           m == [msg[i] EXCEPT !.retried = n]
<1>1. msg[i] \in Message /\ msg[i].by = i /\ MaxRetry \in Nat
  BY NumbersAssumption DEF OwnMessage
<1>2. n \in 0..MaxRetry
  <2>1. msg[i].retried \in 0..MaxRetry /\ msg[i].max = MaxRetry
    BY <1>1 DEF Message
  <2> QED BY <1>1, <2>1
<1> HIDE DEF n
<1>3. m \in Message /\ m.by = i
  BY <1>1, <1>2 DEF Message
<1>4. state' = [state EXCEPT ![i] = s] /\ msg' = [msg EXCEPT ![i] = m]
  BY DEF Retry, Types, n
<1> HIDE DEF m
<1> QED BY <1>3, <1>4 DEF Types, OwnMessage, States, Waiting

\* A handler that fails leaves its task waiting or given up, in no handler.
LEMMA FailKeeps ==
    ASSUME IInv, NEW r \in Replicas, NEW i \in Ids, Fail(r, i)
    PROVE  IInv'
<1> USE DEF IInv
<1>1. /\ UNCHANGED <<finished, owed, worked, deaths>>
      /\ i \in running[r] /\ running' = [running EXCEPT ![r] = @ \ {i}] /\ Retry(i)
  BY DEF Fail, history
<1>2. state[i] = "active"
  BY <1>1 DEF OneHandler, HeldBy
<1>3. /\ state' \in [Ids -> States] /\ msg' \in [Ids -> Message \cup {NoMsg}]
      /\ OwnMessage'
      /\ state'[i] \in Waiting \ {"active"}
      /\ \A k \in Ids : k # i => state'[k] = state[k]
  BY <1>1, <1>2, RetryEffect
<1>4. Types' /\ FinishedIsWorked'
  BY <1>1, <1>3 DEF Types, FinishedIsWorked
<1>5. OwedIsQueued'
  BY <1>1, <1>3 DEF OwedIsQueued, Ids
<1>6. OneHandler'
  BY <1>1, <1>3 DEF Types, OneHandler, HeldBy
<1>7. WorkedIsSettled'
  BY <1>1, <1>2, <1>3 DEF Types, WorkedIsSettled, OneHandler, HeldBy, Ids
<1> QED BY <1>3, <1>4, <1>5, <1>6, <1>7

\* What is acknowledged has been worked on, so nothing is owed for it.
LEMMA AckKeeps ==
    ASSUME IInv, NEW r \in Replicas, NEW i \in Ids, Ack(r, i)
    PROVE  IInv'
<1> USE DEF IInv, Ids
<1>1. /\ UNCHANGED <<running, worked, deaths>>
      /\ i \in finished[r] /\ finished' = [finished EXCEPT ![r] = @ \ {i}]
  BY DEF Ack, counts
<1>2. state[i] = "active" /\ worked[i]
  BY <1>1 DEF OneHandler, HeldBy, FinishedIsWorked
<1>3. msg[i] \in Message /\ msg[i].by = i /\ msg[i].kept
  BY <1>2 DEF OwnMessage, Message
<1>4. /\ UNCHANGED msg /\ state' = [state EXCEPT ![i] = "completed"]
      /\ owed' = [owed EXCEPT ![i] = FALSE]
  BY <1>2, <1>3 DEF Ack, Types
<1>5. Types' /\ OwnMessage' /\ FinishedIsWorked' /\ OwedIsQueued'
  BY <1>1, <1>2, <1>4 DEF Types, OwnMessage, FinishedIsWorked, OwedIsQueued, States
<1>6. OneHandler'
  BY <1>1, <1>4 DEF Types, OneHandler, HeldBy
<1>7. WorkedIsSettled'
  BY <1>1, <1>4 DEF Types, WorkedIsSettled
<1> QED BY <1>5, <1>6, <1>7

\* A task that is put back waits and is in no handler.
LEMMA RequeueKeeps ==
    ASSUME IInv, NEW r \in Replicas, NEW i \in Ids, Requeue(r, i)
    PROVE  IInv'
<1> USE DEF IInv, Ids
<1>1. /\ UNCHANGED <<msg, finished, owed, worked, deaths>>
      /\ i \in running[r] /\ running' = [running EXCEPT ![r] = @ \ {i}]
      /\ state' = [state EXCEPT ![i] = "pending"]
  BY DEF Requeue, history, counts
<1>2. state[i] = "active"
  BY <1>1 DEF OneHandler, HeldBy
<1>3. Types' /\ OwnMessage' /\ FinishedIsWorked' /\ OwedIsQueued'
  BY <1>1, <1>2 DEF Types, OwnMessage, FinishedIsWorked, OwedIsQueued, States, Waiting
<1>4. OneHandler'
  BY <1>1 DEF Types, OneHandler, HeldBy
<1>5. WorkedIsSettled'
  BY <1>1, <1>2 DEF Types, WorkedIsSettled
<1> QED BY <1>3, <1>4, <1>5

\* The recoverer takes only tasks that no handler holds.
LEMMA RecoverKeeps ==
    ASSUME IInv, NEW i \in Ids, Recover(i)
    PROVE  IInv'
<1> USE DEF IInv
<1>1. /\ UNCHANGED <<running, finished, owed, worked, deaths>> /\ Retry(i)
      /\ state[i] = "active" /\ \A r \in Replicas : i \notin HeldBy(r)
  BY DEF Recover, workers, history, counts, Held, HeldBy
<1>2. /\ state' \in [Ids -> States] /\ msg' \in [Ids -> Message \cup {NoMsg}]
      /\ OwnMessage'
      /\ state'[i] \in Waiting \ {"active"}
      /\ \A k \in Ids : k # i => state'[k] = state[k]
  BY <1>1, RetryEffect
<1>3. Types' /\ FinishedIsWorked'
  BY <1>1, <1>2 DEF Types, FinishedIsWorked
<1>4. OwedIsQueued'
  BY <1>1, <1>2 DEF OwedIsQueued, Ids
<1>5. OneHandler'
  BY <1>1, <1>2 DEF Types, OneHandler, HeldBy
<1>6. WorkedIsSettled'
  BY <1>1, <1>2 DEF Types, WorkedIsSettled, HeldBy, Ids
<1> QED BY <1>2, <1>3, <1>4, <1>5, <1>6

\* A task that waits for another attempt goes on waiting.
LEMMA ForwardKeeps ==
    ASSUME IInv, NEW i \in Ids, Forward(i)
    PROVE  IInv'
<1> USE DEF IInv, Ids
<1>1. /\ UNCHANGED <<msg, running, finished, owed, worked, deaths>>
      /\ state[i] = "retry" /\ state' = [state EXCEPT ![i] = "pending"]
  BY DEF Forward, workers, history, counts
<1>2. Types' /\ OwnMessage' /\ FinishedIsWorked' /\ OwedIsQueued'
  BY <1>1 DEF Types, OwnMessage, FinishedIsWorked, OwedIsQueued, States, Waiting
<1>3. OneHandler'
  BY <1>1 DEF Types, OneHandler, HeldBy
<1>4. WorkedIsSettled'
  BY <1>1 DEF Types, WorkedIsSettled
<1> QED BY <1>2, <1>3, <1>4

\* Only a completed task is forgotten: nothing is owed for it, and its window is over.
LEMMA ForgetKeeps ==
    ASSUME IInv, NEW i \in Ids, Forget(i)
    PROVE  IInv'
<1> USE DEF IInv, Ids
<1>1. /\ UNCHANGED <<running, finished, owed, deaths>>
      /\ state[i] = "completed" /\ state' = [state EXCEPT ![i] = "none"]
      /\ msg' = [msg EXCEPT ![i] = NoMsg]
      /\ worked' = [worked EXCEPT ![msg[i].by] = FALSE]
  BY DEF Forget, workers, counts
<1>2. msg[i].by = i /\ ~owed[i] /\ \A r \in Replicas : i \notin HeldBy(r)
  BY <1>1 DEF OwnMessage, OwedIsQueued, OneHandler, Waiting
<1>3. Types'
  BY <1>1 DEF Types, States
<1>4. OwnMessage' /\ OwedIsQueued'
  BY <1>1, <1>2 DEF Types, OwnMessage, OwedIsQueued
<1>5. OneHandler' /\ FinishedIsWorked'
  BY <1>1, <1>2 DEF Types, OneHandler, FinishedIsWorked, HeldBy
<1>6. WorkedIsSettled'
  BY <1>1, <1>2 DEF Types, WorkedIsSettled
<1> QED BY <1>3, <1>4, <1>5, <1>6

\* Every step keeps the invariant.
LEMMA Inductive == IInv /\ [Next]_vars => IInv'
<1> SUFFICES ASSUME IInv, [Next]_vars PROVE IInv'
  OBVIOUS
<1>1. CASE \E j \in Jobs : AddTestJob(j)
  <2>1. PICK j \in Jobs : AddTestJob(j)
    BY <1>1
  <2>2. Push(j) \/ UNCHANGED redis
    BY <2>1 DEF AddTestJob, Conflict, redis
  <2> QED BY <2>1, <2>2, PushKeeps, DuplicateKeeps
<1>2. CASE \E r \in Replicas : Start(r) \/ Stop(r) \/ Stopped(r) \/ Die(r)
  BY <1>2, StartStopKeeps, DieKeeps
<1>3. CASE \E r \in Replicas, i \in Ids : Handler(r, i) \/ Requeue(r, i)
  BY <1>3, TakeKeeps, WorkKeeps, FailKeeps, AckKeeps, RequeueKeeps DEF Handler
<1>4. CASE \E i \in Ids : Asynq(i)
  BY <1>4, RecoverKeeps, ForwardKeeps, ForgetKeeps DEF Asynq
<1>5. CASE UNCHANGED vars
  <2>1. UNCHANGED <<state, msg, running, finished, owed, worked, deaths>>
    BY <1>5 DEF vars, redis, workers, history, counts
  <2> QED BY <2>1 DEF IInv, Types, OwnMessage, OneHandler, HeldBy, FinishedIsWorked,
                      OwedIsQueued, WorkedIsSettled
<1> QED BY <1>1, <1>2, <1>3, <1>4, <1>5 DEF Next

\* The invariant holds in every state the queue reaches.
LEMMA Invariant == Spec => []IInv
BY InitIInv, Inductive, PTL DEF Spec

\* ARCHITECTURE.md, 87, for every value of the constants: whoever was told that
\* a message is taken has a task of their own in the queue until it is worked on
\* and acknowledged, whatever fails, dies, is stopped or is sent again.
THEOREM JobQueueAcceptedJobIsKept == Spec => []AcceptedJobIsKept
<1>1. IInv => AcceptedJobIsKept
  BY DEF IInv, OwnMessage, OwedIsQueued, AcceptedJobIsKept, TaskId, Ids, Waiting
<1> QED BY <1>1, Invariant, PTL

\* queue.go, 66, for every value of the constants: as long as no worker has died,
\* no message is worked on twice within its window.
THEOREM JobQueueWorkedOncePerWindow == Spec => WorkedOncePerWindow
<1> DEFINE Fresh == \A j \in Jobs :
         (\E r \in Replicas : \E i \in running[r] : i \in finished'[r] /\ msg[i].by = j)
            => ~worked[j] \/ deaths > 0
<1>1. ASSUME IInv PROVE Fresh
  <2>1. SUFFICES ASSUME NEW r \in Replicas, NEW i \in running[r], deaths = 0,
                        worked[i]
                 PROVE  FALSE
    BY <1>1 DEF IInv, Types, OwnMessage, OneHandler, HeldBy, Ids
  <2>2. i \in Jobs /\ state[i] = "active"
    BY <1>1 DEF IInv, Types, OneHandler, HeldBy, Ids
  <2>3. PICK q \in Replicas : i \in finished[q]
    BY <1>1, <2>1, <2>2 DEF IInv, WorkedIsSettled
  <2> QED BY <1>1, <2>1, <2>3 DEF IInv, OneHandler, HeldBy
<1>2. Spec => [][Fresh]_vars
  BY <1>1, Invariant, PTL
<1> QED BY <1>2 DEF WorkedOncePerWindow

(***************************************************************************)
(* Counting attempts.  Every attempt but the one a task is at, or ended    *)
(* with, has cost it a retry, except those that a stopping worker put      *)
(* back: at most one for each shutdown, and while a stopping worker still  *)
(* holds the task, its shutdown has not put it back.                       *)
(***************************************************************************)
Spent(i) == IF state[i] \in {"active", "completed", "archived"} THEN 1 ELSE 0
BeingPutBack(i) == \E r \in Replicas : up[r] = "stopping" /\ i \in running[r]
Leaving(i) == IF BeingPutBack(i) THEN 1 ELSE 0

Counted(i) ==
    state[i] # "none" =>
        /\ msg[i].retried + Spent(i) <= tries[i]
        /\ tries[i] + Leaving(i) <= msg[i].retried + Spent(i) + stops
        /\ state[i] = "archived" => msg[i].retried = MaxRetry

CountInv ==
    /\ up \in [Replicas -> {"up", "stopping", "down"}]
    /\ tries \in [Ids -> Nat] /\ stops \in Nat
    /\ \A i \in Ids : Counted(i)

\* What a step must do at most to a task that it is not about.
LEMMA CountFrame ==
    ASSUME IInv, NEW i \in Ids, Counted(i), tries[i] \in Nat, stops \in Nat, stops' \in Nat,
           state'[i] = state[i], msg'[i] = msg[i], tries'[i] = tries[i],
           stops <= stops', Leaving(i)' <= Leaving(i) \/ stops' = stops + 1
    PROVE  Counted(i)'
<1>1. CASE state[i] = "none"
  BY <1>1 DEF Counted
<1>2. CASE state[i] # "none"
  <2>1. msg[i].retried \in Nat
    <3>1. msg[i] \in Message
      BY <1>2 DEF IInv, OwnMessage
    <3>2. msg[i].retried \in 0..MaxRetry
      BY <3>1 DEF Message
    <3> QED BY <3>2
  <2>2. Spent(i) \in Nat /\ Spent(i)' = Spent(i)
    BY DEF Spent
  <2>3. Leaving(i) \in 0..1 /\ Leaving(i)' \in 0..1
    BY DEF Leaving
  <2> HIDE DEF Leaving
  <2> QED BY <1>2, <2>1, <2>2, <2>3 DEF Counted
<1> QED BY <1>1, <1>2

\* The counting invariant is inductive, given the first one.
LEMMA CountInductive == IInv /\ CountInv /\ [Next]_vars => CountInv'
<1> SUFFICES ASSUME IInv, CountInv, [Next]_vars PROVE CountInv'
  OBVIOUS
<1>t. /\ MaxRetry \in Nat /\ \A i \in Ids : tries[i] \in Nat /\ Counted(i)
      /\ stops \in Nat
  BY NumbersAssumption DEF CountInv
<1>m. \A i \in Ids : state[i] # "none" =>
         msg[i] \in Message /\ msg[i].retried \in 0..MaxRetry /\ msg[i].max = MaxRetry
  BY DEF IInv, OwnMessage, Message
<1>1. ASSUME NEW j \in Jobs, AddTestJob(j)
      PROVE  CountInv'
  <2>0. UNCHANGED <<up, running, stops>>
    BY <1>1 DEF AddTestJob, workers
  <2>1. CASE Push(j)
    <3> DEFINE m == [by |-> j, retried |-> 0, max |-> MaxRetry, kept |-> TRUE]
    <3>1. /\ state[j] = "none" /\ state' = [state EXCEPT ![j] = "pending"]
          /\ msg' = [msg EXCEPT ![j] = m] /\ tries' = [tries EXCEPT ![j] = 0]
      BY <2>1 DEF Push, TaskId
    <3>2. m.retried = 0
      OBVIOUS
    <3> HIDE DEF m
    <3>3. ~BeingPutBack(j) /\ UNCHANGED Leaving(j)
      BY <2>0, <3>1 DEF IInv, OneHandler, HeldBy, BeingPutBack, Leaving
    <3>4. state'[j] = "pending" /\ msg'[j].retried = 0 /\ tries'[j] = 0
      BY <3>1, <3>2 DEF IInv, Types, CountInv, Ids
    <3>5. Counted(j)'
      BY <1>t, <2>0, <3>3, <3>4 DEF Counted, Spent, Leaving
    <3>6. ASSUME NEW i \in Ids, i # j PROVE Counted(i)'
      <4>1. UNCHANGED Leaving(i)
        BY <2>0 DEF Leaving, BeingPutBack
      <4>2. Leaving(i)' <= Leaving(i)
        BY <4>1 DEF Leaving
      <4> QED BY <1>t, <2>0, <3>1, <3>6, <4>2, CountFrame DEF IInv, Types, CountInv
    <3> QED BY <2>0, <3>1, <3>5, <3>6 DEF CountInv, Ids
  <2>2. CASE UNCHANGED <<state, msg, tries>>
    BY <2>0, <2>2 DEF CountInv, Counted, Spent, Leaving, BeingPutBack
  <2> QED BY <1>1, <2>1, <2>2 DEF AddTestJob, Conflict, redis
<1>2. ASSUME NEW r \in Replicas, Start(r) \/ Stop(r) \/ Stopped(r) \/ Die(r)
      PROVE  CountInv'
  <2>1. /\ UNCHANGED <<state, msg, tries>>
        /\ \/ stops' = stops /\ up' \in [Replicas -> {"up", "stopping", "down"}]
              /\ \A i \in Ids : BeingPutBack(i)' => BeingPutBack(i)
           \/ stops' = stops + 1 /\ up' \in [Replicas -> {"up", "stopping", "down"}]
    BY <1>2 DEF Start, Stop, Stopped, Die, redis, history, counts, CountInv, IInv, Types,
                BeingPutBack
  <2>2. ASSUME NEW i \in Ids PROVE Leaving(i)' <= Leaving(i) \/ stops' = stops + 1
    BY <2>1 DEF Leaving
  <2>3. \A i \in Ids : Counted(i)'
    BY <1>t, <2>1, <2>2, CountFrame
  <2> QED BY <2>1, <2>3 DEF CountInv
<1>3. ASSUME NEW r \in Replicas, NEW i \in Ids, Handler(r, i) \/ Requeue(r, i)
      PROVE  CountInv'
  <2>0. UNCHANGED <<up, stops>>
    BY <1>3 DEF Handler, Take, Work, Fail, Ack, Requeue, counts
  <2>1. ASSUME NEW k \in Ids, k # i PROVE Counted(k)'
    <3>1. UNCHANGED <<state[k], msg[k], tries[k]>>
      BY <1>3, <2>1
         DEF Handler, Take, Work, Fail, Ack, Requeue, Retry, redis, history, IInv, Types, CountInv
    <3>2. \A q \in Replicas : k \in running'[q] => k \in running[q]
      BY <1>3, <2>1 DEF Handler, Take, Work, Fail, Ack, Requeue, IInv, Types
    <3>3. Leaving(k)' <= Leaving(k)
      BY <2>0, <3>2 DEF Leaving, BeingPutBack
    <3> QED BY <1>t, <2>0, <3>1, <3>3, CountFrame
  <2>2. Counted(i)' /\ tries' \in [Ids -> Nat]
    <3>1. CASE Take(r, i)
      <4>1. /\ state[i] = "pending" /\ state'[i] = "active" /\ msg' = msg
            /\ tries' = [tries EXCEPT ![i] = tries[i] + 1] /\ up[r] = "up"
            /\ running' = [running EXCEPT ![r] = running[r] \cup {i}]
        BY <3>1 DEF Take, IInv, Types
      <4>2. ~BeingPutBack(i)
        BY <4>1 DEF BeingPutBack, IInv, OneHandler, HeldBy
      <4>3. ~BeingPutBack(i)'
        BY <2>0, <4>1, <4>2 DEF BeingPutBack, IInv, Types
      <4>4. tries'[i] = tries[i] + 1 /\ tries' \in [Ids -> Nat]
        BY <1>t, <4>1 DEF CountInv
      <4> QED BY <1>t, <1>m, <2>0, <4>1, <4>2, <4>3, <4>4 DEF Counted, Spent, Leaving
    <3>2. CASE Work(r, i)
      <4>1. /\ UNCHANGED <<state, msg, tries>>
            /\ BeingPutBack(i)' => BeingPutBack(i)
        BY <2>0, <3>2 DEF Work, redis, IInv, Types, BeingPutBack
      <4>2. Leaving(i)' <= Leaving(i)
        BY <4>1 DEF Leaving
      <4> QED BY <1>t, <2>0, <4>1, <4>2, CountFrame DEF CountInv
    <3>3. CASE Fail(r, i)
      <4>1. /\ Retry(i) /\ tries' = tries /\ i \in running[r] /\ state[i] = "active"
            /\ running' = [running EXCEPT ![r] = running[r] \ {i}]
        BY <3>3 DEF Fail, history, IInv, OneHandler, HeldBy
      <4>2. ~BeingPutBack(i)'
        BY <2>0, <4>1 DEF BeingPutBack, IInv, Types, OneHandler, HeldBy
      <4>3. /\ state'[i] = IF msg[i].retried < MaxRetry THEN "retry" ELSE "archived"
            /\ msg'[i].retried = IF msg[i].retried < MaxRetry
                                 THEN msg[i].retried + 1 ELSE msg[i].retried
        BY <1>m, <4>1 DEF Retry, IInv, Types
      <4> QED BY <1>t, <1>m, <2>0, <4>1, <4>2, <4>3 DEF Counted, Spent, Leaving, CountInv
    <3>4. CASE Ack(r, i)
      <4>1. state[i] = "active" /\ i \notin running[r]
        BY <3>4 DEF Ack, IInv, OneHandler, HeldBy
      <4>2. msg[i].kept
        BY <1>m, <4>1 DEF Message
      <4>3. /\ state'[i] = "completed" /\ msg' = msg /\ tries' = tries
            /\ running' = running
        BY <3>4, <4>2 DEF Ack, IInv, Types
      <4> QED BY <1>t, <1>m, <2>0, <4>1, <4>3
              DEF Counted, Spent, Leaving, BeingPutBack, CountInv
    <3>5. CASE Requeue(r, i)
      <4>1. /\ tries' = tries /\ msg' = msg /\ i \in running[r] /\ state[i] = "active"
            /\ state'[i] = "pending" /\ up[r] = "stopping"
            /\ running' = [running EXCEPT ![r] = running[r] \ {i}]
        BY <3>5 DEF Requeue, history, IInv, Types, OneHandler, HeldBy
      <4>2. BeingPutBack(i)
        BY <4>1 DEF BeingPutBack
      <4>3. ~BeingPutBack(i)'
        BY <2>0, <4>1 DEF BeingPutBack, IInv, Types, OneHandler, HeldBy
      <4> QED BY <1>t, <1>m, <2>0, <4>1, <4>2, <4>3 DEF Counted, Spent, Leaving, CountInv
    <3> QED BY <1>3, <3>1, <3>2, <3>3, <3>4, <3>5 DEF Handler
  <2> QED BY <2>0, <2>1, <2>2 DEF CountInv
<1>4. ASSUME NEW i \in Ids, Asynq(i)
      PROVE  CountInv'
  <2>1. UNCHANGED <<up, running, stops, tries>>
    BY <1>4 DEF Asynq, Recover, Forward, Forget, workers, history, counts
  <2>2. UNCHANGED BeingPutBack(i) /\ UNCHANGED Leaving(i)
    BY <2>1 DEF BeingPutBack, Leaving
  <2>3. ASSUME NEW k \in Ids, k # i PROVE Counted(k)'
    <3>1. UNCHANGED <<state[k], msg[k]>>
      BY <1>4, <2>3 DEF Asynq, Recover, Forward, Forget, Retry, IInv, Types
    <3>2. UNCHANGED Leaving(k) /\ Leaving(k) \in 0..1
      BY <2>1 DEF BeingPutBack, Leaving
    <3>3. Leaving(k)' <= Leaving(k)
      BY <3>2
    <3> QED BY <1>t, <2>1, <3>1, <3>3, CountFrame
  <2>4. Counted(i)'
    <3>1. CASE Recover(i)
      <4>1. state[i] = "active" /\ ~BeingPutBack(i) /\ Retry(i)
        BY <3>1 DEF Recover, Held, BeingPutBack
      <4> QED BY <1>t, <1>m, <2>1, <2>2, <4>1
              DEF Retry, Counted, Spent, Leaving, IInv, Types
    <3>2. CASE Forward(i)
      <4>1. state[i] = "retry" /\ state'[i] = "pending" /\ msg' = msg
        BY <3>2 DEF Forward, IInv, Types
      <4> QED BY <1>t, <1>m, <2>1, <2>2, <4>1 DEF Counted, Spent, Leaving
    <3>3. CASE Forget(i)
      BY <3>3 DEF Forget, Counted, IInv, Types
    <3> QED BY <1>4, <3>1, <3>2, <3>3 DEF Asynq
  <2> QED BY <2>1, <2>3, <2>4 DEF CountInv
<1>5. CASE UNCHANGED vars
  BY <1>5 DEF vars, redis, workers, history, counts, CountInv, Counted, Spent, Leaving,
              BeingPutBack
<1> QED BY <1>1, <1>2, <1>3, <1>4, <1>5 DEF Next

\* queue.go, 33, for every value of the constants: a task is handed out at most
\* once more than maxRetry and once more for each shutdown, and it is given up
\* only when all of its retries are spent.
THEOREM JobQueueAttemptsAreCounted == Spec => []AttemptsAreCounted
<1>1. Init => CountInv
  BY DEF Init, CountInv, Counted, Ids
<1>2. IInv /\ CountInv => AttemptsAreCounted
  <2> SUFFICES ASSUME IInv, CountInv, NEW i \in Ids, state[i] # "none"
               PROVE  /\ tries[i] <= MaxRetry + 1 + stops
                      /\ state[i] = "archived" => tries[i] > MaxRetry
    BY DEF AttemptsAreCounted
  <2>1. /\ tries[i] \in Nat /\ stops \in Nat /\ Counted(i) /\ MaxRetry \in Nat
        /\ msg[i].retried \in 0..MaxRetry
    BY NumbersAssumption DEF CountInv, IInv, OwnMessage, Message
  <2>2. Spent(i) \in 0..1 /\ (state[i] = "archived" => Spent(i) = 1)
    BY DEF Spent
  <2>3. Leaving(i) \in 0..1
    BY DEF Leaving
  <2> HIDE DEF Spent, Leaving
  <2> QED BY <2>1, <2>2, <2>3 DEF Counted
<1>3. IInv /\ IInv' /\ CountInv /\ [Next]_vars => CountInv'
  BY CountInductive
<1> QED BY <1>1, <1>2, <1>3, Invariant, PTL DEF Spec

(***************************************************************************)
(* Shutdowns cost no attempt.  A retry is written when a handler fails or  *)
(* when a lease runs out; a lease runs out only of a task that is active   *)
(* and in no handler, and it was a worker that died who left it so.        *)
(***************************************************************************)
Left(i) == state[i] = "active" /\ \A r \in Replicas : i \notin HeldBy(r)
Lost(i) == IF Left(i) THEN 1 ELSE 0

\* The retries of a task, and the one it is about to cost, are each of a
\* failure or a death.
Charged(i) == state[i] # "none" => msg[i].retried + Lost(i) <= failures + deaths

ChargeInv ==
    /\ failures \in Nat
    /\ \A i \in Ids : Charged(i)

\* What a step must leave alone of a task that it is not about.
LEMMA ChargeFrame ==
    ASSUME IInv, NEW i \in Ids, Charged(i), failures \in Nat, failures' \in Nat, deaths' \in Nat,
           state'[i] = state[i], msg'[i] = msg[i],
           failures <= failures', deaths <= deaths', Left(i)' => Left(i) \/ deaths' = deaths + 1
    PROVE  Charged(i)'
<1>1. deaths \in Nat
  BY DEF IInv, Types
<1>2. CASE state[i] # "none"
  <2>1. msg[i] \in Message
    BY <1>2 DEF IInv, OwnMessage
  <2>2. msg[i].retried \in Nat
    <3>1. msg[i].retried \in 0..MaxRetry /\ MaxRetry \in Nat
      BY <2>1, NumbersAssumption DEF Message
    <3> QED BY <3>1
  <2>3. Lost(i) \in 0..1 /\ Lost(i)' \in 0..1 /\ (Lost(i)' <= Lost(i) \/ deaths' = deaths + 1)
    BY DEF Lost
  <2> HIDE DEF Lost
  <2> QED BY <1>1, <1>2, <2>2, <2>3 DEF Charged
<1> QED BY <1>2 DEF Charged

\* A retry is one more than before, at most, and the task is left no longer.
LEMMA RetryCharge ==
    ASSUME IInv, NEW i \in Ids, state[i] # "none", Retry(i)
    PROVE  /\ msg[i].retried \in Nat
           /\ msg'[i].retried \in {msg[i].retried, msg[i].retried + 1}
           /\ ~Left(i)'
           /\ \A k \in Ids : k # i => state'[k] = state[k] /\ msg'[k] = msg[k]
<1>1. msg[i] \in Message /\ MaxRetry \in Nat
  BY NumbersAssumption DEF IInv, OwnMessage
<1>2. msg[i].retried \in 0..MaxRetry
  BY <1>1 DEF Message
<1>3. msg'[i].retried \in {msg[i].retried, msg[i].retried + 1}
  BY <1>1 DEF Retry, IInv, Types, Message
<1>4. state'[i] # "active"
  BY DEF Retry, IInv, Types
<1>5. ASSUME NEW k \in Ids, k # i PROVE state'[k] = state[k] /\ msg'[k] = msg[k]
  BY <1>5 DEF Retry, IInv, Types
<1> QED BY <1>1, <1>2, <1>3, <1>4, <1>5 DEF Left

\* ChargeInv is inductive, given the first invariant.
LEMMA ChargeInductive == IInv /\ IInv' /\ ChargeInv /\ [Next]_vars => ChargeInv'
<1> SUFFICES ASSUME IInv, IInv', ChargeInv, [Next]_vars PROVE ChargeInv'
  OBVIOUS
<1>t. /\ failures \in Nat /\ deaths \in Nat /\ deaths' \in Nat
      /\ \A i \in Ids : Charged(i)
  BY DEF ChargeInv, IInv, Types
<1>1. ASSUME NEW j \in Jobs, AddTestJob(j)
      PROVE  ChargeInv'
  <2>0. UNCHANGED <<running, finished, failures, deaths>>
    BY <1>1 DEF AddTestJob, workers
  <2>1. CASE Push(j)
    <3> DEFINE m == [by |-> j, retried |-> 0, max |-> MaxRetry, kept |-> TRUE]
    <3>1. /\ state' = [state EXCEPT ![j] = "pending"] /\ msg' = [msg EXCEPT ![j] = m]
      BY <2>1 DEF Push, TaskId
    <3>2. m.retried = 0
      OBVIOUS
    <3> HIDE DEF m
    <3>3. Charged(j)'
      BY <1>t, <2>0, <3>1, <3>2 DEF Charged, Lost, Left, IInv, Types, Ids
    <3>4. ASSUME NEW i \in Ids, i # j PROVE Charged(i)'
      BY <1>t, <2>0, <3>1, <3>4, ChargeFrame DEF Left, HeldBy, IInv, Types
    <3> QED BY <1>t, <2>0, <3>3, <3>4 DEF ChargeInv, Ids
  <2>2. CASE UNCHANGED <<state, msg>>
    BY <2>0, <2>2 DEF ChargeInv, Charged, Lost, Left, HeldBy
  <2> QED BY <1>1, <2>1, <2>2 DEF AddTestJob, Conflict, redis
<1>2. ASSUME NEW r \in Replicas, Start(r) \/ Stop(r) \/ Stopped(r) \/ Die(r)
      PROVE  ChargeInv'
  <2>1. /\ UNCHANGED <<state, msg, failures>>
        /\ UNCHANGED <<running, finished, deaths>> \/ deaths' = deaths + 1
    BY <1>2 DEF Start, Stop, Stopped, Die, redis, history, counts
  <2>2. ASSUME NEW i \in Ids PROVE Charged(i)'
    <3>1. Left(i)' => Left(i) \/ deaths' = deaths + 1
      BY <2>1 DEF Left, HeldBy
    <3> QED BY <1>t, <2>1, <3>1, ChargeFrame
  <2> QED BY <1>t, <2>1, <2>2 DEF ChargeInv
<1>3. ASSUME NEW r \in Replicas, NEW i \in Ids, Handler(r, i) \/ Requeue(r, i)
      PROVE  ChargeInv'
  <2>0. UNCHANGED deaths /\ failures' \in Nat /\ failures <= failures'
    BY <1>t, <1>3 DEF Handler, Take, Work, Fail, Ack, Requeue, counts
  <2>1. ASSUME NEW k \in Ids, k # i PROVE Charged(k)'
    <3>1. state'[k] = state[k] /\ msg'[k] = msg[k]
      BY <1>3, <2>1 DEF Handler, Take, Work, Fail, Ack, Requeue, Retry, redis, IInv, Types
    <3>2. ASSUME NEW q \in Replicas, k \in HeldBy(q) PROVE k \in HeldBy(q)'
      BY <1>3, <2>1, <3>2 DEF Handler, Take, Work, Fail, Ack, Requeue, IInv, Types, HeldBy
    <3>3. Left(k)' => Left(k)
      BY <3>1, <3>2 DEF Left
    <3> QED BY <1>t, <2>0, <3>1, <3>3, ChargeFrame
  <2>2. Charged(i)'
    <3>1. CASE Take(r, i)
      <4>1. i \in HeldBy(r)'
        BY <3>1 DEF Take, HeldBy, IInv, Types
      <4>2. ~Left(i)' /\ msg' = msg /\ state[i] = "pending" /\ UNCHANGED <<failures, deaths>>
        BY <3>1, <4>1 DEF Left, Take, counts
      <4> QED BY <1>t, <4>2 DEF Charged, Lost, Left
    <3>2. CASE Work(r, i)
      <4>1. i \in HeldBy(r)' /\ UNCHANGED <<state, msg, failures, deaths>>
        BY <3>2 DEF Work, HeldBy, IInv, Types, redis, counts
      <4> QED BY <1>t, <4>1, ChargeFrame DEF Left
    <3>3. CASE Fail(r, i)
      <4>1. Retry(i) /\ failures' = failures + 1 /\ state[i] = "active" /\ i \in HeldBy(r)
        BY <3>3 DEF Fail, IInv, OneHandler, HeldBy
      <4>2. msg[i].retried <= failures + deaths
        BY <1>t, <4>1, RetryCharge DEF Charged, Lost, Left
      <4>3. /\ msg[i].retried \in Nat /\ ~Left(i)'
            /\ msg'[i].retried \in {msg[i].retried, msg[i].retried + 1}
        BY <4>1, RetryCharge
      <4> QED BY <1>t, <2>0, <4>1, <4>2, <4>3 DEF Charged, Lost
    <3>4. CASE Ack(r, i)
      <4>1. state[i] = "active" /\ i \in HeldBy(r)
        BY <3>4 DEF Ack, IInv, OneHandler, HeldBy
      <4>2. msg[i] \in Message
        BY <4>1 DEF IInv, OwnMessage
      <4>3. msg[i].kept
        BY <4>2 DEF Message
      <4>4. state'[i] = "completed" /\ msg' = msg /\ UNCHANGED <<failures, deaths>>
        BY <3>4, <4>3 DEF Ack, IInv, Types, counts
      <4>5. ~Left(i) /\ ~Left(i)'
        BY <4>1, <4>4 DEF Left
      <4> QED BY <1>t, <4>1, <4>4, <4>5 DEF Charged, Lost
    <3>5. CASE Requeue(r, i)
      <4>1. state[i] = "active" /\ i \in HeldBy(r)
        BY <3>5 DEF Requeue, IInv, OneHandler, HeldBy
      <4>2. state'[i] = "pending" /\ msg' = msg /\ UNCHANGED <<failures, deaths>>
        BY <3>5 DEF Requeue, IInv, Types, counts
      <4>3. ~Left(i) /\ ~Left(i)'
        BY <4>1, <4>2 DEF Left
      <4> QED BY <1>t, <4>1, <4>2, <4>3 DEF Charged, Lost
    <3> QED BY <1>3, <3>1, <3>2, <3>3, <3>4, <3>5 DEF Handler
  <2> QED BY <2>0, <2>1, <2>2 DEF ChargeInv
<1>4. ASSUME NEW i \in Ids, Asynq(i)
      PROVE  ChargeInv'
  <2>0. UNCHANGED <<running, finished, failures, deaths>>
    BY <1>4 DEF Asynq, Recover, Forward, Forget, workers, counts
  <2>1. ASSUME NEW k \in Ids, k # i PROVE Charged(k)'
    <3>1. state'[k] = state[k] /\ msg'[k] = msg[k]
      BY <1>4, <2>1 DEF Asynq, Recover, Forward, Forget, Retry, IInv, Types
    <3>2. Left(k)' => Left(k)
      BY <2>0, <3>1 DEF Left, HeldBy
    <3> QED BY <1>t, <2>0, <3>1, <3>2, ChargeFrame
  <2>2. Charged(i)'
    <3>1. CASE Recover(i)
      <4>1. Retry(i) /\ Left(i)
        BY <3>1 DEF Recover, Left, Held, HeldBy
      <4>2. msg[i].retried + 1 <= failures + deaths
        BY <1>t, <4>1 DEF Charged, Lost, Left
      <4>3. /\ msg[i].retried \in Nat /\ ~Left(i)'
            /\ msg'[i].retried \in {msg[i].retried, msg[i].retried + 1}
        BY <4>1, RetryCharge DEF Left
      <4> QED BY <1>t, <2>0, <4>2, <4>3 DEF Charged, Lost
    <3>2. CASE Forward(i)
      <4>1. state[i] = "retry" /\ state'[i] = "pending" /\ msg' = msg
        BY <3>2 DEF Forward, IInv, Types
      <4> QED BY <1>t, <2>0, <4>1 DEF Charged, Lost, Left
    <3>3. CASE Forget(i)
      BY <3>3 DEF Forget, Charged, IInv, Types
    <3> QED BY <1>4, <3>1, <3>2, <3>3 DEF Asynq
  <2> QED BY <1>t, <2>0, <2>1, <2>2 DEF ChargeInv
<1>5. CASE UNCHANGED vars
  BY <1>5 DEF vars, redis, workers, counts, ChargeInv, Charged, Lost, Left, HeldBy
<1> QED BY <1>1, <1>2, <1>3, <1>4, <1>5 DEF Next

\* queue.go, 223, for every value of the constants: a graceful shutdown, however
\* often tasks are put back, costs none of them an attempt.
THEOREM JobQueueDeployCostsNoAttempt == Spec => []DeployCostsNoAttempt
<1>1. Init => ChargeInv
  BY DEF Init, ChargeInv, Charged
<1>2. IInv /\ ChargeInv => DeployCostsNoAttempt
  <2> SUFFICES ASSUME IInv, ChargeInv, NEW i \in Ids, state[i] # "none"
               PROVE  msg[i].retried <= failures + deaths
    BY DEF DeployCostsNoAttempt
  <2>1. msg[i] \in Message
    BY DEF IInv, OwnMessage
  <2>2. msg[i].retried \in Nat
    <3>1. msg[i].retried \in 0..MaxRetry /\ MaxRetry \in Nat
      BY <2>1, NumbersAssumption DEF Message
    <3> QED BY <3>1
  <2>3. /\ msg[i].retried + Lost(i) <= failures + deaths
        /\ failures \in Nat /\ deaths \in Nat /\ Lost(i) \in 0..1
    BY DEF ChargeInv, Charged, Lost, IInv, Types
  <2> QED BY <2>2, <2>3
<1> QED BY <1>1, <1>2, ChargeInductive, Invariant, PTL DEF Spec
=============================================================================
