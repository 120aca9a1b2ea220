--------------------------- MODULE ThreadsProofs ----------------------------
(***************************************************************************)
(* Proofs about the threads of the service, for any number of them: those  *)
(* of the RuntimeLoop (its invariant, and that it implements               *)
(* SerialExecutor), and those that start and stop the service              *)
(* (LifecycleInvariant).  The components share no state; each has the      *)
(* theorems of its own specification.                                      *)
(***************************************************************************)
EXTENDS RuntimeLoop, ServiceRuntimeLifecycle, FiniteSetTheorems, TLAPS

USE DEF Stop

-----------------------------------------------------------------------------
(* The RuntimeLoop: the inductive invariant.                                *)

\* start never replaces a live worker, and a worker only exits on the _STOP.
SingleWorker ==
  /\ worker \in {0, 1} /\ alive \subseteq {worker} \ {0}
  /\ ~closed => worker = 0 \/ worker \in alive

\* The sentinel is only in the queue of a closed loop.
StopMeansClosed == (\E i \in DOMAIN queue : queue[i] = Stop) => closed

\* A worker between two gets is alive and holds a task.
HoldersAreAlive == \A w \in Worker : wpc[w] # "get" => w \in alive /\ hold[w] \in Task

\* A thread that waits, waits for a task of its own.
WaitersHaveTasks ==
  \A t \in Thread : pc[t] \in {"waiting", "timedout"} => mine[t] \in Task

\* state_lock makes starting and cancelling exclude each other.
StartOrCancel ==
  /\ started \cap cancelled = {}
  /\ \A n \in Task : told[n] = "cancelled" => n \in cancelled

\* A task is in the queue or in a worker's hands once, and not started before
\* StartTask starts it.
Queued == {queue[i] : i \in DOMAIN queue} \ {Stop}

OnceInQueue ==
  /\ \A i, j \in DOMAIN queue : i # j /\ queue[i] = queue[j] => queue[i] = Stop
  /\ started \subseteq 1..accepted /\ Queued \subseteq (1..accepted) \ started

HoldIsFresh ==
  \A w \in Worker : wpc[w] = "got" => hold[w] \in (1..accepted) \ (started \cup Queued)

IInv ==
  /\ TypeOK
  /\ SingleWorker /\ StopMeansClosed /\ HoldersAreAlive /\ WaitersHaveTasks
  /\ OnceInQueue /\ HoldIsFresh /\ StartOrCancel

LEMMA InitIInv == Init => IInv
<1> SUFFICES ASSUME Init PROVE IInv
  OBVIOUS
<1>1. worker \in 0..MaxWorker /\ accepted \in 0..MaxTask
  BY ConstantsAssumption DEF Init
<1>2. queue \in Seq(Task \cup {Stop}) /\ DOMAIN queue = {}
  BY DEF Init
<1>3. TypeOK
  BY <1>1, <1>2 DEF Init, TypeOK, Kind
<1>4. SingleWorker /\ StopMeansClosed /\ HoldersAreAlive /\ WaitersHaveTasks
  BY <1>2 DEF Init, SingleWorker, StopMeansClosed, HoldersAreAlive, WaitersHaveTasks
<1>5. OnceInQueue /\ HoldIsFresh
  BY <1>2 DEF Init, OnceInQueue, Queued, HoldIsFresh
<1>6. StartOrCancel
  BY DEF Init, StartOrCancel
<1> QED BY <1>3, <1>4, <1>5, <1>6 DEF IInv

\* Taking the head of the queue leaves tasks and sentinels behind it in place.
LEMMA TailKeeps ==
  ASSUME NEW S, NEW q \in Seq(S), q # <<>>
  PROVE  /\ Head(q) \in S /\ Head(q) = q[1] /\ 1 \in DOMAIN q
         /\ Tail(q) \in Seq(S)
         /\ \A i \in DOMAIN Tail(q) : i + 1 \in DOMAIN q /\ Tail(q)[i] = q[i + 1]
  OBVIOUS

LEMMA AppendKeeps ==
  ASSUME NEW S, NEW q \in Seq(S), NEW x \in S
  PROVE  /\ Append(q, x) \in Seq(S)
         /\ \A i \in DOMAIN Append(q, x) :
              (i \in DOMAIN q /\ Append(q, x)[i] = q[i]) \/ Append(q, x)[i] = x
  OBVIOUS

\* What a step that touches neither the queue nor a start preserves.
LEMMA FreshKept ==
  ASSUME OnceInQueue, HoldIsFresh, UNCHANGED <<queue, accepted, started, wpc, hold>>
  PROVE  OnceInQueue' /\ HoldIsFresh'
  BY DEF OnceInQueue, HoldIsFresh, Queued

-----------------------------------------------------------------------------
(* One lemma per action.                                                    *)

LEMMA StartWorkerInv ==
  ASSUME IInv, NEW t \in Thread, NEW k \in Kind, StartWorker(t, k)
  PROVE  IInv'
<1>1. worker' \in {0, 1} /\ worker' \in 0..MaxWorker
  <2>1. worker' \in {0, 1}
    BY DEF IInv, SingleWorker, StartWorker, NeedsWorker
  <2> QED BY <2>1, ConstantsAssumption
<1>2. alive' \subseteq {worker'} \ {0} /\ worker' \in alive'
  <2>1. CASE worker \in alive
    BY <2>1 DEF IInv, SingleWorker, StartWorker, NeedsWorker
  <2>2. CASE worker \notin alive
    <3>1. worker = 0 /\ alive = {}
      BY <2>2 DEF IInv, SingleWorker, StartWorker
    <3>2. worker' = 1 /\ alive' = {1}
      BY <2>2, <3>1 DEF StartWorker, NeedsWorker
    <3> QED BY <3>2
  <2> QED BY <2>1, <2>2
<1>3. alive' \subseteq Worker /\ alive \subseteq alive'
  BY <1>1, <1>2 DEF IInv, TypeOK, StartWorker, Worker
<1>4. TypeOK'
  BY <1>1, <1>3 DEF IInv, TypeOK, StartWorker, workerVars, taskVars
<1>5. SingleWorker'
  BY <1>1, <1>2 DEF SingleWorker
<1>6. StopMeansClosed' /\ StartOrCancel'
  BY DEF IInv, StopMeansClosed, StartOrCancel, StartWorker, taskVars
<1>7. HoldersAreAlive'
  BY <1>3 DEF IInv, HoldersAreAlive, StartWorker, workerVars
<1>8. WaitersHaveTasks'
  BY DEF IInv, TypeOK, WaitersHaveTasks, StartWorker
<1>9. OnceInQueue' /\ HoldIsFresh'
  BY FreshKept DEF IInv, StartWorker, workerVars, taskVars
<1> QED BY <1>4, <1>5, <1>6, <1>7, <1>8, <1>9 DEF IInv

LEMMA EnqueueInv ==
  ASSUME IInv, NEW t \in Thread, Enqueue(t)
  PROVE  IInv'
<1>0. /\ SingleWorker' /\ HoldersAreAlive' /\ StartOrCancel'
      /\ UNCHANGED <<closed, started, wpc, hold>>
  BY DEF IInv, SingleWorker, HoldersAreAlive, StartOrCancel, Enqueue, loopVars, workerVars
<1>1. CASE StillOpen /\ accepted < MaxTask
  <2> DEFINE n == accepted + 1
  <2>1. n \in Task /\ n # Stop /\ n \notin 1..accepted /\ accepted' = n /\ n \in 0..MaxTask
    BY <1>1, ConstantsAssumption DEF IInv, TypeOK, Enqueue, Task
  <2>2. 1..accepted \subseteq 1..n /\ n \in 1..n
    BY ConstantsAssumption DEF IInv, TypeOK
  <2>3. queue' = Append(queue, n) /\ queue \in Seq(Task \cup {Stop})
    BY <1>1 DEF IInv, TypeOK, Enqueue
  <2>4. /\ mine' = [mine EXCEPT ![t] = n] /\ kind' = [kind EXCEPT ![n] = want[t]]
        /\ pc' = [pc EXCEPT ![t] = IF want[t] = "submit" THEN "idle" ELSE "waiting"]
    BY <1>1 DEF Enqueue
  <2> HIDE DEF n
  <2>5. queue' \in Seq(Task \cup {Stop})
    BY <2>1, <2>3, AppendKeeps
  <2>6. \A i \in DOMAIN queue' :
          \/ i \in DOMAIN queue /\ queue'[i] = queue[i]
          \/ i = Len(queue) + 1 /\ queue'[i] = n
    BY <2>1, <2>3, AppendKeeps
  <2>7. StopMeansClosed'
    BY <1>0, <2>1, <2>6 DEF IInv, StopMeansClosed
  <2>8. Queued' \subseteq Queued \cup {n}
    BY <2>6 DEF Queued
  <2>9. OnceInQueue'
    <3>1. ASSUME NEW i \in DOMAIN queue', NEW j \in DOMAIN queue', i # j,
                 queue'[i] = queue'[j]
          PROVE  queue'[i] = Stop
      <4>1. \A m \in DOMAIN queue : queue[m] # n
        BY <2>1 DEF IInv, OnceInQueue, Queued
      <4> QED BY <2>6, <3>1, <4>1 DEF IInv, OnceInQueue
    <3>2. started' \subseteq 1..accepted' /\ Queued' \subseteq (1..accepted') \ started'
      BY <1>0, <2>1, <2>2, <2>8 DEF IInv, OnceInQueue
    <3> QED BY <3>1, <3>2 DEF OnceInQueue
  <2>10. HoldIsFresh'
    BY <1>0, <2>1, <2>2, <2>8 DEF IInv, HoldIsFresh
  <2>11. TypeOK'
    <3>1. /\ kind' \in [Task -> Kind] /\ mine' \in [Thread -> Nat]
          /\ pc' \in [Thread -> {"idle", "enqueue", "waiting", "timedout", "joining"}]
      BY <2>1, <2>4 DEF IInv, TypeOK, Task
    <3> QED BY <2>1, <2>5, <3>1 DEF IInv, TypeOK, Enqueue, loopVars, workerVars
  <2>12. WaitersHaveTasks'
    BY <2>1, <2>4 DEF IInv, TypeOK, WaitersHaveTasks
  <2> QED BY <1>0, <2>7, <2>9, <2>10, <2>11, <2>12 DEF IInv
<1>2. CASE ~(StillOpen /\ accepted < MaxTask)
  <2>1. UNCHANGED <<accepted, queue>>
    BY <1>2 DEF Enqueue
  <2>2. OnceInQueue' /\ HoldIsFresh'
    BY <1>0, <2>1, FreshKept DEF IInv
  <2>3. TypeOK' /\ WaitersHaveTasks' /\ StopMeansClosed'
    BY <1>2 DEF IInv, TypeOK, WaitersHaveTasks, StopMeansClosed, Enqueue, loopVars,
       workerVars
  <2> QED BY <1>0, <2>2, <2>3 DEF IInv
<1> QED BY <1>1, <1>2

LEMMA CallerInv ==
  ASSUME IInv, NEW t \in Thread,
         CallReturns(t) \/ WaitTimesOut(t) \/ RaiseTimeout(t) \/ StopReturns(t)
           \/ StopTimesOut(t)
  PROVE  IInv'
<1>1. /\ UNCHANGED <<closed, worker, alive, queue, wpc, hold, accepted, started, mine>>
      /\ \A s \in Thread : pc'[s] \in {"waiting", "timedout"} =>
                             pc[s] \in {"waiting", "timedout"}
  BY DEF IInv, TypeOK, CallReturns, WaitTimesOut, RaiseTimeout, StopReturns, StopTimesOut,
     loopVars, workerVars, taskVars
<1>2. SingleWorker' /\ StopMeansClosed' /\ HoldersAreAlive' /\ WaitersHaveTasks'
  BY <1>1 DEF IInv, SingleWorker, StopMeansClosed, HoldersAreAlive, WaitersHaveTasks
<1>3. OnceInQueue' /\ HoldIsFresh'
  BY <1>1, FreshKept DEF IInv
<1>4. TypeOK' /\ StartOrCancel'
  <2>1. CASE CallReturns(t)
    <3>1. mine[t] \in Task
      BY <2>1 DEF IInv, WaitersHaveTasks, CallReturns
    <3> QED BY <2>1, <3>1 DEF IInv, TypeOK, StartOrCancel, CallReturns, loopVars,
               workerVars, taskVars
  <2>2. CASE RaiseTimeout(t)
    <3>1. mine[t] \in Task
      BY <2>2 DEF IInv, WaitersHaveTasks, RaiseTimeout
    <3>2. TypeOK'
      BY <2>2, <3>1 DEF IInv, TypeOK, RaiseTimeout, loopVars, workerVars
    <3>3. CASE mine[t] \in started
      <4>1. told' = [told EXCEPT ![mine[t]] = "may_still_run"]
            /\ UNCHANGED <<started, cancelled>>
        BY <2>2, <3>3 DEF RaiseTimeout
      <4> QED BY <3>1, <3>2, <4>1 DEF IInv, TypeOK, StartOrCancel
    <3>4. CASE mine[t] \notin started
      <4>1. /\ told' = [told EXCEPT ![mine[t]] = "cancelled"]
            /\ cancelled' = cancelled \cup {mine[t]} /\ UNCHANGED started
        BY <2>2, <3>4 DEF RaiseTimeout
      <4> QED BY <3>1, <3>2, <3>4, <4>1 DEF IInv, TypeOK, StartOrCancel
    <3> QED BY <3>3, <3>4
  <2>3. CASE WaitTimesOut(t) \/ StopReturns(t) \/ StopTimesOut(t)
    BY <2>3 DEF IInv, TypeOK, StartOrCancel, WaitTimesOut, StopReturns, StopTimesOut,
       loopVars, workerVars, taskVars
  <2> QED BY <2>1, <2>2, <2>3
<1> QED BY <1>2, <1>3, <1>4 DEF IInv

LEMMA StopLoopInv ==
  ASSUME IInv, NEW t \in Thread, StopLoop(t)
  PROVE  IInv'
<1>1. queue \in Seq(Task \cup {Stop}) /\ Stop \in Task \cup {Stop}
  BY DEF IInv, TypeOK
<1>2. queue' \in Seq(Task \cup {Stop})
  BY <1>1, AppendKeeps DEF StopLoop
<1>3. \A i \in DOMAIN queue' :
        (i \in DOMAIN queue /\ queue'[i] = queue[i]) \/ queue'[i] = Stop
  BY <1>1, AppendKeeps DEF StopLoop
<1>4. TypeOK'
  BY <1>2 DEF IInv, TypeOK, StopLoop, workerVars, taskVars
<1>5. OnceInQueue' /\ HoldIsFresh'
  <2>1. Queued' \subseteq Queued
    BY <1>3 DEF Queued
  <2> QED BY <1>3, <2>1 DEF IInv, OnceInQueue, HoldIsFresh, StopLoop, workerVars, taskVars
<1>6. SingleWorker' /\ StopMeansClosed' /\ HoldersAreAlive' /\ StartOrCancel'
  BY DEF IInv, SingleWorker, StopMeansClosed, HoldersAreAlive, StartOrCancel, StopLoop,
     workerVars, taskVars
<1>7. WaitersHaveTasks'
  BY DEF IInv, TypeOK, WaitersHaveTasks, StopLoop
<1> QED BY <1>4, <1>5, <1>6, <1>7 DEF IInv

LEMMA GetTaskInv ==
  ASSUME IInv, NEW w \in Worker, GetTask(w)
  PROVE  IInv'
<1>1. queue # <<>> /\ queue \in Seq(Task \cup {Stop}) /\ queue' = Tail(queue)
  BY DEF GetTask, IInv, TypeOK
<1>2. /\ Head(queue) \in Task \cup {Stop} /\ Head(queue) = queue[1] /\ 1 \in DOMAIN queue
      /\ queue' \in Seq(Task \cup {Stop})
      /\ \A i \in DOMAIN queue' : i + 1 \in DOMAIN queue /\ queue'[i] = queue[i + 1]
      /\ \A i \in DOMAIN queue' : i \in Nat /\ i >= 1
  BY <1>1, TailKeeps
<1>3. /\ WaitersHaveTasks' /\ StartOrCancel'
      /\ UNCHANGED <<closed, worker, accepted, started>>
  BY DEF GetTask, IInv, WaitersHaveTasks, StartOrCancel, taskVars, threadVars
<1>4. StopMeansClosed'
  BY <1>2, <1>3 DEF IInv, StopMeansClosed
<1>5. OnceInQueue'
  <2>1. Queued' \subseteq Queued
    BY <1>2 DEF Queued
  <2>2. \A i, j \in DOMAIN queue' : i # j => i + 1 # j + 1
    BY <1>2
  <2> QED BY <1>2, <1>3, <2>1, <2>2 DEF IInv, OnceInQueue
<1>6. Queued' \subseteq Queued \ {Head(queue)}
  <2>1. \A i \in DOMAIN queue' : 1 # i + 1
    BY <1>2
  <2> QED BY <1>2, <2>1 DEF IInv, OnceInQueue, Queued
<1>7. CASE Head(queue) = Stop
  <2>1. closed
    BY <1>2, <1>7 DEF IInv, StopMeansClosed
  <2>2. alive' = alive \ {w} /\ UNCHANGED <<closed, worker, wpc, hold>> /\ wpc[w] = "get"
    BY <1>7 DEF GetTask, workerVars
  <2>3. TypeOK'
    BY <1>2, <2>2 DEF GetTask, IInv, TypeOK, taskVars, threadVars
  <2>4. SingleWorker' /\ HoldersAreAlive'
    BY <2>1, <2>2 DEF IInv, SingleWorker, HoldersAreAlive
  <2>5. HoldIsFresh'
    BY <1>3, <1>6, <2>2 DEF IInv, HoldIsFresh
  <2> QED BY <1>3, <1>4, <1>5, <2>3, <2>4, <2>5 DEF IInv
<1>8. CASE Head(queue) # Stop
  <2>1. Head(queue) \in Task /\ Head(queue) \in Queued
    BY <1>2, <1>8 DEF Queued
  <2>2. /\ hold' = [hold EXCEPT ![w] = Head(queue)]
        /\ wpc' = [wpc EXCEPT ![w] = "got"] /\ UNCHANGED alive /\ w \in alive
    BY <1>8 DEF GetTask
  <2>3. TypeOK'
    BY <1>2, <2>1, <2>2 DEF GetTask, IInv, TypeOK, taskVars, threadVars
  <2>4. SingleWorker'
    BY <1>3, <2>2 DEF IInv, SingleWorker
  <2>5. HoldersAreAlive'
    BY <2>1, <2>2 DEF IInv, TypeOK, HoldersAreAlive
  <2>6. HoldIsFresh'
    BY <1>3, <1>6, <2>1, <2>2 DEF IInv, TypeOK, HoldIsFresh, OnceInQueue
  <2> QED BY <1>3, <1>4, <1>5, <2>3, <2>4, <2>5, <2>6 DEF IInv
<1> QED BY <1>7, <1>8

LEMMA StartTaskInv ==
  ASSUME IInv, NEW w \in Worker, StartTask(w)
  PROVE  IInv'
<1>1. /\ hold[w] \in Task /\ hold[w] \in (1..accepted) \ (started \cup Queued)
      /\ \A v \in Worker : v # w => wpc[v] = "get"
  BY DEF StartTask, IInv, HoldersAreAlive, HoldIsFresh, SingleWorker
<1>2. /\ SingleWorker' /\ StopMeansClosed' /\ WaitersHaveTasks'
      /\ UNCHANGED <<alive, queue, hold, accepted, told>>
  BY DEF StartTask, IInv, SingleWorker, StopMeansClosed, WaitersHaveTasks, loopVars,
     threadVars
<1>3. TypeOK'
  <2>1. started' \subseteq Task /\ cancelled' \subseteq Task
    BY <1>1 DEF StartTask, IInv, TypeOK
  <2>2. wpc' \in [Worker -> {"get", "got", "run", "skip"}]
    BY DEF StartTask, IInv, TypeOK
  <2> QED BY <2>1, <2>2 DEF StartTask, IInv, TypeOK, loopVars, threadVars
<1>4. /\ started' \subseteq started \cup {hold[w]} /\ wpc'[w] # "got"
      /\ \A v \in Worker : v # w => wpc'[v] = wpc[v]
  BY DEF StartTask, IInv, TypeOK
<1>5. HoldersAreAlive'
  BY <1>1, <1>2, <1>4 DEF StartTask, IInv, HoldersAreAlive
<1>6. OnceInQueue'
  BY <1>1, <1>2, <1>4 DEF IInv, OnceInQueue, Queued
<1>7. HoldIsFresh'
  BY <1>1, <1>4 DEF HoldIsFresh
<1>8. StartOrCancel'
  <2>1. CASE MayStart(hold[w])
    BY <1>2, <2>1 DEF StartTask, MayStart, IInv, StartOrCancel
  <2>2. CASE ~MayStart(hold[w])
    BY <1>1, <1>2, <2>2 DEF StartTask, IInv, StartOrCancel
  <2> QED BY <2>1, <2>2
<1> QED BY <1>2, <1>3, <1>5, <1>6, <1>7, <1>8 DEF IInv

LEMMA FinishTaskInv ==
  ASSUME IInv, NEW w \in Worker, FinishTask(w)
  PROVE  IInv'
<1>1. hold[w] \in Task
  BY DEF FinishTask, IInv, HoldersAreAlive
<1>2. /\ UNCHANGED <<alive, queue, accepted, started, cancelled, told>>
      /\ \A v \in Worker : wpc'[v] # "get" => wpc'[v] = wpc[v] /\ hold'[v] = hold[v]
  BY DEF FinishTask, IInv, TypeOK, loopVars
<1>3. TypeOK'
  BY <1>1 DEF FinishTask, IInv, TypeOK, loopVars, threadVars
<1>4. SingleWorker' /\ StopMeansClosed' /\ WaitersHaveTasks' /\ StartOrCancel'
  BY DEF FinishTask, IInv, SingleWorker, StopMeansClosed, WaitersHaveTasks, StartOrCancel,
     loopVars, threadVars
<1>5. HoldersAreAlive'
  BY <1>2 DEF IInv, HoldersAreAlive
<1>6. OnceInQueue' /\ HoldIsFresh'
  BY <1>2 DEF IInv, OnceInQueue, HoldIsFresh, Queued
<1> QED BY <1>3, <1>4, <1>5, <1>6 DEF IInv

LEMMA NextInv == IInv /\ [Next]_vars => IInv'
<1> SUFFICES ASSUME IInv, [Next]_vars PROVE IInv'
  OBVIOUS
<1>1. ASSUME UNCHANGED vars \/ \E n \in Task : Expire(n) PROVE IInv'
  <2>1. /\ UNCHANGED <<closed, worker, alive, queue, wpc, hold, accepted, kind, started>>
        /\ UNCHANGED <<cancelled, done, pc, want, mine, told, barrier>>
    BY <1>1 DEF vars, Expire, loopVars, workerVars, taskVars, threadVars
  <2>2. OnceInQueue' /\ HoldIsFresh'
    BY <2>1, FreshKept DEF IInv
  <2>3. expired' \subseteq Task
    BY <1>1 DEF vars, Expire, taskVars, IInv, TypeOK
  <2>4. TypeOK'
    BY <2>1, <2>3 DEF IInv, TypeOK
  <2>5. SingleWorker' /\ StopMeansClosed' /\ HoldersAreAlive' /\ WaitersHaveTasks'
    BY <2>1 DEF IInv, SingleWorker, StopMeansClosed, HoldersAreAlive, WaitersHaveTasks
  <2>6. StartOrCancel'
    BY <2>1 DEF IInv, StartOrCancel
  <2> QED BY <2>2, <2>4, <2>5, <2>6 DEF IInv
<1> QED
  BY <1>1, StartWorkerInv, EnqueueInv, CallerInv, StopLoopInv, GetTaskInv, StartTaskInv,
     FinishTaskInv
  DEF Next, CallerStep, WorkerStep

LEMMA Invariance == Spec => []IInv
  BY InitIInv, NextInv, PTL DEF Spec

-----------------------------------------------------------------------------
(* The theorems.                                                            *)

\* Every operation of RuntimeLoop keeps its state well typed; in particular a
\* second worker thread is never started.
THEOREM LoopTypeCorrect == Spec => []TypeOK
<1>1. IInv => TypeOK
  BY DEF IInv
<1> QED BY <1>1, Invariance, PTL

\* call_with_deadline: a task reported as cancelled before execution never
\* runs, however the deadline, the timeout and the worker interleave.
THEOREM CancellationIsHonest == Spec => []CancelledNeverRuns
<1>1. IInv => CancelledNeverRuns
  BY DEF IInv, StartOrCancel, CancelledNeverRuns
<1> QED BY <1>1, Invariance, PTL

\* RuntimeLoop serializes: two tasks never run at once.
THEOREM TasksAreSerialized == Spec => []OneTaskAtATime
<1>1. IInv => OneTaskAtATime
  <2> SUFFICES ASSUME IInv PROVE OneTaskAtATime
    OBVIOUS
  <2> DEFINE R == {w \in Worker : wpc[w] = "run"}
  <2>1. R \subseteq {1}
    BY DEF IInv, SingleWorker, HoldersAreAlive
  <2>2. IsFiniteSet({1}) /\ Cardinality({1}) = 1
    BY FS_Singleton
  <2>3. Cardinality(R) <= 1
    BY <2>1, <2>2, FS_Subset
  <2> QED BY <2>3 DEF OneTaskAtATime
<1> QED BY <1>1, Invariance, PTL

-----------------------------------------------------------------------------
(* The shutdown barrier: nothing accepted is ever left behind.              *)

\* The _STOP is the last entry of the queue.
StopIsLast == \A i \in DOMAIN queue : queue[i] = Stop => i = Len(queue)

\* Every accepted task is over, in the queue or in a worker's hands.
Accounted ==
  \A n \in 1..accepted :
    n \in done \/ n \in Queued \/ \E w \in Worker : wpc[w] # "get" /\ hold[w] = n

\* Tasks only wait where a worker will find them.
WaitForWorker ==
  /\ alive = {} => Queued = {}
  /\ \A t \in Thread : pc[t] = "enqueue" => worker = 1

\* A joiner watches the only worker there will ever be.
JoinersWatch ==
  /\ \A t \in Thread : pc[t] = "joining" => closed /\ mine[t] = worker
  /\ barrier => closed /\ alive = {}

DrainInv == StopIsLast /\ Accounted /\ WaitForWorker /\ JoinersWatch

LEMMA DrainInit == Init => DrainInv
  BY DEF Init, DrainInv, StopIsLast, Accounted, WaitForWorker, JoinersWatch, Queued

LEMMA DrainStart ==
  ASSUME IInv, DrainInv, NEW t \in Thread, NEW k \in Kind, StartWorker(t, k)
  PROVE  DrainInv'
<1>1. UNCHANGED <<closed, queue, wpc, hold, accepted, done, mine, barrier>> /\ ~closed
  BY DEF StartWorker, workerVars, taskVars
<1>2. worker' = 1 /\ alive' # {}
  <2>1. CASE worker \in alive
    BY <2>1 DEF StartWorker, NeedsWorker, IInv, SingleWorker
  <2>2. CASE worker \notin alive
    BY <2>2 DEF StartWorker, NeedsWorker, IInv, SingleWorker
  <2> QED BY <2>1, <2>2
<1>3. StopIsLast' /\ Accounted'
  BY <1>1 DEF DrainInv, StopIsLast, Accounted, Queued
<1>4. WaitForWorker'
  BY <1>2 DEF WaitForWorker
<1>5. JoinersWatch'
  <2>1. \A u \in Thread : pc'[u] # "joining"
    BY <1>1 DEF StartWorker, IInv, TypeOK, DrainInv, JoinersWatch
  <2> QED BY <1>1, <2>1 DEF DrainInv, JoinersWatch
<1> QED BY <1>3, <1>4, <1>5 DEF DrainInv

LEMMA DrainEnqueue ==
  ASSUME IInv, DrainInv, NEW t \in Thread, Enqueue(t)
  PROVE  DrainInv'
<1>1. UNCHANGED <<closed, worker, alive, wpc, hold, done, barrier>> /\ pc[t] = "enqueue"
  BY DEF Enqueue, loopVars, workerVars
<1>2. /\ \A u \in Thread : pc'[u] = "enqueue" => pc[u] = "enqueue"
      /\ \A u \in Thread : pc'[u] = "joining" => pc[u] = "joining" /\ mine'[u] = mine[u]
  BY DEF Enqueue, IInv, TypeOK
<1>3. JoinersWatch'
  BY <1>1, <1>2 DEF DrainInv, JoinersWatch
<1>4. CASE StillOpen /\ accepted < MaxTask
  <2> DEFINE n == accepted + 1
  <2>1. /\ queue' = Append(queue, n) /\ queue \in Seq(Task \cup {Stop}) /\ n \in Task
        /\ accepted' = n /\ n # Stop /\ 1..n = (1..accepted) \cup {n}
    BY <1>4, ConstantsAssumption DEF IInv, TypeOK, Enqueue, Task
  <2>2. \A i \in DOMAIN queue : queue[i] # Stop
    BY <1>4 DEF IInv, StopMeansClosed, StillOpen
  <2> HIDE DEF n
  <2>3. /\ \A i \in DOMAIN queue' : (i \in DOMAIN queue /\ queue'[i] = queue[i])
                                      \/ queue'[i] = n
        /\ \A i \in DOMAIN queue : i \in DOMAIN queue' /\ queue'[i] = queue[i]
        /\ Len(queue') \in DOMAIN queue' /\ queue'[Len(queue')] = n
    BY <2>1
  <2>4. StopIsLast'
    BY <2>1, <2>2, <2>3 DEF StopIsLast
  <2>5. Queued \subseteq Queued' /\ n \in Queued'
    BY <2>1, <2>3 DEF Queued
  <2>6. Accounted'
    BY <1>1, <2>1, <2>5 DEF DrainInv, Accounted
  <2>7. alive # {}
    BY <1>1, <1>4 DEF IInv, SingleWorker, DrainInv, WaitForWorker, StillOpen
  <2>8. WaitForWorker'
    BY <1>1, <1>2, <2>7 DEF DrainInv, WaitForWorker
  <2> QED BY <1>3, <2>4, <2>6, <2>8 DEF DrainInv
<1>5. CASE ~(StillOpen /\ accepted < MaxTask)
  <2>1. UNCHANGED <<accepted, queue>>
    BY <1>5 DEF Enqueue
  <2>2. StopIsLast' /\ Accounted' /\ WaitForWorker'
    BY <1>1, <1>2, <2>1 DEF DrainInv, StopIsLast, Accounted, WaitForWorker, Queued
  <2> QED BY <1>3, <2>2 DEF DrainInv
<1> QED BY <1>4, <1>5

LEMMA DrainCaller ==
  ASSUME IInv, DrainInv, NEW t \in Thread,
         CallReturns(t) \/ WaitTimesOut(t) \/ RaiseTimeout(t) \/ StopReturns(t)
           \/ StopTimesOut(t)
  PROVE  DrainInv'
<1>1. /\ UNCHANGED <<closed, worker, alive, queue, wpc, hold, accepted, done, mine>>
      /\ \A u \in Thread : pc'[u] \in {"enqueue", "joining"} => pc'[u] = pc[u]
  BY DEF IInv, TypeOK, CallReturns, WaitTimesOut, RaiseTimeout, StopReturns, StopTimesOut,
     loopVars, workerVars, taskVars
<1>2. barrier' => closed /\ alive = {}
  <2>1. CASE StopReturns(t)
    <3>1. closed /\ worker \notin alive
      BY <2>1 DEF StopReturns, WorkerExited, DrainInv, JoinersWatch
    <3> QED BY <3>1 DEF IInv, SingleWorker
  <2>2. CASE ~StopReturns(t)
    BY <2>2 DEF DrainInv, JoinersWatch, CallReturns, WaitTimesOut, RaiseTimeout,
       StopTimesOut
  <2> QED BY <2>1, <2>2
<1>3. StopIsLast' /\ Accounted' /\ WaitForWorker'
  BY <1>1 DEF DrainInv, StopIsLast, Accounted, WaitForWorker, Queued
<1>4. JoinersWatch'
  BY <1>1, <1>2 DEF DrainInv, JoinersWatch
<1> QED BY <1>3, <1>4 DEF DrainInv

LEMMA DrainStop ==
  ASSUME IInv, DrainInv, NEW t \in Thread, StopLoop(t)
  PROVE  DrainInv'
<1>1. UNCHANGED <<worker, alive, wpc, hold, accepted, done, barrier>> /\ closed'
  BY DEF StopLoop, workerVars, taskVars
<1>2. queue \in Seq(Task \cup {Stop})
  BY DEF IInv, TypeOK
<1>3. StopIsLast' /\ Queued' = Queued
  <2>1. CASE closed
    BY <2>1 DEF StopLoop, DrainInv, StopIsLast, Queued
  <2>2. CASE ~closed
    <3>1. queue' = Append(queue, Stop) /\ \A i \in DOMAIN queue : queue[i] # Stop
      BY <2>2 DEF StopLoop, IInv, StopMeansClosed
    <3>2. /\ \A i \in DOMAIN queue' :
               (i \in DOMAIN queue /\ queue'[i] = queue[i])
                 \/ (i = Len(queue') /\ queue'[i] = Stop)
          /\ \A i \in DOMAIN queue : i \in DOMAIN queue' /\ queue'[i] = queue[i]
      BY <1>2, <3>1
    <3> QED BY <3>1, <3>2 DEF StopIsLast, Queued
  <2> QED BY <2>1, <2>2
<1>4. Accounted'
  BY <1>1, <1>3 DEF DrainInv, Accounted
<1>5. WaitForWorker' /\ JoinersWatch'
  BY <1>1, <1>3 DEF StopLoop, IInv, TypeOK, DrainInv, WaitForWorker, JoinersWatch
<1> QED BY <1>3, <1>4, <1>5 DEF DrainInv

LEMMA DrainGet ==
  ASSUME IInv, DrainInv, NEW w \in Worker, GetTask(w)
  PROVE  DrainInv'
<1>1. /\ UNCHANGED <<closed, worker, accepted, done, pc, mine, barrier>>
      /\ w \in alive /\ wpc[w] = "get"
  BY DEF GetTask, taskVars, threadVars
<1>2. queue # <<>> /\ queue \in Seq(Task \cup {Stop}) /\ queue' = Tail(queue)
  BY DEF GetTask, IInv, TypeOK
<1>3. /\ \A i \in DOMAIN queue' : i + 1 \in DOMAIN queue /\ queue'[i] = queue[i + 1]
      /\ \A i \in DOMAIN queue : i # 1 => i - 1 \in DOMAIN queue' /\ queue'[i - 1] = queue[i]
      /\ Head(queue) = queue[1] /\ 1 \in DOMAIN queue /\ Len(queue') = Len(queue) - 1
      /\ Len(queue) \in Nat /\ DOMAIN queue = 1..Len(queue)
      /\ DOMAIN queue' = 1..Len(queue')
  BY <1>2
<1>4. StopIsLast'
  <2>1. ASSUME NEW i \in DOMAIN queue', queue'[i] = Stop PROVE i = Len(queue')
    <3>1. i + 1 = Len(queue)
      BY <1>3, <2>1 DEF DrainInv, StopIsLast
    <3> QED BY <1>3, <2>1, <3>1
  <2> QED BY <2>1 DEF StopIsLast
<1>5. Queued \subseteq Queued' \cup {Head(queue)}
  BY <1>3 DEF Queued
<1>6. CASE Head(queue) = Stop
  <2>1. alive' = alive \ {w} /\ UNCHANGED <<wpc, hold>>
    BY <1>6 DEF GetTask, workerVars
  <2>2. Len(queue) = 1
    BY <1>3, <1>6 DEF DrainInv, StopIsLast
  <2>3. Queued' = {} /\ Queued = {}
    BY <1>3, <1>6, <2>2 DEF Queued
  <2>4. Accounted' /\ WaitForWorker'
    BY <1>1, <2>1, <2>3 DEF DrainInv, Accounted, WaitForWorker
  <2>5. JoinersWatch'
    BY <1>1, <2>1 DEF DrainInv, JoinersWatch
  <2> QED BY <1>4, <2>4, <2>5 DEF DrainInv
<1>7. CASE Head(queue) # Stop
  <2>1. /\ hold' = [hold EXCEPT ![w] = Head(queue)] /\ wpc' = [wpc EXCEPT ![w] = "got"]
        /\ UNCHANGED alive
    BY <1>7 DEF GetTask
  <2>2. /\ wpc'[w] # "get" /\ hold'[w] = Head(queue)
        /\ \A v \in Worker : wpc[v] # "get" => wpc'[v] # "get" /\ hold'[v] = hold[v]
    BY <1>1, <2>1 DEF IInv, TypeOK
  <2>3. Accounted'
    BY <1>1, <1>5, <2>2 DEF DrainInv, Accounted
  <2>4. WaitForWorker' /\ JoinersWatch'
    BY <1>1, <2>1 DEF DrainInv, WaitForWorker, JoinersWatch
  <2> QED BY <1>4, <2>3, <2>4 DEF DrainInv
<1> QED BY <1>6, <1>7

LEMMA DrainRun ==
  ASSUME IInv, DrainInv, NEW w \in Worker, StartTask(w) \/ FinishTask(w)
  PROVE  DrainInv'
<1>1. /\ UNCHANGED <<closed, worker, alive, queue, accepted, pc, mine, barrier>>
      /\ done \subseteq done'
      /\ \A v \in Worker : wpc[v] # "get" =>
           (wpc'[v] # "get" /\ hold'[v] = hold[v]) \/ hold[v] \in done'
  BY DEF StartTask, FinishTask, IInv, TypeOK, loopVars, threadVars
<1>2. Accounted'
  BY <1>1 DEF DrainInv, Accounted, Queued
<1>3. StopIsLast' /\ WaitForWorker' /\ JoinersWatch'
  BY <1>1 DEF DrainInv, StopIsLast, WaitForWorker, JoinersWatch, Queued
<1> QED BY <1>2, <1>3 DEF DrainInv

LEMMA DrainInvariance == Spec => []DrainInv
<1>1. ASSUME IInv, DrainInv, [Next]_vars PROVE DrainInv'
  <2>1. ASSUME UNCHANGED vars \/ \E n \in Task : Expire(n) PROVE DrainInv'
    BY <1>1, <2>1 DEF vars, Expire, loopVars, workerVars, taskVars, threadVars, DrainInv,
       StopIsLast, Accounted, WaitForWorker, JoinersWatch, Queued
  <2> QED
    BY <1>1, <2>1, DrainStart, DrainEnqueue, DrainCaller, DrainStop, DrainGet, DrainRun
    DEF Next, CallerStep, WorkerStep
<1> QED BY <1>1, DrainInit, Invariance, PTL DEF Spec

\* stop is a lifecycle barrier: once it returns, every accepted task is over
\* and the worker runs nothing, so leases may be released.
THEOREM StopDrains == Spec => []StopIsABarrier
<1>1. IInv /\ DrainInv => StopIsABarrier
  <2> SUFFICES ASSUME IInv, DrainInv, barrier PROVE StopIsABarrier
    BY DEF StopIsABarrier
  <2>1. alive = {} /\ Queued = {}
    BY DEF DrainInv, JoinersWatch, WaitForWorker
  <2>2. \A w \in Worker : wpc[w] = "get"
    BY <2>1 DEF IInv, HoldersAreAlive
  <2> QED BY <2>1, <2>2 DEF DrainInv, Accounted, StopIsABarrier
<1> QED BY <1>1, Invariance, DrainInvariance, PTL

-----------------------------------------------------------------------------
(* The refinement: RuntimeLoop implements SerialExecutor.                   *)

\* Tasks wait in the order of their acceptance, behind the one in hand.
InOrder ==
  /\ \A i, j \in DOMAIN queue : i < j /\ queue[j] # Stop => queue[i] < queue[j]
  /\ \A w \in Worker : wpc[w] # "get" => \A m \in Queued : hold[w] < m

\* What is known of the task a worker holds, and of the tasks that are over.
HeldAndOver ==
  /\ cancelled \subseteq 1..accepted /\ done \subseteq 1..accepted
  /\ done \subseteq started \cup cancelled
  /\ done \cap Queued = {}
  /\ \A w \in Worker :
       /\ wpc[w] # "get" => hold[w] \in (1..accepted) \ done
       /\ wpc[w] = "run" => hold[w] \in started
       /\ wpc[w] = "skip" => hold[w] \in cancelled

\* A caller is told about its task once, and no two callers share one.
ToldOnce ==
  /\ \A n \in Task : n > accepted => told[n] = "nothing"
  /\ \A t \in Thread : pc[t] \in {"waiting", "timedout"} =>
       mine[t] \in 1..accepted /\ told[mine[t]] = "nothing"
  /\ \A t, u \in Thread :
       t # u /\ pc[t] \in {"waiting", "timedout"} /\ pc[u] \in {"waiting", "timedout"}
         => mine[t] # mine[u]

OrderInv == InOrder /\ HeldAndOver /\ ToldOnce

LEMMA OrderInit == Init => OrderInv
<1> SUFFICES ASSUME Init PROVE OrderInv
  OBVIOUS
<1>1. DOMAIN queue = {} /\ Queued = {}
  BY DEF Init, Queued
<1> QED BY <1>1 DEF Init, OrderInv, InOrder, HeldAndOver, ToldOnce

\* What a step that neither enqueues nor works on a task preserves.
LEMMA OrderKept ==
  ASSUME InOrder, HeldAndOver,
         UNCHANGED <<queue, wpc, hold, accepted, started, cancelled, done>>
  PROVE  InOrder' /\ HeldAndOver'
  BY DEF InOrder, HeldAndOver, Queued

LEMMA OrderStart ==
  ASSUME IInv, OrderInv, NEW t \in Thread,
         StopLoop(t) \/ \E k \in Kind : StartWorker(t, k)
  PROVE  OrderInv'
<1>1. /\ UNCHANGED <<wpc, hold, accepted, started, cancelled, done, told>>
      /\ \A u \in Thread : pc'[u] \in {"waiting", "timedout"} =>
                             pc'[u] = pc[u] /\ mine'[u] = mine[u]
  BY DEF StopLoop, StartWorker, IInv, TypeOK, workerVars, taskVars
<1>2. ToldOnce'
  BY <1>1 DEF OrderInv, ToldOnce
<1>3. queue \in Seq(Task \cup {Stop})
  BY DEF IInv, TypeOK
<1>4. \/ UNCHANGED queue
      \/ /\ queue' = Append(queue, Stop)
         /\ \A i \in DOMAIN queue' :
               (i \in DOMAIN queue /\ queue'[i] = queue[i])
                 \/ (i = Len(queue) + 1 /\ queue'[i] = Stop)
         /\ \A i \in DOMAIN queue : i < Len(queue) + 1
         /\ DOMAIN queue' \subseteq Nat
  BY <1>3 DEF StopLoop, StartWorker
<1>5. Queued' \subseteq Queued
  BY <1>4 DEF Queued
<1>6. InOrder'
  <2>1. ASSUME NEW i \in DOMAIN queue', NEW j \in DOMAIN queue', i < j, queue'[j] # Stop
        PROVE  queue'[i] < queue'[j]
    BY <1>3, <1>4, <2>1 DEF OrderInv, InOrder
  <2>2. \A w \in Worker : wpc'[w] # "get" => \A m \in Queued' : hold'[w] < m
    BY <1>1, <1>5 DEF OrderInv, InOrder
  <2> QED BY <2>1, <2>2 DEF InOrder
<1>7. HeldAndOver'
  BY <1>1, <1>5 DEF OrderInv, HeldAndOver
<1> QED BY <1>2, <1>6, <1>7 DEF OrderInv

LEMMA OrderEnqueue ==
  ASSUME IInv, OrderInv, NEW t \in Thread, Enqueue(t)
  PROVE  OrderInv'
<1>1. UNCHANGED <<wpc, hold, started, cancelled, done, told>> /\ pc[t] = "enqueue"
  BY DEF Enqueue, workerVars
<1>2. CASE StillOpen /\ accepted < MaxTask
  <2> DEFINE n == accepted + 1
  <2>1. /\ accepted \in Nat /\ n \in Nat /\ accepted' = n /\ n \in Task
        /\ 1..n = (1..accepted) \cup {n} /\ n \notin 1..accepted
        /\ queue \in Seq(Task \cup {Stop}) /\ queue' = Append(queue, n)
        /\ mine' = [mine EXCEPT ![t] = n]
        /\ pc' = [pc EXCEPT ![t] = IF want[t] = "submit" THEN "idle" ELSE "waiting"]
    BY <1>2, ConstantsAssumption DEF IInv, TypeOK, Enqueue, Task
  <2>2. \A m \in 1..accepted : m < n
    BY <2>1
  <2>3. \A m \in Task : m > n => m > accepted
    BY <2>1 DEF Task
  <2>4. n > accepted
    BY <2>1
  <2> HIDE DEF n
  <2>5. /\ \A i \in DOMAIN queue' :
             (i \in DOMAIN queue /\ queue'[i] = queue[i])
               \/ (i = Len(queue) + 1 /\ queue'[i] = n)
        /\ \A i \in DOMAIN queue : i < Len(queue) + 1 /\ i \in Nat
        /\ Len(queue) + 1 \in Nat
    BY <2>1
  <2>6. Queued' \subseteq Queued \cup {n} /\ Queued \subseteq 1..accepted
    BY <2>5 DEF Queued, IInv, OnceInQueue
  <2>7. InOrder'
    <3>1. ASSUME NEW i \in DOMAIN queue', NEW j \in DOMAIN queue', i < j, queue'[j] # Stop
          PROVE  queue'[i] < queue'[j]
      <4>1. CASE j \in DOMAIN queue /\ queue'[j] = queue[j]
        <5>1. i \in DOMAIN queue /\ queue'[i] = queue[i]
          BY <2>5, <3>1, <4>1
        <5> QED BY <3>1, <4>1, <5>1 DEF OrderInv, InOrder
      <4>2. CASE j = Len(queue) + 1 /\ queue'[j] = n
        <5>1. i \in DOMAIN queue /\ queue'[i] = queue[i]
          BY <2>5, <3>1, <4>2
        <5>2. queue[i] \in 1..accepted
          <6>1. queue[i] # Stop
            BY <1>2, <5>1 DEF IInv, StopMeansClosed, StillOpen
          <6> QED BY <2>6, <5>1, <6>1 DEF Queued
        <5> QED BY <2>2, <4>2, <5>1, <5>2
      <4> QED BY <2>5, <4>1, <4>2
    <3>2. ASSUME NEW w \in Worker, wpc'[w] # "get", NEW m \in Queued' PROVE hold'[w] < m
      <4>1. hold[w] \in 1..accepted
        BY <1>1, <3>2 DEF OrderInv, HeldAndOver
      <4> QED BY <1>1, <2>2, <2>6, <3>2, <4>1 DEF OrderInv, InOrder
    <3> QED BY <3>1, <3>2 DEF InOrder
  <2>8. HeldAndOver'
    BY <1>1, <2>1, <2>6 DEF OrderInv, HeldAndOver
  <2>9. ToldOnce'
    <3>1. \A m \in Task : m > accepted' => told'[m] = "nothing"
      BY <1>1, <2>1, <2>3 DEF OrderInv, ToldOnce
    <3>2. /\ mine'[t] = n /\ told'[n] = "nothing"
          /\ \A u \in Thread \ {t} : pc'[u] = pc[u] /\ mine'[u] = mine[u]
      BY <1>1, <2>1, <2>4 DEF IInv, TypeOK, OrderInv, ToldOnce
    <3>3. \A u \in Thread \ {t} : pc'[u] \in {"waiting", "timedout"} =>
            /\ mine'[u] \in 1..accepted /\ mine'[u] # n
            /\ told'[mine'[u]] = "nothing"
      BY <1>1, <2>1, <3>2 DEF OrderInv, ToldOnce
    <3>4. \A u \in Thread : pc'[u] \in {"waiting", "timedout"} =>
            mine'[u] \in 1..accepted' /\ told'[mine'[u]] = "nothing"
      BY <2>1, <3>2, <3>3
    <3>5. \A u, v \in Thread :
            u # v /\ pc'[u] \in {"waiting", "timedout"}
              /\ pc'[v] \in {"waiting", "timedout"} => mine'[u] # mine'[v]
      BY <3>2, <3>3 DEF OrderInv, ToldOnce
    <3> QED BY <3>1, <3>4, <3>5 DEF ToldOnce
  <2> QED BY <2>7, <2>8, <2>9 DEF OrderInv
<1>3. CASE ~(StillOpen /\ accepted < MaxTask)
  <2>1. UNCHANGED <<accepted, queue, mine>> /\ pc' = [pc EXCEPT ![t] = "idle"]
    BY <1>3 DEF Enqueue
  <2>2. InOrder' /\ HeldAndOver'
    BY <1>1, <2>1, OrderKept DEF OrderInv
  <2>3. ToldOnce'
    BY <1>1, <2>1 DEF IInv, TypeOK, OrderInv, ToldOnce
  <2> QED BY <2>2, <2>3 DEF OrderInv
<1> QED BY <1>2, <1>3

LEMMA OrderCaller ==
  ASSUME IInv, OrderInv, NEW t \in Thread,
         CallReturns(t) \/ WaitTimesOut(t) \/ RaiseTimeout(t) \/ StopReturns(t)
           \/ StopTimesOut(t)
  PROVE  OrderInv'
<1>1. /\ UNCHANGED <<queue, wpc, hold, accepted, started, done, mine>>
      /\ pc'[t] \in {"idle", "timedout"}
      /\ pc'[t] = "timedout" => pc[t] = "waiting" /\ UNCHANGED told
      /\ \A u \in Thread \ {t} : pc'[u] = pc[u]
  BY DEF IInv, TypeOK, CallReturns, WaitTimesOut, RaiseTimeout, StopReturns, StopTimesOut,
     workerVars, taskVars
<1>2. \/ UNCHANGED <<cancelled, told>>
      \/ /\ pc[t] \in {"waiting", "timedout"}
         /\ cancelled' \in {cancelled, cancelled \cup {mine[t]}}
         /\ \E x : told' = [told EXCEPT ![mine[t]] = x]
  BY DEF CallReturns, WaitTimesOut, RaiseTimeout, StopReturns, StopTimesOut, taskVars
<1>3. InOrder'
  BY <1>1 DEF OrderInv, InOrder, Queued
<1>4. HeldAndOver'
  <2>1. cancelled \subseteq cancelled' /\ cancelled' \subseteq 1..accepted
    BY <1>2 DEF OrderInv, HeldAndOver, ToldOnce
  <2> QED BY <1>1, <2>1 DEF OrderInv, HeldAndOver, Queued
<1>5. ToldOnce'
  <2>1. CASE UNCHANGED told
    BY <1>1, <2>1 DEF OrderInv, ToldOnce
  <2>2. CASE ~UNCHANGED told
    <3>1. /\ pc[t] \in {"waiting", "timedout"} /\ mine[t] \in 1..accepted
          /\ \A n \in Task : n # mine[t] => told'[n] = told[n]
          /\ pc'[t] = "idle"
      BY <1>1, <1>2, <2>2 DEF IInv, TypeOK, OrderInv, ToldOnce
    <3>2. \A n \in Task : n > accepted' => told'[n] = "nothing"
      <4>1. \A n \in Task : n > accepted => n # mine[t]
        BY <3>1 DEF IInv, TypeOK, Task
      <4> QED BY <1>1, <3>1, <4>1 DEF OrderInv, ToldOnce
    <3>3. \A u \in Thread : pc'[u] \in {"waiting", "timedout"} =>
            /\ u # t /\ pc[u] \in {"waiting", "timedout"} /\ mine[u] # mine[t]
            /\ mine[u] \in Task
      BY <1>1, <3>1 DEF OrderInv, ToldOnce, IInv, WaitersHaveTasks
    <3> QED BY <1>1, <3>1, <3>2, <3>3 DEF OrderInv, ToldOnce
  <2> QED BY <2>1, <2>2
<1> QED BY <1>3, <1>4, <1>5 DEF OrderInv

LEMMA OrderGet ==
  ASSUME IInv, OrderInv, NEW w \in Worker, GetTask(w)
  PROVE  OrderInv'
<1>1. /\ UNCHANGED <<accepted, started, cancelled, done, pc, mine, told>>
      /\ w \in alive /\ wpc[w] = "get" /\ queue # <<>> /\ queue' = Tail(queue)
      /\ queue \in Seq(Task \cup {Stop})
  BY DEF GetTask, taskVars, threadVars, IInv, TypeOK
<1>2. /\ \A i \in DOMAIN queue' : i + 1 \in DOMAIN queue /\ queue'[i] = queue[i + 1]
      /\ Head(queue) = queue[1] /\ 1 \in DOMAIN queue
      /\ \A i \in DOMAIN queue' : i \in Nat /\ 1 < i + 1
  BY <1>1
<1>3. ToldOnce'
  BY <1>1 DEF OrderInv, ToldOnce
<1>4. Queued' \subseteq Queued
  BY <1>2 DEF Queued
<1>5. \A i, j \in DOMAIN queue' : i < j /\ queue'[j] # Stop => queue'[i] < queue'[j]
  <2>1. \A i, j \in DOMAIN queue' : i < j => i + 1 < j + 1
    BY <1>2
  <2> QED BY <1>2, <2>1 DEF OrderInv, InOrder
<1>6. CASE Head(queue) = Stop
  <2>1. UNCHANGED <<wpc, hold>>
    BY <1>6 DEF GetTask, workerVars
  <2> QED BY <1>1, <1>3, <1>4, <1>5, <2>1 DEF OrderInv, InOrder, HeldAndOver
<1>7. CASE Head(queue) # Stop
  <2>1. hold' = [hold EXCEPT ![w] = Head(queue)] /\ wpc' = [wpc EXCEPT ![w] = "got"]
    BY <1>7 DEF GetTask
  <2>2. /\ wpc'[w] = "got" /\ hold'[w] = Head(queue)
        /\ \A v \in Worker \ {w} : wpc'[v] = wpc[v] /\ hold'[v] = hold[v]
    BY <2>1 DEF IInv, TypeOK
  <2>3. Head(queue) \in Queued
    BY <1>2, <1>7 DEF Queued
  <2>4. \A m \in Queued' : Head(queue) < m
    BY <1>2 DEF OrderInv, InOrder, Queued
  <2>5. InOrder'
    BY <1>4, <1>5, <2>2, <2>4 DEF OrderInv, InOrder
  <2>6. HeldAndOver'
    BY <1>1, <1>4, <2>2, <2>3 DEF OrderInv, HeldAndOver, IInv, OnceInQueue
  <2> QED BY <1>3, <2>5, <2>6 DEF OrderInv
<1> QED BY <1>6, <1>7

LEMMA OrderRun ==
  ASSUME IInv, OrderInv, NEW w \in Worker, StartTask(w) \/ FinishTask(w)
  PROVE  OrderInv'
<1>1. /\ UNCHANGED <<queue, accepted, pc, mine, told>> /\ wpc[w] # "get"
      /\ \A v \in Worker \ {w} : wpc'[v] = wpc[v] /\ hold'[v] = hold[v] /\ wpc[v] = "get"
  BY DEF StartTask, FinishTask, IInv, TypeOK, HoldersAreAlive, SingleWorker, threadVars
<1>2. ToldOnce'
  BY <1>1 DEF OrderInv, ToldOnce
<1>3. hold[w] \in (1..accepted) \ done
  BY <1>1 DEF OrderInv, HeldAndOver
<1>4. InOrder'
  BY <1>1 DEF StartTask, FinishTask, IInv, TypeOK, OrderInv, InOrder, Queued
<1>5. CASE StartTask(w)
  <2>1. /\ UNCHANGED <<hold, done>>
        /\ \/ /\ wpc'[w] = "run" /\ started' = started \cup {hold[w]} /\ UNCHANGED cancelled
           \/ /\ wpc'[w] = "skip" /\ cancelled' = cancelled \cup {hold[w]}
              /\ UNCHANGED started
    BY <1>5 DEF StartTask, IInv, TypeOK
  <2>2. HeldAndOver'
    BY <1>1, <1>3, <2>1 DEF OrderInv, HeldAndOver, Queued
  <2> QED BY <1>2, <1>4, <2>2 DEF OrderInv
<1>6. CASE FinishTask(w)
  <2>1. /\ UNCHANGED <<started, cancelled>> /\ done' = done \cup {hold[w]}
        /\ wpc'[w] = "get" /\ hold[w] \in started \cup cancelled
    BY <1>6 DEF FinishTask, IInv, TypeOK, OrderInv, HeldAndOver
  <2>2. hold[w] \notin Queued
    <3>1. \A m \in Queued : hold[w] < m /\ m \in Nat
      BY <1>1 DEF OrderInv, InOrder, IInv, OnceInQueue
    <3>2. hold[w] \in Nat
      BY <1>3
    <3> QED BY <3>1, <3>2
  <2>3. HeldAndOver'
    BY <1>1, <1>3, <2>1, <2>2 DEF OrderInv, HeldAndOver, Queued
  <2> QED BY <1>2, <1>4, <2>3 DEF OrderInv
<1> QED BY <1>5, <1>6

LEMMA OrderInvariance == Spec => []OrderInv
<1>1. ASSUME IInv, OrderInv, [Next]_vars PROVE OrderInv'
  <2>1. ASSUME UNCHANGED vars \/ \E n \in Task : Expire(n) PROVE OrderInv'
    <3>1. /\ UNCHANGED <<queue, wpc, hold, accepted, started, cancelled, done>>
          /\ UNCHANGED <<pc, mine, told>>
      BY <2>1 DEF vars, Expire, workerVars, taskVars, threadVars
    <3>2. InOrder' /\ HeldAndOver'
      BY <1>1, <3>1, OrderKept DEF OrderInv
    <3>3. ToldOnce'
      BY <1>1, <3>1 DEF OrderInv, ToldOnce
    <3> QED BY <3>2, <3>3 DEF OrderInv
  <2> QED
    BY <1>1, <2>1, OrderStart, OrderEnqueue, OrderCaller, OrderGet, OrderRun
    DEF Next, CallerStep, WorkerStep
<1> QED BY <1>1, OrderInit, Invariance, PTL DEF Spec

\* The task states of the executor, as RuntimeLoop's task fields give them.
Fate == [n \in Task |-> FateOf(n)]

\* A step that leaves the task fields, the answers, _closed and the barrier
\* alone is a stutter of the executor.
LEMMA SerialStutter ==
  ASSUME UNCHANGED <<accepted, started, cancelled, done, told, closed, barrier>>
  PROVE  UNCHANGED Serial!vars
  BY DEF Serial!vars, FateOf

\* A step that changes the fate of task n alone.
LEMMA FateChange ==
  ASSUME NEW n \in Task, NEW x,
         FateOf(n)' = x, \A m \in Task : m # n => FateOf(m)' = FateOf(m)
  PROVE  Fate' = [Fate EXCEPT ![n] = x]
  BY DEF Fate

LEMMA SimEnqueue ==
  ASSUME IInv, OrderInv, NEW t \in Thread, Enqueue(t)
  PROVE  [Serial!Next]_(Serial!vars)
<1>1. UNCHANGED <<closed, started, cancelled, done, told, barrier>>
  BY DEF Enqueue, loopVars
<1>2. CASE StillOpen /\ accepted < MaxTask
  <2>0. PICK n \in Task : n = accepted + 1
    BY <1>2, ConstantsAssumption DEF IInv, TypeOK, Task
  <2>1. n \in Task /\ accepted' = n /\ ~closed /\ n > accepted /\ ~(n > accepted')
    BY <1>2, <2>0, ConstantsAssumption DEF IInv, TypeOK, Enqueue, Task, StillOpen
  <2>2. \A m \in Task : m # n => (m > n <=> m > accepted)
    BY <2>0 DEF IInv, TypeOK, Task
  <2>3. \A m \in 1..(n - 1) : m \in Task /\ ~(m > accepted)
    BY <1>2, <2>0, ConstantsAssumption DEF IInv, TypeOK, Task
  <2>4. n \notin cancelled /\ n \notin done /\ n \notin started
    <3>1. n \notin 1..accepted
      BY <2>0 DEF IInv, TypeOK
    <3> QED BY <3>1 DEF OrderInv, HeldAndOver, IInv, OnceInQueue
  <2>5. FateOf(n)' = "pending" /\ FateOf(n) = "new"
    BY <1>1, <2>1, <2>4 DEF FateOf
  <2>6. \A m \in Task : m # n => FateOf(m)' = FateOf(m)
    BY <1>1, <2>1, <2>2 DEF FateOf
  <2>7. \A m \in 1..(n - 1) : Fate[m] # "new"
    BY <2>3 DEF Fate, FateOf
  <2>8. Fate' = [Fate EXCEPT ![n] = "pending"]
    BY <2>1, <2>5, <2>6, FateChange
  <2>9. Serial!Accept(n)
    BY <1>1, <2>1, <2>5, <2>7, <2>8 DEF Serial!Accept, Fate
  <2> QED BY <2>1, <2>9 DEF Serial!Next, Serial!Task, Task
<1>3. CASE ~(StillOpen /\ accepted < MaxTask)
  BY <1>1, <1>3, SerialStutter DEF Enqueue
<1> QED BY <1>2, <1>3

LEMMA SimCallReturns ==
  ASSUME IInv, OrderInv, NEW t \in Thread, CallReturns(t)
  PROVE  [Serial!Next]_(Serial!vars)
<1>0. PICK n \in Task : n = mine[t]
  BY DEF IInv, WaitersHaveTasks, CallReturns
<1>1. /\ n \in Task /\ n \in 1..accepted /\ n \in done /\ told[n] = "nothing"
      /\ UNCHANGED <<accepted, started, cancelled, done, closed, barrier>>
      /\ told' = [told EXCEPT ![n] = IF n \in cancelled THEN "cancelled" ELSE "result"]
  BY <1>0 DEF CallReturns, IInv, WaitersHaveTasks, OrderInv, ToldOnce, taskVars, loopVars
<1>2. ~(n > accepted)
  BY <1>1 DEF IInv, TypeOK
<1>3. FateOf(n) = IF n \in cancelled THEN "revoked" ELSE "ran"
  BY <1>1, <1>2 DEF FateOf
<1>4. Fate' = Fate
  BY <1>1 DEF Fate, FateOf
<1>5. Serial!Tell(n)
  BY <1>1, <1>3, <1>4 DEF Serial!Tell, Fate
<1> QED BY <1>1, <1>5 DEF Serial!Next, Serial!Task, Task

LEMMA SimRaiseTimeout ==
  ASSUME IInv, OrderInv, NEW t \in Thread, RaiseTimeout(t)
  PROVE  [Serial!Next]_(Serial!vars)
<1>0. PICK n \in Task : n = mine[t]
  BY DEF IInv, WaitersHaveTasks, RaiseTimeout
<1>1. /\ n \in Task /\ n \in 1..accepted /\ told[n] = "nothing"
      /\ UNCHANGED <<accepted, started, done, closed, barrier>>
      /\ \/ /\ n \in started /\ UNCHANGED cancelled
            /\ told' = [told EXCEPT ![n] = "may_still_run"]
         \/ /\ n \notin started /\ cancelled' = cancelled \cup {n}
            /\ told' = [told EXCEPT ![n] = "cancelled"]
  BY <1>0 DEF RaiseTimeout, IInv, WaitersHaveTasks, OrderInv, ToldOnce, loopVars
<1>2. ~(n > accepted)
  BY <1>1 DEF IInv, TypeOK
<1>3. CASE n \in started
  <2>1. Fate' = Fate
    BY <1>1, <1>3 DEF Fate, FateOf
  <2>2. FateOf(n) \in {"running", "ran"}
    BY <1>1, <1>2, <1>3 DEF FateOf, IInv, StartOrCancel
  <2>3. Serial!Tell(n)
    BY <1>1, <1>3, <2>1, <2>2 DEF Serial!Tell, Fate
  <2> QED BY <1>1, <2>3 DEF Serial!Next, Serial!Task, Task
<1>4. CASE n \notin started /\ n \in cancelled
  <2>1. Fate' = Fate
    <3>1. cancelled' = cancelled
      BY <1>1, <1>4
    <3> QED BY <1>1, <3>1 DEF Fate, FateOf
  <2>2. FateOf(n) = "revoked"
    BY <1>2, <1>4 DEF FateOf
  <2>3. Serial!Tell(n)
    BY <1>1, <1>4, <2>1, <2>2 DEF Serial!Tell, Fate
  <2> QED BY <1>1, <2>3 DEF Serial!Next, Serial!Task, Task
<1>5. CASE n \notin started /\ n \notin cancelled
  <2>1. n \notin done
    BY <1>5 DEF OrderInv, HeldAndOver
  <2>2. FateOf(n) = "pending" /\ FateOf(n)' = "revoked"
    BY <1>1, <1>2, <1>5, <2>1 DEF FateOf
  <2>3. \A m \in Task : m # n => FateOf(m)' = FateOf(m)
    BY <1>1, <1>5 DEF FateOf
  <2>4. Fate' = [Fate EXCEPT ![n] = "revoked"]
    BY <1>1, <2>2, <2>3, FateChange
  <2>5. Serial!Revoke(n)
    BY <1>1, <1>5, <2>2, <2>4 DEF Serial!Revoke, Fate
  <2> QED BY <1>1, <2>5 DEF Serial!Next, Serial!Task, Task
<1> QED BY <1>3, <1>4, <1>5

LEMMA SimStop ==
  ASSUME IInv, DrainInv, OrderInv, NEW t \in Thread, StopLoop(t) \/ StopReturns(t)
  PROVE  [Serial!Next]_(Serial!vars)
<1>1. UNCHANGED <<accepted, started, cancelled, done, told>>
  BY DEF StopLoop, StopReturns, taskVars
<1>2. Fate' = Fate
  BY <1>1 DEF Fate, FateOf
<1>3. CASE StopLoop(t)
  <2>1. closed' = TRUE /\ UNCHANGED barrier
    BY <1>3 DEF StopLoop
  <2>2. CASE closed
    <3>1. UNCHANGED closed
      BY <2>1, <2>2 DEF IInv, TypeOK
    <3> QED BY <1>1, <2>1, <3>1, SerialStutter
  <2>3. CASE ~closed
    <3>1. Serial!Close
      BY <1>1, <1>2, <2>1, <2>3 DEF Serial!Close, Fate
    <3> QED BY <3>1 DEF Serial!Next
  <2> QED BY <2>2, <2>3
<1>4. CASE StopReturns(t)
  <2>1. barrier' = TRUE /\ UNCHANGED closed /\ closed /\ worker \notin alive
    BY <1>4 DEF StopReturns, WorkerExited, loopVars, DrainInv, JoinersWatch
  <2>2. alive = {} /\ Queued = {}
    BY <2>1 DEF IInv, SingleWorker, DrainInv, WaitForWorker
  <2>3. \A n \in 1..accepted : n \in done
    BY <2>2 DEF DrainInv, Accounted, IInv, HoldersAreAlive
  <2>4. \A n \in Task : Fate[n] \in {"ran", "revoked", "new"}
    <3>1. \A n \in Task : n > accepted \/ n \in 1..accepted
      BY DEF IInv, TypeOK, Task
    <3> QED BY <2>3, <3>1 DEF Fate, FateOf
  <2>5. Serial!Drained
    BY <1>1, <1>2, <2>1, <2>4 DEF Serial!Drained, Serial!Over, Serial!Task, Task, Fate
  <2> QED BY <2>5 DEF Serial!Next
<1> QED BY <1>3, <1>4

LEMMA SimStartTask ==
  ASSUME IInv, DrainInv, OrderInv, NEW w \in Worker, StartTask(w)
  PROVE  [Serial!Next]_(Serial!vars)
<1>0. PICK n \in Task : n = hold[w]
  BY DEF IInv, HoldersAreAlive, StartTask
<1>1. /\ n \in Task /\ n \in 1..accepted /\ n \notin started /\ n \notin done
      /\ UNCHANGED <<accepted, done, told, closed, barrier>>
  BY <1>0 DEF StartTask, IInv, HoldersAreAlive, HoldIsFresh, OrderInv, HeldAndOver, loopVars
<1>2. ~(n > accepted)
  BY <1>1 DEF IInv, TypeOK
<1>3. CASE MayStart(n)
  <2>1. n \notin cancelled /\ started' = started \cup {n} /\ UNCHANGED cancelled
    BY <1>0, <1>3 DEF StartTask, MayStart
  <2>2. \A m \in 1..(n - 1) : m \in Task /\ FateOf(m) \in {"ran", "revoked"}
    <3> SUFFICES ASSUME NEW m \in 1..(n - 1)
                 PROVE  m \in Task /\ FateOf(m) \in {"ran", "revoked"}
      OBVIOUS
    <3>1. m \in Task /\ m \in 1..accepted /\ m < n /\ ~(m > accepted)
      BY <1>1, ConstantsAssumption DEF IInv, TypeOK, Task
    <3>2. m \notin Queued
      <4>1. \A q \in Queued : n < q /\ q \in Nat
        BY <1>0 DEF StartTask, OrderInv, InOrder, IInv, OnceInQueue
      <4> QED BY <1>1, <3>1, <4>1
    <3>3. \A v \in Worker : wpc[v] # "get" => hold[v] # m
      <4>1. \A v \in Worker : wpc[v] # "get" => v = w
        BY DEF StartTask, IInv, HoldersAreAlive, SingleWorker
      <4> QED BY <1>0, <3>1, <4>1
    <3>4. m \in done
      BY <3>1, <3>2, <3>3 DEF DrainInv, Accounted
    <3> QED BY <3>1, <3>4 DEF FateOf
  <2>3. FateOf(n) = "pending" /\ FateOf(n)' = "running"
    BY <1>1, <1>2, <2>1 DEF FateOf
  <2>4. \A m \in Task : m # n => FateOf(m)' = FateOf(m)
    BY <1>1, <2>1 DEF FateOf
  <2>5. Fate' = [Fate EXCEPT ![n] = "running"]
    BY <1>1, <2>3, <2>4, FateChange
  <2>6. Serial!Start(n)
    BY <1>1, <2>2, <2>3, <2>5 DEF Serial!Start, Serial!Over, Fate
  <2> QED BY <1>1, <2>6 DEF Serial!Next, Serial!Task, Task
<1>4. CASE ~MayStart(n)
  <2>1. cancelled' = cancelled \cup {n} /\ UNCHANGED started
    BY <1>0, <1>4 DEF StartTask
  <2>2. CASE n \in cancelled
    <3>1. UNCHANGED cancelled
      BY <2>1, <2>2
    <3> QED BY <1>1, <2>1, <3>1, SerialStutter
  <2>3. CASE n \notin cancelled
    <3>1. FateOf(n) = "pending" /\ FateOf(n)' = "revoked"
      BY <1>1, <1>2, <2>1, <2>3 DEF FateOf
    <3>2. \A m \in Task : m # n => FateOf(m)' = FateOf(m)
      BY <1>1, <2>1 DEF FateOf
    <3>3. Fate' = [Fate EXCEPT ![n] = "revoked"]
      BY <1>1, <3>1, <3>2, FateChange
    <3>4. Serial!Revoke(n)
      BY <1>1, <3>1, <3>3 DEF Serial!Revoke, Fate
    <3> QED BY <1>1, <3>4 DEF Serial!Next, Serial!Task, Task
  <2> QED BY <2>2, <2>3
<1> QED BY <1>3, <1>4

LEMMA SimFinishTask ==
  ASSUME IInv, OrderInv, NEW w \in Worker, FinishTask(w)
  PROVE  [Serial!Next]_(Serial!vars)
<1>0. PICK n \in Task : n = hold[w]
  BY DEF IInv, HoldersAreAlive, FinishTask
<1>1. /\ n \in Task /\ n \in 1..accepted /\ n \notin done /\ done' = done \cup {n}
      /\ wpc[w] = "run" => n \in started
      /\ wpc[w] = "skip" => n \in cancelled
      /\ wpc[w] \in {"run", "skip"}
      /\ UNCHANGED <<accepted, started, cancelled, told, closed, barrier>>
  BY <1>0 DEF FinishTask, IInv, HoldersAreAlive, OrderInv, HeldAndOver, loopVars
<1>2. ~(n > accepted)
  BY <1>1 DEF IInv, TypeOK
<1>3. CASE n \in cancelled
  <2>1. Fate' = Fate
    BY <1>1, <1>3 DEF Fate, FateOf
  <2> QED BY <1>1, <2>1 DEF Serial!vars, Fate
<1>4. CASE n \notin cancelled
  <2>1. n \in started
    BY <1>1, <1>4
  <2>2. FateOf(n) = "running" /\ FateOf(n)' = "ran"
    BY <1>1, <1>2, <1>4, <2>1 DEF FateOf
  <2>3. \A m \in Task : m # n => FateOf(m)' = FateOf(m)
    BY <1>1 DEF FateOf
  <2>4. Fate' = [Fate EXCEPT ![n] = "ran"]
    BY <1>1, <2>2, <2>3, FateChange
  <2>5. Serial!Finish(n)
    BY <1>1, <2>2, <2>4 DEF Serial!Finish, Fate
  <2> QED BY <1>1, <2>5 DEF Serial!Next, Serial!Task, Task
<1> QED BY <1>3, <1>4

\* RuntimeLoop, with its threads, locks, queue and clock, implements
\* SerialExecutor: accepted tasks run one at a time in acceptance order, a task
\* reported as cancelled never runs, every answer a caller gets is true, and a
\* stop that returned leaves nothing to run.
THEOREM LoopRefinesSerialExecutor == Spec => ImplementsSerialExecutor
<1>1. Init => Serial!Init
  <2> SUFFICES ASSUME Init PROVE Serial!Init
    OBVIOUS
  <2>1. \A n \in Task : n > accepted
    BY DEF Init, Task
  <2> QED BY <2>1 DEF Init, Serial!Init, Serial!Task, Task, FateOf
<1>2. ASSUME IInv, DrainInv, OrderInv, [Next]_vars PROVE [Serial!Next]_(Serial!vars)
  <2>1. ASSUME \/ UNCHANGED vars
               \/ \E n \in Task : Expire(n)
               \/ \E w \in Worker : GetTask(w)
               \/ \E t \in Thread : \/ WaitTimesOut(t) \/ StopTimesOut(t)
                                    \/ \E k \in Kind : StartWorker(t, k)
        PROVE  [Serial!Next]_(Serial!vars)
    <3>1. UNCHANGED <<accepted, started, cancelled, done, told, closed, barrier>>
      BY <2>1 DEF vars, Expire, GetTask, WaitTimesOut, StopTimesOut, StartWorker, loopVars,
         taskVars
    <3> QED BY <3>1, SerialStutter
  <2> QED
    BY <1>2, <2>1, SimEnqueue, SimCallReturns, SimRaiseTimeout, SimStop, SimStartTask,
       SimFinishTask
    DEF Next, CallerStep, WorkerStep
<1> QED
  BY <1>1, <1>2, Invariance, DrainInvariance, OrderInvariance, PTL
  DEF Spec, ImplementsSerialExecutor, Serial!Spec

\* The whole invariant of the loop: serial tasks, honest cancellation and a stop
\* that is a barrier.
THEOREM LoopSafety == Spec => []LoopInvariant
<1>1. TypeOK /\ CancelledNeverRuns /\ StopIsABarrier /\ OneTaskAtATime => LoopInvariant
  BY DEF LoopInvariant
<1> QED
  BY <1>1, LoopTypeCorrect, CancellationIsHonest, TasksAreSerialized, StopDrains, PTL

-----------------------------------------------------------------------------
(***************************************************************************)
(* Proof of LifecycleInvariant for every number of threads, receipts,      *)
(* calls, maintenance requests and port failures.                          *)
(*                                                                         *)
(* The shutdown is a list of steps that any failure may end, and that a    *)
(* later stop() walks again from the start.  That the machine authority is *)
(* only given up with everything down is therefore an argument about       *)
(* positions: whatever a pass has walked past is done, unless it failed in *)
(* the current stage (PassIsOrdered); what is done stays down              *)
(* (DoneStaysDown); and the loop, which could restart the adapter, is done *)
(* before it (DoneInOrder).                                                *)
(***************************************************************************)

OpPc == {"acquire", "activating", "draining", "shutdown", "verify"}

\* One operation at a time, and only threads start or stop the service.
OwnerOperates ==
  /\ \A a \in Actor : at[a] \in OpPc <=> opOwner = a
  /\ \A t \in Threads : at[t] \notin {"verify", "want_prepare", "want_cancel"}
  /\ at[Loop] \in {"idle", "want_prepare", "want_cancel", "verify"}

\* Each part of an operation belongs to one phase.
OperationMatchesPhase ==
  \A t \in Threads :
    /\ at[t] = "acquire" => phase = "assembled"
    /\ at[t] = "activating" => phase = "lease_acquired" /\ pos >= 1
    /\ at[t] \in {"draining", "shutdown"} => phase = "stopping" /\ ~maintenance
    /\ at[t] = "shutdown" => pos >= 1 /\ Active = {}

\* What each phase guarantees.
PhaseFacts ==
  /\ phase \in {"assembled", "lease_acquired", "active"} => completed = {}
  /\ phase \in {"assembled", "closed"} => ~authority
  /\ phase \in {"lease_acquired", "active"} => authority
  /\ phase \in {"assembled", "lease_acquired", "closed"} => Active = {}
  /\ maintenance => phase = "stopping" /\ authority /\ completed = {}
  /\ completed # {} => Active = {}
  /\ ~authority => up = {} /\ Active = {}

\* A step that was walked past is done, unless it failed in the stage of the
\* Web, control and frontend steps that the pass is still in.
Settled(i) == ShutdownSteps[i] \in Resource => ShutdownSteps[i] \in completed

PassIsOrdered ==
  \A t \in Threads : at[t] = "shutdown" =>
    \A i \in 1..14 : i < pos => Settled(i) \/ (failed /\ i \in 3..10)

DoneStaysDown == completed \cap up = {}

DoneInOrder ==
  /\ "frontend_timers" \in completed => "execution_recovery_worker" \in completed
  /\ "adapter" \in completed => "runtime_loop" \in completed

LifecycleInd ==
  /\ LifecycleTypeOK
  /\ OwnerOperates
  /\ OperationMatchesPhase
  /\ PhaseFacts
  /\ PassIsOrdered
  /\ DoneStaysDown
  /\ DoneInOrder

-----------------------------------------------------------------------------
(* The two lists of steps.                                                  *)

LEMMA StepList ==
  /\ Len(ShutdownSteps) = 14 /\ Len(ActivationSteps) = 11
  /\ \A i \in 1..14 : ShutdownSteps[i] \in StageEnds <=> i \notin 3..10
  /\ \A i \in 1..14 : ShutdownSteps[i] = "machine_authority" <=> i = 14
  /\ \A i \in 1..14 : ShutdownSteps[i] = "adapter" <=> i = 13
  /\ \A i \in 1..14 : ShutdownSteps[i] = "frontend_timers" <=> i = 3
  /\ ShutdownSteps[2] = "execution_recovery_worker" /\ ShutdownSteps[12] = "runtime_loop"
  /\ \A s \in Resource : \E i \in 1..13 : ShutdownSteps[i] = s
<1>1. Len(ShutdownSteps) = 14 /\ Len(ActivationSteps) = 11
  BY DEF ShutdownSteps, ActivationSteps
<1>2. /\ ShutdownSteps[1] = "data_retention" /\ ShutdownSteps[2] = "execution_recovery_worker"
      /\ ShutdownSteps[3] = "frontend_timers" /\ ShutdownSteps[4] = "inspect_web"
      /\ ShutdownSteps[5] = "prepare_web" /\ ShutdownSteps[6] = "web_gateway"
      /\ ShutdownSteps[7] = "control_plane" /\ ShutdownSteps[8] = "server_request_runtime"
      /\ ShutdownSteps[9] = "destination_liveness_worker" /\ ShutdownSteps[10] = "card_dispatcher"
      /\ ShutdownSteps[11] = "finish_web" /\ ShutdownSteps[12] = "runtime_loop"
      /\ ShutdownSteps[13] = "adapter" /\ ShutdownSteps[14] = "machine_authority"
  BY DEF ShutdownSteps
<1>3. \A i \in 1..14 : i \in {1, 2, 3, 4, 5, 6, 7, 8, 9, 10, 11, 12, 13, 14}
  OBVIOUS
<1>4. \A i \in 1..14 : ShutdownSteps[i] \in StageEnds <=> i \notin 3..10
  BY <1>2, <1>3 DEF StageEnds
<1>5. \A i \in 1..14 : /\ ShutdownSteps[i] = "machine_authority" <=> i = 14
                       /\ ShutdownSteps[i] = "adapter" <=> i = 13
                       /\ ShutdownSteps[i] = "frontend_timers" <=> i = 3
  BY <1>2, <1>3
<1>6. \A s \in Resource : \E i \in 1..13 : ShutdownSteps[i] = s
  BY <1>2 DEF Resource
<1> QED BY <1>1, <1>2, <1>4, <1>5, <1>6

-----------------------------------------------------------------------------
(* TypeOK in two halves: the flags and everything else.                     *)

Flags ==
  /\ authority \in BOOLEAN /\ webRequired \in BOOLEAN
  /\ maintenance \in BOOLEAN /\ failed \in BOOLEAN

Step == {ShutdownSteps[i] : i \in 1..14}

Types ==
  /\ phase \in {"assembled", "lease_acquired", "active", "stopping", "closed"}
  /\ opOwner \in Actor \cup {NoThread}
  /\ at \in [Actor -> {"idle", "want_start", "acquire", "activating", "want_stop",
                       "draining", "shutdown", "want_prepare", "want_cancel", "verify"}]
  /\ receipts \in [Receipt -> [st : {"unused", "active", "gone"},
                               origin : Actor \cup {NoThread},
                               exec : Actor \cup {NoThread}]]
  /\ completed \subseteq Step
  /\ pos \in 0..14
  /\ up \subseteq Resource

Parts ==
  /\ Flags /\ Types /\ OwnerOperates /\ OperationMatchesPhase /\ PhaseFacts
  /\ PassIsOrdered /\ DoneStaysDown /\ DoneInOrder

LEMMA LifecycleParts == LifecycleInd <=> Parts
BY StepList DEF LifecycleInd, Parts, LifecycleTypeOK, Flags, Types, Step

-----------------------------------------------------------------------------
LEMMA LifecycleInitInd ==
  ASSUME LifecycleAssumption, LifecycleInit
  PROVE  LifecycleInd
<1> SUFFICES Parts
  BY LifecycleParts
<1> USE DEF LifecycleInit, LifecycleAssumption, Actor
<1>1. Flags
  BY Zenon DEF Flags
<1>2. Types
  BY DEF Types, Unused
<1>3. OwnerOperates /\ OperationMatchesPhase /\ PassIsOrdered
  BY DEF OwnerOperates, OperationMatchesPhase, PassIsOrdered, OpPc
<1>4. Active = {}
  BY DEF Active, Unused
<1>5. PhaseFacts /\ DoneStaysDown /\ DoneInOrder
  BY <1>4 DEF PhaseFacts, DoneStaysDown, DoneInOrder
<1> QED BY <1>1, <1>2, <1>3, <1>5 DEF Parts

LEMMA LifecycleIndImplies == LifecycleInd => LifecycleInvariant
<1> SUFFICES ASSUME LifecycleInd PROVE LifecycleInvariant
  OBVIOUS
<1>1. LifecycleTypeOK /\ OperationMatchesPhase /\ PhaseFacts /\ DoneStaysDown /\ DoneInOrder
  BY DEF LifecycleInd
<1>2. AuthorityCoversRuntime
  BY <1>1 DEF AuthorityCoversRuntime, PhaseFacts
<1>3. NoIngressDuringShutdown
  BY <1>1 DEF NoIngressDuringShutdown, PhaseFacts, OperationMatchesPhase, LifecycleTypeOK
<1>4. BarriersHold
  BY <1>1 DEF BarriersHold, DoneInOrder, DoneStaysDown
<1> QED BY <1>1, <1>2, <1>3, <1>4 DEF LifecycleInvariant

LEMMA CallStartInd ==
  ASSUME LifecycleAssumption, Parts, NEW t \in Threads, CallStart(t)
  PROVE  Parts'
<1> USE DEF LifecycleAssumption, Parts, Flags, Types, Actor, opVars, bounds
<1>1. Active' = Active
  BY DEF CallStart, Active
<1>2. Types'
  BY StepList DEF CallStart, Types, Gone, Unused
<1>3. OwnerOperates'
  BY DEF CallStart, OwnerOperates, OpPc
<1>4. OperationMatchesPhase'
  BY <1>1 DEF CallStart, OperationMatchesPhase, OwnerOperates, PhaseFacts, OpPc
<1>5. PassIsOrdered'
  BY DEF CallStart, PassIsOrdered, OwnerOperates, OpPc, Settled
<1>6. Flags' /\ PhaseFacts' /\ DoneStaysDown' /\ DoneInOrder'
  BY <1>1 DEF CallStart, Flags, PhaseFacts, DoneStaysDown, DoneInOrder
<1> QED BY <1>2, <1>3, <1>4, <1>5, <1>6

LEMMA StartInd ==
  ASSUME LifecycleAssumption, Parts, NEW t \in Threads, Start(t)
  PROVE  Parts'
<1> USE DEF LifecycleAssumption, Parts, Flags, Types, Actor, opVars, bounds
<1>1. Active' = Active
  BY DEF Start, Active
<1>2. Types'
  BY StepList DEF Start, Types, Gone, Unused
<1>3. OwnerOperates'
  BY DEF Start, OwnerOperates, OpPc
<1>4. OperationMatchesPhase'
  BY <1>1 DEF Start, OperationMatchesPhase, OwnerOperates, PhaseFacts, OpPc
<1>5. PassIsOrdered'
  BY DEF Start, PassIsOrdered, OwnerOperates, OpPc, Settled
<1>6. Flags' /\ PhaseFacts' /\ DoneStaysDown' /\ DoneInOrder'
  BY <1>1 DEF Start, Flags, PhaseFacts, DoneStaysDown, DoneInOrder
<1> QED BY <1>2, <1>3, <1>4, <1>5, <1>6

LEMMA AcquireServiceLeaseInd ==
  ASSUME LifecycleAssumption, Parts, NEW t \in Threads, AcquireServiceLease(t)
  PROVE  Parts'
<1> USE DEF LifecycleAssumption, Parts, Flags, Types, Actor, opVars, bounds
<1>1. Active' = Active
  BY DEF AcquireServiceLease, Active
<1>2. Flags'
  BY Zenon DEF AcquireServiceLease, Leave, MayFail, Flags
<1>3. Types'
  BY StepList DEF AcquireServiceLease, Leave, MayFail, Types, Gone, Unused
<1>4. OwnerOperates'
  BY DEF AcquireServiceLease, Leave, MayFail, OwnerOperates, OpPc
<1>5. OperationMatchesPhase'
  BY <1>1 DEF AcquireServiceLease, Leave, MayFail, OperationMatchesPhase, OwnerOperates, PhaseFacts,
       OpPc
<1>6. PhaseFacts'
  BY <1>1 DEF AcquireServiceLease, Leave, MayFail, PhaseFacts, OperationMatchesPhase
<1>7. PassIsOrdered'
  BY DEF AcquireServiceLease, Leave, MayFail, PassIsOrdered, OwnerOperates, OpPc, Settled
<1>8. DoneStaysDown' /\ DoneInOrder'
  BY <1>1 DEF AcquireServiceLease, DoneStaysDown, DoneInOrder
<1> QED BY <1>2, <1>3, <1>4, <1>5, <1>6, <1>7, <1>8

LEMMA ActivateStepInd ==
  ASSUME LifecycleAssumption, Parts, NEW t \in Threads, ActivateStep(t)
  PROVE  Parts'
<1> USE DEF LifecycleAssumption, Parts, Flags, Types, Actor, opVars, bounds
<1>1. Active' = Active
  BY DEF ActivateStep, Active
<1>2. Flags'
  BY Zenon DEF ActivateStep, MayFail, Flags
<1>3. Types'
  BY StepList DEF ActivateStep, MayFail, Types, Gone, Unused
<1>4. OwnerOperates'
  BY DEF ActivateStep, MayFail, OwnerOperates, OpPc
<1>5. OperationMatchesPhase'
  BY <1>1 DEF ActivateStep, MayFail, OperationMatchesPhase, OwnerOperates, PhaseFacts, OpPc
<1>6. PhaseFacts'
  BY <1>1 DEF ActivateStep, MayFail, PhaseFacts, OperationMatchesPhase
<1>7. PassIsOrdered'
  BY DEF ActivateStep, MayFail, PassIsOrdered, OwnerOperates, OpPc, Settled
<1>8. DoneStaysDown'
  BY DEF ActivateStep, MayFail, DoneStaysDown, PhaseFacts, OperationMatchesPhase, DoneInOrder
<1>9. DoneInOrder'
  BY <1>1 DEF ActivateStep, DoneInOrder
<1> QED BY <1>2, <1>3, <1>4, <1>5, <1>6, <1>7, <1>8, <1>9

LEMMA ActivatedInd ==
  ASSUME LifecycleAssumption, Parts, NEW t \in Threads, Activated(t)
  PROVE  Parts'
<1> USE DEF LifecycleAssumption, Parts, Flags, Types, Actor, opVars, bounds
<1>1. Active' = Active
  BY DEF Activated, Active
<1>2. Types'
  BY StepList DEF Activated, Leave, Types, Gone, Unused
<1>3. OwnerOperates'
  BY DEF Activated, Leave, OwnerOperates, OpPc
<1>4. OperationMatchesPhase'
  BY <1>1 DEF Activated, Leave, OperationMatchesPhase, OwnerOperates, PhaseFacts, OpPc
<1>5. PhaseFacts'
  BY <1>1 DEF Activated, Leave, PhaseFacts, OperationMatchesPhase
<1>6. PassIsOrdered'
  BY DEF Activated, Leave, PassIsOrdered, OwnerOperates, OpPc, Settled
<1>7. Flags' /\ DoneStaysDown' /\ DoneInOrder'
  BY <1>1 DEF Activated, Flags, DoneStaysDown, DoneInOrder
<1> QED BY <1>2, <1>3, <1>4, <1>5, <1>6, <1>7

LEMMA CallStopInd ==
  ASSUME LifecycleAssumption, Parts, NEW t \in Threads, CallStop(t)
  PROVE  Parts'
<1> USE DEF LifecycleAssumption, Parts, Flags, Types, Actor, opVars, bounds
<1>1. Active' = Active
  BY DEF CallStop, Active
<1>2. Types'
  BY StepList DEF CallStop, Types, Gone, Unused
<1>3. OwnerOperates'
  BY DEF CallStop, OwnerOperates, OpPc
<1>4. OperationMatchesPhase'
  BY <1>1 DEF CallStop, OperationMatchesPhase, OwnerOperates, PhaseFacts, OpPc
<1>5. PassIsOrdered'
  BY DEF CallStop, PassIsOrdered, OwnerOperates, OpPc, Settled
<1>6. Flags' /\ PhaseFacts' /\ DoneStaysDown' /\ DoneInOrder'
  BY <1>1 DEF CallStop, Flags, PhaseFacts, DoneStaysDown, DoneInOrder
<1> QED BY <1>2, <1>3, <1>4, <1>5, <1>6

LEMMA StopInd ==
  ASSUME LifecycleAssumption, Parts, NEW t \in Threads, StopService(t)
  PROVE  Parts'
<1> USE DEF LifecycleAssumption, Parts, Flags, Types, Actor, opVars, bounds
<1>1. Active' = Active
  BY DEF StopService, Active
<1>2. Flags'
  BY Zenon DEF StopService, Flags
<1>3. Types'
  BY StepList DEF StopService, Types, Gone, Unused
<1>4. OwnerOperates'
  BY DEF StopService, OwnerOperates, OpPc
<1>5. OperationMatchesPhase'
  BY <1>1 DEF StopService, OperationMatchesPhase, OwnerOperates, PhaseFacts, OpPc
<1>6. PhaseFacts'
  BY <1>1 DEF StopService, PhaseFacts, OperationMatchesPhase
<1>7. PassIsOrdered'
  BY DEF StopService, PassIsOrdered, OwnerOperates, OpPc, Settled
<1>8. DoneStaysDown' /\ DoneInOrder'
  BY <1>1 DEF StopService, DoneStaysDown, DoneInOrder
<1> QED BY <1>2, <1>3, <1>4, <1>5, <1>6, <1>7, <1>8

LEMMA IngressDrainedInd ==
  ASSUME LifecycleAssumption, Parts, NEW t \in Threads, IngressDrained(t)
  PROVE  Parts'
<1> USE DEF LifecycleAssumption, Parts, Flags, Types, Actor, opVars, bounds
<1>1. Active' = Active
  BY DEF IngressDrained, Active
<1>2. Flags'
  BY Zenon DEF IngressDrained, Flags
<1>3. Types'
  BY StepList DEF IngressDrained, Types, Gone, Unused
<1>4. OwnerOperates'
  BY DEF IngressDrained, OwnerOperates, OpPc
<1>5. OperationMatchesPhase'
  BY <1>1 DEF IngressDrained, OperationMatchesPhase, OwnerOperates, PhaseFacts, OpPc
<1>6. PassIsOrdered'
  BY DEF IngressDrained, PassIsOrdered, OwnerOperates, OpPc, Settled
<1>7. PhaseFacts' /\ DoneStaysDown' /\ DoneInOrder'
  BY <1>1 DEF IngressDrained, PhaseFacts, DoneStaysDown, DoneInOrder
<1> QED BY <1>2, <1>3, <1>4, <1>5, <1>6, <1>7

\* One step of a pass: it is skipped, done or fails, and then the pass goes on,
\* ends with its failure, or has reached the end of the list.
LEMMA ShutdownStepInd ==
  ASSUME LifecycleAssumption, Parts, NEW t \in Threads, ShutdownStep(t)
  PROVE  Parts'
<1> DEFINE step == ShutdownSteps[pos]
<1> USE DEF Parts
<1>1. /\ pos \in 1..14 /\ phase = "stopping" /\ ~maintenance /\ Active = {}
      /\ opOwner = t /\ at[t] = "shutdown"
  BY DEF ShutdownStep, OperationMatchesPhase, OwnerOperates, Types, OpPc, Actor
<1>2. UNCHANGED <<maintenance, receipts>> /\ Active' = Active
  BY DEF ShutdownStep, Active
<1>3. \/ completed' = completed /\ up' = up
      \/ completed' = completed \cup {step} /\ up' = up \ {step}
  BY DEF ShutdownStep
<1>4. \E bad \in BOOLEAN : /\ AfterStep(t, step, bad)
                           /\ ~bad => ~failed /\ (step \in Resource => step \in completed')
  <2>1. CASE Skipped(step) /\ AfterStep(t, step, failed) /\ UNCHANGED completed
    <3>1. step \in Resource => step \in completed'
      BY <2>1 DEF Skipped, Resource
    <3>2. failed \in BOOLEAN
      BY DEF Flags
    <3> QED BY <2>1, <3>1, <3>2
  <2>2. CASE completed' = completed \cup {step} /\ AfterStep(t, step, failed)
    BY <2>2 DEF Flags
  <2>3. CASE AfterStep(t, step, TRUE)
    BY <2>3
  <2> QED BY <2>1, <2>2, <2>3 DEF ShutdownStep
<1>5. PICK bad \in BOOLEAN : /\ AfterStep(t, step, bad)
                             /\ ~bad => ~failed /\ (step \in Resource => step \in completed')
  BY <1>4
<1>6. webRequired' \in BOOLEAN
  <2>1. CASE webRequired' = webRequired
    BY <2>1 DEF Flags
  <2>2. CASE webRequired' = (webRequired \/ (step = "inspect_web" /\ "web_gateway" \in up))
    BY <2>2
  <2>3. CASE webRequired' = (webRequired \/ step = "inspect_web")
    BY <2>3
  <2> QED BY <2>1, <2>2, <2>3 DEF ShutdownStep
<1>7. step \in Step
  BY <1>1 DEF Step
<1>8. DoneStaysDown' /\ completed' \subseteq Step /\ up' \subseteq Resource
  BY <1>3, <1>7 DEF DoneStaysDown, Types
<1>9. \A i \in 1..14 : i < pos => Settled(i) \/ (failed /\ i \in 3..10)
  BY <1>1 DEF PassIsOrdered
<1>10. DoneInOrder'
  <2>1. CASE step = "frontend_timers"
    <3>1. pos = 3
      BY <1>1, <2>1, StepList
    <3>2. Settled(2)
      BY <1>9, <3>1
    <3>3. "execution_recovery_worker" \in completed
      BY <3>2, StepList DEF Settled, Resource
    <3> QED BY <1>3, <2>1, <3>3 DEF DoneInOrder
  <2>2. CASE step = "adapter"
    <3>1. pos = 13
      BY <1>1, <2>2, StepList
    <3>2. Settled(12)
      BY <1>9, <3>1
    <3>3. "runtime_loop" \in completed
      BY <3>2, StepList DEF Settled, Resource
    <3> QED BY <1>3, <2>2, <3>3 DEF DoneInOrder
  <2>3. CASE step \notin {"frontend_timers", "adapter"}
    BY <1>3, <2>3 DEF DoneInOrder
  <2> QED BY <2>1, <2>2, <2>3
<1> HIDE DEF step
<1>11. CASE step \in StageEnds /\ bad
  <2>1. /\ opOwner' = NoThread /\ at' = [at EXCEPT ![t] = "idle"]
        /\ UNCHANGED <<phase, pos, failed, authority>>
    BY <1>5, <1>11 DEF AfterStep, Leave
  <2>2. Flags' /\ Types'
    BY <1>2, <1>6, <1>8, <2>1 DEF Flags, Types, Actor
  <2>3. OwnerOperates'
    BY <1>1, <2>1 DEF OwnerOperates, Types, OpPc, Actor, LifecycleAssumption
  <2>4. OperationMatchesPhase' /\ PassIsOrdered'
    BY <1>1, <2>1, <2>3, <1>2 DEF OwnerOperates, OperationMatchesPhase, PassIsOrdered, Types, OpPc,
         Actor,
         LifecycleAssumption
  <2>5. PhaseFacts'
    BY <1>1, <1>2, <1>3, <2>1 DEF PhaseFacts
  <2> QED BY <1>8, <1>10, <2>2, <2>3, <2>4, <2>5
<1>12. CASE ~(step \in StageEnds /\ bad) /\ step = "machine_authority"
  <2>1. /\ opOwner' = NoThread /\ at' = [at EXCEPT ![t] = "idle"]
        /\ phase' = "closed" /\ authority' = FALSE /\ UNCHANGED <<pos, failed>>
    BY <1>5, <1>12 DEF AfterStep, Leave
  <2>2. pos = 14 /\ ~bad
    BY <1>1, <1>12, StepList DEF step, StageEnds
  <2>3. \A s \in Resource : s \in completed'
    <3> SUFFICES ASSUME NEW s \in Resource PROVE s \in completed'
      OBVIOUS
    <3>1. PICK i \in 1..13 : ShutdownSteps[i] = s
      BY StepList
    <3>2. Settled(i)
      BY <1>5, <1>9, <2>2, <3>1
    <3> QED BY <1>3, <3>1, <3>2 DEF Settled
  <2>4. up' = {}
    BY <1>8, <2>3 DEF DoneStaysDown
  <2>5. Flags' /\ Types'
    BY <1>2, <1>6, <1>8, <2>1 DEF Flags, Types, Actor
  <2>6. OwnerOperates'
    BY <1>1, <2>1 DEF OwnerOperates, Types, OpPc, Actor, LifecycleAssumption
  <2>7. OperationMatchesPhase' /\ PassIsOrdered'
    BY <1>1, <2>1, <2>6, <1>2 DEF OwnerOperates, OperationMatchesPhase, PassIsOrdered, Types, OpPc,
         Actor,
         LifecycleAssumption
  <2>8. PhaseFacts'
    BY <1>1, <1>2, <2>1, <2>4 DEF PhaseFacts
  <2> QED BY <1>8, <1>10, <2>5, <2>6, <2>7, <2>8
<1>13. CASE ~(step \in StageEnds /\ bad) /\ step # "machine_authority"
  <2>1. pos' = pos + 1 /\ failed' = bad /\ UNCHANGED <<phase, at, opOwner, authority>>
    BY <1>5, <1>13 DEF AfterStep
  <2>2. pos \in 1..13 /\ (bad => pos \in 3..10)
    BY <1>1, <1>13, StepList DEF step
  <2>3. Flags' /\ Types'
    BY <1>1, <1>2, <1>6, <1>8, <2>1, <2>2 DEF Flags, Types
  <2>4. OwnerOperates' /\ PhaseFacts'
    BY <1>1, <1>2, <1>3, <2>1 DEF OwnerOperates, PhaseFacts
  <2>5. OperationMatchesPhase'
    BY <1>1, <1>2, <2>1, <2>2 DEF OperationMatchesPhase
  <2>6. ASSUME NEW i \in 1..14, i < pos' PROVE Settled(i)' \/ (failed' /\ i \in 3..10)
    <3>1. CASE i = pos /\ ~bad
      BY <1>5, <3>1 DEF Settled, step
    <3>2. CASE i = pos /\ bad
      BY <2>1, <2>2, <3>2
    <3>3. CASE i # pos /\ ~bad
      <4>1. Settled(i)
        BY <1>1, <1>5, <1>9, <2>1, <2>6, <3>3
      <4> QED BY <1>3, <4>1 DEF Settled
    <3>4. CASE i # pos /\ bad
      <4>1. Settled(i) \/ i \in 3..10
        BY <1>1, <1>9, <2>1, <2>6, <3>4
      <4>2. Settled(i) => Settled(i)'
        BY <1>3 DEF Settled
      <4> QED BY <2>1, <3>4, <4>1, <4>2
    <3> QED BY <3>1, <3>2, <3>3, <3>4
  <2>7. PassIsOrdered'
    BY <2>6 DEF PassIsOrdered
  <2> QED BY <1>8, <1>10, <2>3, <2>4, <2>5, <2>7
<1> QED BY <1>11, <1>12, <1>13

LEMMA RecoveryWorkerStartsInd ==
  ASSUME LifecycleAssumption, Parts, RecoveryWorkerStarts
  PROVE  Parts'
<1> USE DEF LifecycleAssumption, Parts, Flags, Types, Actor, opVars, bounds
<1>1. Active' = Active
  BY DEF RecoveryWorkerStarts, Active
<1>2. Types'
  BY DEF RecoveryWorkerStarts, Resource
<1>3. PhaseFacts'
  BY <1>1 DEF RecoveryWorkerStarts, PhaseFacts, OperationMatchesPhase
<1>4. DoneStaysDown'
  BY DEF RecoveryWorkerStarts, DoneStaysDown, PhaseFacts, OperationMatchesPhase, DoneInOrder
<1>5. Flags' /\ OwnerOperates' /\ OperationMatchesPhase' /\ PassIsOrdered' /\ DoneInOrder'
  BY <1>1 DEF RecoveryWorkerStarts, Flags, OwnerOperates, OperationMatchesPhase, PassIsOrdered,
       DoneInOrder, Settled
<1> QED BY <1>2, <1>3, <1>4, <1>5

LEMMA RecoveryWorkerEndsInd ==
  ASSUME LifecycleAssumption, Parts, RecoveryWorkerEnds
  PROVE  Parts'
<1> USE DEF LifecycleAssumption, Parts, Flags, Types, Actor, opVars, bounds
<1>1. Active' = Active
  BY DEF RecoveryWorkerEnds, Active
<1>2. Types'
  BY StepList DEF RecoveryWorkerEnds, Types, Gone, Unused
<1>3. PhaseFacts'
  BY <1>1 DEF RecoveryWorkerEnds, PhaseFacts, OperationMatchesPhase
<1>4. DoneStaysDown'
  BY DEF RecoveryWorkerEnds, DoneStaysDown, PhaseFacts, OperationMatchesPhase, DoneInOrder
<1>5. Flags' /\ OwnerOperates' /\ OperationMatchesPhase' /\ PassIsOrdered' /\ DoneInOrder'
  BY <1>1 DEF RecoveryWorkerEnds, Flags, OwnerOperates, OperationMatchesPhase, PassIsOrdered,
       DoneInOrder, Settled
<1> QED BY <1>2, <1>3, <1>4, <1>5

LEMMA LoopRestartsAdapterInd ==
  ASSUME LifecycleAssumption, Parts, LoopRestartsAdapter
  PROVE  Parts'
<1> USE DEF LifecycleAssumption, Parts, Flags, Types, Actor, opVars, bounds
<1>1. Active' = Active
  BY DEF LoopRestartsAdapter, Active
<1>2. Types'
  BY DEF LoopRestartsAdapter, Resource
<1>3. PhaseFacts'
  BY <1>1 DEF LoopRestartsAdapter, LoopFree, PhaseFacts, OperationMatchesPhase
<1>4. DoneStaysDown'
  BY DEF LoopRestartsAdapter, LoopFree, DoneStaysDown, PhaseFacts, OperationMatchesPhase, DoneInOrder
<1>5. Flags' /\ OwnerOperates' /\ OperationMatchesPhase' /\ PassIsOrdered' /\ DoneInOrder'
  BY <1>1 DEF LoopRestartsAdapter, Flags, OwnerOperates, OperationMatchesPhase, PassIsOrdered,
       DoneInOrder, Settled
<1> QED BY <1>2, <1>3, <1>4, <1>5

LEMMA CallMaintenanceInd ==
  ASSUME LifecycleAssumption, Parts, NEW asked \in {"want_prepare", "want_cancel"}, CallMaintenance(asked)
  PROVE  Parts'
<1> USE DEF LifecycleAssumption, Parts, Flags, Types, Actor, opVars, bounds
<1>1. Active' = Active
  BY DEF CallMaintenance, Active
<1>2. Types'
  BY StepList DEF CallMaintenance, Types, Gone, Unused
<1>3. OwnerOperates'
  BY DEF CallMaintenance, LoopFree, Free, OwnerOperates, OpPc
<1>4. OperationMatchesPhase'
  BY <1>1 DEF CallMaintenance, OperationMatchesPhase, OwnerOperates, PhaseFacts, OpPc
<1>5. PassIsOrdered'
  BY DEF CallMaintenance, PassIsOrdered, OwnerOperates, OpPc, Settled
<1>6. Flags' /\ PhaseFacts' /\ DoneStaysDown' /\ DoneInOrder'
  BY <1>1 DEF CallMaintenance, Flags, PhaseFacts, DoneStaysDown, DoneInOrder
<1> QED BY <1>2, <1>3, <1>4, <1>5, <1>6

LEMMA PrepareOfflineMaintenanceInd ==
  ASSUME LifecycleAssumption, Parts, PrepareOfflineMaintenance
  PROVE  Parts'
<1> USE DEF LifecycleAssumption, Parts, Flags, Types, Actor, opVars, bounds
<1>1. Active' = Active
  BY DEF PrepareOfflineMaintenance, Active
<1>2. Flags'
  BY Zenon DEF PrepareOfflineMaintenance, Flags
<1>3. Types'
  BY StepList DEF PrepareOfflineMaintenance, Types, Gone, Unused
<1>4. OwnerOperates'
  BY DEF PrepareOfflineMaintenance, OwnerOperates, OpPc
<1>5. OperationMatchesPhase'
  BY <1>1 DEF PrepareOfflineMaintenance, OperationMatchesPhase, OwnerOperates, PhaseFacts, OpPc
<1>6. PhaseFacts'
  BY <1>1 DEF PrepareOfflineMaintenance, PhaseFacts, OperationMatchesPhase
<1>7. PassIsOrdered'
  BY DEF PrepareOfflineMaintenance, PassIsOrdered, OwnerOperates, OpPc, Settled
<1>8. DoneStaysDown' /\ DoneInOrder'
  BY <1>1 DEF PrepareOfflineMaintenance, DoneStaysDown, DoneInOrder
<1> QED BY <1>2, <1>3, <1>4, <1>5, <1>6, <1>7, <1>8

LEMMA VerifyIdleInd ==
  ASSUME LifecycleAssumption, Parts, NEW ok \in BOOLEAN, VerifyIdle(ok)
  PROVE  Parts'
<1> USE DEF LifecycleAssumption, Parts, Flags, Types, Actor, opVars, bounds
<1>1. Active' = Active
  BY DEF VerifyIdle, Active
<1>2. Flags'
  BY Zenon DEF VerifyIdle, Leave, Flags
<1>3. Types'
  BY StepList DEF VerifyIdle, Leave, Types, Gone, Unused
<1>4. OwnerOperates'
  BY DEF VerifyIdle, Leave, OwnerOperates, OpPc
<1>5. OperationMatchesPhase'
  BY <1>1 DEF VerifyIdle, Leave, OperationMatchesPhase, OwnerOperates, PhaseFacts, OpPc
<1>6. PhaseFacts'
  BY <1>1 DEF VerifyIdle, Leave, PhaseFacts, OperationMatchesPhase
<1>7. PassIsOrdered'
  BY DEF VerifyIdle, Leave, PassIsOrdered, OwnerOperates, OpPc, Settled
<1>8. DoneStaysDown' /\ DoneInOrder'
  BY <1>1 DEF VerifyIdle, DoneStaysDown, DoneInOrder
<1> QED BY <1>2, <1>3, <1>4, <1>5, <1>6, <1>7, <1>8

LEMMA CancelOfflineMaintenanceInd ==
  ASSUME LifecycleAssumption, Parts, CancelOfflineMaintenance
  PROVE  Parts'
<1> USE DEF LifecycleAssumption, Parts, Flags, Types, Actor, opVars, bounds
<1>1. Active' = Active
  BY DEF CancelOfflineMaintenance, Active
<1>2. Flags'
  BY Zenon DEF CancelOfflineMaintenance, Flags
<1>3. Types'
  BY StepList DEF CancelOfflineMaintenance, Types, Gone, Unused
<1>4. OwnerOperates'
  BY DEF CancelOfflineMaintenance, OwnerOperates, OpPc
<1>5. OperationMatchesPhase'
  BY <1>1 DEF CancelOfflineMaintenance, OperationMatchesPhase, OwnerOperates, PhaseFacts, OpPc
<1>6. PhaseFacts'
  BY <1>1 DEF CancelOfflineMaintenance, PhaseFacts, OperationMatchesPhase
<1>7. PassIsOrdered'
  BY DEF CancelOfflineMaintenance, PassIsOrdered, OwnerOperates, OpPc, Settled
<1>8. DoneStaysDown' /\ DoneInOrder'
  BY <1>1 DEF CancelOfflineMaintenance, DoneStaysDown, DoneInOrder
<1> QED BY <1>2, <1>3, <1>4, <1>5, <1>6, <1>7, <1>8

LEMMA BeginExternalIngressInd ==
  ASSUME LifecycleAssumption, Parts, NEW r \in Receipt, NEW t \in Threads, BeginExternalIngress(r, t)
  PROVE  Parts'
<1> USE DEF LifecycleAssumption, Parts, Flags, Types, Actor, opVars, bounds
<1>1. TRUE
  OBVIOUS
<1>2. Types'
  BY StepList DEF BeginExternalIngress, Types, Gone, Unused
<1>3. OperationMatchesPhase'
  BY <1>1 DEF BeginExternalIngress, OperationMatchesPhase, OwnerOperates, PhaseFacts, OpPc
<1>4. PhaseFacts'
  BY <1>1 DEF BeginExternalIngress, PhaseFacts, OperationMatchesPhase
<1>5. Flags' /\ OwnerOperates' /\ PassIsOrdered' /\ DoneStaysDown' /\ DoneInOrder'
  BY <1>1 DEF BeginExternalIngress, Flags, OwnerOperates, PassIsOrdered, DoneStaysDown, DoneInOrder,
       Settled
<1> QED BY <1>2, <1>3, <1>4, <1>5

LEMMA RunExternalIngressInd ==
  ASSUME LifecycleAssumption, Parts, NEW r \in Receipt, NEW a \in Actor, RunExternalIngress(r, a)
  PROVE  Parts'
<1> USE DEF LifecycleAssumption, Parts, Flags, Types, Actor, opVars, bounds
<1>1. Active' \subseteq Active
  BY DEF RunExternalIngress, Active, Gone, Unused
<1>2. Types'
  BY StepList DEF RunExternalIngress, Types, Gone, Unused
<1>3. OperationMatchesPhase'
  BY <1>1 DEF RunExternalIngress, OperationMatchesPhase, OwnerOperates, PhaseFacts, OpPc
<1>4. PhaseFacts'
  BY <1>1 DEF RunExternalIngress, PhaseFacts, OperationMatchesPhase
<1>5. Flags' /\ OwnerOperates' /\ PassIsOrdered' /\ DoneStaysDown' /\ DoneInOrder'
  BY <1>1 DEF RunExternalIngress, Flags, OwnerOperates, PassIsOrdered, DoneStaysDown, DoneInOrder,
       Settled
<1> QED BY <1>2, <1>3, <1>4, <1>5

LEMMA SettleExternalIngressInd ==
  ASSUME LifecycleAssumption, Parts, NEW r \in Receipt, SettleExternalIngress(r)
  PROVE  Parts'
<1> USE DEF LifecycleAssumption, Parts, Flags, Types, Actor, opVars, bounds
<1>1. Active' \subseteq Active
  BY DEF SettleExternalIngress, Active, Gone, Unused
<1>2. Types'
  BY StepList DEF SettleExternalIngress, Types, Gone, Unused
<1>3. OperationMatchesPhase'
  BY <1>1 DEF SettleExternalIngress, OperationMatchesPhase, OwnerOperates, PhaseFacts, OpPc
<1>4. PhaseFacts'
  BY <1>1 DEF SettleExternalIngress, PhaseFacts, OperationMatchesPhase
<1>5. Flags' /\ OwnerOperates' /\ PassIsOrdered' /\ DoneStaysDown' /\ DoneInOrder'
  BY <1>1 DEF SettleExternalIngress, Flags, OwnerOperates, PassIsOrdered, DoneStaysDown, DoneInOrder,
       Settled
<1> QED BY <1>2, <1>3, <1>4, <1>5

LEMMA AbandonExternalIngressInd ==
  ASSUME LifecycleAssumption, Parts, NEW r \in Receipt, AbandonExternalIngress(r)
  PROVE  Parts'
<1> USE DEF LifecycleAssumption, Parts, Flags, Types, Actor, opVars, bounds
<1>1. Active' \subseteq Active
  BY DEF AbandonExternalIngress, Active, Gone, Unused
<1>2. Types'
  BY StepList DEF AbandonExternalIngress, Types, Gone, Unused
<1>3. OperationMatchesPhase'
  BY <1>1 DEF AbandonExternalIngress, OperationMatchesPhase, OwnerOperates, PhaseFacts, OpPc
<1>4. PhaseFacts'
  BY <1>1 DEF AbandonExternalIngress, PhaseFacts, OperationMatchesPhase
<1>5. Flags' /\ OwnerOperates' /\ PassIsOrdered' /\ DoneStaysDown' /\ DoneInOrder'
  BY <1>1 DEF AbandonExternalIngress, Flags, OwnerOperates, PassIsOrdered, DoneStaysDown, DoneInOrder,
       Settled
<1> QED BY <1>2, <1>3, <1>4, <1>5

LEMMA ConfirmExternalIngressDispatchInd ==
  ASSUME LifecycleAssumption, Parts, NEW r \in Receipt, ConfirmExternalIngressDispatch(r)
  PROVE  Parts'
<1> USE DEF LifecycleAssumption, Parts, Flags, Types, Actor, opVars, bounds
<1>1. Active' \subseteq Active
  BY DEF ConfirmExternalIngressDispatch, Active, Gone, Unused
<1>2. Types'
  BY StepList DEF ConfirmExternalIngressDispatch, Types, Gone, Unused
<1>3. OperationMatchesPhase'
  BY <1>1 DEF ConfirmExternalIngressDispatch, OperationMatchesPhase, OwnerOperates, PhaseFacts, OpPc
<1>4. PhaseFacts'
  BY <1>1 DEF ConfirmExternalIngressDispatch, PhaseFacts, OperationMatchesPhase
<1>5. Flags' /\ OwnerOperates' /\ PassIsOrdered' /\ DoneStaysDown' /\ DoneInOrder'
  BY <1>1 DEF ConfirmExternalIngressDispatch, Flags, OwnerOperates, PassIsOrdered, DoneStaysDown,
       DoneInOrder, Settled
<1> QED BY <1>2, <1>3, <1>4, <1>5

-----------------------------------------------------------------------------
LEMMA LifecycleStutterInd ==
  ASSUME Parts, UNCHANGED lifecycleVars
  PROVE  Parts'
BY DEF Parts, Flags, Types, OwnerOperates, OperationMatchesPhase, PhaseFacts, PassIsOrdered, Settled,
       DoneStaysDown, DoneInOrder, Active, lifecycleVars, opVars

LEMMA LifecycleNextParts ==
  ASSUME LifecycleAssumption, Parts, [LifecycleNext]_lifecycleVars
  PROVE  Parts'
<1>1. ASSUME NEW t \in Threads, CallStart(t) \/ CallStop(t) \/ Operate(t) PROVE Parts'
  BY <1>1, CallStartInd, CallStopInd, StartInd, AcquireServiceLeaseInd, ActivateStepInd, ActivatedInd,
     StopInd, IngressDrainedInd, ShutdownStepInd DEF Operate
<1>2. CASE RecoveryWorkerStarts \/ RecoveryWorkerEnds \/ LoopRestartsAdapter
  BY <1>2, RecoveryWorkerStartsInd, RecoveryWorkerEndsInd, LoopRestartsAdapterInd
<1>3. ASSUME NEW asked \in {"want_prepare", "want_cancel"}, CallMaintenance(asked) PROVE Parts'
  BY <1>3, CallMaintenanceInd
<1>4. CASE Maintain
  BY <1>4, PrepareOfflineMaintenanceInd, CancelOfflineMaintenanceInd, VerifyIdleInd DEF Maintain
<1>5. ASSUME NEW r \in Receipt, NEW t \in Threads, BeginExternalIngress(r, t) PROVE Parts'
  BY <1>5, BeginExternalIngressInd
<1>6. ASSUME NEW r \in Receipt, NEW a \in Actor, RunExternalIngress(r, a) PROVE Parts'
  BY <1>6, RunExternalIngressInd
<1>7. ASSUME NEW r \in Receipt,
             SettleExternalIngress(r) \/ AbandonExternalIngress(r) \/ ConfirmExternalIngressDispatch(r)
      PROVE  Parts'
  BY <1>7, SettleExternalIngressInd, AbandonExternalIngressInd, ConfirmExternalIngressDispatchInd
<1>8. CASE UNCHANGED lifecycleVars
  BY <1>8, LifecycleStutterInd
<1> QED BY <1>1, <1>2, <1>3, <1>4, <1>5, <1>6, <1>7, <1>8 DEF LifecycleNext

\* Whatever port of start() or stop() fails and however often it is retried,
\* the machine authority outlives every resource and callback, no callback
\* runs beside a shutdown or after one began to undo the service, and a
\* stopped recovery worker, loop or adapter is not started again.
THEOREM LifecycleSafety ==
  ASSUME LifecycleAssumption
  PROVE  LifecycleSpec => []LifecycleInvariant
<1>1. LifecycleInit => LifecycleInd
  BY LifecycleInitInd
<1>2. Parts /\ [LifecycleNext]_lifecycleVars => Parts'
  BY LifecycleNextParts
<1>3. LifecycleInd /\ [LifecycleNext]_lifecycleVars => LifecycleInd'
  BY <1>2, LifecycleParts, PTL
<1> QED BY <1>1, <1>3, LifecycleIndImplies, PTL DEF LifecycleSpec
=============================================================================
