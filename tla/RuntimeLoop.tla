----------------------------- MODULE RuntimeLoop -----------------------------
(***************************************************************************)
(* bot/runtime_loop.py: the single worker thread on which FOCUS serializes *)
(* its process-local state.  Any number of threads submit tasks, call them *)
(* and wait, call them with a deadline, or stop the loop.                  *)
(*                                                                         *)
(* A step is what one thread does under one lock: _lock for start, stop    *)
(* and the put, a task's state_lock for the race between its deadline and  *)
(* its start.  Calls made by the worker itself run inline, as part of the  *)
(* task that makes them; a nested deadline or stop raises without effect.  *)
(***************************************************************************)
EXTENDS Naturals, Sequences, FiniteSets

CONSTANTS
  Thread,      \* threads other than the worker
  MaxTask,     \* bound: tasks ever accepted
  MaxWorker    \* bound: worker threads ever started

ASSUME ConstantsAssumption ==
  MaxTask \in Nat /\ MaxWorker \in Nat \ {0}

Task == 1..MaxTask
Worker == 1..MaxWorker
Stop == 0      \* _STOP; also "no task" and "no worker"

Kind == {"submit", "call", "deadline"}

VARIABLES
  closed,      \* _closed
  worker,      \* _worker: the last one started, or 0
  alive,       \* workers whose thread has not exited
  queue,       \* _queue
  wpc,         \* where each worker is in _run
  hold,        \* the task it took from the queue
  accepted,    \* _accepted_tasks, also the id of the last task
  kind,        \* how each task was enqueued
  started,     \* tasks whose started_at is set
  cancelled,   \* tasks with cancelled_before_start
  done,        \* tasks whose processing ended (done is set)
  expired,     \* tasks whose deadline_at has passed
  pc,          \* where each thread is
  want,        \* the kind of call it is making
  mine,        \* its task, or the worker it joins
  told,        \* history: what the caller of a task was told
  barrier      \* history: some stop has returned

loopVars == <<closed, worker, alive>>
workerVars == <<wpc, hold>>
taskVars == <<accepted, kind, started, cancelled, done, expired>>
threadVars == <<pc, want, mine>>
vars == <<loopVars, queue, workerVars, taskVars, threadVars, told, barrier>>

Init ==
  /\ closed = FALSE /\ worker = 0 /\ alive = {}
  /\ queue = <<>>
  /\ wpc = [w \in Worker |-> "get"] /\ hold = [w \in Worker |-> 0]
  /\ accepted = 0 /\ kind = [n \in Task |-> "submit"]
  /\ started = {} /\ cancelled = {} /\ done = {} /\ expired = {}
  /\ pc = [t \in Thread |-> "idle"] /\ want = [t \in Thread |-> "submit"]
  /\ mine = [t \in Thread |-> 0]
  /\ told = [n \in Task |-> "nothing"]
  /\ barrier = FALSE

-----------------------------------------------------------------------------
(* Callers.                                                                 *)

\* Mutant: start does not look whether the worker is alive.
AlwaysNeeded == worker < MaxWorker

NeedsWorker == worker \notin alive

\* submit, call or call_with_deadline: _enqueue first makes sure of a worker.
\* On a closed loop start raises and nothing happens.
StartWorker(t, k) ==
  /\ pc[t] = "idle" /\ accepted < MaxTask
  /\ ~closed
  /\ IF NeedsWorker
     THEN worker' = worker + 1 /\ alive' = alive \cup {worker + 1}
     ELSE UNCHANGED <<worker, alive>>
  /\ pc' = [pc EXCEPT ![t] = "enqueue"]
  /\ want' = [want EXCEPT ![t] = k]
  /\ UNCHANGED <<closed, queue, workerVars, taskVars, mine, told, barrier>>

\* Mutant: the second critical section does not look at _closed again.
AcceptsAnyway == TRUE

StillOpen == ~closed

\* The put; an already closed loop raises RuntimeLoopClosedError.
Enqueue(t) ==
  /\ pc[t] = "enqueue"
  /\ IF StillOpen /\ accepted < MaxTask
     THEN /\ accepted' = accepted + 1
          /\ kind' = [kind EXCEPT ![accepted + 1] = want[t]]
          /\ queue' = Append(queue, accepted + 1)
          /\ mine' = [mine EXCEPT ![t] = accepted + 1]
          /\ pc' = [pc EXCEPT ![t] = IF want[t] = "submit" THEN "idle" ELSE "waiting"]
     ELSE /\ pc' = [pc EXCEPT ![t] = "idle"]
          /\ UNCHANGED <<accepted, kind, queue, mine>>
  /\ UNCHANGED <<loopVars, workerVars, started, cancelled, done, expired, want, told,
                 barrier>>

\* The monotonic clock passes a deadline.
Expire(n) ==
  /\ n \in 1..accepted /\ kind[n] = "deadline" /\ n \notin expired
  /\ expired' = expired \cup {n}
  /\ UNCHANGED <<loopVars, queue, workerVars, accepted, kind, started, cancelled, done,
                 threadVars, told, barrier>>

\* done.wait returns.
CallReturns(t) ==
  /\ pc[t] = "waiting" /\ mine[t] \in done
  /\ told' = [told EXCEPT ![mine[t]] =
       IF mine[t] \in cancelled THEN "cancelled" ELSE "result"]
  /\ pc' = [pc EXCEPT ![t] = "idle"]
  /\ UNCHANGED <<loopVars, queue, workerVars, taskVars, want, mine, barrier>>

\* done.wait(remaining) gives up.
WaitTimesOut(t) ==
  /\ pc[t] = "waiting" /\ want[t] = "deadline"
  /\ mine[t] \in expired /\ mine[t] \notin done
  /\ pc' = [pc EXCEPT ![t] = "timedout"]
  /\ UNCHANGED <<loopVars, queue, workerVars, taskVars, want, mine, told, barrier>>

\* Under the task's state_lock: cancel it, unless it has started meanwhile.
RaiseTimeout(t) ==
  /\ pc[t] = "timedout"
  /\ IF mine[t] \in started
     THEN /\ told' = [told EXCEPT ![mine[t]] = "may_still_run"]
          /\ UNCHANGED cancelled
     ELSE /\ told' = [told EXCEPT ![mine[t]] = "cancelled"]
          /\ cancelled' = cancelled \cup {mine[t]}
  /\ pc' = [pc EXCEPT ![t] = "idle"]
  /\ UNCHANGED <<loopVars, queue, workerVars, accepted, kind, started, done, expired,
                 want, mine, barrier>>

\* stop: close once, then join the worker that was there.
StopLoop(t) ==
  /\ pc[t] = "idle"
  /\ closed' = TRUE
  /\ queue' = IF closed THEN queue ELSE Append(queue, Stop)
  /\ pc' = [pc EXCEPT ![t] = "joining"]
  /\ mine' = [mine EXCEPT ![t] = worker]
  /\ UNCHANGED <<worker, alive, workerVars, taskVars, want, told, barrier>>

\* Mutant: a join that timed out counts as a shutdown.
JoinGaveUp(t) == TRUE

WorkerExited(t) == mine[t] \notin alive

StopReturns(t) ==
  /\ pc[t] = "joining" /\ WorkerExited(t)
  /\ pc' = [pc EXCEPT ![t] = "idle"]
  /\ barrier' = TRUE
  /\ UNCHANGED <<loopVars, queue, workerVars, taskVars, want, mine, told>>

\* The bounded stop raises RuntimeLoopShutdownTimeoutError.
StopTimesOut(t) ==
  /\ pc[t] = "joining" /\ ~WorkerExited(t)
  /\ pc' = [pc EXCEPT ![t] = "idle"]
  /\ UNCHANGED <<loopVars, queue, workerVars, taskVars, want, mine, told, barrier>>

-----------------------------------------------------------------------------
(* The worker: _run.                                                        *)

\* Mutant: the sentinel is taken for a task.
GetAnything(w) ==
  /\ w \in alive /\ wpc[w] = "get" /\ queue # <<>>
  /\ queue' = Tail(queue)
  /\ hold' = [hold EXCEPT ![w] = Head(queue)]
  /\ wpc' = [wpc EXCEPT ![w] = "got"]
  /\ UNCHANGED <<loopVars, taskVars, threadVars, told, barrier>>

GetTask(w) ==
  /\ w \in alive /\ wpc[w] = "get" /\ queue # <<>>
  /\ queue' = Tail(queue)
  /\ IF Head(queue) = Stop
     THEN alive' = alive \ {w} /\ UNCHANGED workerVars
     ELSE /\ hold' = [hold EXCEPT ![w] = Head(queue)]
          /\ wpc' = [wpc EXCEPT ![w] = "got"]
          /\ UNCHANGED alive
  /\ UNCHANGED <<closed, worker, taskVars, threadVars, told, barrier>>

\* Mutant: neither the cancellation nor the deadline is looked at.
MayStartLate(n) == TRUE

MayStart(n) == n \notin cancelled /\ n \notin expired

\* Under the task's state_lock: start it, or give it up.
StartTask(w) ==
  /\ wpc[w] = "got"
  /\ IF MayStart(hold[w])
     THEN /\ started' = started \cup {hold[w]}
          /\ wpc' = [wpc EXCEPT ![w] = "run"]
          /\ UNCHANGED cancelled
     ELSE /\ cancelled' = cancelled \cup {hold[w]}
          /\ wpc' = [wpc EXCEPT ![w] = "skip"]
          /\ UNCHANGED started
  /\ UNCHANGED <<loopVars, queue, hold, accepted, kind, done, expired, threadVars, told,
                 barrier>>

\* Mutant: a task that raises leaves its caller waiting.
FinishRaises(w) ==
  /\ wpc[w] \in {"run", "skip"}
  /\ wpc' = [wpc EXCEPT ![w] = "get"]
  /\ hold' = [hold EXCEPT ![w] = 0]
  /\ UNCHANGED <<loopVars, queue, taskVars, threadVars, told, barrier>>

\* The task returned or raised, or was skipped: done is set either way.
FinishTask(w) ==
  /\ wpc[w] \in {"run", "skip"}
  /\ wpc' = [wpc EXCEPT ![w] = "get"]
  /\ hold' = [hold EXCEPT ![w] = 0]
  /\ done' = done \cup {hold[w]}
  /\ UNCHANGED <<loopVars, queue, accepted, kind, started, cancelled, expired, threadVars,
                 told, barrier>>

WorkerStep(w) == GetTask(w) \/ StartTask(w) \/ FinishTask(w)

CallerStep(t) ==
  \/ Enqueue(t) \/ CallReturns(t) \/ WaitTimesOut(t) \/ RaiseTimeout(t) \/ StopReturns(t)

-----------------------------------------------------------------------------
Next ==
  \/ \E t \in Thread : StopLoop(t) \/ StopTimesOut(t) \/ CallerStep(t)
  \/ \E t \in Thread, k \in Kind : StartWorker(t, k)
  \/ \E n \in Task : Expire(n)
  \/ \E w \in Worker : WorkerStep(w)

Spec == Init /\ [][Next]_vars

\* Threads are scheduled, and every task function returns.
FairSpec ==
  /\ Spec
  /\ \A w \in Worker : WF_vars(WorkerStep(w))
  /\ \A t \in Thread : WF_vars(CallerStep(t))

-----------------------------------------------------------------------------
TypeOK ==
  /\ closed \in BOOLEAN /\ worker \in 0..MaxWorker /\ alive \subseteq Worker
  /\ queue \in Seq(Task \cup {Stop})
  /\ wpc \in [Worker -> {"get", "got", "run", "skip"}]
  /\ hold \in [Worker -> Task \cup {0}]
  /\ accepted \in 0..MaxTask /\ kind \in [Task -> Kind]
  /\ started \subseteq Task /\ cancelled \subseteq Task
  /\ done \subseteq Task /\ expired \subseteq Task
  /\ pc \in [Thread -> {"idle", "enqueue", "waiting", "timedout", "joining"}]
  /\ want \in [Thread -> Kind]
  /\ mine \in [Thread -> Nat]
  /\ told \in [Task -> {"nothing", "result", "may_still_run", "cancelled"}]
  /\ barrier \in BOOLEAN

\* A caller that is told its task was cancelled before execution can rely on
\* it: the task has not run and never will (call_with_deadline).
CancelledNeverRuns == \A n \in Task : told[n] = "cancelled" => n \notin started

\* A stop that returned is a lifecycle barrier: every task accepted before it
\* is over, none is left behind the _STOP and nothing runs.
StopIsABarrier ==
  barrier => /\ \A n \in 1..accepted : n \in done
             /\ \A w \in Worker : wpc[w] = "get"

\* Worker-confined state is never touched by two tasks at once.
OneTaskAtATime == Cardinality({w \in Worker : wpc[w] = "run"}) <= 1

FateOf(n) ==
  IF n > accepted THEN "new"
  ELSE IF n \in cancelled THEN "revoked"
  ELSE IF n \in done THEN "ran"
  ELSE IF n \in started THEN "running" ELSE "pending"

Serial == INSTANCE SerialExecutor WITH
  fate <- [n \in Task |-> FateOf(n)], told <- told, open <- ~closed, drained <- barrier

\* The threads, locks, queue and clock of RuntimeLoop implement the serial
\* executor: tasks run one at a time in acceptance order, and what each caller
\* is told is true.
ImplementsSerialExecutor == Serial!Spec

\* No caller waits for ever: every call, deadline call and unbounded stop comes
\* back, because each accepted task is over and its done set before the _STOP.
CallersReturn == \A t \in Thread : pc[t] # "idle" ~> pc[t] = "idle"

\* The loop runs one task at a time, none it called cancelled and none after
\* a completed stop.
LoopInvariant ==
  /\ TypeOK
  /\ CancelledNeverRuns
  /\ StopIsABarrier
  /\ OneTaskAtATime
=============================================================================
