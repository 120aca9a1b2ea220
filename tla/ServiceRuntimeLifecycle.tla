----------------------- MODULE ServiceRuntimeLifecycle -----------------------
(***************************************************************************)
(* bot/service_runtime_lifecycle.py with the ports that                    *)
(* bot/focus_runtime/runtime.py composes: activation with rollback, the    *)
(* staged and retryable shutdown, receipts of external ingress and the     *)
(* installer's offline maintenance.                                        *)
(*                                                                         *)
(* Threads call start() and stop(); Loop is the RuntimeLoop worker, which  *)
(* also serves the maintenance requests of the control plane.  A step that *)
(* goes through the loop can only be taken while the loop is free.         *)
(***************************************************************************)
EXTENDS Naturals, Sequences

CONSTANTS
  Threads,        \* threads that may start, stop or enter from outside
  Loop,          \* the RuntimeLoop worker
  Receipt,       \* bound: external callbacks
  NoThread,
  MaxCalls,      \* bound: start() and stop() calls
  MaxControls,   \* bound: maintenance requests through the control plane
  MaxFail        \* bound: ports that fail

LifecycleAssumption ==
  /\ MaxCalls \in Nat /\ MaxControls \in Nat /\ MaxFail \in Nat
  /\ Loop \notin Threads /\ NoThread \notin Threads \cup {Loop}

Actor == Threads \cup {Loop}

VARIABLES
  phase, opOwner,     \* _phase, _operation_owner
  at,                 \* where each actor is inside the lifecycle
  receipts,           \* _active_external_ingress
  authority,          \* _machine_authority_acquired
  completed,          \* _completed_shutdown_steps
  webRequired,        \* _web_shutdown_required
  maintenance,        \* _offline_maintenance_prepared
  pos, failed,        \* progress and failures of the running operation
  up,                 \* resources that run
  calls, controls, fails

opVars == <<phase, opOwner, authority, completed, webRequired, maintenance, pos, failed>>
bounds == <<calls, controls, fails>>
lifecycleVars == <<opVars, at, receipts, up, bounds>>

Unused == [st |-> "unused", origin |-> NoThread, exec |-> NoThread]
Gone == [Unused EXCEPT !.st = "gone"]

LifecycleInit ==
  /\ phase = "assembled" /\ opOwner = NoThread
  /\ at = [a \in Actor |-> "idle"]
  /\ receipts = [r \in Receipt |-> Unused]
  /\ authority = FALSE /\ completed = {} /\ webRequired = FALSE
  /\ maintenance = FALSE /\ pos = 0 /\ failed = FALSE
  /\ up = {} /\ calls = 0 /\ controls = 0 /\ fails = 0

Active == {r \in Receipt : receipts[r].st = "active"}

\* _thread_holds_external_ingress_locked
\* Mutant: only the thread that entered counts, not the one that executes.
OnlyOrigin(a) == \E r \in Active : receipts[r].origin = a

HoldsIngress(a) ==
  \E r \in Active : receipts[r].origin = a \/ receipts[r].exec = a

Free(a) == at[a] = "idle" /\ ~\E r \in Active : receipts[r].exec = a

LoopFree == "runtime_loop" \in up /\ Free(Loop)

Leave(a) == opOwner' = NoThread /\ at' = [at EXCEPT ![a] = "idle"]

MayFail == fails < MaxFail /\ fails' = fails + 1 /\ UNCHANGED <<calls, controls>>

-----------------------------------------------------------------------------
(* Activation.                                                              *)

\* The ports after the lease, and what each of them leaves running.
ActivationSteps ==
  <<"prepare_owned_state", "runtime_loop", "restore_runtime_state", "adapter",
    "destination_liveness_worker", "control_plane", "publish_endpoint",
    "register_instance", "restore_runtime_leases", "web_gateway", "data_retention">>

LoopSteps == {"restore_runtime_state", "restore_runtime_leases",
              "prepare_web", "finish_web"}

Resource == {"runtime_loop", "adapter", "destination_liveness_worker",
             "control_plane", "web_gateway", "data_retention",
             "execution_recovery_worker"}

CallStart(t) ==
  /\ at[t] = "idle" /\ ~HoldsIngress(t) /\ calls < MaxCalls
  /\ at' = [at EXCEPT ![t] = "want_start"] /\ calls' = calls + 1
  /\ UNCHANGED <<opVars, receipts, up, controls, fails>>

\* Every phase but ASSEMBLED returns or raises without a change.
Start(t) ==
  /\ at[t] = "want_start" /\ opOwner = NoThread
  /\ IF phase = "assembled"
     THEN opOwner' = t /\ at' = [at EXCEPT ![t] = "acquire"]
     ELSE UNCHANGED opOwner /\ at' = [at EXCEPT ![t] = "idle"]
  /\ UNCHANGED <<phase, authority, completed, webRequired, maintenance, pos, failed,
                 receipts, up, bounds>>

AcquireServiceLease(t) ==
  /\ at[t] = "acquire"
  /\ \/ /\ authority' = TRUE /\ phase' = "lease_acquired" /\ pos' = 1
        /\ at' = [at EXCEPT ![t] = "activating"] /\ UNCHANGED <<opOwner, bounds>>
     \/ Leave(t) /\ MayFail /\ UNCHANGED <<authority, phase, pos>>
  /\ UNCHANGED <<completed, webRequired, maintenance, failed, receipts, up>>

\* A port that fails may have started its resource; the rollback follows.
ActivateStep(t) ==
  LET step == ActivationSteps[pos]
      started == {step} \cap Resource
  IN /\ at[t] = "activating" /\ pos <= Len(ActivationSteps)
     /\ step \in LoopSteps => LoopFree
     /\ \/ /\ up' = up \cup started /\ pos' = pos + 1
           /\ UNCHANGED <<phase, at, failed, bounds>>
        \/ /\ MayFail /\ up' \in {up, up \cup started}
           /\ phase' = "stopping" /\ pos' = 1 /\ failed' = FALSE
           /\ at' = [at EXCEPT ![t] = "shutdown"]
     /\ UNCHANGED <<opOwner, authority, completed, webRequired, maintenance, receipts>>

Activated(t) ==
  /\ at[t] = "activating" /\ pos > Len(ActivationSteps)
  /\ phase' = "active" /\ Leave(t)
  /\ UNCHANGED <<authority, completed, webRequired, maintenance, pos, failed,
                 receipts, up, bounds>>

-----------------------------------------------------------------------------
(* Shutdown.                                                                *)

CallStop(t) ==
  /\ at[t] = "idle" /\ ~HoldsIngress(t) /\ calls < MaxCalls
  /\ at' = [at EXCEPT ![t] = "want_stop"] /\ calls' = calls + 1
  /\ UNCHANGED <<opVars, receipts, up, controls, fails>>

\* Closes the gate; the last admitted callback is waited for after it.
StopService(t) ==
  /\ at[t] = "want_stop" /\ opOwner = NoThread
  /\ IF phase = "closed"
     THEN at' = [at EXCEPT ![t] = "idle"] /\ UNCHANGED <<opOwner, phase, maintenance>>
     ELSE /\ opOwner' = t /\ at' = [at EXCEPT ![t] = "draining"]
          /\ phase' = "stopping" /\ maintenance' = FALSE
  /\ UNCHANGED <<authority, completed, webRequired, pos, failed, receipts, up, bounds>>

\* Mutant: shutdown begins while callbacks are still running.
DrainsNothing(t) ==
  /\ at[t] = "draining"
  /\ at' = [at EXCEPT ![t] = "shutdown"] /\ pos' = 1 /\ failed' = FALSE
  /\ UNCHANGED <<phase, opOwner, authority, completed, webRequired, maintenance,
                 receipts, up, bounds>>

IngressDrained(t) ==
  /\ at[t] = "draining" /\ Active = {}
  /\ at' = [at EXCEPT ![t] = "shutdown"] /\ pos' = 1 /\ failed' = FALSE
  /\ UNCHANGED <<phase, opOwner, authority, completed, webRequired, maintenance,
                 receipts, up, bounds>>

\* Mutant: the adapter is stopped while RuntimeLoop work may restart it.
AdapterBeforeLoop ==
  <<"data_retention", "execution_recovery_worker", "frontend_timers",
    "inspect_web", "prepare_web", "web_gateway", "control_plane",
    "server_request_runtime", "destination_liveness_worker", "card_dispatcher",
    "finish_web", "adapter", "runtime_loop", "machine_authority">>

\* Mutant: the machine authority is released before the adapter is down.
AuthorityBeforeAdapter ==
  <<"data_retention", "execution_recovery_worker", "frontend_timers",
    "inspect_web", "prepare_web", "web_gateway", "control_plane",
    "server_request_runtime", "destination_liveness_worker", "card_dispatcher",
    "finish_web", "runtime_loop", "machine_authority", "adapter">>

ShutdownSteps ==
  <<"data_retention", "execution_recovery_worker", "frontend_timers",
    "inspect_web", "prepare_web", "web_gateway", "control_plane",
    "server_request_runtime", "destination_liveness_worker", "card_dispatcher",
    "finish_web", "runtime_loop", "adapter", "machine_authority">>

\* The steps after which require_stage ends a pass that had failures.
StageEnds == {"data_retention", "execution_recovery_worker", "finish_web",
              "runtime_loop", "adapter", "machine_authority"}

Skipped(step) ==
  \/ step \in completed
  \/ step \in {"prepare_web", "finish_web"} /\ ~webRequired
  \/ step = "machine_authority" /\ ~authority

\* A port that can prove its barrier now: loop calls need the loop, the loop
\* ends when its current task did, and the control plane when no admitted
\* request is left.
CanStop(step) ==
  /\ step \in LoopSteps => LoopFree
  /\ step = "runtime_loop" => Free(Loop)
  /\ step = "control_plane" => Free(Loop)

\* Fails for sure: the control plane gives up on a request that does not end,
\* a call to a loop that is down raises.  (A call to a running loop and the
\* loop's own join have no deadline.)
CannotStop(step) ==
  \/ step = "control_plane" /\ ~Free(Loop)
  \/ step \in LoopSteps /\ "runtime_loop" \notin up

\* Mutant: the last step is followed like every other one.
NeverCloses(t, step, bad) ==
  IF step \in StageEnds /\ bad
  THEN Leave(t) /\ UNCHANGED <<phase, pos, failed, authority>>
  ELSE pos' = pos + 1 /\ failed' = bad /\ UNCHANGED <<phase, at, opOwner, authority>>

\* What follows a step: the next one, the end of a failed pass, or CLOSED.
AfterStep(t, step, bad) ==
  IF step \in StageEnds /\ bad
  THEN Leave(t) /\ UNCHANGED <<phase, pos, failed, authority>>
  ELSE IF step = "machine_authority"
  THEN Leave(t) /\ phase' = "closed" /\ authority' = FALSE /\ UNCHANGED <<pos, failed>>
  ELSE pos' = pos + 1 /\ failed' = bad /\ UNCHANGED <<phase, at, opOwner, authority>>

ShutdownStep(t) ==
  LET step == ShutdownSteps[pos]
  IN /\ at[t] = "shutdown"
     /\ \/ /\ Skipped(step)
           /\ AfterStep(t, step, failed)
           /\ UNCHANGED <<completed, webRequired, up, bounds>>
        \/ /\ ~Skipped(step) /\ CanStop(step)
           /\ completed' = completed \cup {step} /\ up' = up \ {step}
           /\ webRequired' =
                (webRequired \/ (step = "inspect_web" /\ "web_gateway" \in up))
           /\ AfterStep(t, step, failed) /\ UNCHANGED bounds
        \/ /\ ~Skipped(step) /\ (MayFail \/ (CannotStop(step) /\ UNCHANGED bounds))
           /\ step \in LoopSteps => LoopFree \/ CannotStop(step)
           /\ webRequired' = (webRequired \/ step = "inspect_web")
           /\ AfterStep(t, step, TRUE) /\ UNCHANGED <<completed, up>>
     /\ UNCHANGED <<maintenance, receipts>>

-----------------------------------------------------------------------------
(* What keeps running meanwhile.                                            *)

\* A recovery worker is admitted by the running service, and ends by itself.
RecoveryWorkerStarts ==
  /\ {"runtime_loop", "adapter"} \subseteq up /\ "execution_recovery_worker" \notin completed
  /\ up' = up \cup {"execution_recovery_worker"}
  /\ UNCHANGED <<opVars, at, receipts, bounds>>

RecoveryWorkerEnds ==
  /\ "execution_recovery_worker" \in up
  /\ up' = up \ {"execution_recovery_worker"}
  /\ UNCHANGED <<opVars, at, receipts, bounds>>

\* A task of the loop resets the backend: the adapter is started again.
LoopRestartsAdapter ==
  /\ LoopFree
  /\ up' = up \cup {"adapter"}
  /\ UNCHANGED <<opVars, at, receipts, bounds>>

-----------------------------------------------------------------------------
(* Offline maintenance: control requests, served on the loop.               *)

CallMaintenance(want) ==
  /\ LoopFree /\ "control_plane" \in up /\ controls < MaxControls
  /\ want = "want_prepare" => ~maintenance
  /\ at' = [at EXCEPT ![Loop] = want] /\ controls' = controls + 1
  /\ UNCHANGED <<opVars, receipts, up, calls, fails>>

\* The gate closes at once, or the request is refused.
PrepareOfflineMaintenance ==
  /\ at[Loop] = "want_prepare" /\ opOwner = NoThread
  /\ IF phase = "active" /\ Active = {}
     THEN /\ phase' = "stopping" /\ maintenance' = TRUE
          /\ opOwner' = Loop /\ at' = [at EXCEPT ![Loop] = "verify"]
     ELSE at' = [at EXCEPT ![Loop] = "idle"] /\ UNCHANGED <<phase, maintenance, opOwner>>
  /\ UNCHANGED <<authority, completed, webRequired, pos, failed, receipts, up, bounds>>

VerifyIdle(ok) ==
  /\ at[Loop] = "verify" /\ Leave(Loop)
  /\ IF ~ok /\ maintenance /\ phase = "stopping" /\ completed = {}
     THEN phase' = "active" /\ maintenance' = FALSE
     ELSE UNCHANGED <<phase, maintenance>>
  /\ UNCHANGED <<authority, completed, webRequired, pos, failed, receipts, up, bounds>>

CancelOfflineMaintenance ==
  /\ at[Loop] = "want_cancel" /\ opOwner = NoThread
  /\ IF maintenance /\ phase = "stopping" /\ completed = {}
     THEN phase' = "active" /\ maintenance' = FALSE
     ELSE UNCHANGED <<phase, maintenance>>
  /\ at' = [at EXCEPT ![Loop] = "idle"]
  /\ UNCHANGED <<opOwner, authority, completed, webRequired, pos, failed,
                 receipts, up, bounds>>

-----------------------------------------------------------------------------
(* External ingress.                                                        *)

BeginExternalIngress(r, t) ==
  /\ phase = "active" /\ receipts[r] = Unused /\ Free(t)
  /\ receipts' = [receipts EXCEPT ![r] = [st |-> "active", origin |-> t, exec |-> NoThread]]
  /\ UNCHANGED <<opVars, at, up, bounds>>

\* The callback runs on the loop (call, submit), on its own thread or on a
\* worker (transactions); only a receipt nobody executes can be claimed.
RunExternalIngress(r, a) ==
  /\ r \in Active /\ receipts[r].exec = NoThread
  /\ IF a = Loop THEN LoopFree ELSE Free(a)
  /\ receipts' = [receipts EXCEPT ![r].origin = NoThread, ![r].exec = a]
  /\ UNCHANGED <<opVars, at, up, bounds>>

\* The callback returned; the executor is not inside the lifecycle then.
SettleExternalIngress(r) ==
  /\ r \in Active /\ receipts[r].exec # NoThread /\ at[receipts[r].exec] = "idle"
  /\ receipts' = [receipts EXCEPT ![r] = Gone]
  /\ UNCHANGED <<opVars, at, up, bounds>>

AbandonExternalIngress(r) ==
  /\ r \in Active /\ receipts[r].exec = NoThread
  /\ receipts' = [receipts EXCEPT ![r] = Gone]
  /\ UNCHANGED <<opVars, at, up, bounds>>

ConfirmExternalIngressDispatch(r) ==
  /\ r \in Active /\ receipts[r].origin # NoThread
  /\ receipts' = [receipts EXCEPT ![r].origin = NoThread]
  /\ UNCHANGED <<opVars, at, up, bounds>>

Operate(t) ==
  \/ Start(t) \/ AcquireServiceLease(t) \/ ActivateStep(t) \/ Activated(t)
  \/ StopService(t) \/ IngressDrained(t) \/ ShutdownStep(t)

Maintain ==
  \/ PrepareOfflineMaintenance \/ CancelOfflineMaintenance
  \/ \E ok \in BOOLEAN : VerifyIdle(ok)

LifecycleNext ==
  \/ \E t \in Threads : CallStart(t) \/ CallStop(t) \/ Operate(t)
  \/ RecoveryWorkerStarts \/ RecoveryWorkerEnds \/ LoopRestartsAdapter
  \/ \E want \in {"want_prepare", "want_cancel"} : CallMaintenance(want)
  \/ Maintain
  \/ \E r \in Receipt :
       \/ \E t \in Threads : BeginExternalIngress(r, t)
       \/ \E a \in Actor : RunExternalIngress(r, a)
       \/ SettleExternalIngress(r) \/ AbandonExternalIngress(r)
       \/ ConfirmExternalIngressDispatch(r)

LifecycleSpec == LifecycleInit /\ [][LifecycleNext]_lifecycleVars

\* Threads keep running, callbacks return and a dispatched callback is run or
\* abandoned.
Fairness ==
  /\ \A t \in Threads : WF_lifecycleVars(Operate(t))
  /\ WF_lifecycleVars(Maintain)
  /\ \A r \in Receipt :
       /\ WF_lifecycleVars(SettleExternalIngress(r))
       /\ WF_lifecycleVars(AbandonExternalIngress(r) \/ \E a \in Actor : RunExternalIngress(r, a))

LifecycleFairSpec == LifecycleSpec /\ Fairness

-----------------------------------------------------------------------------
(* Properties.                                                              *)

LifecycleTypeOK ==
  /\ phase \in {"assembled", "lease_acquired", "active", "stopping", "closed"}
  /\ opOwner \in Actor \cup {NoThread}
  /\ at \in [Actor -> {"idle", "want_start", "acquire", "activating", "want_stop",
                       "draining", "shutdown", "want_prepare", "want_cancel", "verify"}]
  /\ receipts \in [Receipt -> [st : {"unused", "active", "gone"},
                               origin : Actor \cup {NoThread},
                               exec : Actor \cup {NoThread}]]
  /\ authority \in BOOLEAN /\ webRequired \in BOOLEAN /\ maintenance \in BOOLEAN
  /\ completed \subseteq {ShutdownSteps[i] : i \in 1..Len(ShutdownSteps)}
  /\ pos \in 0..Len(ShutdownSteps) /\ failed \in BOOLEAN
  /\ up \subseteq Resource

\* The machine authority covers everything that runs: it is given up only when
\* every resource is down and no callback is left, after any number of failed
\* and retried passes.
AuthorityCoversRuntime ==
  (up # {} \/ Active # {} \/ phase \in {"lease_acquired", "active"}) => authority

\* Shutdown never runs beside an admitted callback, and a service that undid
\* part of itself is never open again.
NoIngressDuringShutdown ==
  (completed # {} \/ \E t \in Threads : at[t] = "shutdown") =>
    Active = {} /\ phase \in {"stopping", "closed"}

\* A barrier stays one: no recovery worker outlives the cancelled timers, and
\* nothing restarts the adapter behind its stop.
BarriersHold ==
  /\ "frontend_timers" \in completed => "execution_recovery_worker" \notin up
  /\ "adapter" \in completed => {"adapter", "runtime_loop"} \cap up = {}

\* A call of stop() returns, whoever else starts, stops or runs callbacks.
ServiceStopReturns == \A t \in Threads : at[t] = "want_stop" ~> at[t] = "idle"

\* "making same-thread callback re-entry an explicit error instead of a
\* deadlock" (service_runtime_lifecycle.py, ServiceRuntimeLifecycle): the
\* owner of the operation and the loop never wait for each other.
NoLifecycleDeadlock ==
  ~\E t \in Threads :
     /\ opOwner = t /\ at[Loop] \in {"want_prepare", "want_cancel"}
     /\ \/ at[t] = "activating" /\ ActivationSteps[pos] \in LoopSteps
        \/ /\ at[t] = "shutdown" /\ ~Skipped(ShutdownSteps[pos])
           /\ ShutdownSteps[pos] \in LoopSteps

\* The staged start and stop keep authority over everything that runs,
\* whatever fails and is retried.
LifecycleInvariant ==
  /\ LifecycleTypeOK
  /\ AuthorityCoversRuntime
  /\ NoIngressDuringShutdown
  /\ BarriersHold
=============================================================================
