------------------------- MODULE MCServicePromises --------------------------
(***************************************************************************)
(* What the parts of the service promise, on their smallest instances:     *)
(* somebody who waits is answered, under the fairness below. One           *)
(* component moves in a behaviour.                                         *)
(***************************************************************************)
EXTENDS TLC, Integers

CONSTANTS x1, x2, y1, m1, m2, None   \* names and a null, for every component

VARIABLES
  part,  \* the component that moves in this behaviour; the others rest
  loopClosed, loopWorker, loopAlive, loopQueue, loopWpc, loopHold,
  loopAccepted, loopKind, loopStarted, loopCancelled, loopDone, loopExpired,
  loopPc, loopWant, loopMine, loopTold, loopBarrier,
  gateLatest, gateLastDisc, gateBlocked, gateInvalidated, gateCleanupRequired,
  gateDiscCleanup, gateEpoch, gateFactsLive, gateRegistry, gateHeld, gateLoop,
  gateQueue, gateConn, gateSock, gateReader, gateWpc, gatePermit, gateResets,
  gateFailures, gateVoids, gateIssuedAt, gateAccepted,
  lifePhase, lifeOpOwner, lifePc, lifeReceipts, lifeAuthority, lifeDone,
  lifeWebRequired, lifeMaintenance, lifePos, lifeFailed, lifeUp, lifeCalls,
  lifeControls, lifeFails,
  rpcState, rpcWs, rpcGen, rpcOwner, rpcHsGen, rpcAttempt, rpcLastFailed,
  rpcIngressFailed, rpcBuffer, rpcClosing, rpcProc, rpcRequested, rpcDraining,
  rpcRes, rpcPc, rpcAt, rpcAtGen, rpcFlush, rpcReader, rpcNote, rpcTaken,
  rpcPending, rpcReq, rpcNoteNo, rpcDelivered, rpcFails, rpcStops

loopVars == <<
  loopClosed, loopWorker, loopAlive, loopQueue, loopWpc, loopHold,
  loopAccepted, loopKind, loopStarted, loopCancelled, loopDone, loopExpired,
  loopPc, loopWant, loopMine, loopTold, loopBarrier>>

gateVars == <<
  gateLatest, gateLastDisc, gateBlocked, gateInvalidated, gateCleanupRequired,
  gateDiscCleanup, gateEpoch, gateFactsLive, gateRegistry, gateHeld, gateLoop,
  gateQueue, gateConn, gateSock, gateReader, gateWpc, gatePermit, gateResets,
  gateFailures, gateVoids, gateIssuedAt, gateAccepted>>

lifeVars == <<
  lifePhase, lifeOpOwner, lifePc, lifeReceipts, lifeAuthority, lifeDone,
  lifeWebRequired, lifeMaintenance, lifePos, lifeFailed, lifeUp, lifeCalls,
  lifeControls, lifeFails>>

rpcVars == <<
  rpcState, rpcWs, rpcGen, rpcOwner, rpcHsGen, rpcAttempt, rpcLastFailed,
  rpcIngressFailed, rpcBuffer, rpcClosing, rpcProc, rpcRequested, rpcDraining,
  rpcRes, rpcPc, rpcAt, rpcAtGen, rpcFlush, rpcReader, rpcNote, rpcTaken,
  rpcPending, rpcReq, rpcNoteNo, rpcDelivered, rpcFails, rpcStops>>

Tasks == INSTANCE RuntimeLoop WITH
  Thread <- {x1, x2}, MaxTask <- 2, MaxWorker <- 2, closed <- loopClosed,
  worker <- loopWorker, alive <- loopAlive, queue <- loopQueue, wpc <-
  loopWpc, hold <- loopHold, accepted <- loopAccepted, kind <- loopKind,
  started <- loopStarted, cancelled <- loopCancelled, done <- loopDone,
  expired <- loopExpired, pc <- loopPc, want <- loopWant, mine <- loopMine,
  told <- loopTold, barrier <- loopBarrier

Gate == INSTANCE AdapterIngressGate WITH
  Worker <- {x1}, MaxGen <- 2, MaxReset <- 1, MaxQueue <- 3, MaxDrop <- 0,
  latest <- gateLatest, lastDisc <- gateLastDisc, blocked <- gateBlocked,
  invalidated <- gateInvalidated, cleanupRequired <- gateCleanupRequired,
  discCleanup <- gateDiscCleanup, epoch <- gateEpoch, factsLive <-
  gateFactsLive, registry <- gateRegistry, held <- gateHeld, loop <- gateLoop,
  queue <- gateQueue, conn <- gateConn, sock <- gateSock, reader <-
  gateReader, wpc <- gateWpc, permit <- gatePermit, resets <- gateResets,
  failures <- gateFailures, voids <- gateVoids, issuedAt <- gateIssuedAt,
  accepted <- gateAccepted

Lifecycle == INSTANCE ServiceRuntimeLifecycle WITH
  Threads <- {x1, x2}, Loop <- y1, Receipt <- {m1, m2}, NoThread <- None,
  MaxCalls <- 3, MaxControls <- 0, MaxFail <- 2, phase <- lifePhase, opOwner
  <- lifeOpOwner, at <- lifePc, receipts <- lifeReceipts, authority <-
  lifeAuthority, completed <- lifeDone, webRequired <- lifeWebRequired,
  maintenance <- lifeMaintenance, pos <- lifePos, failed <- lifeFailed, up <- lifeUp,
  calls <- lifeCalls, controls <- lifeControls, fails <- lifeFails

Rpc == INSTANCE CodexRpcConnection WITH
  Client <- {x1, x2}, MaxSocket <- 2, MaxAttempt <- 2, MaxReq <- 0, MaxNote <- 0,
  MaxFail <- 1, MaxStop <- 1, NoClient <- None, NoRes <- None, state <-
  rpcState, ws <- rpcWs, gen <- rpcGen, owner <- rpcOwner, hsGen <- rpcHsGen,
  attempt <- rpcAttempt, lastFailed <- rpcLastFailed, ingressFailed <-
  rpcIngressFailed, buffer <- rpcBuffer, closing <- rpcClosing, proc <-
  rpcProc, requested <- rpcRequested, draining <- rpcDraining, res <- rpcRes,
  pc <- rpcPc, at <- rpcAt, atGen <- rpcAtGen, flush <- rpcFlush, rstate <-
  rpcReader, note <- rpcNote, taken <- rpcTaken, pending <- rpcPending, req <-
  rpcReq, noteNo <- rpcNoteNo, delivered <- rpcDelivered, fails <- rpcFails,
  stops <- rpcStops

MCInit ==
  /\ part \in {"loop", "gate", "lifecycle", "rpc"}
  /\ Tasks!Init
  /\ Gate!Init
  /\ Lifecycle!LifecycleInit
  /\ Rpc!RpcInit

MCNext ==
  \/ part = "loop" /\ Tasks!Next /\ UNCHANGED <<part, gateVars, lifeVars, rpcVars>>
  \/ part = "gate" /\ Gate!Next /\ UNCHANGED <<part, loopVars, lifeVars, rpcVars>>
  \/ part = "lifecycle" /\ Lifecycle!LifecycleNext /\ UNCHANGED <<part, loopVars, gateVars, rpcVars>>
  \/ part = "rpc" /\ Rpc!RpcNext /\ UNCHANGED <<part, loopVars, gateVars, lifeVars>>

MCSpec == MCInit /\ [][MCNext]_<<part, loopVars, gateVars, lifeVars, rpcVars>>

\* A dispatched callback is run or abandoned.
Ends(r) == \/ Lifecycle!AbandonExternalIngress(r)
           \/ \E a \in {x1, x2, y1} : Lifecycle!RunExternalIngress(r, a)

\* Only what keeps running by itself is fair: the loop and its workers, threads
\* that are scheduled, timers, calls that return, turns that end.
Fairness ==
  /\ \A w \in 1..2 : WF_loopVars(part = "loop" /\ Tasks!WorkerStep(w))
  /\ \A t \in {x1, x2} : WF_loopVars(part = "loop" /\ Tasks!CallerStep(t))
  /\ WF_gateVars(part = "gate" /\ Gate!LoopStep)
  /\ \A g \in 1..2 : WF_gateVars(part = "gate" /\ Gate!ReaderSubmits(g))
  /\ \A t \in {x1, x2} : WF_lifeVars(part = "lifecycle" /\ Lifecycle!Operate(t))
  /\ WF_lifeVars(part = "lifecycle" /\ Lifecycle!Maintain)
  /\ \A r \in {m1, m2} :
       /\ WF_lifeVars(part = "lifecycle" /\ Lifecycle!SettleExternalIngress(r))
       /\ WF_lifeVars(part = "lifecycle" /\ Ends(r))
  /\ \A c \in {x1, x2} : WF_rpcVars(part = "rpc" /\ Rpc!ClientStep(c))
  /\ \A g \in 1..2 : WF_rpcVars(part = "rpc" /\ Rpc!ReaderEnds(g))

LiveSpec == MCSpec /\ Fairness

\* No caller waits for ever: every call, deadline call and unbounded stop
\* comes back, because each accepted task is over and its done set before
\* the _STOP.
CallersReturn == Tasks!CallersReturn

\* A fenced disconnect is cleaned up, or the gate is closed for good until a
\* reset: ordinary ingress never stays closed on a forgotten fence.
FencedDisconnectIsSettled == Gate!FencedDisconnectIsSettled

\* A call of stop() returns, whoever else starts, stops or runs callbacks.
StopReturns == Lifecycle!ServiceStopReturns

\* A start() or stop() returns: no handshake and no stop stays behind whose
\* owner is gone, whatever fails in between.
CallsReturn == Rpc!CallsReturn
=============================================================================
