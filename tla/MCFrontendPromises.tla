------------------------ MODULE MCFrontendPromises --------------------------
(***************************************************************************)
(* What the frontends promise, on their smallest instances and under the   *)
(* fairness below: what was accepted is resolved. One component moves in   *)
(* a behaviour.                                                            *)
(***************************************************************************)
EXTENDS TLC, Integers

CONSTANTS x1, x2, y1, y2, m1, m2, None   \* names and a null, for every component

VARIABLES
  part,  \* the component that moves in this behaviour; the others rest
  queueBound, queueInflight, queueLocal, queueEpoch, queueQroot, queueItems,
  queueActive, queueBusy, queuePhase, queueOutcome, queueAdmitted, queueLife,
  queueSent, queueRecalled, queueStalled,
  webGen, webDoc, webActive, webExecuting, webTerminal, webSource, webReq,
  webTaken, webSlots, webFile, webPins, webBytes,
  fcPstate, fcLive, fcCgen, fcPgen, fcLseq, fcTimers, fcConnSrc, fcUnkSrc,
  fcPending, fcStaged, fcCleanup, fcPres, fcStore, fcFails, fcReqs, fcSeq,
  fcAttempts, fcEpoch, fcJob, fcPx, fcWire, fcSub, fcLate, fcGone, fcMade,
  fcLoose,
  rootLease, rootAdm, rootUp, rootGens, rootFloor, rootOrphans, rootMisbound,
  rootClosedLate, rootLetgo,
  recExec, recReg, recW, recConn, recUp, recLeft, recStop, recLate, recRecon,
  recEnds, recShown, recEarly

queueVars == <<
  queueBound, queueInflight, queueLocal, queueEpoch, queueQroot, queueItems,
  queueActive, queueBusy, queuePhase, queueOutcome, queueAdmitted, queueLife,
  queueSent, queueRecalled, queueStalled>>

webVars == <<
  webGen, webDoc, webActive, webExecuting, webTerminal, webSource, webReq,
  webTaken, webSlots, webFile, webPins, webBytes>>

fcVars == <<
  fcPstate, fcLive, fcCgen, fcPgen, fcLseq, fcTimers, fcConnSrc, fcUnkSrc,
  fcPending, fcStaged, fcCleanup, fcPres, fcStore, fcFails, fcReqs, fcSeq,
  fcAttempts, fcEpoch, fcJob, fcPx, fcWire, fcSub, fcLate, fcGone, fcMade,
  fcLoose>>

rootVars == <<
  rootLease, rootAdm, rootUp, rootGens, rootFloor, rootOrphans, rootMisbound,
  rootClosedLate, rootLetgo>>

recVars == <<
  recExec, recReg, recW, recConn, recUp, recLeft, recStop, recLate, recRecon,
  recEnds, recShown, recEarly>>

Queue == INSTANCE FeishuExecutionQueue WITH
  Binding <- {x1}, Root <- {y1, y2}, Msg <- {m1, m2}, Compact <- {m2},
  MaxItems <- 2, MaxLife <- 2, NoRoot <- None, NoBinding <- None, NoDrain <-
  None, bound <- queueBound, inflight <- queueInflight, local <- queueLocal,
  epoch <- queueEpoch, qroot <- queueQroot, items <- queueItems, active <-
  queueActive, busy <- queueBusy, phase <- queuePhase, outcome <-
  queueOutcome, admitted <- queueAdmitted, life <- queueLife, sent <-
  queueSent, recalled <- queueRecalled, stalled <- queueStalled

Web == INSTANCE WebPromptSubmission WITH
  Post <- {x1, x2}, Mutation <- {m1}, NoPost <- None, ResultLimit <- 1,
  ActiveLimit <- 1, MaxGen <- 2, MaxDoc <- 1, gen <- webGen, doc <- webDoc,
  active <- webActive, executing <- webExecuting, terminal <- webTerminal,
  source <- webSource, req <- webReq, taken <- webTaken, slots <- webSlots,
  file <- webFile, pins <- webPins, bytes <- webBytes

Fcodex == INSTANCE FcodexParticipants WITH
  Participants <- {x1}, Connections <- {m1, m2}, Owner <- [c \in {m1, m2} |->
  x1], Threads <- {y1}, NewThreads <- {}, RequestIds <- {y1}, MaxRequests <-
  1, MaxFailures <- 2, MaxTimers <- 4, MaxGone <- 0, MaxEpochs <- 0, NoConn <-
  None, pstate <- fcPstate, live <- fcLive, cgen <- fcCgen, pgen <- fcPgen,
  lseq <- fcLseq, timers <- fcTimers, connSrc <- fcConnSrc, unkSrc <-
  fcUnkSrc, pending <- fcPending, staged <- fcStaged, cleanup <- fcCleanup,
  pres <- fcPres, store <- fcStore, fails <- fcFails, reqs <- fcReqs, seq <-
  fcSeq, attempts <- fcAttempts, backend <- fcEpoch, job <- fcJob, px <- fcPx,
  wire <- fcWire, sub <- fcSub, late <- fcLate, gone <- fcGone, made <-
  fcMade, loose <- fcLoose

RootOp == INSTANCE FeishuRootOperation WITH
  Chats <- {x1}, Other <- x2, NoOne <- None, MaxGens <- 2, MaxTurns <- 2,
  MaxCloses <- 1, Faults <- FALSE, mainLease <- rootLease, adm <- rootAdm, up
  <- rootUp, gens <- rootGens, floor <- rootFloor, orphans <- rootOrphans,
  misbound <- rootMisbound, closedLate <- rootClosedLate, letgo <- rootLetgo

Recovery == INSTANCE ExecutionRecovery WITH
  Workers <- {x1}, Kinds <- {"prompt"}, Rejects <- FALSE,
  Finals <- {"idle", "error"}, Stops <- FALSE, MaxTurns <- 2, MaxExecs <- 2,
  MaxPages <- 1, MaxWork <- 0, MaxLost <- 2, MaxFaults <- 1, MaxConns <- 1,
  exec <- recExec, reg <- recReg, w <- recW, conn <- recConn, up <- recUp,
  left <- recLeft, stop <- recStop, late <- recLate, recon <- recRecon,
  ends <- recEnds, shown <- recShown, early <- recEarly

MCInit ==
  /\ part \in {"queue", "web", "fcodex", "root", "recovery"}
  /\ Queue!Init
  /\ Web!Init
  /\ Fcodex!FcodexInit
  /\ RootOp!RootInit
  /\ Recovery!Init
  /\ part # "root" => ~rootUp.loaded /\ rootUp.goal = "none"

MCNext ==
  \/ part = "queue" /\ Queue!Next /\ UNCHANGED <<part, webVars, fcVars, rootVars, recVars>>
  \/ part = "web" /\ Web!Next /\ UNCHANGED <<part, queueVars, fcVars, rootVars, recVars>>
  \/ part = "fcodex" /\ Fcodex!FcodexNext /\ UNCHANGED <<part, queueVars, webVars, rootVars, recVars>>
  \/ part = "root" /\ RootOp!RootNext /\ UNCHANGED <<part, queueVars, webVars, fcVars, recVars>>
  \/ part = "recovery" /\ Recovery!Next /\ UNCHANGED <<part, queueVars, webVars, fcVars, rootVars>>

MCSpec == MCInit /\ [][MCNext]_<<part, queueVars, webVars, fcVars, rootVars, recVars>>

\* Only what keeps running by itself is fair: the loop and its workers, threads
\* that are scheduled, timers, calls that return, turns that end.
Fairness ==
  /\ WF_queueVars(part = "queue" /\ Queue!DrainStep)
  /\ \A p \in {x1, x2} : /\ WF_webVars(part = "web" /\ Web!Worker(p))
                         /\ WF_webVars(part = "web" /\ (Web!Start(p) \/ Web!CancelHandler(p)))
  /\ WF_fcVars(part = "fcodex" /\ Fcodex!HandlerSteps)
  /\ WF_fcVars(part = "fcodex" /\ Fcodex!TimerSteps)
  /\ \A c \in {m1, m2} :
       /\ WF_fcVars(part = "fcodex" /\ Fcodex!Heartbeat(c))
       /\ WF_fcVars(part = "fcodex" /\ Fcodex!DeliverResponse(c))
       /\ WF_fcVars(part = "fcodex" /\ fcPx[c] = "quarantined" /\ Fcodex!CloseProxy(c))
  /\ WF_rootVars(part = "root" /\ RootOp!Deliver)
  /\ WF_rootVars(part = "root" /\ RootOp!EndTurn)
  /\ WF_rootVars(part = "root" /\ RootOp!CompactBegins)
  /\ WF_recVars(part = "recovery" /\ Recovery!Handler)
  /\ WF_recVars(part = "recovery" /\ Recovery!Fire(x1))
  /\ WF_recVars(part = "recovery" /\ Recovery!Worker(x1))

LiveSpec == MCSpec /\ Fairness

\* A drain returns the loop: every round consumes its head.
DrainReturns == Queue!DrainReturns

\* A pending receipt does not stay pending for ever.
PendingResolves == Web!PendingResolves

\* The same while the participant has an open, live connection.
DeferredReleaseIsRetried == Fcodex!DeferredReleaseIsRetried

\* An accepted prompt is settled: its turn is bound, or the root is read
\* idle.
AcceptedPromptResolves == RootOp!AcceptedPromptResolves

\* An execution whose turn is over is retired even when the completion and
\* the idle status were lost and reads fail.
LostCompletionRetires == Recovery!LostCompletionRetires
=============================================================================
