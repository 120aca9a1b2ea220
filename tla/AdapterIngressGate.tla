------------------------- MODULE AdapterIngressGate -------------------------
(***************************************************************************)
(* The websocket-generation gate, bot/adapter_ingress_gate.py, with the    *)
(* three kinds of thread that use it:                                      *)
(*  - RuntimeLoop, one task at a time: queued callbacks and disconnects,   *)
(*    and the backend reset of bot/backend_reset/coordinator.py;           *)
(*  - one reader per websocket generation, which fences a disconnect       *)
(*    synchronously and queues callbacks (codex_protocol/connection.py);   *)
(*  - workers that send ordinary requests under a permit.                  *)
(*                                                                         *)
(* Every method runs under the gate lock, except that draining the active  *)
(* writes waits on a condition variable, which RELEASES the lock.  `held`  *)
(* is TRUE when a multi-step transaction keeps the lock because there was  *)
(* nothing to drain; the other threads then cannot enter the gate.         *)
(***************************************************************************)
EXTENDS Integers, Sequences

CONSTANTS
  Worker,      \* threads sending ordinary requests
  MaxGen,      \* bound: websocket generations opened
  MaxReset,    \* bound: backend resets attempted
  MaxQueue,    \* bound: tasks waiting for RuntimeLoop
  MaxDrop      \* bound: port failures (invalidation, activation, publication)

ASSUME BoundsAssumption ==
  /\ MaxGen \in Nat \ {0} /\ MaxReset \in Nat /\ MaxQueue \in Nat /\ MaxDrop \in Nat

VARIABLES
  latest,           \* _latest_generation
  lastDisc,         \* _last_disconnected_generation
  blocked,          \* _backend_reset_blocked
  invalidated,      \* _backend_reset_invalidated
  cleanupRequired,  \* _cleanup_required
  discCleanup,      \* _disconnect_cleanup_generation
  epoch,            \* _outbound_epoch
  factsLive,        \* _connection_facts_live
  registry,         \* generation the canonical registry was activated for, 0 once invalidated
  held,             \* the gate lock is kept across the current transaction
  loop,             \* what RuntimeLoop is doing: [op, gen]
  queue,            \* tasks submitted to RuntimeLoop
  conn, sock,       \* the physical connection: its generation and its socket
  reader,           \* what each generation's reader thread is about to submit
  wpc, permit,      \* each worker's position and the epoch of its permit
  resets, failures, \* how much of the bounds is used
  voids,            \* history: connection facts invalidated so far
  issuedAt,         \* history: voids when each worker's permit was issued
  accepted          \* history: the last admitted callback [gen, live]

gateVars == <<latest, lastDisc, blocked, invalidated, cleanupRequired, discCleanup,
              epoch, factsLive, registry, held>>
physVars == <<conn, sock, reader>>
workerVars == <<wpc, permit, issuedAt>>
vars == <<gateVars, loop, queue, physVars, workerVars, resets, failures, voids, accepted>>

Gen == 1..MaxGen
Idle == [op |-> "idle", gen |-> 0]
Draining == {"accept", "observe", "fence", "begin"}
ResetPhases == {"fenced", "stopped", "invalidated", "started"}
Larger(a, b) == IF a > b THEN a ELSE b

\* _ordinary_ingress_closed_locked
Closed == blocked \/ cleanupRequired \/ discCleanup > 0

\* The holders of a transport lease (_active_outbound_transports counts them).
Sending == {w \in Worker : wpc[w] \in {"sending", "starting"}}

GateFree == ~held

Init ==
  /\ latest = 0 /\ lastDisc = 0
  /\ blocked = FALSE /\ invalidated = FALSE /\ cleanupRequired = FALSE
  /\ discCleanup = 0 /\ epoch = 1 /\ factsLive = FALSE
  /\ registry = 0 /\ held = FALSE
  /\ loop = Idle /\ queue = <<>>
  /\ conn = 1 /\ sock = "open"
  /\ reader = [g \in Gen |-> "none"]
  /\ wpc = [w \in Worker |-> "idle"]
  /\ permit = [w \in Worker |-> 0] /\ issuedAt = [w \in Worker |-> 0]
  /\ resets = 0 /\ failures = 0 /\ voids = 0
  /\ accepted = [gen |-> 0, live |-> TRUE]

-----------------------------------------------------------------------------
(* Ordinary requests (any worker thread).                                   *)

IssueOutboundRequest(w) ==
  /\ GateFree /\ wpc[w] = "idle" /\ ~Closed
  /\ wpc' = [wpc EXCEPT ![w] = "permitted"]
  /\ permit' = [permit EXCEPT ![w] = epoch]
  /\ issuedAt' = [issuedAt EXCEPT ![w] = voids]
  /\ UNCHANGED <<gateVars, loop, queue, physVars, resets, failures, voids, accepted>>

PermitCurrent(w) == ~Closed /\ permit[w] = epoch

\* guard_outbound_send, entry: a stale permit fails before the write.
GuardEnter(w) ==
  /\ GateFree /\ wpc[w] = "permitted"
  /\ wpc' = [wpc EXCEPT ![w] = IF PermitCurrent(w) THEN "sending" ELSE "idle"]
  /\ UNCHANGED <<gateVars, loop, queue, physVars, permit, issuedAt, resets, failures,
                 voids, accepted>>

\* guard_outbound_send, exit: the lease is returned and the drain is notified.
GuardExit(w) ==
  /\ GateFree /\ wpc[w] = "sending"
  /\ wpc' = [wpc EXCEPT ![w] = "sent"]
  /\ UNCHANGED <<gateVars, loop, queue, physVars, permit, issuedAt, resets, failures,
                 voids, accepted>>

\* confirm_outbound_request commits the response only in its own epoch.
ConfirmOutboundRequest(w) ==
  /\ GateFree /\ wpc[w] = "sent"
  /\ wpc' = [wpc EXCEPT ![w] = IF PermitCurrent(w) THEN "confirmed" ELSE "idle"]
  /\ UNCHANGED <<gateVars, loop, queue, physVars, permit, issuedAt, resets, failures,
                 voids, accepted>>

\* The caller applies the confirmed response and is done.
RequestDone(w) ==
  /\ wpc[w] = "confirmed"
  /\ wpc' = [wpc EXCEPT ![w] = "idle"]
  /\ UNCHANGED <<gateVars, loop, queue, physVars, permit, issuedAt, resets, failures,
                 voids, accepted>>

-----------------------------------------------------------------------------
(* The physical connection and its readers.                                 *)

\* A request that finds no usable socket starts one on demand, under the
\* connection lock and inside a transport lease.
StartEnter(w) ==
  /\ GateFree /\ wpc[w] = "permitted" /\ PermitCurrent(w)
  /\ sock # "open" /\ conn < MaxGen
  /\ \A v \in Worker : wpc[v] # "starting"
  /\ wpc' = [wpc EXCEPT ![w] = "starting"]
  /\ UNCHANGED <<gateVars, loop, queue, physVars, permit, issuedAt, resets, failures,
                 voids, accepted>>

\* The start allocates the next generation, or fails; the lease is returned.
Connected(w) ==
  /\ wpc[w] = "starting"
  /\ conn' = conn + 1 /\ sock' = "open"
  /\ wpc' = [wpc EXCEPT ![w] = "permitted"]
  /\ UNCHANGED <<gateVars, loop, queue, reader, permit, issuedAt, resets, failures,
                 voids, accepted>>

StartFails(w) ==
  /\ wpc[w] = "starting"
  /\ wpc' = [wpc EXCEPT ![w] = "idle"]
  /\ UNCHANGED <<gateVars, loop, queue, physVars, permit, issuedAt, resets, failures,
                 voids, accepted>>

SocketDies ==
  /\ sock = "open"
  /\ sock' = "dead"
  /\ UNCHANGED <<gateVars, loop, queue, conn, reader, workerVars, resets, failures,
                 voids, accepted>>

\* The reader has received a message and passed its identity check.
ReaderReceives ==
  /\ sock = "open" /\ reader[conn] = "none"
  /\ reader' = [reader EXCEPT ![conn] = "callback"]
  /\ UNCHANGED <<gateVars, loop, queue, conn, sock, workerVars, resets, failures, voids,
                 accepted>>

ReaderSubmits(g) ==
  /\ reader[g] # "none" /\ Len(queue) < MaxQueue
  /\ queue' = Append(queue, [kind |-> reader[g], gen |-> g])
  /\ reader' = [reader EXCEPT ![g] = "none"]
  /\ UNCHANGED <<gateVars, loop, conn, sock, workerVars, resets, failures, voids, accepted>>

\* fence_disconnect(g): gate facts only; admitted tells the reader to queue cleanup.
FenceAdmits(g) == ~blocked /\ g > lastDisc /\ g >= latest

FenceDisconnect(g) ==
  /\ lastDisc' = IF ~blocked /\ g > lastDisc THEN g ELSE lastDisc
  /\ latest' = IF FenceAdmits(g) THEN g ELSE latest
  /\ IF FenceAdmits(g) /\ g > discCleanup
     THEN epoch' = epoch + 1 /\ discCleanup' = g
     ELSE UNCHANGED <<epoch, discCleanup>>
  /\ UNCHANGED <<blocked, invalidated, cleanupRequired, factsLive, registry, held>>

\* Mutant: the fenced disconnect is not queued for cleanup.
ReaderDisconnectsSilently ==
  /\ GateFree /\ sock = "dead" /\ reader[conn] = "none"
  /\ \A w \in Worker : wpc[w] # "starting"
  /\ sock' = "none"
  /\ FenceDisconnect(conn)
  /\ UNCHANGED <<reader, loop, queue, conn, workerVars, resets, failures, voids, accepted>>

\* The reader of the current socket sees it closed (_reader_loop, tail).
ReaderDisconnects ==
  /\ GateFree /\ sock = "dead" /\ reader[conn] = "none"
  /\ \A w \in Worker : wpc[w] # "starting"
  /\ sock' = "none"
  /\ FenceDisconnect(conn)
  /\ reader' = [reader EXCEPT ![conn] = IF FenceAdmits(conn) THEN "disconnect" ELSE "none"]
  /\ UNCHANGED <<loop, queue, conn, workerVars, resets, failures, voids, accepted>>

-----------------------------------------------------------------------------
(* _invalidate_connection_facts_locked: open the transaction, drain the     *)
(* writes, run the invalidation port, commit.                               *)

\* Mutant: the transaction forgets to advance the outbound epoch.
OpenInvalidationSameEpoch(op, g, e) ==
  /\ epoch' = e
  /\ cleanupRequired' = TRUE
  /\ held' = (Sending = {})
  /\ loop' = [op |-> op, gen |-> g]

OpenInvalidation(op, g, e) ==
  /\ epoch' = e + 1
  /\ cleanupRequired' = TRUE
  /\ held' = (Sending = {})
  /\ loop' = [op |-> op, gen |-> g]

\* Mutant: the drain does not wait for active writes.
DrainSkipped == TRUE

Drained == Sending = {}

\* Mutant: facts stay marked live after the invalidation.
FactsVoidedStillLive ==
  /\ registry' = 0 /\ factsLive' = factsLive
  /\ cleanupRequired' = FALSE /\ held' = FALSE
  /\ voids' = voids + 1

\* Mutant: the transaction commits without calling the invalidation port.
FactsVoidedWithoutPort ==
  /\ registry' = registry /\ factsLive' = FALSE
  /\ cleanupRequired' = FALSE /\ held' = FALSE
  /\ voids' = voids + 1

FactsVoided ==
  /\ registry' = 0 /\ factsLive' = FALSE
  /\ cleanupRequired' = FALSE /\ held' = FALSE
  /\ voids' = voids + 1

\* The port raises: its effect is partial, the gate stays closed.
PortFails ==
  /\ failures < MaxDrop /\ failures' = failures + 1
  /\ registry' \in {registry, 0}
  /\ blocked' = TRUE /\ held' = FALSE

\* activate_connection_epoch(g) and its failure, the tail of accept.
Activates(g) ==
  /\ registry' = g
  /\ accepted' = [gen |-> g, live |-> g > lastDisc /\ discCleanup = 0]
  /\ UNCHANGED <<epoch, blocked, failures>>

ActivationFails(g) ==
  /\ failures < MaxDrop /\ failures' = failures + 1
  /\ registry' \in {registry, g}
  /\ epoch' = epoch + 1 /\ cleanupRequired' = TRUE /\ blocked' = TRUE
  /\ UNCHANGED accepted

-----------------------------------------------------------------------------
(* RuntimeLoop: queued adapter tasks.                                       *)

\* The loop takes the oldest task and enters the gate.
NextTask(kind) == GateFree /\ loop = Idle /\ queue # <<>> /\ Head(queue).kind = kind
TaskGen == Head(queue).gen

\* Mutant: a superseded generation is not refused.
AcceptRefusesDisconnected(g) == blocked \/ discCleanup # 0 \/ g <= lastDisc

\* Conditions under which accept refuses a callback.
AcceptRefuses(g) == blocked \/ discCleanup # 0 \/ g <= lastDisc \/ g < latest

AcceptDropped ==
  /\ NextTask("callback") /\ AcceptRefuses(TaskGen)
  /\ queue' = Tail(queue)
  /\ UNCHANGED <<gateVars, loop, physVars, workerVars, resets, failures, voids, accepted>>

\* accept without a previous epoch to invalidate.
AcceptLive ==
  /\ NextTask("callback") /\ ~AcceptRefuses(TaskGen)
  /\ TaskGen > latest => ~factsLive
  /\ queue' = Tail(queue)
  /\ latest' = TaskGen /\ factsLive' = TRUE
  /\ \/ Activates(TaskGen) /\ UNCHANGED cleanupRequired
     \/ ActivationFails(TaskGen)
  /\ UNCHANGED <<lastDisc, invalidated, discCleanup, held, loop, physVars, workerVars,
                 resets, voids>>

\* accept of a newer generation first invalidates the previous epoch.
AcceptSupersedes ==
  /\ NextTask("callback") /\ ~AcceptRefuses(TaskGen)
  /\ TaskGen > latest /\ factsLive
  /\ queue' = Tail(queue)
  /\ OpenInvalidation("accept", TaskGen, epoch)
  /\ UNCHANGED <<latest, lastDisc, blocked, invalidated, discCleanup, factsLive, registry,
                 physVars, workerVars, resets, failures, voids, accepted>>

\* ... and, once drained and invalidated, adopts its own generation.
AcceptCompletes ==
  /\ loop.op = "accept" /\ Drained
  /\ latest' = loop.gen /\ factsLive' = TRUE /\ held' = FALSE
  /\ voids' = voids + 1
  /\ \/ Activates(loop.gen) /\ cleanupRequired' = FALSE
     \/ ActivationFails(loop.gen)
  /\ loop' = Idle
  /\ UNCHANGED <<lastDisc, invalidated, discCleanup, queue, physVars, workerVars, resets>>

AcceptPortFails ==
  /\ loop.op = "accept" /\ Drained
  /\ PortFails
  /\ loop' = Idle
  /\ UNCHANGED <<latest, lastDisc, invalidated, cleanupRequired, discCleanup, epoch,
                 factsLive, queue, physVars, workerVars, resets, voids, accepted>>

\* observe_disconnect refuses when blocked, superseded, or not a fence any more.
ObserveRefuses(g) ==
  \/ blocked
  \/ IF discCleanup # 0 THEN g # discCleanup ELSE ~FenceAdmits(g)

ObserveDropped ==
  /\ NextTask("disconnect") /\ ObserveRefuses(TaskGen)
  /\ queue' = Tail(queue)
  /\ lastDisc' = IF ~blocked /\ discCleanup = 0 THEN Larger(lastDisc, TaskGen) ELSE lastDisc
  /\ UNCHANGED <<latest, blocked, invalidated, cleanupRequired, discCleanup, epoch,
                 factsLive, registry, held, loop, physVars, workerVars, resets, failures,
                 voids, accepted>>

\* A task whose fence is gone takes it again (the reader normally fenced it).
ObserveDisconnect ==
  /\ NextTask("disconnect") /\ ~ObserveRefuses(TaskGen)
  /\ queue' = Tail(queue)
  /\ latest' = TaskGen /\ lastDisc' = TaskGen /\ discCleanup' = TaskGen
  /\ OpenInvalidation("observe", TaskGen, IF discCleanup = 0 THEN epoch + 1 ELSE epoch)
  /\ UNCHANGED <<blocked, invalidated, factsLive, registry, physVars, workerVars, resets,
                 failures, voids, accepted>>

ObserveCompletes ==
  /\ loop.op = "observe" /\ Drained
  /\ \/ FactsVoided /\ UNCHANGED <<blocked, failures>>
     \/ PortFails /\ UNCHANGED <<factsLive, cleanupRequired, voids>>
  /\ discCleanup' = 0
  /\ loop' = Idle
  /\ UNCHANGED <<latest, lastDisc, invalidated, epoch, queue, physVars, workerVars,
                 resets, accepted>>

\* _drain_outbound_transports_locked gives up on a write that does not return.
DrainTimesOut ==
  /\ loop.op \in Draining /\ ~Drained
  /\ cleanupRequired' = TRUE /\ blocked' = TRUE
  /\ discCleanup' = IF loop.op = "observe" THEN 0 ELSE discCleanup
  /\ loop' = Idle
  /\ UNCHANGED <<latest, lastDisc, invalidated, epoch, factsLive, registry, held, queue,
                 physVars, workerVars, resets, failures, voids, accepted>>

-----------------------------------------------------------------------------
(* RuntimeLoop: one backend reset (replace_owned_backend), gate steps in    *)
(* order.  Any failure ends the task with ingress still closed.             *)

\* fence_backend_reset; expected = 0 is the unpinned local recovery path.
FenceBackendReset(expected) ==
  /\ GateFree /\ loop = Idle /\ resets < MaxReset
  /\ expected # 0 => latest = expected /\ ~Closed
  /\ epoch' = epoch + 1 /\ invalidated' = FALSE /\ blocked' = TRUE
  /\ held' = (Sending = {})
  /\ loop' = [op |-> "fence", gen |-> 0]
  /\ resets' = resets + 1
  /\ UNCHANGED <<latest, lastDisc, cleanupRequired, discCleanup, factsLive, registry,
                 queue, physVars, workerVars, failures, voids, accepted>>

FenceCompletes ==
  /\ loop.op = "fence" /\ Drained
  /\ held' = FALSE
  /\ loop' = [op |-> "fenced", gen |-> 0]
  /\ UNCHANGED <<latest, lastDisc, blocked, invalidated, cleanupRequired, discCleanup,
                 epoch, factsLive, registry, queue, physVars, workerVars, resets,
                 failures, voids, accepted>>

\* adapter.stop(): readers see the stop request and leave without fencing.
StopBackend ==
  /\ loop.op = "fenced"
  /\ sock' = "none"
  /\ loop' = [op |-> "stopped", gen |-> 0]
  /\ UNCHANGED <<gateVars, queue, conn, reader, workerVars, resets, failures, voids, accepted>>

\* begin_backend_reset, first run or retry of a failed invalidation.
BeginBackendReset ==
  /\ GateFree /\ loop.op = "stopped"
  /\ cleanupRequired => blocked
  /\ blocked' = TRUE /\ invalidated' = FALSE
  /\ OpenInvalidation("begin", 0, epoch)
  /\ UNCHANGED <<latest, lastDisc, discCleanup, factsLive, registry, queue, physVars,
                 workerVars, resets, failures, voids, accepted>>

BeginCompletes ==
  /\ loop.op = "begin" /\ Drained
  /\ FactsVoided
  /\ discCleanup' = 0 /\ invalidated' = TRUE
  /\ loop' = [op |-> "invalidated", gen |-> 0]
  /\ UNCHANGED <<latest, lastDisc, blocked, epoch, queue, physVars, workerVars, resets,
                 failures, accepted>>

BeginPortFails ==
  /\ loop.op = "begin" /\ Drained
  /\ PortFails
  /\ loop' = Idle
  /\ UNCHANGED <<latest, lastDisc, invalidated, cleanupRequired, discCleanup, epoch,
                 factsLive, queue, physVars, workerVars, resets, voids, accepted>>

StartReplacement ==
  /\ loop.op = "invalidated" /\ conn < MaxGen
  /\ conn' = conn + 1 /\ sock' = "open"
  /\ loop' = [op |-> "started", gen |-> conn + 1]
  /\ UNCHANGED <<gateVars, queue, reader, workerVars, resets, failures, voids, accepted>>

\* Mutant: off by one in the wrong direction.
DisconnectedAfterNext(g) == Larger(lastDisc, g + 1)

\* lastDisc once generation g is admitted: everything older is disconnected.
DisconnectedBefore(g) == Larger(lastDisc, g - 1)

\* admit_backend_replacement with a successful publication.
AdmitBackendReplacement ==
  /\ GateFree /\ loop.op = "started"
  /\ ~cleanupRequired /\ blocked /\ invalidated
  /\ loop.gen > Larger(latest, lastDisc)
  /\ lastDisc' = DisconnectedBefore(loop.gen)
  /\ latest' = loop.gen
  /\ factsLive' = TRUE /\ discCleanup' = 0
  /\ blocked' = FALSE /\ invalidated' = FALSE
  /\ loop' = Idle
  /\ UNCHANGED <<cleanupRequired, epoch, registry, held, queue, physVars, workerVars,
                 resets, failures, voids, accepted>>

\* Stop, a retirement, start or publication raises: the task ends, ingress stays closed.
ResetFails ==
  /\ loop.op \in ResetPhases /\ failures < MaxDrop
  /\ failures' = failures + 1
  /\ loop' = Idle
  /\ UNCHANGED <<gateVars, queue, physVars, workerVars, resets, voids, accepted>>

-----------------------------------------------------------------------------
WorkerStep(w) ==
  \/ IssueOutboundRequest(w) \/ GuardEnter(w) \/ GuardExit(w)
  \/ StartEnter(w) \/ Connected(w) \/ StartFails(w)
  \/ ConfirmOutboundRequest(w) \/ RequestDone(w)

\* Work RuntimeLoop carries out once it has it.
LoopStep ==
  \/ AcceptDropped \/ AcceptLive \/ AcceptSupersedes \/ AcceptCompletes \/ AcceptPortFails
  \/ ObserveDropped \/ ObserveDisconnect \/ ObserveCompletes
  \/ FenceCompletes \/ StopBackend \/ BeginBackendReset \/ BeginCompletes
  \/ BeginPortFails \/ StartReplacement \/ AdmitBackendReplacement
  \/ DrainTimesOut

ReaderStep == \E g \in Gen : ReaderSubmits(g)

Next ==
  \/ \E w \in Worker : WorkerStep(w)
  \/ LoopStep
  \/ ReaderStep
  \/ SocketDies \/ ReaderReceives \/ ReaderDisconnects
  \/ \E expected \in 0..MaxGen : FenceBackendReset(expected)
  \/ ResetFails

Spec == Init /\ [][Next]_vars

\* RuntimeLoop keeps running its tasks, and a reader that owes a submission
\* makes it.  Nothing is assumed of workers (a write may hang), of the socket
\* or of resets.
FairSpec == Spec /\ WF_vars(LoopStep) /\ \A g \in Gen : WF_vars(ReaderSubmits(g))

-----------------------------------------------------------------------------
(* Properties.                                                              *)

TypeOK ==
  /\ latest \in 0..MaxGen /\ lastDisc \in 0..MaxGen /\ discCleanup \in 0..MaxGen
  /\ blocked \in BOOLEAN /\ invalidated \in BOOLEAN /\ cleanupRequired \in BOOLEAN
  /\ epoch \in Nat /\ factsLive \in BOOLEAN /\ registry \in 0..MaxGen
  /\ held \in BOOLEAN
  /\ loop \in [op : {"idle"} \cup Draining \cup ResetPhases, gen : 0..MaxGen]
  /\ queue \in Seq([kind : {"callback", "disconnect"}, gen : Gen])
  /\ conn \in Gen /\ sock \in {"open", "dead", "none"}
  /\ reader \in [Gen -> {"none", "callback", "disconnect"}]
  /\ wpc \in [Worker -> {"idle", "permitted", "starting", "sending", "sent", "confirmed"}]
  /\ permit \in [Worker -> Nat] /\ issuedAt \in [Worker -> Nat]
  /\ resets \in Nat /\ failures \in Nat /\ voids \in Nat
  /\ accepted \in [gen : 0..MaxGen, live : BOOLEAN]

\* Connection facts are never invalidated under a write that the gate let in:
\* every transport lease of the old epoch is drained first.
NoWriteAcrossInvalidation == [][voids' # voids => Sending = {}]_vars

\* A response is committed only if no connection-fact invalidation happened
\* since its permit was issued, however the drain, the fences and the resets
\* interleaved with the request.
ConfirmedInItsEpoch ==
  \A w \in Worker : (GateFree /\ ~Closed /\ wpc[w] # "idle" /\ permit[w] = epoch) => issuedAt[w] = voids

\* While ordinary ingress is open, live facts are those of the newest
\* generation that has not been reported as disconnected.
OpenFactsAreCurrent ==
  (~Closed /\ factsLive) => latest > lastDisc /\ registry \in {0, latest}

\* Callbacks are admitted in generation order: a superseded connection never
\* speaks again.
AdmittedGenerationsAdvance == [][accepted'.gen >= accepted.gen]_vars

\* Once an invalidation, activation or drain failed, only the replacement of a
\* reset that invalidated the old epoch reopens ingress, for a newer generation.
OnlyReplacementReopens ==
  [][(blocked /\ ~blocked') =>
       /\ registry = 0 /\ ~cleanupRequired /\ Sending = {}
       /\ latest' > latest /\ latest' > lastDisc]_vars

\* A fenced disconnect is cleaned up, or the gate is closed for good until a
\* reset: ordinary ingress never stays closed on a forgotten fence.
FencedDisconnectIsSettled == (discCleanup > 0) ~> (discCleanup = 0 \/ blocked)

\* accept's contract: the admitted callback belongs to the live connection
\* epoch, that is to a generation nobody has fenced.
AdmittedCallbackIsLive == accepted.live

\* What capture_existing_connection_generation promises: the connection it
\* returns is live, its reader has not already reported the disconnect.
CapturedConnectionIsLive ==
  (~Closed /\ factsLive /\ latest > lastDisc /\ conn = latest) => sock # "none"

\* An open gate shows the facts of its current connection epoch only.
GateInvariant ==
  /\ TypeOK
  /\ ConfirmedInItsEpoch
  /\ OpenFactsAreCurrent

\* What no step of the gate does: invalidate under a write, admit an older
\* generation, or reopen without a replacement.
GateSteps ==
  /\ NoWriteAcrossInvalidation
  /\ AdmittedGenerationsAdvance
  /\ OnlyReplacementReopens
=============================================================================
