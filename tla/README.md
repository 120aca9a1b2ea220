# A TLA+ verification of the FOCUS runtime core

FOCUS puts several frontends (Feishu chats, Focus Web, the `fcodex` wrapper,
`focusctl`) in front of one `codex app-server`. It adds no intelligence of its
own: its correctness is a matter of ownership, ordering and lifetime. Who may
run the main turn of a thread, which websocket generation a callback belongs
to, in which binding lifecycle a queued message may still be sent, what a
frontend may be told when the outcome of a call is unknown. This directory
models those mechanisms, checks them with TLC on small instances and proves
their safety with TLAPS for every instance.

All paths below are relative to the repository; `bot/` is `src/bot/`.

## 1. Inventory

### 1.1 The system's parts

| Part | State it keeps | Operations | Hard behaviour |
|---|---|---|---|
| `RuntimeLoop` (`bot/runtime_loop.py`) | task queue, worker thread, closed flag, per-task start/cancel/done | start, submit, call, call_with_deadline, stop, the worker's loop | racing starts, stop between two critical sections, a deadline racing the start of its task |
| Service lifecycle (`bot/service_runtime_lifecycle.py`) | phase, operation owner, ingress receipts, finished shutdown steps | start, stop with retry, offline maintenance, external ingress | failure half-way through a staged start or stop, callbacks beside a shutdown |
| Main-turn lease store (`bot/stores/interaction_lease_store.py`) | a locked file: thread -> holder, process incarnation, `lease_id`, turn | acquire, release (exact, by turn, by holder), activate, clear, capture and retire for a backend stop; every operation prunes | ABA on equal holders, process death, pid reuse, unreadable identities, off-loop callers |
| Thread runtime lease store (`bot/stores/thread_runtime_lease_store.py`), instance registry, service authority | machine-wide files: thread -> instance, service generation, holders | register, preflight, acquire, release, compare-and-release, purge | two service instances, stale generations, a preflight that is old when the claim is made |
| Codex RPC connection (`bot/codex_protocol/connection.py`) and its stop barrier | socket, generation, handshake, pending requests, reader thread | start, stop, handshake, send, read, loss | three kinds of thread, callbacks outside the lock, sockets replaced under them |
| Adapter ingress gate (`bot/adapter_ingress_gate.py`) | websocket generations, outbound epoch, reset/cleanup fences, active writes | issue/guard/confirm a request, accept a callback, fence/observe a disconnect, fence/begin/admit a reset | a condition wait that releases the lock in mid-transaction, callbacks overtaking disconnects, ports that fail |
| Backend reset coordinator (`bot/backend_reset/coordinator.py`) | none of its own | fence, capture, stop, retire, invalidate, restart, admit | any step may raise; ingress must stay closed |
| Server requests (`bot/server_request_registry.py`, coordinator, dispatcher, `bot/codex_protocol/server_request_authority.py`) | open approval/input requests, projections of three surfaces, response grants | register, replay, settle, answer, revoke, time out | answers racing answers, replays and losses; a socket that dies under an answer |
| Feishu execution queue (`bot/feishu_execution_queue.py`, `..._service.py`) | per binding: epoch, root, items, the claimed head | enqueue or start, drain, recall, invalidate (binding, group, all) | rebinding between claim and send, recall of a claimed head, lost wake-ups |
| Feishu root operations (`bot/feishu_root_operation_controller.py`, continuation and compaction) | per root: admission, its waiting turn or unknown outcome | prompt, compact, goal, attach, resume, notifications, owner loss | unknown outcomes of upstream mutations, notifications of the past |
| Binding runtime manager (`bot/binding_runtime_manager.py`) and binding administration | resident, stored and subscribed bindings, reserved losses | bind, clear, attach, detach, archive, delete, destination loss, restart | one step of several failing, rollback that fails too |
| Thread runtime authority (`bot/thread_runtime_authority.py`) | resume, unsubscribe and start receipts, claims, leases | resume, unsubscribe, settle, invalidate, Web cleanup | workers between two loop calls, compensation after a loss |
| Turn execution and recovery (`bot/execution_recovery_*.py`, `bot/adapter_notification_*.py`) | execution anchor, watchdog ticket, receipts | notifications, watchdog, reads, retirement | lost completions, snapshots that are old when used |
| Execution output (`bot/execution_output_*.py`, `bot/execution_pages.py`, `bot/runtime_card_publisher.py`) | page ledger, patch timer, dispatcher slots | open, patch, roll over, reconcile, finish | sends of unknown outcome, patches overtaking pages |
| Web prompt submission (`bot/web_runtime/prompt_submission.py`), attachment store | receipts per mutation, one pending attempt, pinned files | prepare, effect, settle, abandon, reconcile, evict | a retry of what may have happened, receipts forgotten |
| fcodex participants (`bot/fcodex/participant_runtime_registry.py`), thread creation | sources, endpoints, timers, the machine holder | admit, response, connect, heartbeat, disconnect, gone, create | store calls that fail before or after their effect, late answers |
| Web runtime, other stores, app-server guard, cards, installation, browser | projections, files, processes, presentation | | not modelled, see section 6 |

`PROJECT.json` lists every part with its status, and under `hazards` the line
at which each hard behaviour bites.

### 1.2 How they interact

Every frontend callback becomes a task of the `RuntimeLoop`; process-local
state is only touched there (`docs/architecture/focus-design.md` §2.4). Four
kinds of thread stay outside: websocket readers, which fence a disconnect
synchronously and queue everything else; threads that send requests, which
hold an outbound permit of the gate; the Web's workers (thread opens, prompt
POSTs, cleanup), which do store and transport work off the loop between calls
on it; and the workers of the watchdog, of terminal presentation and of the
card dispatcher. A frontend that wants the main turn acquires a lease;
`turn/started` binds the lease to the turn and `turn/completed` ends it. A
Feishu message that finds its binding busy is queued, and the finalization of
the running execution drains the queue. A thread is resumed under the machine's
runtime lease, which the thread runtime authority, the fcodex registry and the
service's shutdown release. A backend reset runs as one loop task: it closes
the gate, captures the process's leases, stops the backend, retires exactly the
captured leases, invalidates the connection's facts, starts a replacement and
reopens the gate.

### 1.3 What makes each part correct

* `RuntimeLoop`: tasks run one at a time in acceptance order; what a caller is
  told about its task is true; `stop` is a barrier; nobody waits for ever.
* Lifecycle: the machine authority outlives every resource and callback; what
  was stopped is not started again; a retry continues where it failed.
* Lease stores: one owner per thread; a live process never loses its lease to
  pruning; an ended generation never comes back; retirement and
  compare-and-release take what was captured and nothing else.
* Connection and gate: a request waits on the socket it was written to; no
  request is confirmed across an invalidation and no write is in flight during
  one; the facts behind an open gate belong to the newest generation.
* Server requests: one answer per request and connection epoch, given by who
  owns it; what was revoked stays hidden.
* Queue: an item is sent in the binding lifecycle that admitted it or not at
  all, in order, once, and never after its recall; waiting items have a wake-up
  coming.
* Receipts (roots, resumes, prompts, participants): a lease or holder lasts as
  long as a reason for it, an unknown outcome is kept until something proves
  it, and a late answer touches only its own attempt.
* Execution and output: an execution is retired once, not before its turn; the
  pages of its transcript are contiguous, no card is posted twice, no patch
  is lost or applied to a page that is final; behind the shutdown's join no
  recovery worker acts.

## 2. Modules

| Module | What it is |
|---|---|
| `SerialExecutor` | abstract: what `RuntimeLoop` promises, without threads, locks or clock |
| `RuntimeLoop` | the loop with its callers, worker and two kinds of lock |
| `ServiceRuntimeLifecycle` | staged start and stop, ingress receipts, maintenance |
| `ThreadsProofs` | proofs for both, and the refinement of `SerialExecutor` |
| `InteractionLease` | the main-turn ledger, its callers, processes and the reset's retirement |
| `RuntimeOwnership` | abstract: a thread is live in one service generation at a time |
| `ThreadRuntimeLease` | the machine-wide ledger, the registry and the OS locks |
| `LeasesProofs` | proofs for both, and the refinement of `RuntimeOwnership` |
| `AdapterIngressGate` | the gate with reader, sender and loop threads and the reset |
| `CodexRpcConnection` | the websocket client below it, with its stop barrier |
| `ConnectionProofs` | proofs for both |
| `ServerRequests`, `ServerRequestsProofs` | requests of the app-server on three surfaces; its proof |
| `FeishuExecutionQueue` | admission, drain, recall and invalidation of the queue |
| `FcodexParticipants` | participants, their sources and the machine holder |
| `FrontendProofs` | proofs for both |
| `FeishuRootOperation` | one root as Feishu writes to it |
| `Bindings` | resident, stored and subscribed bindings and what moves them |
| `ThreadResume` | the resume, unsubscribe and start receipts of one thread |
| `RootsProofs` | proofs for these three |
| `ExecutionRecovery` | how an execution learns that its turn is over |
| `ExecutionOutput` | pages, cards, the dispatcher and terminal presentation |
| `ExecutionProofs` | proofs for both |
| `WebPromptSubmission`, `WebPromptSubmissionProofs` | prompt receipts and attachments of the Web; its proofs |
| `MC*` | instances for TLC |

A definition keeps the name of the code where TLA+ allows (`Activated`,
`same_holder`, `AcceptRefuses`, `ClaimedReceiptMatches`); `PROJECT.json` maps
each one to its lines. Definitions commented `Mutant:` are plausible bugs: each
takes the place of the definition after it to show that a property notices.
The header of a module names what it abstracts; the paragraphs below say more
where the correspondence to the code is not obvious.

**RuntimeLoop.** A step is what one thread does under one lock. `StartWorker`
is `start()` as `_enqueue` calls it, `Enqueue` the second critical section, in
which the loop may be closed by now. A deadline is a Boolean that becomes true
at any moment (`Expire`); the race between `WaitTimesOut`/`RaiseTimeout` and
`StartTask` is decided by the task's `state_lock`. `StopLoop` closes and puts
`_STOP`, `StopReturns` and `StopTimesOut` are the two ends of the join.
`FinishTask` stands for a function that returns and for one that raises. Calls
made on the worker itself run inline and belong to the task that makes them.
The other models rest on this one: they let one loop task at a time take steps.

**InteractionLease.** The ledger is a function from threads to records. Each
store operation is one action, because the code holds the file lock from read
to write, and each prunes first: `R` is the set of pids whose identity the
platform can report at that moment. `self` is the identity the service reads
for its own pid, once per incarnation, possibly unreadable. Clients keep the
receipt `acquire` gave them and may use it later, however stale.
Clients in `OffLoop` interleave with the reset; the others cannot start while
the reset's task occupies the loop. `ServiceExit`, `ServiceStart`,
`ForeignStart` and `ForeignExit` crash, restart and reuse pids.
`CaptureForBackendStop`, one `RetireOne` step per captured record, `RetireDone`
and `RetireFailed` are the reset. `ended` and `owner` are history.

**ThreadRuntimeLease.** A generation is one run of a service: a process with
the OS lock of its instance and a fresh token. Preflight, claim and load are
three steps. Everything that refreshes `updated_at` draws a stamp. Left out:
`purge_instance`, which nothing calls, and transfer records of version 0.

**AdapterIngressGate.** Every method is atomic under the gate's lock, with one
exception: draining the active writes waits on a condition variable, which
releases the lock. A transaction that has to wait is split in two, and `held`
says whether it keeps the lock between. `conn`, `sock` and `reader` are the
physical connection and the reader threads; `queue` and `loop` are the loop's
tasks, in order. The ports the gate calls may fail. The retirement of the Web,
fcodex and Feishu projections inside the reset is one port.

**CodexRpcConnection.** What the code does under the identity lock is one
action; between them a client, a reader and the request threads interleave.
Handshake requests are reduced to success or failure, a drain of the stop
barrier to its outcome.

**ServiceRuntimeLifecycle.** Ports are reduced to whether what they start runs
(`up`); each may fail, before or after its effect. A position in the list of
steps is the progress of an operation. A step that goes through the loop needs
the loop free, so that a thread that waits for it inside the lifecycle is seen.

**ServerRequests.** The shared routes only: approvals go to all three surfaces,
other requests to the desktop surfaces and, if both decline, to Feishu. The
identity of a request is the connection generation it was registered under. The
fcodex proxies have sockets of their own and may show and answer a request
before the service has read its copy. Admission of a frame opens the epoch of
its connection before the handler runs. Tombstones are never forgotten (the
code forgets one after 512 newer ones).

**FeishuExecutionQueue.** A drain occupies the loop (`busy`). `phase` follows
one claimed head from the claim through preparation and the upstream mutation
to `complete_drain`; in between the entry point may clear or replace a binding,
invalidate a group or everything, or a recall may come in re-entrantly. The
outcome of a start is any that the entry point can return. `stalled` records
the two situations in which the code knowingly leaves items without a wake-up
(`bot/prompt_turn_entry_controller.py:650`,
`bot/adapter_notification_runtime.py:867`); `NoLostWakeup` says there are no
others.

**FeishuRootOperation.** A handler runs to its end on the loop, so it is one
step with freely chosen RPC outcomes. The app-server moves on its own; its
notifications wait in a queue and may describe a turn of the past. Goal
statuses are collapsed, the race between reading and resuming a goal and the
execution card are left out. A release that raises leaves the lease and the
admission where they are (`ReleaseRaises`). `misbound`, `closedLate`, `letgo` and `orphans`
are history: they mark the disagreements of section 4, so that the invariants
can say what holds apart from them.

**ThreadResume.** Web opens and the cleanup are workers: a claim on the loop, a
store operation, a transport call and a settlement are separate steps. Feishu
operations keep the loop from claim to commit. The machine ledger is reduced
to whether this service holds the thread.

**Bindings.** Operations run on the loop and are one step each; a settler that
raises, a store that does not write, a rollback or an RPC that fails with or
without its effect are choices inside it. `torn` marks a record that a failed
rollback left wrong, `kept` a thread whose last subscriber left while a
detached record still named it. Settings, titles and directories are left out,
`live` is followed for threads in use, and the proof that a destination is lost
may come at any time.

**ExecutionRecovery.** Handlers are one step; a watchdog worker consumes its
ticket, prepares, reads, settles, retires, presents and rearms in tasks of
their own. Equality of event times is "nothing since" (`fresh`). A thread that
stops being active is idle, in `systemError` or closed (`OnIdle`, `OnError`,
`OnClosed`). The stop is an event that another thread sets while a worker is
between asking for it and acting: when it is requested (`StopRequested`), any
of the workers that are past their read may be `late`, and such a worker acts
once as if it had not been told (`Told`). `Joined` is the join that returns; one
that times out is tried again. `TimersCancelled` is the step of
`_shutdown_after_lease` behind it.

**ExecutionOutput.** The transcript is its length; a card shows a range of it
and a page holds `Cap`. A message is named by the attempt that sent it. The
chat service does not post an attempt twice, but it may refuse the repetition of
one it has posted, since "rejected" is read from the error code of that call
alone (`Send`); `denied` records the posted attempts whose pages were dropped
for it. A loop handler runs from `pc`
"page" or "reconcile" to "idle" while the dispatcher's workers and the terminal
worker interleave. Foreground patches bypass the dispatcher.

**WebPromptSubmission.** Prepare, effect claim, settlement, abandonment and
reconciliation are loop tasks; the worker does the rest. A worker that finds a
terminal receipt where it wanted to claim the effect gives its file back and
returns that receipt (`ReturnCaptured`). Start and steer differ in the request
only.

**FcodexParticipants.** A source generation and a request token are drawn
together, so a source carries its request's token. Settled tombstones are
acknowledged in the handler that makes them. Connection ids are unique per
websocket. Store calls fail before or after their effect.

## 3. Runs

A run checks components that share a service but not the state modelled: one
initial choice (`part`) says which of them moves in a behaviour, the others
rest. An invariant of a run is a conjunction of named parts.

| Run | Properties | Instance |
|---|---|---|
| `threads` | `LoopInvariant`, `ImplementsSerialExecutor`, `LifecycleInvariant` | loop: 3 threads, 2 tasks, 2 workers; lifecycle: 2 threads and the loop, 2 receipts, 4 calls, 2 maintenance requests, 2 failing ports |
| `leases` | `MainTurnInvariant`, `MainTurnSteps`, `LedgerInvariant`, `CasReleaseIsExact`, `ImplementsRuntimeOwnership` | main turn: 1 thread, 3 requests of 2 frontends, one of them off the loop, 2 turns, 2 generations, 2 pids, 2 incarnations; ledger: 1 thread, 2 instances, 2 pids, 1 participant, 2 generations, 2 stamps |
| `connection` | `GateInvariant`, `GateSteps`, `RpcInvariant` | gate: 2 senders, 3 generations, 1 reset, 1 queued task, 1 failing port; client: 2 threads, 2 sockets, 2 handshakes, 1 request, 1 notification, 1 failure, 1 stop; about 3 M states |
| `requests` | `RequestInvariant` | 1 request, an approval (3 frames) or one with a timer (2 frames), 2 connections, 2 fcodex proxies; 1.3 M states |
| `fifo` | `QueueInvariant` | 2 bindings, 2 roots, a prompt and a /compact message, 3 items, 2 lifecycles per binding |
| `frontends` | `ParticipantInvariant`, `ParticipantSteps`, `PromptInvariant`, `ReceiptsAreFinal` | fcodex: 1 participant; its requests on 2 connections, with a failing store call or with a gone thread; connects and timers of 3; or creates; Web: 2 POSTs, 2 mutations, 2 connections, 2 documents, both limits 1; 1.1 M states |
| `roots` | `ResumeInvariant`, `RootInvariant`, `BindingsInvariant` | resumes: 1 Web open, Feishu and the cleanup, 2 connections; roots: 2 bindings, 2 lease generations, 2 turns, 1 unload; bindings: 2 bindings, 2 threads, one shared with the Web and one that is archived or deleted |
| `execution` | `ExecutionInvariant`, `OutputInvariant`, `NothingBehindTheBarrier` | 2 watchdog workers, 2 turns, 2 executions, in four kinds of behaviour: lost completions; compactions, 2 pages, failing reads, a disconnect, and threads that end idle, in error or closed; rejected first pages; a shutdown. Output: 2 dispatcher workers, transcripts of 2, pages of 1, 3 attempts; 1.6 M states |
| `service_promises` | `CallersReturn`, `FencedDisconnectIsSettled`, `StopReturns`, `CallsReturn` | the smallest instances with two threads or generations each |
| `frontend_promises` | `DrainReturns`, `PendingResolves`, `DeferredReleaseIsRetried`, `AcceptedPromptResolves`, `LostCompletionRetires` | the smallest instances |
| `thread_resume_successor` | `SuccessorKeepsLease` (violated) | 1 open, 2 connections; section 4 |
| `output_refused` | `RefusedHadNoEffect` (violated) | 1 dispatcher worker, 2 attempts; section 4 |

What the invariants say, part by part:

* `LoopInvariant`: `CancelledNeverRuns`, `StopIsABarrier`, `OneTaskAtATime`.
  `LifecycleInvariant`: the authority covers what runs (`AuthorityCoversRuntime`),
  no callback runs beside a shutdown (`NoIngressDuringShutdown`), finished steps
  stay finished (`BarriersHold`).
* `MainTurnInvariant`: one frontend per thread, a request in flight keeps its
  thread, pruning is safe, generations never return, retirement is complete;
  `MainTurnSteps`: a generation keeps its holder and turn, and retirement takes
  its own. `LedgerInvariant`: a holder keeps its thread (`HolderKeepsThread`),
  nothing of an old generation is left when its successor is up
  (`NoResidueOfOldGenerations`).
* `GateInvariant`: `ConfirmedInItsEpoch`, `OpenFactsAreCurrent`; `GateSteps`: no
  write crosses an invalidation, admitted generations advance, only a
  replacement reopens. `RpcInvariant`: a request is pinned to its socket and
  told the truth (`PinnedAndHonest`, `NotFailedByOlderSocket`), a socket is owned
  until its callbacks are unwound (`OwnedUntilUnwound`, `NoStartOverRetained`,
  `HandshakeHasOwner`).
* `RequestInvariant`: `OneAnswerPerEpoch`, `ProcessingHasOwner`,
  `RevokedStaysHidden`, `ProjectionsAreCurrent`, `NoResurrection`.
* `QueueInvariant`: `SentOnlyInItsLifecycle`, `SentInOrder`, `OneBindingPerRoot`,
  `RecalledNeverSent`, `ClaimedHeadIsHead`, `NoLostWakeup`.
* `PromptInvariant`: one effect slot per receipt (`OneSlot`), a receipt of no
  effect or of success is true (`NoEffectIsTrue`, `SuccessIsTrue`), a file is
  sent once and is there while it may be read (`FileSentOnce`, `PinsHold`).
* `ResumeInvariant`: no resume crosses another (`NoCrossing`), the lease covers
  what is subscribed or in flight (`LeaseCovers`), claims have owners.
  `RootInvariant`: `BlankHasAdmission`, `AdmissionHasLease`, `OwnTurnKeepsLease`.
  `BindingsInvariant`: `SubscribersAreAttached`, `DiskMatches`, `HeldIsExact`,
  `AttachedIsCovered`, `PinnedCanRetry`, `LeaseHasReason`.
* `ExecutionInvariant`: no execution that has a page or the identity of its turn
  is retired before that turn is over (`NeverRetiredEarly`), one result per
  execution (`OneResult`), and a running one that is on its first page and no
  compaction is watched (`RunningIsWatched`).
  `OutputInvariant`: `LedgerIsContiguous`, `OneCardPerRange`, `OneWorkerPerCard`,
  `NoLostPatch`, `PageIsCurrent`, `TerminalPagesAreFinal`,
  `NothingRemovedUnpublished`. `OneCardPerRange` excepts a card whose replay was
  refused (`denied`, section 4) and nothing else. `NothingBehindTheBarrier`: from
  the join of the shutdown on there is no recovery worker, so nothing is settled,
  presented or armed by one behind the cancelled timers.
* `ParticipantInvariant`: a source keeps its holder (`SourcesAreHeld`), holders
  are tracked, a retired participant has nothing, subscriptions are covered,
  pending sources match requests.

**Why the bounds are enough.** Each case a property worries about needs few
actors. Two tasks let one run and one be cancelled behind it or stranded behind
`_STOP`. Two generations on one thread give ABA, two incarnations a reused pid
and a restarted service. Three websocket generations give an old one, its
successor and the replacement; one queued task besides the one that runs and
those the readers are about to submit lets callbacks and disconnects overtake
each other. Two lifecycles per binding are the shortest A -> B -> A, three items
let one fail, one be recalled and one follow. Two POSTs are one and its retry,
or two that compete for the single slot; a limit of 1 makes every second
receipt evict one. Three frames are a request, its replay in the same epoch and
its replay on the next connection. Two turns are an old terminal event and the
turn it must not end. Where a theorem of section 5 states the property, no
bound matters.

Two promises are checked on less than the whole code, since more of it breaks
them (section 4): `StopReturns` without maintenance requests, which may wait on
the loop for the operation whose owner waits for the loop; and
`LostCompletionRetires` for prompts on one page and without a shutdown, since
after a rollover or a compaction's identity nobody rearms the watchdog.

Threads, senders, roots, bindings, connections, POSTs and workers are
interchangeable, so symmetry is used in the safety runs, never in those of
liveness.

**Deadlock** is checked for `threads` and `fifo`. Elsewhere a behaviour may
really end: bounded generations, turns and failures run out, or the service is
down for good.

**Fairness.** Only what goes on by itself is fair. Threads are scheduled and
functions return: weak fairness of the loop's workers and callers, of the
lifecycle's operations and callbacks, of an RPC client's step and the end of a
dead socket's reader, of a Web request's start, worker and cancel handler. The loop takes its next task: weak
fairness of the gate's loop step, of a reader's submit, of the queue's drain, of
the handlers of fcodex, of roots and of recovery. Timers fire: the fcodex
timers and heartbeats, the watchdog. A response that was sent arrives and a
quarantined proxy closes its socket. A turn ends. Nothing upstream is fair
beyond that: the app-server may be silent, calls may fail for ever, and no
frontend user does anything.

## 4. Disagreements between code and documents

**`thread_resume_successor`** (`SuccessorKeepsLease`). `_release_new_resume_lease`
decides under `_receipt_lock` that a receipt is current and releases the lease
by thread id after it dropped the lock (`bot/thread_runtime_authority.py:1089`).
`abandon_acquired_resume_thread_page` calls it on a worker; a connection loss
handled on the loop in between admits a successor that takes the same lease,
which the old attempt then releases. The comment at line 1096 says it must not.
The Feishu path holds the loop throughout and is not affected.

**`output_refused`** (`RefusedHadNoEffect`). An execution page whose send ended
unknown is sent again under the same uuid (`_reconcile_send_unknown_page_effect`).
Whether the second call is rejected is decided by its error code alone
(`bot/feishu_outbound.py:54`, `:261`; the rate limit 230020 is one of the codes),
and a rejection discards the page (`bot/execution_output_controller.py:574`,
`bot/execution_pages.py:612`: "one exact effect now proven to have had no
effect"). But it proves nothing about the first call: its card may be in the
chat, and the next rollover sends the same stretch under a fresh uuid.

While the modules were written, TLC also showed the following. Each formula is
kept in its module, is no part of a run, and marks where the invariants stop:
they state what holds in spite of it.

| Formula | Where | What happens |
|---|---|---|
| `AdmittedCallbackIsLive` | `bot/adapter_ingress_gate.py:392` | `accept()` waits for active writes, which releases the lock, and does not look again whether its generation was fenced meanwhile; the docstring (`:349`) promises "the live connection epoch" |
| `CapturedConnectionIsLive` | `:418` | a disconnect during a reset is not recorded, so a replacement that dies before its admission leaves an open gate with live facts; compare "the exact live connection" (`:240`) |
| `DeliveredInReaderOrder` | `bot/codex_protocol/connection.py:423` | notifications buffered in the handshake are handed on after READY is published, newer ones overtake them; compare `:194` |
| `FailedOnlyForItsSocket` | `:1760` | a late starter fails every pending request, those of the next socket too; compare `:1521` |
| `NoSilentReplacement` | `:288` | a start that sees the process gone replaces the socket before its reader could report the loss; compare `:1494` |
| `NoContinuationOverLoadedCopy` | `bot/focus_runtime/service_authority.py:449` | the loaded gate is not looked at again by the claim; compare `docs/decisions/cross-instance-live-runtime-admission.md:173` |
| `NoLifecycleDeadlock` | `bot/focus_runtime/runtime.py:2274` | a maintenance request waits on the loop for an operation whose owner waits for the loop; compare `bot/service_runtime_lifecycle.py:202` |
| `FreshProjections` | `bot/interaction_request_controller.py:442` | Feishu keeps the record of a lost connection and its identity conflicts with the replay; compare `docs/contracts/server-request-lifecycle.md:206` |
| `TimerSurvives` | `bot/server_request_surface_dispatcher.py:186` | a replay draws a new timer while the Web keeps the record of the old one; compare the same contract, `:154` |
| `AlwaysCovered` | `bot/web_runtime/lifecycle_coordinator.py:570` | a cleanup probe from before a Feishu resume releases the lease under its subscription; compare `docs/contracts/thread-resume-local-commit.md:187` |
| `SubscriptionFactHolds` | `bot/web_runtime/interest.py:189` | a notification handled between unsubscribe and its settlement revives the subscription fact |
| `ToldNoEffectIsTrue` | `bot/web_runtime/prompt_submission.py:238` | a worker is answered with the receipt of a later attempt; compare `docs/contracts/focus-web-prompt-mutation-recovery.md:144` |
| `ConfirmedSubscriptionKeepsHolder` | `bot/fcodex/participant_runtime_registry.py:679` | an old thread-gone frame removes the source of a new subscription |
| `LastSourceReleases` | `:1129` | a release that fails twice leaves a holder that nobody retries; compare `docs/contracts/fcodex-operation-owner.md:26` |
| `OldTerminalKeepsSuccessor`, `OldClosedKeepsSuccessor` | `bot/feishu_root_operation_controller.py:826`, `:516` | a waiting submission is bound to an old `turn/started`, or ended by an old `thread/closed`; compare `docs/contracts/root-operation-owner.md:112` |
| `ResumedTurnKeepsLease` | `bot/feishu_continuation_controller.py:609` | a resume that may have started a goal gives its lease back; compare `docs/contracts/feishu-thread-lifecycle.md:282` |
| `LostCompletionRetires` with rollovers, with compactions | `bot/execution_recovery_runtime.py:499`, `bot/adapter_notification_controller.py:749` | the watchdog's ticket names a page or a turn that is replaced and nobody rearms it |
| `NeverRetiredEarlyWithoutPage` | `bot/execution_recovery_runtime.py:584` | a prompt whose first page was rejected (`bot/adapter_notification_controller.py:352`) has neither page nor turn identity, and nothing protects it while it waits for its turn |

Smaller observations. After a failed clean-up of an archived or deleted thread
a binding is pinned to exactly that loss, and `clear_archived` and `clear-stale`
are refused until a restart; after a failed unsubscribe only another detach is
accepted. Removing the last subscriber while a detached record still names the
thread leaves its lease and subscription to nobody (`kept`). A Web open of
kind resume of a thread owned by an interaction reads passively and still marks the interest
confirmed (`bot/web_runtime/thread_open_coordinator.py:1605`). A notification delivered
after `cancel_frontend_timers` may arm a watchdog again; its timer fires into an
admission that is closed.

## 5. Proofs

Every theorem holds for all values of the constants. The assumptions type the
constants and bounds and keep null values outside the sets they complete; TLC
evaluates them on every run. Each inductive invariant was checked with TLC
before it was proved.

| Theorem | States | Of |
|---|---|---|
| `LoopTypeCorrect`, `CancellationIsHonest`, `TasksAreSerialized`, `StopDrains`, `LoopSafety` | `LoopInvariant` and its parts | `RuntimeLoop` |
| `LoopRefinesSerialExecutor` | `ImplementsSerialExecutor` | `RuntimeLoop` |
| `LifecycleSafety` | `LifecycleInvariant` | `ServiceRuntimeLifecycle` |
| `TypeCorrect`, `EndedGenerationsStayEnded`, `PruningIsSafe`, `InFlightRequestIsSafe`, `MainTurnMutex`, `RetirementCompletes`, `MainTurnSafety` | `MainTurnInvariant` and its parts | `InteractionLease` |
| `GenerationsAreStable`, `RetirementOnlyTakesItsOwn`, `MainTurnStepsAreSafe` | `MainTurnSteps` and its parts | `InteractionLease` |
| `LedgerSafety` | `LedgerInvariant` | `ThreadRuntimeLease` |
| `CasReleaseExact` | `CasReleaseIsExact` | `ThreadRuntimeLease` |
| `LedgerImplementsOwnership` | `ImplementsRuntimeOwnership` | `ThreadRuntimeLease` |
| `GateSafety`, `GateStepsAreSafe` | `GateInvariant`, `GateSteps` | `AdapterIngressGate` |
| `RpcSafety` | `RpcInvariant` | `CodexRpcConnection` |
| `RequestSafety` | `RequestInvariant` | `ServerRequests` |
| `QueueSafety` | `QueueInvariant` | `FeishuExecutionQueue` |
| `PromptSafety`, `ReceiptsStayFinal` | `PromptInvariant`, `ReceiptsAreFinal` | `WebPromptSubmission` |
| `ParticipantSafety`, `ParticipantStepsAreSafe` | `ParticipantInvariant`, `ParticipantSteps` | `FcodexParticipants` |
| `ResumeSafety` | `ResumeInvariant` | `ThreadResume` |
| `RootSafety` | `RootInvariant` | `FeishuRootOperation` |
| `BindingSafety` | `BindingsInvariant` | `Bindings` |
| `ExecutionSafety` | `ExecutionInvariant` | `ExecutionRecovery` |
| `ShutdownSafety` | `NothingBehindTheBarrier` | `ExecutionRecovery` |
| `OutputSafety` | `OutputInvariant` | `ExecutionOutput` |

**RuntimeLoop.** Three layers. `IInv`: there is at most one worker ever, the
sentinel means closed, a task is in the queue or in hand once and not started
before, and a task is never both started and cancelled. `DrainInv`: the
sentinel is last, every accepted task is over, queued or in hand, queued tasks
have a worker, and a joiner watches the only worker; so a returned join means
an empty queue. `OrderInv`: the queue is sorted by acceptance behind the task
in hand, and a caller is told once. The refinement maps a task's fields to its
fate (`FateOf`) and shows each action to be a step of `SerialExecutor` or a
stutter.

**ServiceRuntimeLifecycle.** `LifecycleInd` follows the one operation that may
run: its owner is inside it (`OwnerOperates`), its kind matches the phase
(`OperationMatchesPhase`), it passes its steps in order (`PassIsOrdered`), and
what was finished is a prefix of the list (`DoneInOrder`) that stays down
(`DoneStaysDown`). So a retry after a failure meets only what its own position
allows, which `PhaseFacts` turns into what may run in each phase.

**InteractionLease.** `IInv` adds to the properties what makes them inductive:
generations not created yet are unused (`FreshGenerations`), the service is
alive while it is up (`ServiceAlive`), a live receipt is the ledger's record up
to activation (`ReceiptsMatchLedger`) and was acquired by one client
(`AcquiredOnce`), identities and owners agree with the processes that were
started (`Incarnations`, `OwnersMatch`), and the captured records not yet ended
are the ledger's (`CaptureMatches`). The argument rests on one classification,
`StepKinds`: every step shrinks the ledger for an accountable cause, grants a
generation, or is a step of the process table. `StaleIsDead` shows that what
pruning takes was held by a dead incarnation: an existing pid with a different
readable identity is a later incarnation, because identities are never reused.

**ThreadRuntimeLease.** `LedgerInd`: a live generation runs under its own pid
and alone has the lock of its instance (`Lives`), every record of the ledger
names one generation and its process (`RecordsBacked`), and from the purge on,
not only once it is up, a generation finds no record of another one of its
instance (`NoResidue`). The refinement maps the owner of a thread to the live
generation in whose name its record stands.

**AdapterIngressGate.** The lock is released while a transaction drains, so what
it relies on when it commits is not what it checked when it opened. `GateInd`
says what others cannot undo in between: no permit of the new epoch is issued
(`Permits`), a fence that comes in names a generation at least as new as the one
being accepted (`Transaction`), and from the end of the reset's fence nothing is
being sent (`Reset`). The other parts tie queue, readers and generations.

**CodexRpcConnection.** `RpcInd`: only the starter of the current attempt owns
its handshake (`StarterOwnsHandshake`), a socket retained by a callback blocks a
new start (`NoStartOverRetained`), a request that waits is pinned to the socket
it was written to (`WaitingIsPinned`).

**ServerRequests.** At most one answer is written in an epoch because an answer
is admitted only while nothing was written or granted for the request in it
(`Unanswered`, `OneGrant`, `LoopOwnsAnswer`) and because an epoch is never
reopened: the loss of a connection is queued before everything its successor
delivers (`LossComesFirst`), so what was done belongs to the open epoch or to a
lost connection (`HistoryIsPast`). Timers are bounded by the frames that drew
them (`TimersAreFrames`), which keeps an old timer from matching a new record.

**FeishuExecutionQueue.** `QueueInd`: a queue has the root of its binding and
its items the binding's lifecycle (`QueuesHaveARoot`, `ListedAreCurrent`), they
are listed once and in order (`ListedInOrder`, `ListedOnce`), a drain holds the
head it claimed (`DrainHoldsHead`), and what was sent precedes what is listed
(`SentPrecedesListed`), so that the next head is newer than everything sent.
`Select` filters by recursion on prefixes; what the proof needs of it is shown
by the smallest counterexample (`SmallestOf`).

**WebPromptSubmission.** `PromptInd` follows one attempt: its mutation has a
pending or a terminal receipt and never both (`Attempts`), a slot is granted
only under one of them (`Slots`), and what a request may still send is decided
by how far it got (`Unsent`). Eviction, retirement by a reset and a retry each
preserve it, although none of them looks at the others.

**ThreadResume.** One slot per thread keeps resumes and unsubscribes apart
(`OneSlot`), but a connection loss takes it from attempts that are still under
way. What those can still do is bounded by their generation: an attempt of the
live one has the slot (`CurrentHasSlot`), and only such an attempt subscribes
(`SubscribeSteps`). `Releases` lists who gives the lease back on exact grounds;
each is harmless because a lease that an attempt acquired as new is needed by
nobody until its resume takes effect (`NewLeaseIsQuiet`), and because the
cleanup's snapshot is void as soon as the interest moves (`CleanupFacts`).
A receipt that was not revoked has the lease (`ReceiptsKeepLease`) unless the
release the counterexample of section 4 shows (`loose`) took it.

**FeishuRootOperation.** A handler strings RPCs of open outcome together; it
still starts at most one turn, since the first blocks the next (`Moved`), and it
releases its lease only if it started none (`Honest`), the two resumes apart
(`Possible`, with `letgo`). `RootInd` then ties an open turn to its lease by the
turns that were over at the admission: the turn is the first after them, and the
lease waits for its identity or is bound to it (`OwnTurn`); a queued compaction
holds the same for the turn to come (`QueuedTurn`). Notifications on their way
speak of no future turn (`WireIsHonest`), so one that binds the lease to another
turn is from before the admission, and a completion that meets the lease is its
own.

**Bindings.** `BindingsInd` has two halves. What the owner's transactions
establish (`OwnerInv`: resident, stored and subscription records agree, and a
captured session that is still accepted is exact) is kept by each commit and
each pin, and nothing else writes those records. What the runtime adds
(`RuntimeInv`: an attached binding is covered by lease and subscription, a
lease has a reason) moves without the owner too; there the point is that a
thread is given up only while nobody else is attached to it. `Rested` says that
nothing is resident, held or subscribed while the service is down, so a restart
starts from the disk alone.

**ExecutionRecovery.** What ends an execution cannot become untrue: turns run
one after the other (`TurnsInOrder`), a notification speaks of a turn that has
begun and is not older than the execution's (`WireIsHonest`), and the session a
worker reads for names a turn that has begun, so a turn found over stays over
(`SessionBound`). An execution with a page and no turn waits for its turn
(`ExecBound`), so only a disconnect ends it. A retirement clears the page, and
only the one that did holds the result (`EndedOnce`, `Tickets`). A plain
execution on its first page has a ticket that names it, or a worker that found
no ticket when it looked and will rearm (`Watched`). The theorem covers
rejected first pages: a prompt that has neither page nor turn identity is
retired as it may be (`MayEnd`), the rest is protected. `ShutdownSafety` shows
the order of the shutdown: no worker is admitted once the stop is requested, one
that asked too early acts at most until it is joined, and no handler or timer
starts another.

**ExecutionOutput.** `OutputInd` has a part for each actor. The ledger is
exact: page i begins where page i - 1 is full, attempts and starts ascend, and
an attempt remembers the start of its page (`LedgerInv`). The dispatcher keeps
each card in one of four places, and what waits or is in flight differs from
what was asked for last in its text at most (`DispatchInv`, `CardInv`); that is
what `NoLostPatch` needs when a worker falls back to a shorter text. Between
handlers a registered timer fits the ledger, during one there is none
(`LoopInv`), and while a page waits for its confirmation the active one already
shows everything before it (`ShownInv`), so `PageIsCurrent` survives each
handler that ends early. The terminal worker reads a snapshot while workers go
on patching: its receipts form a chain whose cards were told their final range
(`ReceiptsInv`), the page it is about to present is where the chain ends and no
card of it (`TermInv`), and every message in the chat is a page's or further on
(`PostedInv`), which is why its own send repeats no stretch. It is said of the
messages in `posted \ denied`: a page dropped for a refused replay is no longer
in the ledger, and what the rollover then repeats is the case of
`output_refused`. A reply is cut only
after its own message exists (`CutInv`). The proof assumes a page that holds
something and a finite number of workers.

**FcodexParticipants.** `FcodexInd` separates presence, requests and wire.
Whatever a store call does, the presence a participant reports is never better
than the store (`MachineInv`), and of a participant that was given up nothing is
left. Generations are drawn once, so a timer that has been overtaken does not
find its own (`EndpointInv`). A request has one answer under way at most, with
its own token (`AnswerInv`), and a waiting resume its source, in flight or
staged (`SourcesFit`). Coverage is the long argument (`CoverInv`): a
subscription of a live connection has a source, which is confirmed, unresolved
or that of a pending resume that was not refused; and while the answer to an
unsubscribe is under way such a resume waits behind it, because it was
subscribed anew after the unsubscribe, so consuming that answer never takes the
last source. The proof assumes that participants and connections have different
names and that participants and threads are finite in number: a participant is
`fcodex:<pid>:<token>`, a connection a token without a colon
(`bot/fcodex/proxy.py:1458`, `:467`), and the registry is in memory.

**What the proofs changed in the models.** `Joined` set the stop flag inside
the quantifier over workers, so without workers it was left open.
`LedgerIsContiguous` allowed an empty sealed page and said nothing of messages;
it now states what `__post_init__` demands. `CreateCommitsInItsEpoch` blamed a
create for a source that another step confirmed for the same thread; it now
speaks of the step that settles the create. `RunningIsWatched` was restricted by the part of the run that was
lossy; the proof gave the exact condition, the first page of an execution that
is no compaction.

**Model-checked only.** The liveness properties (runs `service_promises`,
`frontend_promises`): fairness and ENABLED are out of the prover's reach.

## 6. Not modelled

Formats and codecs, cards and wording, timing beyond "a deadline may pass",
operating system process control (`bot/owned_app_server_guard.py`),
installation, the browser. Of the Web runtime, only prompts, thread opens and
their cleanup are modelled: its HTTP gateway, document sessions and projection
are not. The other stores keep single records without a protocol.
`PROJECT.json` gives the reason for each part.

Every invariant, action property and refinement that a passing run checks has a
theorem; what is left to prove concerns parts that are not modelled yet.

## 7. Running it

    tlc -workers 2 -config MCThreads.cfg MCThreads
    tlapm ThreadsProofs.tla

`PROJECT.json` lists module and configuration of every run. A TLC run takes
between some seconds and three minutes on two cores, a proof module between one
and fifteen minutes.
