------------------------- MODULE ExecutionRecovery -------------------------
(***************************************************************************)
(* How the execution of one Feishu binding learns that its turn is over:   *)
(* from notifications (bot/adapter_notification_controller.py and          *)
(* adapter_notification_runtime.py), from the mirror watchdog              *)
(* (bot/execution_recovery_controller.py, execution_recovery_runtime.py,   *)
(* execution_recovery_worker.py), or because a user asks again             *)
(* (prompt_turn_entry_controller.py).                                      *)
(*                                                                         *)
(* Handlers run to their end on the RuntimeLoop and are one step each.  A  *)
(* watchdog worker is a thread: it consumes its ticket, prepares a         *)
(* receipt, reads the thread, settles, retires the execution, presents it  *)
(* and rearms in loop tasks of their own, with anything in between.  It    *)
(* asks for the stop before it acts: one that asked just before the stop   *)
(* was requested acts once more behind it (late).                          *)
(*                                                                         *)
(* Equality of event times is abstracted to "no event since" (fresh), and  *)
(* identity of a ticket to "still the registered one" (own).  The page is  *)
(* the active page of the ledger, 0 when the first page was rejected; a    *)
(* rollover replaces it.  awaiting_attach_status_settle, transcripts and   *)
(* cards are left out.                                                     *)
(***************************************************************************)
EXTENDS Naturals, Sequences

CONSTANTS
  Workers,    \* bound: watchdog workers alive at once
  Kinds,      \* kinds of execution the binding starts
  Rejects,    \* TRUE: the first page of an execution may be rejected
  Finals,     \* how the thread is said not to be active any more
  Stops,      \* TRUE: the service may be shut down
  MaxTurns,   \* bound: turns
  MaxExecs,   \* bound: execution incarnations
  MaxPages,   \* bound: pages of one execution
  MaxWork,    \* bound: progress notifications of one turn
  MaxLost,    \* bound: terminal notifications that are lost
  MaxFaults,  \* bound: reads that fail
  MaxConns    \* bound: backend connections

ASSUME KindsAssumption ==
  Kinds \subseteq {"prompt", "compact"} /\ Finals \subseteq {"idle", "error", "closed"}
ASSUME BoundsAssumption ==
  /\ {MaxTurns, MaxExecs, MaxPages, MaxWork, MaxLost, MaxFaults, MaxConns} \subseteq Nat
  /\ MaxPages > 0 /\ MaxConns > 0 /\ Rejects \in BOOLEAN /\ Stops \in BOOLEAN

VARIABLES
  exec,    \* the execution of the binding
  reg,     \* mirror_watchdog_registration: the ticket, and whether it has fired
  w,       \* the watchdog workers
  conn,    \* the backend connection: generation and whether it is live
  up,      \* the app-server: state of every turn, work left, notifications sent
  left,    \* losses and read faults left
  stop,    \* the shutdown: "no", "requested", "joined" (workers), "cancelled" (timers)
  late,    \* workers that asked for the stop just before it was requested
  recon,   \* executions waiting for their terminal reconcile worker
  ends,    \* history: how often each execution was retired
  shown,   \* history: how often the result of each execution was presented
  early    \* history: executions retired before their turn was over, anchored or not

vars == <<exec, reg, w, conn, up, left, stop, late, recon, ends, shown, early>>

Exec == 1..MaxExecs
Turn == 1..MaxTurns
NoTicket == [inc |-> 0, turn |-> 0, page |-> 0, fired |-> FALSE]

\* The fields an execution fence compares (BindingExecutionTarget).
Fence(e) == <<e.inc, e.turn, e.page, e.kind>>
Idle == [pc |-> "idle", own |-> FALSE, fresh |-> FALSE, conn |-> 0, sess |-> <<0, 0, 0, "none">>,
         armed |-> FALSE, over |-> FALSE]
NoExec == [inc |-> 0, running |-> FALSE, await |-> FALSE, turn |-> 0, page |-> 0,
           kind |-> "none", chan |-> "live", for |-> 0]
Pc == {"idle", "consume", "unknown", "prepare", "read", "settle", "missing", "degrade",
       "finalize", "present", "rearm"}
Note == [k : {"active", "started", "work", "item", "completed", "idle", "error", "closed"}, t : Turn]

Init ==
  /\ exec = NoExec /\ reg = NoTicket /\ w = [x \in Workers |-> Idle]
  /\ conn = [gen |-> 1, live |-> TRUE]
  /\ up = [turn |-> [t \in Turn |-> "none"], work |-> [t \in Turn |-> MaxWork], net |-> <<>>]
  /\ left = [lost |-> MaxLost, faults |-> MaxFaults]
  /\ stop = "no" /\ late = {} /\ recon = {} /\ early = {}
  /\ ends = [i \in Exec |-> 0] /\ shown = [i \in Exec |-> 0]

-----------------------------------------------------------------------------
(* The execution and its watchdog.                                         *)

\* prepare_mirror_watchdog and install_mirror_watchdog in one loop task: the
\* old timer is cancelled, a new one is armed while the execution runs.
Armed(e) ==
  IF e.running
    THEN [inc |-> e.inc, turn |-> e.turn, page |-> e.page, fired |-> FALSE] ELSE NoTicket

\* A ticket that is no longer registered belongs to no worker; an event makes
\* the observation of every worker stale.
Replaced == [x \in Workers |-> [w[x] EXCEPT !.own = FALSE]]
Stale(ws) == [x \in Workers |-> [ws[x] EXCEPT !.fresh = FALSE]]

AwaitingStarted(e) == e.page > 0 /\ e.await /\ e.turn = 0
HasActive(e) == \/ e.page > 0 /\ (e.running \/ e.await \/ e.turn > 0)
                \/ e.running /\ (e.await \/ e.turn > 0)

\* prepare_finalize_locked and the retirement: the anchor is cleared.
Retired(e) == [NoExec EXCEPT !.inc = e.inc]

\* An execution is anchored once it has a page or the identity of its turn.
Anchored(e) == e.page > 0 \/ e.turn > 0
EarlyIf(e) ==
  IF e.for > 0 /\ up.turn[e.for] # "over" THEN early \cup {<<e.inc, Anchored(e)>>} ELSE early

\* FeishuExecutionFinalizationController: retires e and detaches its timers.
\* over is FALSE when the connection, and not the turn, is gone.
Finalized(e, over) ==
  /\ exec' = Retired(e) /\ reg' = NoTicket
  /\ ends' = IF HasActive(e) THEN [ends EXCEPT ![e.inc] = @ + 1] ELSE ends
  /\ early' = IF over THEN EarlyIf(e) ELSE early

-----------------------------------------------------------------------------
(* The app-server and the transport.                                       *)

Active == \E t \in Turn : up.turn[t] = "run"
Sent(u, ks, t) ==
  IF conn.live THEN [u EXCEPT !.net = @ \o [i \in 1..Len(ks) |-> [k |-> ks[i], t |-> t]]] ELSE u

\* A turn of another surface on the same thread.
StartElsewhere(t) ==
  /\ up.turn[t] = "none" /\ ~Active /\ \A s \in Turn : s < t => up.turn[s] = "over"
  /\ up' = [up EXCEPT !.turn[t] = "sent"]
  /\ UNCHANGED <<exec, reg, w, conn, left, stop, late, recon, ends, shown, early>>

Begin(t) ==
  /\ up.turn[t] = "sent" /\ ~Active
  /\ up' = Sent([up EXCEPT !.turn[t] = "run"],
                IF exec.kind = "compact" /\ exec.for = t
                  THEN <<"active", "item">> ELSE <<"active", "started">>, t)
  /\ UNCHANGED <<exec, reg, w, conn, left, stop, late, recon, ends, shown, early>>

Work(t) ==
  /\ up.turn[t] = "run" /\ up.work[t] > 0
  /\ up' = Sent([up EXCEPT !.work[t] = @ - 1], <<"work">>, t)
  /\ UNCHANGED <<exec, reg, w, conn, left, stop, late, recon, ends, shown, early>>

\* The turn completes, and the thread is idle or in error; or the thread is
\* unloaded, and its turn is gone with it.
End(t) ==
  /\ up.turn[t] = "run"
  /\ \E k \in Finals :
       up' = Sent([up EXCEPT !.turn[t] = "over"],
                  IF k = "closed" THEN <<"closed">> ELSE <<"completed", k>>, t)
  /\ UNCHANGED <<exec, reg, w, conn, left, stop, late, recon, ends, shown, early>>

\* Terminal notifications can be missed.
Lose ==
  /\ left.lost > 0 /\ up.net # <<>> /\ Head(up.net).k \in {"completed", "idle", "error", "closed"}
  /\ up' = [up EXCEPT !.net = Tail(@)] /\ left' = [left EXCEPT !.lost = @ - 1]
  /\ UNCHANGED <<exec, reg, w, conn, stop, late, recon, ends, shown, early>>

-----------------------------------------------------------------------------
(* Handlers on the RuntimeLoop.                                            *)

\* A prompt or a compaction: primed, its first page opened, sent, and watched.
\* Only a compaction insists on its page.  What waits in the FIFO starts
\* behind a retirement, the shutdown notwithstanding.
Start(t, k, page) ==
  /\ up.turn[t] = "none" /\ ~Active /\ exec.inc < MaxExecs
  /\ ~exec.running /\ ~HasActive(exec)
  /\ \A s \in Turn : s < t => up.turn[s] = "over"
  /\ page = 1 \/ (Rejects /\ k = "prompt")
  /\ conn.live \/ conn.gen < MaxConns
  /\ conn' = IF conn.live THEN conn ELSE [gen |-> conn.gen + 1, live |-> TRUE]
  /\ exec' = [inc |-> exec.inc + 1, running |-> TRUE, await |-> TRUE, turn |-> 0, page |-> page,
              kind |-> k, chan |-> "live", for |-> t]
  /\ up' = [up EXCEPT !.turn[t] = "sent"]
  /\ reg' = Armed(exec') /\ w' = Stale(Replaced)
  /\ UNCHANGED <<left, stop, late, recon, ends, shown, early>>

\* The adapter delivers until it is stopped, behind the RuntimeLoop.
Received(k) == up.net # <<>> /\ Head(up.net).k = k /\ up' = [up EXCEPT !.net = Tail(@)]
Heard == [exec EXCEPT !.chan = "live"]
Ignored == UNCHANGED <<exec, reg, w, ends, early, recon>>
\* schedule_terminal_execution_reconcile: no worker is started after the stop.
Reconciles(e) == recon' = IF e.page > 0 /\ stop = "no" THEN recon \cup {e.inc} ELSE recon

\* MUTANT of OnStarted: the watchdog keeps the identity of the submission.
OnStartedKeepsTicket ==
  /\ Received("started")
  /\ LET t == Head(up.net).t IN
     IF exec.turn \notin {0, t} THEN Ignored
     ELSE /\ exec' = [Heard EXCEPT !.turn = t, !.running = TRUE, !.await = FALSE]
          /\ UNCHANGED reg /\ w' = Stale(w) /\ UNCHANGED <<ends, early, recon>>
  /\ UNCHANGED <<conn, left, stop, late, shown>>
\* handle_turn_started: binds the identity, or opens the page of an execution
\* the binding did not start, and only then installs the watchdog.
OnStarted ==
  /\ Received("started")
  /\ LET t == Head(up.net).t IN
     IF exec.turn \notin {0, t} THEN Ignored
     ELSE /\ \/ /\ HasActive(exec)
                /\ exec' = [Heard EXCEPT !.turn = t, !.running = TRUE, !.await = FALSE, !.for = t]
             \/ /\ ~HasActive(exec) /\ exec.inc < MaxExecs
                /\ \E page \in {1} \cup (IF Rejects THEN {0} ELSE {}) :
                     exec' = [Heard EXCEPT !.inc = @ + 1, !.turn = t, !.running = TRUE,
                                           !.await = FALSE, !.page = page, !.for = t]
          /\ reg' = Armed(exec') /\ w' = Stale(Replaced) /\ UNCHANGED <<ends, early, recon>>
  /\ UNCHANGED <<conn, left, stop, late, shown>>

\* Deltas and completed items of the turn: heartbeat and watchdog.
OnWork ==
  /\ Received("work")
  /\ IF exec.turn # Head(up.net).t THEN Ignored
     ELSE exec' = Heard /\ reg' = Armed(exec') /\ w' = Stale(Replaced) /\ UNCHANGED <<ends, early, recon>>
  /\ UNCHANGED <<conn, left, stop, late, shown>>

\* contextCompaction item/started: the watchdog is installed first, then an
\* unbound compaction takes the turn identity.
OnItem ==
  /\ Received("item")
  /\ LET t == Head(up.net).t
         unbound == AwaitingStarted(exec) /\ exec.kind = "compact"
     IN IF exec.turn # t /\ ~unbound THEN Ignored
        ELSE /\ exec' = IF unbound THEN [Heard EXCEPT !.turn = t, !.running = TRUE, !.await = FALSE,
                                                      !.for = t] ELSE Heard
             /\ reg' = Armed(Heard) /\ w' = Stale(Replaced) /\ UNCHANGED <<ends, early, recon>>
  /\ UNCHANGED <<conn, left, stop, late, shown>>

\* handle_turn_completed: the execution of this turn is retired, and a worker
\* reconciles its result.
OnCompleted ==
  /\ Received("completed")
  /\ IF exec.turn # Head(up.net).t THEN Ignored
     ELSE /\ Finalized(exec, TRUE) /\ w' = Stale(Replaced)
          /\ Reconciles(exec)
  /\ UNCHANGED <<conn, left, stop, late, shown>>

\* MUTANT of OnIdle: an idle thread ends whatever execution there is.
OnIdleEndsAll ==
  /\ Received("idle") /\ Finalized(exec, TRUE) /\ w' = Stale(Replaced)
  /\ recon' = recon /\ UNCHANGED <<conn, left, stop, late, shown>>
\* mark_thread_runtime_event: the execution waits for its turn to start.
Heartbeat == exec' = Heard /\ reg' = Armed(exec') /\ UNCHANGED <<ends, early, recon>>
\* finalize_execution_from_terminal_signal
TerminalSignal ==
  Finalized(exec, TRUE) /\ (IF exec.turn > 0 THEN Reconciles(exec) ELSE UNCHANGED recon)
\* settle_non_active_thread and the mirror timer.
SettledIdle ==
  /\ exec' = [Heard EXCEPT !.running = FALSE, !.await = FALSE] /\ reg' = NoTicket
  /\ early' = EarlyIf(exec) /\ UNCHANGED <<ends, recon>>

\* apply_thread_status, thread not active.
OnIdle ==
  /\ Received("idle") /\ w' = Stale(Replaced)
  /\ \/ AwaitingStarted(exec) /\ Heartbeat
     \/ ~AwaitingStarted(exec) /\ Anchored(exec) /\ TerminalSignal
     \/ ~AwaitingStarted(exec) /\ ~Anchored(exec) /\ SettledIdle
  /\ UNCHANGED <<conn, left, stop, late, shown>>

\* apply_thread_status, the thread in systemError: an anchored execution is
\* left to other evidence.
OnError ==
  /\ Received("error") /\ w' = Stale(Replaced)
  /\ IF AwaitingStarted(exec) \/ Anchored(exec) THEN Heartbeat ELSE SettledIdle
  /\ UNCHANGED <<conn, left, stop, late, shown>>

\* handle_thread_closed: whatever runs is finalized.
OnClosed ==
  /\ Received("closed") /\ w' = Stale(Replaced)
  /\ \/ AwaitingStarted(exec) /\ Heartbeat
     \/ ~AwaitingStarted(exec) /\ (exec.running \/ Anchored(exec)) /\ TerminalSignal
     \/ /\ ~exec.running /\ ~Anchored(exec)
        /\ exec' = Heard /\ reg' = NoTicket /\ UNCHANGED <<ends, early, recon>>
  /\ UNCHANGED <<conn, left, stop, late, shown>>

\* apply_thread_status, thread active: the watchdog is scheduled from the
\* session before the acknowledgement.
OnActive ==
  /\ Received("active") /\ w' = Stale(Replaced) /\ reg' = Armed(exec)
  /\ exec' = IF AwaitingStarted(exec) THEN Heard ELSE [Heard EXCEPT !.running = TRUE, !.await = FALSE]
  /\ UNCHANGED <<conn, left, stop, late, recon, ends, shown, early>>

\* A card update replaced the active page: commit_rollover.
Rollover ==
  /\ exec.running /\ exec.turn > 0 /\ exec.page \in 1..(MaxPages - 1)
  /\ exec' = [exec EXCEPT !.page = @ + 1]
  /\ UNCHANGED <<reg, w, conn, up, left, stop, late, recon, ends, shown, early>>

\* The connection is lost: every attached execution is finalized.
Disconnect ==
  /\ conn.live /\ conn.gen < MaxConns
  /\ conn' = [conn EXCEPT !.live = FALSE] /\ up' = [up EXCEPT !.net = <<>>]
  /\ Finalized(exec, FALSE) /\ w' = Replaced
  /\ UNCHANGED <<left, stop, late, recon, shown>>

-----------------------------------------------------------------------------
(* Reading the thread.                                                     *)

\* What thread/read says of the turn of a session: over when that turn, or the
\* last one when none is named, is terminal, or when the thread is not active.
ReadOver(turn) == ~Active \/ (turn > 0 /\ up.turn[turn] = "over")

\* MUTANT of Acknowledged: a channel state of its own for a thread that was read.
AcknowledgedRead == [exec EXCEPT !.running = TRUE, !.await = FALSE, !.chan = "read"]
\* apply_execution_snapshot of a running turn: acknowledged, a heartbeat.
Acknowledged == [exec EXCEPT !.running = TRUE, !.await = FALSE, !.chan = "live"]

-----------------------------------------------------------------------------
(* The watchdog worker.  Once it has seen the stop it does nothing more.   *)

Stopped == stop # "no"
\* x asks for the stop, and acts; the stop may be requested in between.
Told(x) == Stopped /\ x \notin late
At(x, pc) == w[x].pc = pc
Goes(x, pc) == w' = [w EXCEPT ![x].pc = pc]
Leaves(x) == w' = [w EXCEPT ![x] = Idle]
Same(x) == w[x].sess = Fence(exec)
SameGeneration(x) == conn.live /\ w[x].conn = conn.gen
Untouched == UNCHANGED <<exec, reg, ends, shown, early>>
Outside(x) == late' = late \ {x} /\ UNCHANGED <<conn, up, stop, recon>>

\* MUTANT of Fire: the registry admits workers after the stop.
FireStopped(x) ==
  /\ reg # NoTicket /\ ~reg.fired /\ At(x, "idle")
  /\ reg' = [reg EXCEPT !.fired = TRUE]
  /\ w' = [w EXCEPT ![x] = [Idle EXCEPT !.pc = "consume", !.own = TRUE]]
  /\ UNCHANGED <<exec, left, ends, shown, early>> /\ Outside(x)
\* The timer fires: submit_mirror_watchdog.
Fire(x) ==
  /\ ~Stopped /\ reg # NoTicket /\ ~reg.fired /\ At(x, "idle")
  /\ reg' = [reg EXCEPT !.fired = TRUE]
  /\ w' = [w EXCEPT ![x] = [Idle EXCEPT !.pc = "consume", !.own = TRUE]]
  /\ UNCHANGED <<exec, left, ends, shown, early>> /\ Outside(x)

\* consume_mirror_watchdog: the registered ticket is taken; it counts only for
\* the running execution with the same turn and page.
Consume(x) ==
  /\ At(x, "consume")
  /\ LET current == reg.inc = exec.inc /\ reg.turn = exec.turn /\ reg.page = exec.page /\ exec.running
         taken == [w[x] EXCEPT !.sess = Fence(exec), !.armed = FALSE]
     IN /\ reg' = IF w[x].own THEN NoTicket ELSE reg
        /\ IF ~w[x].own \/ ~current \/ Stopped THEN Leaves(x)
           ELSE \E pc \in IF ~AwaitingStarted(exec) THEN {"prepare"}
                          ELSE {"rearm"} \cup (IF exec.kind = "compact" THEN {"unknown"} ELSE {}) :
                  w' = [w EXCEPT ![x] = [taken EXCEPT !.pc = pc]]
  /\ UNCHANGED <<exec, left, ends, shown, early>> /\ Outside(x)

\* The identity of an accepted compaction timed out: the gate stays, degraded.
CompactUnknown(x) ==
  /\ At(x, "unknown") /\ Leaves(x)
  /\ exec' = IF ~Told(x) /\ Same(x) /\ AwaitingStarted(exec) THEN [exec EXCEPT !.chan = "degraded"] ELSE exec
  /\ UNCHANGED <<reg, left, ends, shown, early>> /\ Outside(x)

\* _prepare_mirror_watchdog_snapshot
Prepare(x) ==
  /\ At(x, "prepare") /\ Untouched /\ UNCHANGED left /\ Outside(x)
  /\ IF Stopped \/ ~Same(x) \/ AwaitingStarted(exec) THEN Leaves(x)
     ELSE IF ~conn.live THEN Goes(x, "rearm")
     ELSE w' = [w EXCEPT ![x] = [@ EXCEPT !.pc = "read", !.fresh = TRUE, !.conn = conn.gen,
                                          !.armed = reg # NoTicket]]

\* thread/read pinned to the generation of the receipt.  It may find the
\* thread, miss it, time out or fail; a thread with a running turn exists.
Read(x) ==
  /\ At(x, "read") /\ Untouched /\ Outside(x)
  /\ \/ Stopped /\ Leaves(x) /\ UNCHANGED left
     \/ ~Stopped /\ ~SameGeneration(x) /\ Goes(x, "degrade") /\ UNCHANGED left
     \/ /\ ~Stopped /\ SameGeneration(x) /\ UNCHANGED left
        /\ w' = [w EXCEPT ![x].pc = "settle", ![x].over = ReadOver(w[x].sess[2])]
     \/ /\ ~Stopped /\ SameGeneration(x) /\ left.faults > 0
        /\ left' = [left EXCEPT !.faults = @ - 1]
        /\ \E pc \in {"degrade", "rearm"} \cup (IF Active THEN {} ELSE {"missing"}) : Goes(x, pc)

\* What a settlement requires: the generation, the execution and the absence
\* of events since the receipt.
Current(x) == SameGeneration(x) /\ Same(x) /\ w[x].fresh

\* _settle_mirror_watchdog_snapshot
Settle(x) ==
  /\ At(x, "settle")
  /\ \/ Told(x) /\ Leaves(x) /\ UNCHANGED exec
     \/ ~Told(x) /\ ~Current(x) /\ Goes(x, "rearm") /\ UNCHANGED exec
     \/ /\ ~Told(x) /\ Current(x) /\ w[x].over /\ UNCHANGED exec
        /\ w' = [w EXCEPT ![x].pc = "finalize", ![x].armed = reg # NoTicket]
     \/ /\ ~Told(x) /\ Current(x) /\ ~w[x].over /\ exec' = Acknowledged
        /\ w' = Stale([w EXCEPT ![x].pc = "rearm", ![x].armed = reg # NoTicket])
  /\ UNCHANGED <<reg, left, ends, shown, early>> /\ Outside(x)

\* _settle_mirror_watchdog_fallback: the thread is not found.
Fallback(x) ==
  /\ At(x, "missing") /\ Untouched /\ UNCHANGED left /\ Outside(x)
  /\ IF Told(x) THEN Leaves(x) ELSE Goes(x, IF Current(x) THEN "finalize" ELSE "rearm")

\* _settle_mirror_watchdog_degraded: the read was unavailable.
Degrade(x) ==
  /\ At(x, "degrade")
  /\ exec' = IF ~Told(x) /\ Current(x) /\ HasActive(exec) THEN [exec EXCEPT !.chan = "degraded"] ELSE exec
  /\ IF Told(x) THEN Leaves(x) ELSE Goes(x, "rearm")
  /\ UNCHANGED <<reg, left, ends, shown, early>> /\ Outside(x)

\* MUTANT of FinalizeStaged: the execution is whatever the binding has by now.
FinalizeStagedUnfenced(x) ==
  /\ At(x, "finalize") /\ UNCHANGED <<left, shown>> /\ Outside(x) /\ Finalized(exec, TRUE)
  /\ w' = [Replaced EXCEPT ![x].pc = IF Told(x) THEN "idle" ELSE "present"]
\* MUTANT of FinalizeStaged: the result is presented although another signal won.
FinalizeStagedPresents(x) ==
  /\ At(x, "finalize") /\ UNCHANGED <<left, shown>> /\ Outside(x)
  /\ \/ Told(x) /\ Leaves(x) /\ UNCHANGED <<exec, reg, ends, early>>
     \/ ~Told(x) /\ ~Same(x) /\ Goes(x, "present") /\ UNCHANGED <<exec, reg, ends, early>>
     \/ ~Told(x) /\ Same(x) /\ Finalized(exec, TRUE) /\ w' = [Replaced EXCEPT ![x].pc = "present"]
\* _run_staged_finalization: the loop task retires the execution it read.
FinalizeStaged(x) ==
  /\ At(x, "finalize") /\ UNCHANGED <<left, shown>> /\ Outside(x)
  /\ \/ (Told(x) \/ ~Same(x)) /\ (IF Told(x) THEN Leaves(x) ELSE Goes(x, "rearm"))
        /\ UNCHANGED <<exec, reg, ends, early>>
     \/ ~Told(x) /\ Same(x) /\ Finalized(exec, TRUE)
        /\ w' = [Replaced EXCEPT ![x].pc = "present"]

Presented(i, page) == shown' = IF page > 0 THEN [shown EXCEPT ![i] = @ + 1] ELSE shown

\* The terminal card, the reply and the images, off the loop.
Present(x) ==
  /\ At(x, "present") /\ Leaves(x)
  /\ IF Told(x) THEN UNCHANGED shown ELSE Presented(w[x].sess[1], w[x].sess[3])
  /\ UNCHANGED <<exec, reg, left, ends, early>> /\ Outside(x)

\* MUTANT of Rearm: only a worker whose execution was acknowledged rearms.
RearmAcknowledged(x) ==
  /\ At(x, "rearm") /\ Leaves(x) /\ UNCHANGED <<exec, reg, left, ends, shown, early>> /\ Outside(x)
\* _reschedule_mirror_watchdog: for the same execution and registration fact.
Rearm(x) ==
  /\ At(x, "rearm")
  /\ IF ~Told(x) /\ Same(x) /\ (reg # NoTicket) = w[x].armed
       THEN reg' = Armed(exec) /\ w' = [Replaced EXCEPT ![x] = Idle]
       ELSE Leaves(x) /\ UNCHANGED reg
  /\ UNCHANGED <<exec, left, ends, shown, early>> /\ Outside(x)

Worker(x) == \/ Consume(x) \/ CompactUnknown(x) \/ Prepare(x) \/ Read(x) \/ Settle(x) \/ Fallback(x)
             \/ Degrade(x) \/ FinalizeStaged(x) \/ Present(x) \/ Rearm(x)

-----------------------------------------------------------------------------
(* The other readers, and the shutdown.                                    *)

\* run_terminal_execution_reconcile, which may have asked before the stop.
TerminalReconcile(i) ==
  /\ i \in recon /\ recon' = recon \ {i}
  /\ Presented(i, 1) \/ (Stopped /\ UNCHANGED shown)
  /\ UNCHANGED <<exec, reg, w, conn, up, left, stop, late, ends, early>>

\* handle_running_prompt, the execution being quiet for long: the snapshot is
\* reconciled inside the handler.  Users are not admitted during the shutdown.
AskAgain ==
  /\ ~Stopped /\ exec.running /\ ~AwaitingStarted(exec)
  /\ \/ /\ conn.live /\ ReadOver(exec.turn) /\ UNCHANGED left
        /\ Finalized(exec, TRUE) /\ w' = Replaced /\ Presented(exec.inc, exec.page)
     \/ /\ conn.live /\ ~ReadOver(exec.turn) /\ UNCHANGED <<left, reg, ends, shown, early>>
        /\ exec' = Acknowledged /\ w' = Stale(w)
     \/ /\ left.faults > 0 /\ left' = [left EXCEPT !.faults = @ - 1]
        /\ \/ ~Active /\ Finalized(exec, TRUE) /\ w' = Replaced /\ Presented(exec.inc, exec.page)
           \/ /\ exec' = [exec EXCEPT !.chan = IF HasActive(exec) THEN "degraded" ELSE @]
              /\ UNCHANGED <<w, reg, ends, shown, early>>
  /\ UNCHANGED <<conn, up, stop, late, recon>>

\* ExecutionRecoveryWorkerRegistry.shutdown: admission is closed, and who has
\* just asked for the stop acts before it asks again.
StopRequested ==
  /\ Stops /\ stop = "no" /\ stop' = "requested"
  /\ late' \in SUBSET {x \in Workers : w[x].pc \notin {"idle", "consume", "prepare", "read"}}
  /\ UNCHANGED <<exec, reg, w, conn, up, left, recon, ends, shown, early>>
\* The join returns; when it times out the shutdown is tried again later.
Joined ==
  /\ stop = "requested" /\ recon = {} /\ stop' = "joined"
  /\ \A x \in Workers : At(x, "idle")
  /\ UNCHANGED <<exec, reg, w, conn, up, left, late, recon, ends, shown, early>>

\* MUTANT of TimersCancelled: a join that timed out counts as done.
TimersCancelledUnjoined ==
  /\ stop # "no" /\ stop' = "cancelled" /\ reg' = NoTicket /\ w' = Replaced
  /\ UNCHANGED <<exec, conn, up, left, late, recon, ends, shown, early>>
\* cancel_frontend_runtime_timers, the next step of the service's shutdown.
TimersCancelled ==
  /\ stop = "joined" /\ stop' = "cancelled" /\ reg' = NoTicket /\ w' = Replaced
  /\ UNCHANGED <<exec, conn, up, left, late, recon, ends, shown, early>>

Handler == \/ OnStarted \/ OnWork \/ OnItem \/ OnCompleted
           \/ OnIdle \/ OnError \/ OnClosed \/ OnActive

Next ==
  \/ \E t \in Turn : Begin(t) \/ Work(t) \/ End(t) \/ StartElsewhere(t)
  \/ \E t \in Turn, k \in Kinds, page \in {0, 1} : Start(t, k, page)
  \/ Lose \/ Handler \/ Rollover \/ Disconnect \/ AskAgain
  \/ \E x \in Workers : Fire(x) \/ Worker(x)
  \/ \E i \in Exec : TerminalReconcile(i)
  \/ StopRequested \/ Joined \/ TimersCancelled

Spec == Init /\ [][Next]_vars

\* The loop runs what was posted to it, timers fire, reads answer, turns end.
LiveSpec == /\ Spec
            /\ WF_vars(Handler)
            /\ WF_vars(\E x \in Workers : Fire(x))
            /\ \A x \in Workers : WF_vars(Worker(x))

-----------------------------------------------------------------------------
TypeOK ==
  /\ exec \in [inc : 0..MaxExecs, running : BOOLEAN, await : BOOLEAN, turn : 0..MaxTurns,
               page : 0..MaxPages, kind : {"none", "prompt", "compact"},
               chan : {"live", "degraded"}, for : 0..MaxTurns]
  /\ reg \in [inc : 0..MaxExecs, turn : 0..MaxTurns, page : 0..MaxPages, fired : BOOLEAN]
  /\ \A x \in Workers : w[x].pc \in Pc
  /\ up.turn \in [Turn -> {"none", "sent", "run", "over"}] /\ up.net \in Seq(Note)
  /\ conn.gen \in 1..MaxConns /\ left.lost \in 0..MaxLost /\ left.faults \in 0..MaxFaults
  /\ stop \in {"no", "requested", "joined", "cancelled"} /\ late \subseteq Workers
  /\ recon \subseteq Exec /\ early \subseteq Exec \X BOOLEAN

\* No snapshot, status, completion or unloading retires an execution whose turn
\* has yet to end: not one read before the turn began, and not the end of
\* another turn (the fences of consume, settle and finalize, the turn checks
\* of the notification handlers).  A prompt whose first page was rejected has
\* nothing to wait with until its turn begins, and is left out.
NeverRetiredEarly == \A i \in Exec : <<i, TRUE>> \notin early

\* The same of every execution: false of those.
NeverRetiredEarlyWithoutPage == early = {}

\* Watchdog, completion, status, a repeated prompt and a disconnect race to
\* retire an execution: one of them does, and its result is presented once.
OneResult == \A i \in Exec : ends[i] <= 1 /\ shown[i] <= 1

\* A running execution has a watchdog that fits it, or a worker that still
\* reads for it and will rearm: no interleaving of timer, worker and
\* notifications loses the watchdog (schedule and consume of
\* mirror_watchdog_registration).  A rollover, or the turn identity of a
\* compaction, changes what the ticket names, and nobody rearms it: such an
\* execution is left out.
RunningIsWatched ==
  exec.running /\ HasActive(exec) /\ exec.page = 1 /\ exec.kind # "compact" /\ ~Stopped =>
    \/ reg.inc = exec.inc /\ reg.turn = exec.turn /\ reg.page = exec.page
    \/ \E x \in Workers : w[x].pc \notin {"idle", "consume", "unknown", "present"} /\ Same(x)

\* Behind the join of the shutdown no recovery worker is left that could
\* settle, present or arm a watchdog after its timers were cancelled, whatever
\* a late worker, a timer or a notification did in between (the order of
\* _shutdown_after_lease and the admission of the registry).
NothingBehindTheBarrier ==
  stop \in {"joined", "cancelled"} => recon = {} /\ \A x \in Workers : w[x].pc = "idle"

\* An execution whose turn is over is retired even when the completion and the
\* idle status were lost and reads fail.
LostCompletionRetires ==
  \A t \in Turn : (exec.turn = t /\ up.turn[t] = "over") ~> (exec.turn # t \/ Stopped)

\* An execution is retired once, and not before its turn is over, and while
\* it runs it does not lose its watchdog.
ExecutionInvariant ==
  /\ TypeOK
  /\ NeverRetiredEarly
  /\ OneResult
  /\ RunningIsWatched
=============================================================================
