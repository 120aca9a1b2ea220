--------------------------- MODULE ExecutionOutput --------------------------
(***************************************************************************)
(* What one execution shows in its chat: the ledger of execution pages     *)
(* (bot/execution_pages.py), the transitions and the handlers that open,   *)
(* patch, roll over and reconcile them on the RuntimeLoop                  *)
(* (bot/execution_output_runtime.py, bot/execution_output_controller.py),  *)
(* the terminal presentation of the retired execution by its worker        *)
(* (bot/feishu_execution_finalization_controller.py,                       *)
(* bot/execution_recovery_controller.py) and the dispatcher whose workers  *)
(* patch the cards (bot/runtime_card_publisher.py).                        *)
(*                                                                         *)
(* The transcript is its length; a card shows the range [lo, hi) of it and *)
(* a page holds Cap characters.  A message is named by the attempt that    *)
(* sent it, Reserved is a card that existed before.  The chat service      *)
(* deduplicates an attempt that is sent again, but may refuse to answer    *)
(* for it (bot/feishu_outbound.py).  A handler of the loop runs            *)
(* from pc "page" or "reconcile" back to "idle" before another one starts; *)
(* the dispatcher's workers and the terminal worker interleave with it.    *)
(***************************************************************************)
EXTENDS Integers, Sequences, FiniteSets, SequencesExt

CONSTANTS
  Patchers,     \* patch workers of the dispatcher
  Cap,          \* what fits into a page
  MaxLen,       \* bound: length of the transcript
  MaxAttempt    \* bound: outbound attempts

ASSUME OutputConstants ==
  /\ Cap \in Nat \ {0} /\ MaxLen \in Nat /\ MaxAttempt \in Nat \ {0}
  /\ Patchers # {} /\ IsFiniteSet(Patchers)

VARIABLES
  len, run, turn,     \* transcript, phase of the execution, its turn id is known
  patched, timer,     \* last_patch_at is set; the registered patch timer's ticket
  pages,              \* the ledger (after the end: the presentation snapshot)
  natt, posted,       \* attempts made; attempts whose message exists in the chat
  startOf,            \* attempt -> where its page starts
  denied,             \* history: posted attempts the ledger dropped as refused
  pc, bg,             \* the loop handler that presents, and whether in background
  term, at, receipts, todo,  \* the terminal worker
  carrier,            \* the final reply has a message of its own
  pend, slot, queue, hold, closed,   \* the dispatcher
  want, done          \* last model submitted for a card; it was concluded

book == <<len, run, turn>>
ledger == <<pages, natt, posted, startOf, denied>>
terminal == <<term, at, receipts, todo, carrier>>
dispatcher == <<pend, slot, queue, closed, want, done>>
outputVars == <<book, patched, timer, ledger, pc, bg, terminal, dispatcher, hold>>

Reserved == MaxAttempt + 1
Msgs == 1..Reserved
Open == -1
Model == [lo : 0..MaxLen, hi : 0..MaxLen, running : BOOLEAN, text : {"full", "cut", "minimal"}]
NoModel == [lo |-> 0, hi |-> 0, running |-> TRUE, text |-> "none"]
NoTimer == [att |-> 0, msg |-> 0, turn |-> FALSE, set |-> FALSE]
Stop == 0
Page == [att : 1..MaxAttempt, msg : 0..Reserved, start : 0..MaxLen, end : {Open} \cup 0..MaxLen,
         st : {"active", "sealed", "send_unknown"}, tried : BOOLEAN]
Receipt == [msg : Msgs, start : 0..MaxLen, end : 0..MaxLen]

OutputInit ==
  /\ len = 0 /\ run = "new" /\ turn = FALSE
  /\ patched = FALSE /\ timer = NoTimer
  /\ pages = <<>> /\ natt = 0 /\ posted = {} /\ startOf = [a \in 1..MaxAttempt |-> 0]
  /\ denied = {}
  /\ pc = "idle" /\ bg = TRUE
  /\ term = "none" /\ at = [msg |-> 0, start |-> 0] /\ receipts = <<>> /\ todo = {}
  /\ carrier = FALSE
  /\ pend = [m \in Msgs |-> NoModel] /\ slot = [m \in Msgs |-> {}] /\ queue = <<>>
  /\ hold = [w \in Patchers |-> [msg |-> 0, model |-> NoModel]] /\ closed = FALSE
  /\ want = [m \in Msgs |-> NoModel] /\ done = [m \in Msgs |-> TRUE]

-----------------------------------------------------------------------------
(* The ledger's projections.                                               *)

HasPending(ps) == ps # <<>> /\ Last(ps).st = "send_unknown"
Pending == Last(pages)
ActiveIndex(ps) == LET n == IF HasPending(ps) THEN Len(ps) - 1 ELSE Len(ps)
                   IN IF n > 0 /\ ps[n].st = "active" THEN n ELSE 0
HasActivePage == ActiveIndex(pages) # 0
ActivePage == pages[ActiveIndex(pages)]
CurrentMsg == IF HasActivePage THEN ActivePage.msg ELSE 0
ProjectionEnd == IF HasPending(pages) THEN Pending.start ELSE len

ModelOf(lo, hi, r) == [lo |-> lo, hi |-> hi, running |-> r, text |-> "full"]
NewPage(a, m, s, st) ==
  [att |-> a, msg |-> m, start |-> s, end |-> Open, st |-> st, tried |-> FALSE]

(* activate_rollover and confirm_send_unknown: the page before, if any, is *)
(* sealed where the confirmed one starts.                                  *)
Confirmed(ps, page) ==
  LET i == ActiveIndex(ps) IN
  IF i = 0 THEN <<page>>
  ELSE Append(SubSeq(ps, 1, i - 1) \o <<[ps[i] EXCEPT !.st = "sealed", !.end = page.start]>>,
              page)

(* The ledger after an outcome: commit_initial_page, commit_rollover and   *)
(* commit_send_unknown_reconciliation.                                     *)
InitialLedger(a, m, outcome) ==
  CASE outcome = "confirmed" -> <<NewPage(a, IF m # 0 THEN m ELSE a, 0, "active")>>
    [] outcome = "unknown" -> <<NewPage(a, m, 0, "send_unknown")>>
    [] outcome = "rejected" -> <<>>

RolloverLedger(a, cut, outcome) ==
  CASE outcome = "confirmed" -> Confirmed(pages, NewPage(a, a, cut, "active"))
    [] outcome = "unknown" -> Append(pages, NewPage(a, 0, cut, "send_unknown"))
    [] outcome = "rejected" -> pages

ReconciledLedger(outcome) ==
  CASE outcome = "confirmed" ->
         Confirmed(pages, [Pending EXCEPT !.st = "active",
                                          !.msg = IF @ # 0 THEN @ ELSE Pending.att])
    [] outcome = "unknown" -> [pages EXCEPT ![Len(pages)].tried = TRUE]
    [] outcome = "rejected" -> Front(pages)

(* What the chat does with an attempt: known to be sent, unknown, or       *)
(* refused.  One that was sent before is not sent a second time, but can   *)
(* be refused: only the code of the error tells (230020 is a rate limit).  *)
Send(a, outcome) ==
  \/ outcome = "confirmed" /\ posted' = posted \cup {a}
  \/ outcome = "unknown" /\ posted' \in {posted, posted \cup {a}}
  \/ outcome = "rejected" /\ posted' = posted

Outcomes == {"confirmed", "unknown", "rejected"}

-----------------------------------------------------------------------------
(* The dispatcher.                                                         *)

(* MUTANT of Busy: only a queued card counts as busy.                      *)
BusyIfQueued(m) == "queued" \in slot[m]

Busy(m) == slot[m] # {}

Submit(m, model) ==
  IF closed THEN UNCHANGED dispatcher
  ELSE /\ pend' = [pend EXCEPT ![m] = model]
       /\ want' = [want EXCEPT ![m] = model] /\ done' = [done EXCEPT ![m] = FALSE]
       /\ IF Busy(m) THEN UNCHANGED <<slot, queue>>
          ELSE /\ slot' = [slot EXCEPT ![m] = @ \cup {"queued"}]
               /\ queue' = Append(queue, m)
       /\ UNCHANGED closed

WorkerTakes(w) ==
  /\ hold[w].msg = 0 /\ queue # <<>> /\ Head(queue) # Stop
  /\ LET m == Head(queue) IN
       /\ queue' = Tail(queue)
       /\ IF pend[m] = NoModel
          THEN /\ slot' = [slot EXCEPT ![m] = @ \ {"queued"}]
               /\ UNCHANGED <<pend, hold>>
          ELSE /\ slot' = [slot EXCEPT ![m] = (@ \ {"queued"}) \cup {"inflight"}]
               /\ pend' = [pend EXCEPT ![m] = NoModel]
               /\ hold' = [hold EXCEPT ![w] = [msg |-> m, model |-> pend[m]]]
  /\ UNCHANGED <<book, patched, timer, ledger, pc, bg, terminal, closed, want, done>>

WorkerStops(w) ==
  /\ hold[w].msg = 0 /\ queue # <<>> /\ Head(queue) = Stop
  /\ queue' = Tail(queue) /\ hold' = [hold EXCEPT ![w].msg = -1]
  /\ UNCHANGED <<book, patched, timer, ledger, pc, bg, terminal, pend, slot, closed, want, done>>

(* A refused final card may be retried as a minimal one.                   *)
RetryModels(model) == {model} \cup IF model.running THEN {}
                                   ELSE {[model EXCEPT !.text = "minimal"]}

(* MUTANT of Requeues: what arrived during the patch waits for the next.   *)
RequeuesNothing(m, p, s) == FALSE

Requeues(m, p, s) == p # NoModel /\ s \cap {"queued", "retry"} = {} /\ ~closed

WorkerFinishes(w, outcome) ==
  LET m == hold[w].msg
      again == outcome = "retry" /\ ~closed
      s == (slot[m] \ {"inflight"}) \cup (IF again THEN {"retry"} ELSE {})
  IN
  /\ m > 0 /\ hold' = [hold EXCEPT ![w] = [msg |-> 0, model |-> NoModel]]
  /\ \E p \in IF again /\ pend[m] = NoModel THEN RetryModels(hold[w].model) ELSE {pend[m]} :
       /\ pend' = [pend EXCEPT ![m] = p]
       /\ IF Requeues(m, p, s)
          THEN slot' = [slot EXCEPT ![m] = s \cup {"queued"}] /\ queue' = Append(queue, m)
          ELSE slot' = [slot EXCEPT ![m] = s] /\ UNCHANGED queue
  /\ done' = [done EXCEPT ![m] = \/ @
                                     \/ /\ ~again
                                        /\ [hold[w].model EXCEPT !.text = want[m].text] = want[m]]
  /\ UNCHANGED <<book, patched, timer, ledger, pc, bg, terminal, closed, want>>

RetryReady(m) ==
  /\ "retry" \in slot[m]
  /\ LET s == slot[m] \ {"retry"} IN
     IF ~closed /\ s = {} /\ pend[m] # NoModel
     THEN slot' = [slot EXCEPT ![m] = {"queued"}] /\ queue' = Append(queue, m)
     ELSE slot' = [slot EXCEPT ![m] = s] /\ UNCHANGED queue
  /\ UNCHANGED <<book, patched, timer, ledger, pc, bg, terminal, pend, closed, want, done, hold>>

(* The workers are told to stop behind what is queued; retry timers are    *)
(* cancelled, or find the dispatcher closed.                               *)
Shutdown ==
  /\ ~closed /\ closed' = TRUE
  /\ queue' = queue \o [i \in 1..Cardinality(Patchers) |-> Stop]
  /\ UNCHANGED <<book, patched, timer, ledger, pc, bg, terminal, pend, slot, want, done, hold>>

-----------------------------------------------------------------------------
(* The handlers of the loop.                                               *)

Ticket(ps, t) ==
  [att |-> IF HasPending(ps) THEN Last(ps).att ELSE 0,
   msg |-> IF ActiveIndex(ps) # 0 THEN ps[ActiveIndex(ps)].msg ELSE 0,
   turn |-> t, set |-> TRUE]

(* _timer_ticket_matches                                                   *)
TicketMatches(t) ==
  /\ t.turn = turn
  /\ IF t.att # 0 THEN HasPending(pages) /\ Pending.att = t.att
                       /\ t.msg \in {CurrentMsg, Pending.msg}
     ELSE t.msg # 0 /\ t.msg = CurrentMsg

(* _schedule_pending_page_reconciliation, for the ledger ps.               *)
ReconcileLater(ps, known) ==
  timer' = IF timer.set THEN timer
           ELSE [Ticket(ps, known) EXCEPT !.msg = IF @ # 0 THEN @ ELSE Last(ps).msg]

(* open_initial_execution_page, as a new card or over a reserved one.      *)
OpenInitial(reserved, known, outcome) ==
  LET a == natt + 1 IN
  /\ run = "new" /\ run' = "running" /\ turn' = known /\ natt' = a
  /\ IF reserved THEN UNCHANGED posted ELSE Send(a, outcome)
  /\ pages' = InitialLedger(a, IF reserved THEN Reserved ELSE 0, outcome)
  /\ IF outcome = "unknown" THEN ReconcileLater(pages', known) ELSE UNCHANGED timer
  /\ UNCHANGED <<len, patched, startOf, denied, pc, bg, terminal, dispatcher, hold>>

Presents(background) ==
  /\ pc' = IF HasPending(pages) THEN "reconcile" ELSE "page"
  /\ bg' = background

(* schedule_execution_card_update: at once, or by the patch timer.         *)
ScheduleUpdate(known) ==
  \/ ~HasActivePage /\ ~HasPending(pages) /\ UNCHANGED <<patched, timer, pc, bg>>
  \/ /\ HasActivePage \/ HasPending(pages)
     /\ \/ patched' = TRUE /\ timer' = NoTimer /\ Presents(TRUE)
        \/ patched /\ timer.set /\ UNCHANGED <<patched, timer, pc, bg>>
        \/ patched /\ ~timer.set /\ timer' = Ticket(pages, known)
           /\ UNCHANGED <<patched, pc, bg>>

TurnStarted ==
  /\ pc = "idle" /\ run = "running" /\ ~turn /\ turn' = TRUE
  /\ ScheduleUpdate(TRUE)
  /\ UNCHANGED <<len, run, ledger, terminal, dispatcher, hold>>

Delta ==
  /\ pc = "idle" /\ run = "running" /\ turn /\ len < MaxLen
  /\ len' = len + 1 /\ ScheduleUpdate(TRUE)
  /\ UNCHANGED <<run, turn, ledger, terminal, dispatcher, hold>>

(* consume_execution_card_patch_timer                                      *)
ConsumeTimer ==
  /\ pc = "idle" /\ timer.set /\ timer' = NoTimer
  /\ IF run \in {"running", "settled"} /\ TicketMatches(timer)
     THEN patched' = TRUE /\ Presents(TRUE)
     ELSE UNCHANGED <<patched, pc, bg>>
  /\ UNCHANGED <<book, ledger, terminal, dispatcher, hold>>

(* A thread that is no longer active settles the execution; its card is    *)
(* flushed in the foreground.                                              *)
SettleAndFlush ==
  /\ pc = "idle" /\ run = "running" /\ run' = "settled" /\ turn' = FALSE
  /\ timer' = NoTimer /\ patched' = TRUE
  /\ IF HasActivePage \/ HasPending(pages) THEN Presents(FALSE) ELSE UNCHANGED <<pc, bg>>
  /\ UNCHANGED <<len, ledger, terminal, dispatcher, hold>>

(* MUTANT of ReplayAttempt: an unknown send is repeated under a new name.  *)
ReplayFresh == natt + 1

ReplayAttempt == Pending.att

(* _reconcile_send_unknown and the patch of the page it seals.  A refused  *)
(* replay discards the page: reject_send_unknown.                          *)
Reconcile(outcome) ==
  /\ pc = "reconcile"
  /\ IF Pending.tried
     THEN pc' = "idle" /\ UNCHANGED <<ledger, dispatcher>>
     ELSE /\ pc' = "page"
          /\ IF Pending.msg = Reserved THEN UNCHANGED <<natt, posted, startOf, denied>>
             ELSE LET a == ReplayAttempt IN
                  /\ a <= MaxAttempt /\ Send(a, outcome)
                  /\ startOf' = [startOf EXCEPT ![a] = Pending.start]
                  /\ natt' = IF a > natt THEN a ELSE natt
                  /\ denied' = IF outcome = "rejected" THEN denied \cup ({a} \cap posted) ELSE denied
          /\ pages' = ReconciledLedger(outcome)
          /\ IF outcome = "confirmed" /\ HasActivePage
             THEN Submit(ActivePage.msg, ModelOf(ActivePage.start, Pending.start, FALSE))
             ELSE UNCHANGED dispatcher
  /\ UNCHANGED <<book, patched, timer, bg, terminal, hold>>

Publish(m, model) == IF bg THEN Submit(m, model) ELSE UNCHANGED dispatcher

Running == run = "running"
Fits(lo, hi) == hi - lo <= Cap

(* _present_execution_card_effect: the active page holds what there is to  *)
(* show, or a rollover is blocked.                                         *)
PresentPage ==
  /\ pc = "page" /\ pc' = "idle"
  /\ IF HasActivePage
     THEN /\ HasPending(pages) \/ Fits(ActivePage.start, ProjectionEnd)
          /\ Publish(ActivePage.msg, ModelOf(ActivePage.start, ProjectionEnd, Running))
     ELSE UNCHANGED dispatcher
  /\ UNCHANGED <<book, patched, timer, ledger, bg, terminal, hold>>

(* The page is full: the rest goes to a new one, or waits.                 *)
RolloverPage(outcome) ==
  LET a == natt + 1
      cut == ActivePage.start + Cap
      full == ModelOf(ActivePage.start, cut, Running)
  IN
  /\ pc = "page" /\ HasActivePage /\ ~HasPending(pages) /\ ~Fits(ActivePage.start, len)
  /\ a <= MaxAttempt /\ natt' = a /\ startOf' = [startOf EXCEPT ![a] = cut]
  /\ Send(a, outcome) /\ pages' = RolloverLedger(a, cut, outcome)
  /\ IF outcome = "confirmed"
     THEN UNCHANGED pc /\ Submit(ActivePage.msg, [full EXCEPT !.running = FALSE])
     ELSE pc' = "idle" /\ Publish(ActivePage.msg, full)
  /\ IF outcome = "unknown" THEN ReconcileLater(pages', turn) ELSE UNCHANGED timer
  /\ UNCHANGED <<book, patched, denied, bg, terminal, hold>>

(* The turn is over, perhaps with a last note: the execution is retired    *)
(* and its pages are presented by a worker.                                *)
Finalize(note) ==
  /\ pc = "idle" /\ run \in {"running", "settled"} /\ run' = "over" /\ turn' = FALSE
  /\ len + note <= MaxLen /\ len' = len + note
  /\ IF HasActivePage THEN timer' = NoTimer /\ patched' = TRUE ELSE UNCHANGED <<timer, patched>>
  /\ term' = IF HasActivePage \/ HasPending(pages) THEN "begin" ELSE "done"
  /\ UNCHANGED <<ledger, pc, bg, at, receipts, todo, carrier, dispatcher, hold>>

-----------------------------------------------------------------------------
(* The terminal worker: present_terminal_execution_card, then the final    *)
(* reply's own message and the removal of that reply from the pages.       *)

ReceiptOf(p, e) == [msg |-> p.msg, start |-> p.start, end |-> e]
Sealed == {i \in DOMAIN pages : pages[i].st = "sealed"}
\* The sealed pages are the first ones of the ledger.
SealedReceipts ==
  [i \in 1..Cardinality(Sealed) |-> ReceiptOf(pages[i], pages[i].end)]

TermBegin ==
  /\ term = "begin"
  /\ IF HasPending(pages)
     THEN /\ IF HasActivePage
             THEN /\ Submit(ActivePage.msg, ModelOf(ActivePage.start, Pending.start, FALSE))
                  /\ receipts' = Append(SealedReceipts, ReceiptOf(ActivePage, Pending.start))
             ELSE receipts' = SealedReceipts /\ UNCHANGED dispatcher
          /\ term' = IF Pending.tried THEN "carrier" ELSE "replay"
          /\ UNCHANGED at
     ELSE /\ receipts' = SealedReceipts /\ term' = "page"
          /\ at' = [msg |-> ActivePage.msg, start |-> ActivePage.start] /\ UNCHANGED dispatcher
  /\ UNCHANGED <<book, patched, timer, ledger, pc, bg, todo, carrier, hold>>

TermReplay(outcome) ==
  /\ term = "replay"
  /\ IF Pending.msg = Reserved THEN UNCHANGED posted ELSE Send(Pending.att, outcome)
  /\ IF outcome = "confirmed"
     THEN /\ term' = "page"
          /\ at' = [msg |-> IF Pending.msg # 0 THEN Pending.msg ELSE Pending.att,
                    start |-> Pending.start]
     ELSE term' = "carrier" /\ UNCHANGED at
  /\ UNCHANGED <<book, patched, timer, pages, natt, startOf, denied, pc, bg, receipts, todo, carrier,
                 dispatcher, hold>>

TermPage ==
  LET fits == Fits(at.start, len)
      end == IF fits THEN len ELSE at.start + Cap
  IN
  /\ term = "page" /\ term' = IF fits THEN "carrier" ELSE "send"
  /\ Submit(at.msg, ModelOf(at.start, end, FALSE))
  /\ receipts' = Append(receipts, ReceiptOf(at, end))
  /\ UNCHANGED <<book, patched, timer, ledger, pc, bg, at, todo, carrier, hold>>

TermSend(outcome) ==
  LET a == natt + 1 IN
  /\ term = "send" /\ a <= MaxAttempt /\ natt' = a /\ Send(a, outcome)
  /\ startOf' = [startOf EXCEPT ![a] = Last(receipts).end]
  /\ IF outcome = "confirmed"
     THEN term' = "page" /\ at' = [msg |-> a, start |-> Last(receipts).end]
     ELSE term' = "carrier" /\ UNCHANGED at
  /\ UNCHANGED <<book, patched, timer, pages, denied, pc, bg, receipts, todo, carrier,
                 dispatcher, hold>>

(* terminal_reply_interval_coverage: the pages the reply [k, len) meets.   *)
Intersecting(k) == {i \in DOMAIN receipts : receipts[i].end > k /\ receipts[i].start < len}

(* MUTANT of Removable: the pages are cleared although the reply was not   *)
(* published.                                                              *)
RemovableAnyway(published) == TRUE

Removable(published) == published

(* The final reply starts at k.  Its own message is published, or not; the *)
(* worker may also be stopped before.                                      *)
Carrier(k, published) ==
  /\ term = "carrier" /\ k < len
  /\ carrier' = published
  /\ todo' = IF Removable(published) THEN Intersecting(k) ELSE {}
  /\ at' = [at EXCEPT !.start = k]
  /\ term' = "cleanup"
  /\ UNCHANGED <<book, patched, timer, ledger, pc, bg, receipts, dispatcher, hold>>

Cleanup(i) ==
  /\ term = "cleanup" /\ i \in todo /\ \A j \in todo : i <= j
  /\ Submit(receipts[i].msg, [ModelOf(receipts[i].start, receipts[i].end, FALSE)
                              EXCEPT !.text = "cut"])
  /\ todo' = todo \ {i}
  /\ UNCHANGED <<book, patched, timer, ledger, pc, bg, term, at, receipts, carrier, hold>>

TermEnds ==
  /\ term = "carrier" \/ (term = "cleanup" /\ todo = {})
  /\ term' = "done"
  /\ UNCHANGED <<book, patched, timer, ledger, pc, bg, at, receipts, todo, carrier, dispatcher,
                 hold>>

-----------------------------------------------------------------------------
OutputNext ==
  \/ \E r, k \in BOOLEAN, o \in Outcomes : OpenInitial(r, k, o)
  \/ TurnStarted \/ Delta \/ ConsumeTimer \/ SettleAndFlush \/ PresentPage
  \/ \E o \in Outcomes : Reconcile(o) \/ RolloverPage(o) \/ TermReplay(o) \/ TermSend(o)
  \/ \E n \in 0..1 : Finalize(n)
  \/ TermBegin \/ TermPage \/ TermEnds
  \/ \E k \in 0..MaxLen, p \in BOOLEAN : Carrier(k, p)
  \/ \E i \in 1..MaxAttempt + 1 : Cleanup(i)
  \/ \E w \in Patchers : WorkerTakes(w) \/ WorkerStops(w)
  \/ \E w \in Patchers, o \in {"applied", "retry", "failed"} : WorkerFinishes(w, o)
  \/ \E m \in Msgs : RetryReady(m)
  \/ Shutdown

OutputSpec == OutputInit /\ [][OutputNext]_outputVars

-----------------------------------------------------------------------------
OutputTypeOK ==
  /\ len \in 0..MaxLen /\ run \in {"new", "running", "settled", "over"} /\ turn \in BOOLEAN
  /\ patched \in BOOLEAN /\ bg \in BOOLEAN /\ closed \in BOOLEAN /\ carrier \in BOOLEAN
  /\ timer \in [att : 0..MaxAttempt, msg : 0..Reserved, turn : BOOLEAN, set : BOOLEAN]
  /\ pages \in Seq(Page) /\ natt \in 0..MaxAttempt /\ posted \subseteq 1..MaxAttempt
  /\ denied \subseteq posted
  /\ pc \in {"idle", "page", "reconcile"} /\ receipts \in Seq(Receipt)
  /\ term \in {"none", "begin", "replay", "page", "send", "carrier", "cleanup", "done"}
  /\ pend \in [Msgs -> Model \cup {NoModel}] /\ want \in [Msgs -> Model \cup {NoModel}]
  /\ slot \in [Msgs -> SUBSET {"queued", "inflight", "retry"}] /\ queue \in Seq(0..Reserved)

(* The ledger is what __post_init__ demands: sealed pages without gaps,    *)
(* then at most an active page and one whose sending is unknown, further   *)
(* on than the active one, no attempt and no message twice.                *)
LedgerIsContiguous ==
  /\ \A i \in DOMAIN pages :
       /\ i + 1 < Len(pages) => pages[i].st = "sealed"
       /\ pages[i].st = "sealed" => pages[i].end > pages[i].start
       /\ i > 1 /\ pages[i - 1].st = "sealed" =>
            pages[i].st # "send_unknown" /\ pages[i].start = pages[i - 1].end
       /\ i > 1 /\ pages[i - 1].st # "sealed" =>
            /\ pages[i - 1].st = "active" /\ pages[i].st = "send_unknown"
            /\ pages[i].start > pages[i - 1].start
       /\ \A j \in DOMAIN pages : i # j =>
            /\ pages[i].att # pages[j].att
            /\ pages[i].msg # 0 => pages[i].msg # pages[j].msg
  /\ pages # <<>> => pages[1].start = 0
  /\ HasActivePage => ActivePage.start <= len

(* No stretch of the transcript gets two cards: an attempt whose fate is   *)
(* unknown is repeated under its own name or not at all, until the chat    *)
(* confirms or refuses it (_reconcile_send_unknown_page_effect).  A card   *)
(* that exists although its replay was refused is the exception: the       *)
(* ledger forgets it, and the rollover sends the stretch again.            *)
OneCardPerRange == \A a, b \in posted \ denied : a # b => startOf[a] # startOf[b]

(* reject_send_unknown: what is discarded had no effect.  False of a       *)
(* replay that is refused after the first send arrived.                    *)
RefusedHadNoEffect == denied = {}

(* A card is patched by one worker at a time, and is queued once.          *)
OneWorkerPerCard ==
  /\ \A v, w \in Patchers : v # w /\ hold[v].msg > 0 => hold[v].msg # hold[w].msg
  /\ \A i, j \in DOMAIN queue : i # j /\ queue[i] # Stop => queue[i] # queue[j]

(* No patch is lost: until the dispatcher closes, what waits is queued, in *)
(* flight or to be retried, and a card at rest was last patched with what  *)
(* was submitted last.                                                     *)
NoLostPatch ==
  ~closed => \A m \in Msgs :
    /\ pend[m] # NoModel => slot[m] # {}
    /\ slot[m] = {} => done[m]
    /\ "queued" \in slot[m] <=> \E i \in DOMAIN queue : queue[i] = m

(* Output does not stay behind: between handlers, a running execution's    *)
(* patch timer is registered, or its active page shows all it can hold.    *)
PageIsCurrent ==
  run = "running" /\ turn /\ pc = "idle" /\ ~closed /\ HasActivePage /\ len > 0 =>
    \/ timer.set /\ TicketMatches(timer)
    \/ LET e == IF Fits(ActivePage.start, ProjectionEnd) THEN ProjectionEnd ELSE ActivePage.start + Cap
       IN want[ActivePage.msg] = ModelOf(ActivePage.start, e, TRUE)

(* When the terminal pages are presented, their receipts follow each other *)
(* without gap from the start, no card twice, and each card was told its   *)
(* final range as not running.                                             *)
TerminalPagesAreFinal ==
  /\ \A i \in DOMAIN receipts :
       /\ receipts[i].start = IF i = 1 THEN 0 ELSE receipts[i - 1].end
       /\ \A j \in DOMAIN receipts : i # j => receipts[i].msg # receipts[j].msg
  /\ term \in {"carrier", "cleanup", "done"} /\ ~closed =>
       \A i \in DOMAIN receipts :
         LET m == want[receipts[i].msg]
         IN m.lo = receipts[i].start /\ m.hi = receipts[i].end /\ ~m.running

(* The final reply disappears from the pages only after it has a message   *)
(* of its own.                                                             *)
NothingRemovedUnpublished == \A m \in Msgs : want[m].text = "cut" => carrier

(* The pages and cards of an execution are consistent: the parts above.    *)
OutputInvariant ==
  /\ OutputTypeOK
  /\ LedgerIsContiguous
  /\ OneCardPerRange
  /\ OneWorkerPerCard
  /\ NoLostPatch
  /\ PageIsCurrent
  /\ TerminalPagesAreFinal
  /\ NothingRemovedUnpublished
=============================================================================
