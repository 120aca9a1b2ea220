---------------------------- MODULE ThreadResume ----------------------------
(***************************************************************************)
(* The resume, unsubscribe and start receipts of one thread inside one     *)
(* service: bot/thread_runtime_authority.py, driven by Web opens           *)
(* (web_runtime/thread_open_coordinator.py), Web runtime cleanup           *)
(* (web_runtime/lifecycle_coordinator.py and controller.py), Feishu        *)
(* binding commits and deactivations, and prompts.                         *)
(*                                                                         *)
(* Web opens and the cleanup are workers: they take their claims on the    *)
(* RuntimeLoop and do store and transport work off it.  Feishu operations  *)
(* hold the RuntimeLoop from their claim to their commit, so `loop' is not *)
(* free in between.  A step that takes _receipt_lock once, does one store  *)
(* operation or one loop call is one action.                               *)
(*                                                                         *)
(* The machine ledger is reduced to whether this service holds the thread  *)
(* (module ThreadRuntimeLease has the ledger); the Web interest revision   *)
(* and the holder's updated_at only serve equality with a snapshot, so the *)
(* model keeps whether they moved since the cleanup took its snapshot.     *)
(***************************************************************************)
EXTENDS Naturals

CONSTANTS
  Open,            \* Web open attempts
  Feishu,          \* the Feishu operation that holds the RuntimeLoop
  Cleanup,         \* the one Web cleanup flight of the thread
  Nobody,
  NoInterest,
  MaxGen           \* bound: connection generations

Token == Open \cup {Feishu}
Gen == 1..MaxGen

Interest == [open : BOOLEAN, desired : BOOLEAN, ever : BOOLEAN, cur : BOOLEAN,
             unknown : BOOLEAN, unsubUnknown : BOOLEAN]

ASSUME ConstantsAssumption ==
  /\ MaxGen \in Nat \ {0}
  /\ Feishu \notin Open /\ Cleanup \notin Token
  /\ Nobody \notin Token \cup {Cleanup}
  /\ NoInterest \notin Interest

VARIABLES
  gen, lost,       \* live connection; TRUE until the loop handled its loss
  loop,            \* "free", or the step the Feishu operation is at
  lease,           \* this service holds the thread in the machine ledger
  sub,             \* the app-server sends thread events to this connection
  rclaim, acquiring, invalid, pending, executing,  \* resume receipts
  uclaim, uinvalid, uexecuting,                    \* unsubscribe receipts
  start,           \* a turn/start is in transport, or none
  interest,        \* Web runtime interest in the thread
  bound,           \* an attached Feishu binding subscribes to the thread
  att,             \* each Web open attempt
  fei,             \* the Feishu operation's receipt
  cln,             \* the cleanup flight
  loose            \* history: the lease was released on stale grounds

connVars == <<gen, lost>>
resumeVars == <<rclaim, acquiring, invalid, pending, executing>>
unsubVars == <<uclaim, uinvalid, uexecuting>>
surfaceVars == <<interest, bound>>
vars == <<connVars, loop, lease, sub, resumeVars, unsubVars, start,
          surfaceVars, att, fei, cln, loose>>

AttPc == {"idle", "claimed", "checked", "leased", "undo", "undone", "pending",
          "drop", "dropped", "ready", "sending", "replied"}
Reply == {"none", "ok", "noeffect", "unknown"}
Attempt == [pc : AttPc, gen : Gen, new : BOOLEAN, res : Reply, closed : BOOLEAN]
IdleAtt == [pc |-> "idle", gen |-> 1, new |-> FALSE, res |-> "none", closed |-> FALSE]

ClnPc == {"idle", "probing", "probed", "claimed", "confirmed", "sending",
          "replied", "settled", "allowed", "released", "failed", "final", "abandon"}
Flight == [pc : ClnPc, gen : Gen, cur : BOOLEAN, unsub : BOOLEAN,
           same : BOOLEAN, exact : BOOLEAN, held : BOOLEAN, res : Reply]
IdleCln == [pc |-> "idle", gen |-> 1, cur |-> FALSE, unsub |-> FALSE,
            same |-> FALSE, exact |-> FALSE, held |-> FALSE, res |-> "none"]

FeiPc == {"free", "claimed", "pending", "sending", "compensate", "unsubscribed",
          "unsubClaimed", "unsubSending"}

Init ==
  /\ gen = 1 /\ lost = FALSE /\ loop = "free" /\ lease = FALSE /\ sub = FALSE
  /\ rclaim = Nobody /\ acquiring = {} /\ invalid = {} /\ pending = {} /\ executing = {}
  /\ uclaim = Nobody /\ uinvalid = {} /\ uexecuting = {}
  /\ start = 0 /\ interest = NoInterest /\ bound = FALSE
  /\ att = [o \in Open |-> IdleAtt] /\ fei = [new |-> FALSE, gen |-> 1]
  /\ cln = IdleCln /\ loose = FALSE

OnLoop == loop = "free"

(* run_if_connection_generation: a loop call pinned to one generation.     *)
GenLive(g) == ~lost /\ g = gen

-----------------------------------------------------------------------------
(* WebRuntimeInterestRegistry.  Every write touches the revision, so the   *)
(* cleanup's snapshot no longer equals the record.                         *)

Fresh == [open |-> FALSE, desired |-> FALSE, ever |-> FALSE, cur |-> FALSE,
          unknown |-> FALSE, unsubUnknown |-> FALSE]
Record == IF interest = NoInterest THEN Fresh ELSE interest
SubscriptionCurrent == interest # NoInterest /\ interest.cur /\ ~interest.unknown

Confirmed(desired) ==
  [Record EXCEPT !.desired = @ \/ desired, !.ever = TRUE, !.cur = TRUE,
                 !.unknown = FALSE, !.unsubUnknown = FALSE]
Unknown(desired) ==
  [Record EXCEPT !.desired = @ \/ desired, !.unknown = TRUE, !.unsubUnknown = FALSE]
UnsubscribeUnknown ==
  [Record EXCEPT !.unknown = TRUE, !.unsubUnknown = TRUE, !.cur = FALSE]

(* The interest becomes i; the flight's snapshot is out of date.           *)
Touch(i) == interest' = i /\ cln' = [cln EXCEPT !.same = FALSE]

(* The browser document gains or loses its desire for the thread.          *)
Desire ==
  /\ OnLoop /\ interest # NoInterest /\ interest.ever
  /\ \E d \in BOOLEAN : d # interest.desired /\ Touch([interest EXCEPT !.desired = d])
  /\ UNCHANGED <<connVars, loop, lease, sub, resumeVars, unsubVars, start, bound,
                 att, fei, loose>>

(* close_in_browser: a newer close version outlives the record.            *)
CloseInBrowser ==
  /\ OnLoop /\ interest # NoInterest /\ interest.open
  /\ Touch([interest EXCEPT !.open = FALSE, !.desired = FALSE])
  /\ att' = [o \in Open |-> [att[o] EXCEPT !.closed = att[o].pc # "idle"]]
  /\ UNCHANGED <<connVars, loop, lease, sub, resumeVars, unsubVars, start, bound,
                 fei, loose>>

(* A thread-scoped notification refreshes a managed subscription; it is    *)
(* handled before the settlement of any reply sent after it.               *)
Notification ==
  /\ OnLoop /\ ~lost /\ sub /\ interest # NoInterest /\ interest.ever
  /\ Touch([interest EXCEPT !.cur = TRUE])
  /\ UNCHANGED <<connVars, loop, lease, sub, resumeVars, unsubVars, start, bound,
                 att, fei, loose>>

-----------------------------------------------------------------------------
(* The receipt tables, each update under _receipt_lock.                    *)

(* claim_resume_thread_page.                                               *)
ClaimResume(t) ==
  /\ rclaim = Nobody /\ uclaim = Nobody
  /\ rclaim' = t /\ acquiring' = acquiring \cup {t}
  /\ UNCHANGED <<invalid, pending, executing>>

ClaimCurrent(t) == rclaim = t /\ t \in acquiring /\ t \notin invalid

(* _discard_resume_claim.                                                  *)
DiscardClaim(t) ==
  /\ acquiring' = acquiring \ {t} /\ invalid' = invalid \ {t}
  /\ executing' = executing \ {t}
  /\ rclaim' = IF rclaim = t THEN Nobody ELSE rclaim
  /\ UNCHANGED pending

(* The second half of acquire_claimed_resume_thread_page: the claim becomes*)
(* a pending receipt unless it was revoked while the lease was acquired.   *)
RegisterReceipt(t) ==
  /\ acquiring' = acquiring \ {t}
  /\ pending' = IF rclaim = t /\ t \notin invalid THEN pending \cup {t} ELSE pending
  /\ UNCHANGED <<rclaim, invalid, executing>>

(* _discard_pending_resume, and the consumption in _consume_pending_resume.*)
RetireReceipt(t) ==
  IF t \in pending
  THEN /\ pending' = pending \ {t} /\ executing' = executing \ {t}
       /\ rclaim' = IF rclaim = t THEN Nobody ELSE rclaim
       /\ UNCHANGED <<acquiring, invalid>>
  ELSE UNCHANGED resumeVars

ReceiptIsCurrent(t) == t \in pending /\ rclaim = t

(* MUTANT of ClaimUnsubscribe: the other tables are not consulted.         *)
ClaimsUnfenced(t) ==
  /\ uclaim = Nobody /\ uclaim' = t
  /\ UNCHANGED <<uinvalid, uexecuting>>

(* prepare_unsubscribe_thread.                                             *)
ClaimUnsubscribe(t) ==
  /\ rclaim = Nobody /\ uclaim = Nobody /\ start = 0
  /\ uclaim' = t
  /\ UNCHANGED <<uinvalid, uexecuting>>

(* MUTANT of RetireUnsubscribe: the slot of the thread is not given back.  *)
KeepsSlot(t) ==
  /\ uexecuting' = uexecuting \ {t} /\ uinvalid' = uinvalid \ {t}
  /\ UNCHANGED uclaim

(* _discard_pending_unsubscribe.                                           *)
RetireUnsubscribe(t) ==
  /\ uexecuting' = uexecuting \ {t} /\ uinvalid' = uinvalid \ {t}
  /\ uclaim' = IF uclaim = t THEN Nobody ELSE uclaim

UnsubscribePending(t) == uclaim = t /\ t \notin uinvalid

(* invalidate_connection and confirm_backend_reset: receipts are revoked,  *)
(* but a claim still acquiring and an unsubscribe slot stay as barriers.   *)
InvalidateReceipts ==
  /\ invalid' = invalid \cup acquiring
  /\ rclaim' = IF rclaim \in acquiring THEN rclaim ELSE Nobody
  /\ pending' = {} /\ executing' = {}
  /\ uinvalid' = uinvalid \cup ({uclaim} \ {Nobody})
  /\ UNCHANGED <<acquiring, uclaim, uexecuting>>

-----------------------------------------------------------------------------
(* The connection and the ledger.                                          *)

Disconnect ==
  /\ ~lost /\ gen < MaxGen
  /\ gen' = gen + 1 /\ lost' = TRUE /\ sub' = FALSE
  /\ UNCHANGED <<loop, lease, resumeVars, unsubVars, start, surfaceVars, att, fei, cln,
                 loose>>

(* handle_disconnect_impl: the receipts are revoked, the Web epoch moves   *)
(* on and Feishu bindings detach.                                          *)
HandleDisconnect ==
  /\ OnLoop /\ lost
  /\ lost' = FALSE
  /\ InvalidateReceipts
  /\ IF interest = NoInterest
     THEN UNCHANGED <<interest, cln>>
     ELSE Touch([interest EXCEPT !.cur = FALSE])
  /\ bound' = FALSE
  /\ UNCHANGED <<gen, loop, lease, sub, start, att, fei, loose>>

(* replace_owned_backend, on the loop: the backend is stopped, the Web     *)
(* interest is cleared, the ledger is purged and the receipts are revoked. *)
BackendReset ==
  /\ OnLoop /\ gen < MaxGen
  /\ gen' = gen + 1 /\ lost' = FALSE /\ sub' = FALSE /\ lease' = FALSE
  /\ InvalidateReceipts
  /\ interest' = NoInterest /\ bound' = FALSE
  /\ cln' = [cln EXCEPT !.same = FALSE, !.exact = FALSE]
  /\ att' = IF interest # NoInterest /\ interest.open
            THEN [o \in Open |-> [att[o] EXCEPT !.closed = att[o].pc # "idle"]]
            ELSE att
  /\ UNCHANGED <<loop, start, fei, loose>>

(* ensure_service_thread_runtime_lease rewrites the holder's updated_at.   *)
EnsureLease == lease' = TRUE
(* release_service_thread_runtime_lease is by thread id.                   *)
ReleaseLease == lease' = FALSE

-----------------------------------------------------------------------------
(* A Web open that needs a resume.                                         *)

Step(o, pc) == att' = [att EXCEPT ![o].pc = pc]

(* prepare_read_thread_effect, on the loop.                                *)
OpenClaim(o) ==
  /\ att[o].pc = "idle" /\ OnLoop /\ ~lost /\ ~SubscriptionCurrent
  /\ ClaimResume(o)
  /\ att' = [att EXCEPT ![o] = [IdleAtt EXCEPT !.pc = "claimed", !.gen = gen]]
  /\ UNCHANGED <<connVars, loop, lease, sub, unsubVars, start, surfaceVars, fei, cln,
                 loose>>

(* The writer admission was refused: abandon_resume_thread_page_claim.     *)
OpenAbandonClaim(o) ==
  /\ att[o].pc = "claimed"
  /\ IF rclaim = o /\ o \in acquiring THEN DiscardClaim(o) ELSE UNCHANGED resumeVars
  /\ Step(o, "idle")
  /\ UNCHANGED <<connVars, loop, lease, sub, unsubVars, start, surfaceVars, fei, cln,
                 loose>>

(* acquire_claimed_resume_thread_page: the claim is checked, then the lease*)
(* is acquired, then the receipt is registered.                            *)
OpenCheck(o) ==
  /\ att[o].pc = "claimed"
  /\ IF ClaimCurrent(o)
     THEN Step(o, "checked") /\ UNCHANGED resumeVars
     ELSE Step(o, "idle") /\ DiscardClaim(o)
  /\ UNCHANGED <<connVars, loop, lease, sub, unsubVars, start, surfaceVars, fei, cln,
                 loose>>

OpenAcquire(o) ==
  /\ att[o].pc = "checked"
  /\ EnsureLease
  /\ att' = [att EXCEPT ![o].pc = "leased", ![o].new = ~lease]
  /\ cln' = [cln EXCEPT !.exact = FALSE]
  /\ UNCHANGED <<connVars, loop, sub, resumeVars, unsubVars, start, surfaceVars, fei, loose>>

(* Another instance owns the thread, or the ledger is unavailable.         *)
OpenAcquireFails(o) ==
  /\ att[o].pc = "checked"
  /\ DiscardClaim(o) /\ Step(o, "idle")
  /\ UNCHANGED <<connVars, loop, lease, sub, unsubVars, start, surfaceVars, fei, cln,
                 loose>>

OpenRegister(o) ==
  /\ att[o].pc = "leased"
  /\ RegisterReceipt(o)
  /\ Step(o, IF o \in pending' THEN "pending" ELSE "undo")
  /\ UNCHANGED <<connVars, loop, lease, sub, unsubVars, start, surfaceVars, fei, cln,
                 loose>>

(* The claim was revoked meanwhile: the lease is given back, and only then *)
(* is the claim discarded.                                                 *)
OpenUndo(o) ==
  /\ att[o].pc = "undo"
  /\ IF att[o].new THEN ReleaseLease /\ cln' = [cln EXCEPT !.exact = FALSE]
                   ELSE UNCHANGED <<lease, cln>>
  /\ loose' = (loose \/ (lease # lease' /\ rclaim # o))
  /\ Step(o, "undone")
  /\ UNCHANGED <<connVars, loop, sub, resumeVars, unsubVars, start, surfaceVars, fei>>

OpenUndone(o) ==
  /\ att[o].pc = "undone"
  /\ DiscardClaim(o) /\ Step(o, "idle")
  /\ UNCHANGED <<connVars, loop, lease, sub, unsubVars, start, surfaceVars, fei, cln,
                 loose>>

(* _complete_read_thread_resume, on the loop, pinned to the generation.    *)
OpenComplete(o) ==
  /\ att[o].pc = "pending" /\ OnLoop
  /\ GenLive(att[o].gen) /\ ~att[o].closed /\ o \in pending
  /\ Step(o, "ready")
  /\ UNCHANGED <<connVars, loop, lease, sub, resumeVars, unsubVars, start, surfaceVars,
                 fei, cln, loose>>

(* The document, the observation, the close version or the generation is   *)
(* stale: abandon_acquired_resume_thread_page, on the worker.  It checks   *)
(* that the receipt is current, releases by thread id, then retires it.    *)
OpenAbandon(o) ==
  /\ att[o].pc = "pending"
  /\ Step(o, IF ReceiptIsCurrent(o) THEN "drop" ELSE "idle")
  /\ UNCHANGED <<connVars, loop, lease, sub, resumeVars, unsubVars, start, surfaceVars,
                 fei, cln, loose>>

(* The release may fail; it is logged and the receipt retired all the same.*)
OpenDrop(o) ==
  /\ att[o].pc = "drop"
  /\ IF att[o].new
     THEN /\ lease' \in {lease, FALSE}
          /\ cln' = [cln EXCEPT !.exact = @ /\ lease' = lease]
          /\ loose' = (loose \/ (lease # lease' /\ ~ReceiptIsCurrent(o)))
     ELSE UNCHANGED <<lease, cln, loose>>
  /\ Step(o, "dropped")
  /\ UNCHANGED <<connVars, loop, sub, resumeVars, unsubVars, start, surfaceVars, fei>>

OpenDropped(o) ==
  /\ att[o].pc = "dropped"
  /\ RetireReceipt(o) /\ Step(o, "idle")
  /\ UNCHANGED <<connVars, loop, lease, sub, unsubVars, start, surfaceVars, fei, cln,
                 loose>>

(* execute_prepared_resume_thread_page: the receipt is claimed for sending;*)
(* a request pinned to a lost connection is refused before it is sent.     *)
OpenSend(o) ==
  /\ att[o].pc = "ready"
  /\ IF o \in pending \ executing
     THEN /\ executing' = executing \cup {o}
          /\ att' = [att EXCEPT ![o].pc = IF att[o].gen = gen THEN "sending" ELSE "replied",
                                ![o].res = IF att[o].gen = gen THEN "none" ELSE "noeffect"]
     ELSE /\ att' = [att EXCEPT ![o].pc = "replied", ![o].res = "unknown"]
          /\ UNCHANGED executing
  /\ UNCHANGED <<connVars, loop, lease, sub, rclaim, acquiring, invalid, pending, unsubVars,
                 start, surfaceVars, fei, cln, loose>>

(* thread/resume answers, or its outcome is lost with or without effect.   *)
OpenReply(o) ==
  /\ att[o].pc = "sending"
  /\ \E r \in {"ok", "unknown"} :
       /\ att' = [att EXCEPT ![o].pc = "replied", ![o].res = r]
       /\ \/ r = "ok" /\ att[o].gen = gen /\ sub' = TRUE
          \/ r = "unknown" /\ UNCHANGED sub
          \/ r = "unknown" /\ att[o].gen = gen /\ sub' = TRUE
  /\ UNCHANGED <<connVars, loop, lease, resumeVars, unsubVars, start, surfaceVars, fei, cln,
                 loose>>

(* settle_read_thread, on the loop: a stale receipt settles nothing but an *)
(* unknown interest; a refused send gives a new lease back; a success is   *)
(* consumed and its interest committed if the generation still lives.      *)
OpenCommit(o) ==
  /\ att[o].pc = "replied" /\ att[o].res = "ok" /\ o \in pending /\ OnLoop
  /\ RetireReceipt(o)
  /\ IF GenLive(att[o].gen)
     THEN \E current \in BOOLEAN :
            Touch([Confirmed(current /\ ~att[o].closed)
                     EXCEPT !.open = @ \/ ~att[o].closed])
     ELSE UNCHANGED <<interest, cln>>
  /\ att' = [att EXCEPT ![o] = IdleAtt]
  /\ UNCHANGED <<connVars, loop, lease, sub, unsubVars, start, bound, fei, loose>>

(* The response-side settings could not be recorded, the outcome is        *)
(* unknown, or the receipt is stale: nothing is released.                  *)
OpenUncertain(o) ==
  /\ att[o].pc = "replied" /\ OnLoop
  /\ att[o].res # "noeffect" \/ o \notin pending
  /\ RetireReceipt(o)
  /\ IF GenLive(att[o].gen)
     THEN \E current \in BOOLEAN : Touch(Unknown(current /\ ~att[o].closed))
     ELSE UNCHANGED <<interest, cln>>
  /\ att' = [att EXCEPT ![o] = IdleAtt]
  /\ UNCHANGED <<connVars, loop, lease, sub, unsubVars, start, bound, fei, loose>>

OpenRefused(o) ==
  /\ att[o].pc = "replied" /\ att[o].res = "noeffect" /\ o \in pending /\ OnLoop
  /\ IF ReceiptIsCurrent(o) /\ att[o].new
     THEN /\ lease' \in {lease, FALSE}
          /\ cln' = [cln EXCEPT !.exact = @ /\ lease' = lease]
     ELSE UNCHANGED <<lease, cln>>
  /\ RetireReceipt(o)
  /\ att' = [att EXCEPT ![o] = IdleAtt]
  /\ UNCHANGED <<connVars, loop, sub, unsubVars, start, surfaceVars, fei, loose>>

-----------------------------------------------------------------------------
(* A Feishu resume, begin_resume_thread with its binding commit: the loop  *)
(* is held from the claim on.                                              *)

FeishuClaim ==
  /\ OnLoop /\ ~lost
  /\ ClaimResume(Feishu)
  /\ loop' = "claimed"
  /\ UNCHANGED <<connVars, lease, sub, unsubVars, start, surfaceVars, att, fei, cln, loose>>

FeishuAcquire ==
  /\ loop = "claimed"
  /\ \/ /\ EnsureLease /\ RegisterReceipt(Feishu)
        /\ fei' = [fei EXCEPT !.new = ~lease]
        /\ loop' = "pending" /\ cln' = [cln EXCEPT !.exact = FALSE]
     \/ /\ DiscardClaim(Feishu) /\ loop' = "free"
        /\ UNCHANGED <<lease, fei, cln>>
  /\ UNCHANGED <<connVars, sub, unsubVars, start, surfaceVars, att, loose>>

(* The settings intent or the exact pre-send guard fails, or the request   *)
(* is refused before it is sent: _release_new_resume_lease.                *)
FeishuRefused ==
  /\ loop = "pending"
  /\ IF ReceiptIsCurrent(Feishu) /\ fei.new
     THEN lease' \in {lease, FALSE} /\ cln' = [cln EXCEPT !.exact = @ /\ lease' = lease]
     ELSE UNCHANGED <<lease, cln>>
  /\ RetireReceipt(Feishu)
  /\ loop' = "free"
  /\ UNCHANGED <<connVars, sub, unsubVars, start, surfaceVars, att, fei, loose>>

FeishuSend ==
  /\ loop = "pending" /\ ~lost
  /\ loop' = "sending" /\ fei' = [fei EXCEPT !.gen = gen]
  /\ UNCHANGED <<connVars, lease, sub, resumeVars, unsubVars, start, surfaceVars, att, cln,
                 loose>>

(* Success commits the binding; a failed binding write is compensated when *)
(* the lease is new and retained otherwise; an unknown outcome, or settings*)
(* that could not be recorded, retains.                                    *)
FeishuReply ==
  /\ loop = "sending"
  /\ RetireReceipt(Feishu)
  /\ \/ fei.gen = gen /\ sub' = TRUE /\ bound' = TRUE /\ loop' = "free"
     \/ fei.gen = gen /\ sub' = TRUE /\ UNCHANGED bound
        /\ loop' = (IF fei.new THEN "compensate" ELSE "free")
     \/ loop' = "free" /\ UNCHANGED bound
        /\ sub' \in {sub, IF fei.gen = gen THEN TRUE ELSE sub}
  /\ UNCHANGED <<connVars, lease, unsubVars, start, interest, att, fei, cln, loose>>

(* _settle_failed_local_commit, COMPENSATE: unsubscribe, then release.  A  *)
(* failed step leaves the rest.                                            *)
FeishuCompensate ==
  /\ loop = "compensate"
  /\ \/ sub' = FALSE /\ loop' = "unsubscribed"
     \/ sub' \in {sub, FALSE} /\ loop' = "free"
  /\ UNCHANGED <<connVars, lease, resumeVars, unsubVars, start, surfaceVars, att, fei, cln,
                 loose>>

FeishuCompensated ==
  /\ loop = "unsubscribed"
  /\ lease' \in {lease, FALSE} /\ cln' = [cln EXCEPT !.exact = @ /\ lease' = lease]
  /\ loop' = "free"
  /\ UNCHANGED <<connVars, sub, resumeVars, unsubVars, start, surfaceVars, att, fei, loose>>

(* MUTANT of FeishuDeactivate: Web interest does not keep the runtime.     *)
DeactivatesUnderWeb ==
  /\ OnLoop /\ bound
  /\ bound' = FALSE
  /\ IF rclaim = Nobody /\ uclaim = Nobody /\ start = 0
     THEN ClaimUnsubscribe(Feishu) /\ loop' = "unsubClaimed"
     ELSE UNCHANGED <<unsubVars, loop>>
  /\ UNCHANGED <<connVars, lease, sub, resumeVars, start, interest, att, fei, cln, loose>>

(* A binding that leaves the thread as its last Feishu subscriber:         *)
(* finalize_deactivated_feishu_binding_thread_runtime.                     *)
FeishuDeactivate ==
  /\ OnLoop /\ bound
  /\ bound' = FALSE
  /\ IF interest = NoInterest /\ rclaim = Nobody /\ uclaim = Nobody /\ start = 0
     THEN ClaimUnsubscribe(Feishu) /\ loop' = "unsubClaimed"
     ELSE UNCHANGED <<unsubVars, loop>>
  /\ UNCHANGED <<connVars, lease, sub, resumeVars, start, interest, att, fei, cln, loose>>

FeishuUnsubSend ==
  /\ loop = "unsubClaimed"
  /\ uexecuting' = uexecuting \cup {Feishu}
  /\ loop' = "unsubSending" /\ fei' = [fei EXCEPT !.gen = gen]
  /\ UNCHANGED <<connVars, lease, sub, resumeVars, uclaim, uinvalid, start, surfaceVars, att,
                 cln, loose>>

(* Only a known success releases the lease.                                *)
FeishuUnsubReply ==
  /\ loop = "unsubSending"
  /\ \/ fei.gen = gen /\ sub' = FALSE /\ lease' = FALSE
        /\ cln' = [cln EXCEPT !.exact = FALSE]
     \/ sub' \in {sub, FALSE} /\ UNCHANGED <<lease, cln>>
  /\ RetireUnsubscribe(Feishu)
  /\ loop' = "free"
  /\ UNCHANGED <<connVars, resumeVars, start, surfaceVars, att, fei, loose>>

-----------------------------------------------------------------------------
(* MUTANT of StartTurn: the generation of the reconnect it would force.    *)
StartsOnNext ==
  /\ start = 0 /\ uclaim = Nobody /\ ~lost
  /\ start' = gen + 1
  /\ UNCHANGED <<connVars, loop, lease, sub, resumeVars, unsubVars, surfaceVars, att, fei,
                 cln, loose>>

(* start_turn: it is fenced only against unsubscribe.  start is the        *)
(* generation it was sent on, 0 when none is in transport.                 *)

StartTurn ==
  /\ start = 0 /\ uclaim = Nobody /\ ~lost
  /\ start' = gen
  /\ UNCHANGED <<connVars, loop, lease, sub, resumeVars, unsubVars, surfaceVars, att, fei,
                 cln, loose>>

StartReturns ==
  /\ start # 0
  /\ start' = 0
  /\ UNCHANGED <<connVars, loop, lease, sub, resumeVars, unsubVars, surfaceVars, att, fei,
                 cln, loose>>

-----------------------------------------------------------------------------
(* Web runtime cleanup, WebRuntimeController.run_runtime_cleanup.          *)

NoWebDesire == interest # NoInterest /\ ~interest.open /\ ~interest.desired

(* prepare_runtime_cleanup: another surface's subscription ends the Web    *)
(* record without any authority to unsubscribe.                            *)
CleanupPrepare ==
  /\ cln.pc = "idle" /\ OnLoop /\ ~lost /\ NoWebDesire
  /\ IF bound
     THEN interest' = NoInterest /\ UNCHANGED cln
     ELSE /\ interest.ever \/ interest.unknown
          /\ cln' = [IdleCln EXCEPT !.pc = "probing", !.gen = gen, !.same = TRUE,
                                    !.cur = SubscriptionCurrent]
          /\ UNCHANGED interest
  /\ UNCHANGED <<connVars, loop, lease, sub, resumeVars, unsubVars, start, bound, att, fei,
                 loose>>

(* execute_runtime_cleanup_probe, pinned reads: blocked, active or failed  *)
(* ends the flight; an uncertain interest is only cleaned when the thread  *)
(* is not loaded, so not subscribed either; the service holder is captured.*)
CleanupProbe ==
  /\ cln.pc = "probing"
  /\ \/ cln' = IdleCln
     \/ /\ cln.gen = gen
        /\ \E unsub \in BOOLEAN :
             /\ interest # NoInterest /\ interest.unknown =>
                  IF interest.unsubUnknown THEN ~unsub /\ ~sub ELSE unsub \/ ~sub
             /\ interest # NoInterest /\ ~interest.unknown => unsub = cln.cur
             /\ cln' = [cln EXCEPT !.pc = "probed", !.unsub = unsub,
                                   !.held = lease, !.exact = lease]
  /\ UNCHANGED <<connVars, loop, lease, sub, resumeVars, unsubVars, start, surfaceVars, att,
                 fei, loose>>

(* _claim_runtime_cleanup.                                                 *)
CleanupClaim ==
  /\ cln.pc = "probed" /\ OnLoop
  /\ \/ /\ GenLive(cln.gen) /\ cln.same /\ NoWebDesire /\ ~bound
        /\ ClaimUnsubscribe(Cleanup)
        /\ interest' = [interest EXCEPT !.cur = FALSE]
        /\ cln' = [cln EXCEPT !.pc = IF cln.unsub THEN "claimed" ELSE "replied",
                              !.res = IF cln.unsub THEN "none" ELSE "ok"]
     \/ /\ ~(/\ GenLive(cln.gen) /\ cln.same /\ NoWebDesire /\ ~bound
             /\ rclaim = Nobody /\ uclaim = Nobody /\ start = 0)
        /\ cln' = IdleCln /\ UNCHANGED <<unsubVars, interest>>
  /\ UNCHANGED <<connVars, loop, lease, sub, resumeVars, start, bound, att, fei, loose>>

(* _runtime_cleanup_facts_match against the claimed snapshot.              *)
CleanupFactsMatch == cln.same /\ NoWebDesire /\ ~bound

(* confirm_runtime_cleanup_unsubscribe_send.                               *)
CleanupConfirm ==
  /\ cln.pc = "claimed" /\ OnLoop
  /\ IF GenLive(cln.gen) /\ CleanupFactsMatch
     THEN cln' = [cln EXCEPT !.pc = "confirmed"] /\ UNCHANGED interest
     ELSE /\ interest' = IF GenLive(cln.gen) /\ cln.cur /\ cln.same
                         THEN Confirmed(FALSE) ELSE interest
          /\ cln' = [cln EXCEPT !.pc = "abandon"]
  /\ UNCHANGED <<connVars, loop, lease, sub, resumeVars, unsubVars, start, bound, att, fei,
                 loose>>

(* abandon_prepared_unsubscribe_thread, on the worker.                     *)
CleanupAbandon ==
  /\ cln.pc = "abandon"
  /\ RetireUnsubscribe(Cleanup) /\ cln' = IdleCln
  /\ UNCHANGED <<connVars, loop, lease, sub, resumeVars, start, surfaceVars, att, fei, loose>>

(* execute_prepared_unsubscribe_thread.                                    *)
CleanupSend ==
  /\ cln.pc = "confirmed"
  /\ IF UnsubscribePending(Cleanup)
     THEN /\ uexecuting' = uexecuting \cup {Cleanup}
          /\ cln' = [cln EXCEPT !.pc = IF cln.gen = gen THEN "sending" ELSE "replied",
                                !.res = IF cln.gen = gen THEN "none" ELSE "noeffect"]
     ELSE /\ cln' = [cln EXCEPT !.pc = "replied", !.res = "unknown"]
          /\ UNCHANGED uexecuting
  /\ UNCHANGED <<connVars, loop, lease, sub, resumeVars, uclaim, uinvalid, start,
                 surfaceVars, att, fei, loose>>

CleanupReply ==
  /\ cln.pc = "sending"
  /\ \/ /\ cln.gen = gen /\ sub' = FALSE
        /\ cln' = [cln EXCEPT !.pc = "replied", !.res = "ok"]
     \/ /\ sub' \in {sub, IF cln.gen = gen THEN FALSE ELSE sub}
        /\ cln' = [cln EXCEPT !.pc = "replied", !.res = "unknown"]
  /\ UNCHANGED <<connVars, loop, lease, resumeVars, unsubVars, start, surfaceVars, att, fei,
                 loose>>

(* settle_runtime_cleanup_unsubscribe: success keeps the slot; anything    *)
(* else retires it, and a refused send restores the subscription fact.     *)
CleanupSettle ==
  /\ cln.pc = "replied" /\ OnLoop
  /\ LET valid == /\ UnsubscribePending(Cleanup)
                  /\ cln.unsub <=> Cleanup \in uexecuting IN
     IF ~GenLive(cln.gen)
     THEN cln' = [cln EXCEPT !.pc = "abandon"] /\ UNCHANGED <<interest, unsubVars>>
     ELSE IF cln.res = "ok" /\ valid
     THEN cln' = [cln EXCEPT !.pc = "settled"] /\ UNCHANGED <<interest, unsubVars>>
     ELSE /\ RetireUnsubscribe(Cleanup)
          /\ interest' = IF ~cln.same \/ ~valid THEN interest
                         ELSE IF cln.res = "unknown" THEN UnsubscribeUnknown
                         ELSE IF cln.cur THEN Confirmed(FALSE) ELSE interest
          /\ cln' = IdleCln
  /\ UNCHANGED <<connVars, loop, lease, sub, resumeVars, start, bound, att, fei, loose>>

(* confirm_runtime_cleanup_lease_release.                                  *)
CleanupAllow ==
  /\ cln.pc = "settled" /\ OnLoop
  /\ cln' = [cln EXCEPT !.pc = IF ~GenLive(cln.gen) THEN "abandon"
                               ELSE IF CleanupFactsMatch THEN "allowed" ELSE "final"]
  /\ UNCHANGED <<connVars, loop, lease, sub, resumeVars, unsubVars, start, surfaceVars, att,
                 fei, loose>>

(* release_prepared_service_thread_runtime_lease: compare and release.     *)
CleanupRelease ==
  /\ cln.pc = "allowed"
  /\ \/ ~cln.held /\ cln' = [cln EXCEPT !.pc = "final"] /\ UNCHANGED lease
     \/ /\ cln.held /\ cln.exact
        /\ lease' = FALSE /\ cln' = [cln EXCEPT !.pc = "final", !.exact = FALSE]
     \/ cln.held /\ cln' = [cln EXCEPT !.pc = "failed"] /\ UNCHANGED lease
  /\ loose' = (loose \/ (lease # lease' /\ sub /\ ~cln.unsub))
  /\ UNCHANGED <<connVars, loop, sub, resumeVars, unsubVars, start, surfaceVars, att, fei>>

(* settle_runtime_cleanup_lease_release_failure.                           *)
CleanupFailed ==
  /\ cln.pc = "failed" /\ OnLoop
  /\ IF ~GenLive(cln.gen)
     THEN cln' = [cln EXCEPT !.pc = "abandon"] /\ UNCHANGED <<interest, unsubVars>>
     ELSE /\ interest' = IF UnsubscribePending(Cleanup) /\ cln.same
                         THEN UnsubscribeUnknown ELSE interest
          /\ RetireUnsubscribe(Cleanup) /\ cln' = IdleCln
  /\ UNCHANGED <<connVars, loop, lease, sub, resumeVars, start, bound, att, fei, loose>>

(* finalize_runtime_cleanup_release.                                       *)
CleanupFinalize ==
  /\ cln.pc = "final" /\ OnLoop
  /\ IF ~GenLive(cln.gen)
     THEN cln' = [cln EXCEPT !.pc = "abandon"] /\ UNCHANGED <<interest, unsubVars>>
     ELSE /\ interest' = IF UnsubscribePending(Cleanup) /\ CleanupFactsMatch
                         THEN NoInterest ELSE interest
          /\ RetireUnsubscribe(Cleanup) /\ cln' = IdleCln
  /\ UNCHANGED <<connVars, loop, lease, sub, resumeVars, start, bound, att, fei, loose>>

-----------------------------------------------------------------------------
OpenNext(o) ==
  \/ OpenClaim(o) \/ OpenAbandonClaim(o) \/ OpenCheck(o)
  \/ OpenAcquire(o) \/ OpenAcquireFails(o) \/ OpenRegister(o) \/ OpenUndo(o)
  \/ OpenUndone(o) \/ OpenComplete(o) \/ OpenAbandon(o) \/ OpenDrop(o)
  \/ OpenDropped(o) \/ OpenSend(o) \/ OpenReply(o) \/ OpenCommit(o)
  \/ OpenUncertain(o) \/ OpenRefused(o)

FeishuNext ==
  \/ FeishuClaim \/ FeishuAcquire \/ FeishuRefused \/ FeishuSend \/ FeishuReply
  \/ FeishuCompensate \/ FeishuCompensated
  \/ FeishuDeactivate \/ FeishuUnsubSend \/ FeishuUnsubReply

CleanupNext ==
  \/ CleanupPrepare \/ CleanupProbe \/ CleanupClaim \/ CleanupConfirm
  \/ CleanupAbandon \/ CleanupSend \/ CleanupReply \/ CleanupSettle
  \/ CleanupAllow \/ CleanupRelease \/ CleanupFailed \/ CleanupFinalize

Next ==
  \/ \E o \in Open : OpenNext(o)
  \/ FeishuNext \/ CleanupNext
  \/ StartTurn \/ StartReturns
  \/ Desire \/ CloseInBrowser \/ Notification
  \/ Disconnect \/ HandleDisconnect \/ BackendReset

Spec == Init /\ [][Next]_vars
-----------------------------------------------------------------------------
TypeOK ==
  /\ gen \in Gen /\ lost \in BOOLEAN /\ loop \in FeiPc /\ lease \in BOOLEAN
  /\ sub \in BOOLEAN
  /\ rclaim \in Token \cup {Nobody}
  /\ acquiring \subseteq Token /\ invalid \subseteq Token
  /\ pending \subseteq Token /\ executing \subseteq Token
  /\ uclaim \in {Feishu, Cleanup, Nobody}
  /\ uinvalid \subseteq {Feishu, Cleanup} /\ uexecuting \subseteq {Feishu, Cleanup}
  /\ start \in 0..MaxGen
  /\ interest \in Interest \cup {NoInterest} /\ bound \in BOOLEAN
  /\ att \in [Open -> Attempt] /\ cln \in Flight
  /\ fei \in [new : BOOLEAN, gen : Gen] /\ loose \in BOOLEAN

ResumeInTransit(g) ==
  \/ \E o \in Open : att[o].pc = "sending" /\ att[o].gen = g
  \/ loop = "sending" /\ fei.gen = g
UnsubscribeInTransit(g) ==
  \/ cln.pc = "sending" /\ cln.gen = g
  \/ loop = "unsubSending" /\ fei.gen = g

(* On one connection no thread/unsubscribe that holds a claim is in        *)
(* transport together with a thread/resume or a turn/start.                *)
NoCrossing ==
  UnsubscribeInTransit(gen) => ~ResumeInTransit(gen) /\ start # gen

(* Everything a surface committed, and every live subscription of the      *)
(* connection, is covered by the service's lease, unless the lease went on *)
(* stale grounds: by an attempt whose receipt was revoked after its check, *)
(* or by a cleanup whose record of an absent subscription was wrong.       *)
Covered == SubscriptionCurrent \/ bound \/ sub => lease
LeaseCovers == lost \/ loose \/ Covered

(* The same without the exception.                                         *)
AlwaysCovered == lost \/ Covered

(* An old attempt never releases the lease of its successor: a current     *)
(* receipt has the lease until its own attempt gives it back.              *)
SuccessorKeepsLease ==
  \A t \in Token :
    ReceiptIsCurrent(t) /\ (t \in Open => att[t].pc \notin {"drop", "dropped"}) => lease

(* A claim or slot always has a live owner that will retire it.            *)
ClaimsHaveOwners ==
  /\ \A o \in Open : rclaim = o => att[o].pc # "idle"
  /\ rclaim = Feishu => loop \in {"claimed", "pending", "sending"}
  /\ uclaim = Cleanup => cln.pc \notin {"idle", "probing", "probed"}
  /\ uclaim = Feishu => loop \in {"unsubClaimed", "unsubSending"}
  /\ loop = "free" => Feishu \notin acquiring \cup pending \cup executing
  /\ invalid \subseteq acquiring \cup {o \in Open : att[o].pc \in {"undo", "undone"}}

(* Outside a cleanup, what Web records as a current subscription is one:   *)
(* a thread-scoped notification went to a subscribed connection.           *)
SubscriptionFactHolds ==
  ~lost /\ cln.pc = "idle" /\ SubscriptionCurrent => sub

\* Resume, unsubscribe and their leases do not cross on one thread.
ResumeInvariant ==
  /\ TypeOK
  /\ NoCrossing
  /\ LeaseCovers
  /\ ClaimsHaveOwners
=============================================================================
