------------------------ MODULE WebPromptSubmission ------------------------
(***************************************************************************)
(* Prompts that a browser submits to an existing thread:                   *)
(* bot/web_runtime/prompt_submission.py, with the gateway's cancellable    *)
(* two-stage transaction (gateway_external_transaction.py) and the         *)
(* submission claims of bot/stores/attachment_store.py.                    *)
(*                                                                         *)
(* A POST carries a mutation id and perhaps one attached file.  Prepare,   *)
(* effect claim, settlement, abandonment and reconciliation run on the     *)
(* RuntimeLoop, one action each; the worker does the rest off it.  A POST  *)
(* may repeat the mutation id of another, the browser document may be      *)
(* replaced, the connection lost, the backend reset.  The registry keeps   *)
(* ResultLimit terminal receipts and forgets the oldest.                   *)
(***************************************************************************)
EXTENDS Naturals, Sequences, FiniteSets

CONSTANTS
  Post,            \* HTTP requests
  Mutation,        \* mutation ids
  NoPost,
  ResultLimit,     \* _PROMPT_RESULT_LIMIT
  ActiveLimit,     \* _PROMPT_ACTIVE_LIMIT
  MaxGen,          \* bound: connection generations
  MaxDoc           \* bound: browser documents

ASSUME ConstantsAssumption ==
  /\ ResultLimit \in Nat \ {0} /\ ActiveLimit \in Nat \ {0}
  /\ MaxGen \in Nat \ {0} /\ MaxDoc \in Nat \ {0}
  /\ NoPost \notin Post /\ Mutation # {}

VARIABLES
  gen, doc,        \* connection generation, document continuity generation
  active,          \* mutation -> the POST whose attempt is pending, or NoPost
  executing,       \* mutations whose pending attempt claimed its effect
  terminal,        \* terminal receipts, oldest first
  source,          \* mutation -> document of the retained receipt, or 0
  req,             \* each POST
  taken,           \* POSTs whose input the app-server took
  slots,           \* history: effect slots granted under the retained receipt
  file, pins, bytes  \* the attachment: its record, its claims, its cache file

registry == <<active, executing, terminal, source>>
attachment == <<file, pins, bytes>>
vars == <<gen, doc, registry, req, taken, slots, attachment>>

Outcome == {"succeeded", "known_no_effect", "outcome_unknown"}
Told == Outcome \cup {"none", "pending", "error"}
Receipt == [m : Mutation, status : Outcome, by : Post]
Pc == {"idle", "prepared", "abandoning", "started", "ready", "granted", "sending",
       "replied", "settling", "answered", "done"}
Request == [pc : Pc, m : Mutation, gen : 1..MaxGen, doc : 1..MaxDoc, fresh : BOOLEAN,
            withFile : BOOLEAN, wire : BOOLEAN, res : Outcome, told : Told]

Init ==
  /\ gen = 1 /\ doc = 1
  /\ active = [m \in Mutation |-> NoPost] /\ executing = {} /\ terminal = <<>>
  /\ source = [m \in Mutation |-> 0]
  /\ req = [p \in Post |-> [pc |-> "idle", m |-> CHOOSE m \in Mutation : TRUE, gen |-> 1,
                            doc |-> 1, fresh |-> FALSE, withFile |-> FALSE, wire |-> FALSE,
                            res |-> "known_no_effect", told |-> "none"]]
  /\ taken = {} /\ slots = [m \in Mutation |-> 0]
  /\ file = "pending" /\ pins = {} /\ bytes = TRUE

Transcript == {req[p].m : p \in taken}

(* The request is over; what it had captured matters no more.              *)
Finish(p, told) ==
  req' = [req EXCEPT ![p].pc = "done", ![p].told = told, ![p].gen = 1, ![p].doc = 1,
                     ![p].res = "known_no_effect"]

-----------------------------------------------------------------------------
(* The result registry.                                                    *)

HasTerminal(m) == \E i \in DOMAIN terminal : terminal[i].m = m
TerminalOf(m) == terminal[CHOOSE i \in DOMAIN terminal : terminal[i].m = m]

(* MUTANT of Known: a pending receipt is not consulted.                    *)
KnownTerminal(m) == HasTerminal(m)

Known(m) == active[m] # NoPost \/ HasTerminal(m)

(* get: the pending receipt first, then the terminal one.                  *)
StatusOf(m) ==
  IF active[m] # NoPost THEN "pending"
  ELSE IF HasTerminal(m) THEN TerminalOf(m).status ELSE "error"

(* The terminal receipts but the one of m.                                 *)
Without(m) ==
  IF ~HasTerminal(m) THEN terminal
  ELSE LET i == CHOOSE i \in DOMAIN terminal : terminal[i].m = m
       IN [k \in 1..(Len(terminal) - 1) |-> IF k < i THEN terminal[k] ELSE terminal[k + 1]]

(* MUTANT of Remember: the limit is off by one.                            *)
RemembersOneMore(r) ==
  LET kept == Append(Without(r.m), r)
      evicted == IF Len(kept) > ResultLimit + 1 THEN {kept[1].m} ELSE {} IN
  /\ terminal' = IF evicted # {} THEN Tail(kept) ELSE kept
  /\ source' = [m \in Mutation |-> IF m \in evicted THEN 0 ELSE source[m]]
  /\ slots' = [m \in Mutation |-> IF m \in evicted THEN 0 ELSE slots[m]]

(* _remember_terminal: the receipt moves to the young end; the oldest one  *)
(* beyond the limit is evicted together with its source.                   *)
Remember(r) ==
  LET kept == Append(Without(r.m), r)
      evicted == IF Len(kept) > ResultLimit THEN {kept[1].m} ELSE {} IN
  /\ terminal' = IF evicted # {} THEN Tail(kept) ELSE kept
  /\ source' = [m \in Mutation |-> IF m \in evicted THEN 0 ELSE source[m]]
  /\ slots' = [m \in Mutation |-> IF m \in evicted THEN 0 ELSE slots[m]]

Retire(m) ==
  /\ active' = [active EXCEPT ![m] = NoPost]
  /\ executing' = executing \ {m}

(* begin: a fresh attempt.                                                 *)
Begin(p, m) ==
  /\ active' = [active EXCEPT ![m] = p]
  /\ source' = [source EXCEPT ![m] = doc]
  /\ executing' = executing \ {m}
  /\ UNCHANGED terminal

OwnsAttempt(p) == req[p].fresh /\ active[req[p].m] = p

-----------------------------------------------------------------------------
(* prepare_prompt.  An exact retry borrows the receipt; the same id from   *)
(* another document, or one attempt too many, is refused.                  *)
Prepare(p, m, f) ==
  /\ req[p].pc = "idle"
  /\ IF Known(m)
     THEN source[m] = doc /\ UNCHANGED registry
     ELSE Cardinality({n \in Mutation : active[n] # NoPost}) < ActiveLimit /\ Begin(p, m)
  /\ req' = [req EXCEPT ![p].pc = "prepared", ![p].m = m, ![p].gen = gen, ![p].doc = doc,
                         ![p].withFile = f, ![p].fresh = ~Known(m)]
  /\ UNCHANGED <<gen, doc, taken, slots, attachment>>

PrepareRefused(p, m) ==
  /\ req[p].pc = "idle"
  /\ IF Known(m) THEN source[m] # doc
     ELSE Cardinality({n \in Mutation : active[n] # NoPost}) >= ActiveLimit
  /\ req' = [req EXCEPT ![p].pc = "done", ![p].m = m, ![p].told = "error"]
  /\ UNCHANGED <<gen, doc, registry, taken, slots, attachment>>

(* The worker claims the ingress receipt, or the cancelled handler does.   *)
Start(p) ==
  /\ req[p].pc = "prepared"
  /\ req' = [req EXCEPT ![p].pc = "started"]
  /\ UNCHANGED <<gen, doc, registry, taken, slots, attachment>>

CancelHandler(p) ==
  /\ req[p].pc = "prepared"
  /\ req' = [req EXCEPT ![p].pc = "abandoning"]
  /\ UNCHANGED <<gen, doc, registry, taken, slots, attachment>>

(* MUTANT of Abandon: only the ingress receipt is given back.              *)
AbandonsIngressOnly(p) ==
  /\ req[p].pc = "abandoning"
  /\ Finish(p, "error")
  /\ UNCHANGED <<gen, doc, registry, taken, slots, attachment>>

(* abandon: only an attempt whose effect was not claimed.                  *)
Abandon(p) ==
  /\ req[p].pc = "abandoning"
  /\ IF OwnsAttempt(p) /\ req[p].m \notin executing
     THEN /\ Retire(req[p].m)
          /\ Remember([m |-> req[p].m, status |-> "known_no_effect", by |-> p])
     ELSE UNCHANGED <<registry, slots>>
  /\ Finish(p, "error")
  /\ UNCHANGED <<gen, doc, taken, attachment>>

(* A duplicate only reads the receipt.                                     *)
ReadDuplicate(p) ==
  /\ req[p].pc = "started" /\ ~req[p].fresh
  /\ Finish(p, StatusOf(req[p].m))
  /\ UNCHANGED <<gen, doc, registry, taken, slots, attachment>>

-----------------------------------------------------------------------------
(* run_prepared_prompt on the worker.                                      *)

(* The scope, the thread's status, its goal or the input are refused.      *)
Refuse(p) ==
  /\ req[p].pc \in {"started", "ready"} /\ req[p].fresh
  /\ req' = [req EXCEPT ![p].pc = "replied", ![p].res = "known_no_effect"]
  /\ UNCHANGED <<gen, doc, registry, taken, slots, attachment>>

(* claim_pending_submission: the record is consumed and its bytes pinned.  *)
ClaimFile(p) ==
  /\ req[p].pc = "started" /\ req[p].fresh
  /\ req[p].withFile => file = "pending"
  /\ IF req[p].withFile
     THEN file' = "submitted" /\ pins' = pins \cup {p} /\ UNCHANGED bytes
     ELSE UNCHANGED attachment
  /\ req' = [req EXCEPT ![p].pc = "ready"]
  /\ UNCHANGED <<gen, doc, registry, taken, slots>>

(* _claim_prompt_effect, on the loop and pinned to the generation: a       *)
(* terminal receipt came first, the sole slot is granted, or the claim is  *)
(* refused because the document, the generation or the attempt is gone.    *)
ClaimEffect(p) ==
  LET m == req[p].m
      current == req[p].gen = gen /\ req[p].doc = doc IN
  /\ req[p].pc = "ready"
  /\ IF current /\ HasTerminal(m)
     THEN /\ req' = [req EXCEPT ![p].pc = "answered", ![p].res = TerminalOf(m).status]
          /\ UNCHANGED <<executing, slots>>
     ELSE IF current /\ OwnsAttempt(p) /\ m \notin executing
     THEN /\ executing' = executing \cup {m} /\ slots' = [slots EXCEPT ![m] = @ + 1]
          /\ req' = [req EXCEPT ![p].pc = "granted"]
     ELSE /\ req' = [req EXCEPT ![p].pc = "replied", ![p].res = "known_no_effect"]
          /\ UNCHANGED <<executing, slots>>
  /\ UNCHANGED <<gen, doc, active, terminal, source, taken, attachment>>

(* turn/start or turn/steer; pinned to a lost connection it is not sent.   *)
Send(p) ==
  /\ req[p].pc = "granted"
  /\ req' = IF req[p].gen = gen
            THEN [req EXCEPT ![p].pc = "sending", ![p].wire = TRUE]
            ELSE [req EXCEPT ![p].pc = "replied", ![p].res = "known_no_effect"]
  /\ UNCHANGED <<gen, doc, registry, taken, slots, attachment>>

(* The app-server takes the input, perhaps long after the client gave up.  *)
Take(p) ==
  /\ req[p].wire
  /\ taken' = taken \cup {p}
  /\ req' = [req EXCEPT ![p].wire = FALSE]
  /\ UNCHANGED <<gen, doc, registry, slots, attachment>>

(* MUTANT of ResultOf: a lost connection counts as a refusal.              *)
LossIsNoEffect(p) ==
  IF p \in taken /\ req[p].gen = gen THEN {"outcome_unknown", "succeeded"}
  ELSE {"outcome_unknown", "known_no_effect"}

(* MUTANT of ResultOf: any decoded answer counts as success.               *)
AnyAnswerSucceeds(p) ==
  {"outcome_unknown"} \cup (IF req[p].gen # gen THEN {} ELSE {"succeeded"})

(* An acknowledgement, a rejection, or neither.                            *)
ResultOf(p) ==
  {"outcome_unknown"} \cup
    (IF req[p].gen # gen THEN {}
     ELSE IF p \in taken THEN {"succeeded"} ELSE {"known_no_effect"})

Reply(p) ==
  /\ req[p].pc = "sending"
  /\ \E r \in ResultOf(p) :
       req' = [req EXCEPT ![p].pc = "replied", ![p].res = r,
                          ![p].wire = @ /\ r = "outcome_unknown"]
  /\ UNCHANGED <<gen, doc, registry, taken, slots, attachment>>

(* _release_submission_claim_locked: the last pin of a retired file unlinks*)
Release(p) ==
  /\ pins' = pins \ {p}
  /\ bytes' = (bytes /\ (file # "gone" \/ pins # {p}))

(* MUTANT of SettleFile: an unknown outcome reopens the record too.        *)
ReopensUnknown(p) ==
  /\ req[p].pc = "replied"
  /\ IF p \notin pins THEN UNCHANGED attachment
     ELSE /\ Release(p)
          /\ IF req[p].res # "succeeded" /\ file = "submitted"
             THEN file' \in {"submitted", "pending"}
             ELSE UNCHANGED file
  /\ req' = [req EXCEPT ![p].pc = "settling"]
  /\ UNCHANGED <<gen, doc, registry, taken, slots>>

(* _settle_attachment_claim: a known no-effect reopens the exact record    *)
(* unless it was retired meanwhile or its metadata cannot be written.      *)
ReturnFile(p) ==
  IF p \notin pins THEN UNCHANGED attachment
  ELSE /\ Release(p)
       /\ IF req[p].res = "known_no_effect" /\ file = "submitted"
          THEN file' \in {"submitted", "pending"}
          ELSE UNCHANGED file

(* A terminal receipt that came first is returned as it was captured.      *)
(* While an attempt runs only reconciliation writes one, so it is a        *)
(* success, and the re-read after a failed rollback does not arise.        *)
ReturnCaptured(p) ==
  /\ req[p].pc = "answered"
  /\ ReturnFile(p)
  /\ Finish(p, req[p].res)
  /\ UNCHANGED <<gen, doc, registry, taken, slots>>

SettleFile(p) ==
  /\ req[p].pc = "replied"
  /\ ReturnFile(p)
  /\ req' = [req EXCEPT ![p].pc = "settling"]
  /\ UNCHANGED <<gen, doc, registry, taken, slots>>

(* MUTANT of Settle: the worker's own result overwrites the receipt.       *)
SettleOverwrites(p) ==
  /\ req[p].pc = "settling"
  /\ Retire(req[p].m)
  /\ Remember([m |-> req[p].m, status |-> req[p].res, by |-> p])
  /\ Finish(p, req[p].res)
  /\ UNCHANGED <<gen, doc, taken, attachment>>

(* _settle_prompt: the first terminal receipt stands; a worker whose       *)
(* attempt is no longer the registered one settles nothing.                *)
Settle(p) ==
  LET m == req[p].m IN
  /\ req[p].pc = "settling"
  /\ IF HasTerminal(m)
     THEN /\ Finish(p, TerminalOf(m).status)
          /\ UNCHANGED <<registry, slots>>
     ELSE IF OwnsAttempt(p)
     THEN /\ Retire(m) /\ Remember([m |-> m, status |-> req[p].res, by |-> p])
          /\ Finish(p, req[p].res)
     ELSE /\ Finish(p, "error")
          /\ UNCHANGED <<registry, slots>>
  /\ UNCHANGED <<gen, doc, taken, attachment>>

-----------------------------------------------------------------------------
(* reconcile_turns: the transcript shows the client message id.            *)
Reconcile(m) ==
  /\ m \in Transcript
  /\ \/ /\ active[m] # NoPost
        /\ Retire(m)
        /\ Remember([m |-> m, status |-> "succeeded", by |-> active[m]])
     \/ /\ active[m] = NoPost /\ HasTerminal(m) /\ TerminalOf(m).status = "outcome_unknown"
        /\ Remember([TerminalOf(m) EXCEPT !.status = "succeeded"])
        /\ UNCHANGED <<active, executing>>
  /\ UNCHANGED <<gen, doc, req, taken, attachment>>

(* The document is reissued, the connection lost.                          *)
ReplaceDocument ==
  /\ doc < MaxDoc /\ doc' = doc + 1
  /\ UNCHANGED <<gen, registry, req, taken, slots, attachment>>

Disconnect ==
  /\ gen < MaxGen /\ gen' = gen + 1
  /\ UNCHANGED <<doc, registry, req, taken, slots, attachment>>

(* retire_backend_epoch_after_stop: the stopped backend takes nothing more *)
(* and every receipt is forgotten.                                         *)
BackendReset ==
  /\ gen < MaxGen /\ gen' = gen + 1
  /\ active' = [m \in Mutation |-> NoPost] /\ executing' = {} /\ terminal' = <<>>
  /\ source' = [m \in Mutation |-> 0] /\ slots' = [m \in Mutation |-> 0]
  /\ req' = [p \in Post |-> [req[p] EXCEPT !.wire = FALSE]]
  /\ UNCHANGED <<doc, taken, attachment>>

(* MUTANT of RetireFile: the bytes of a claimed file are unlinked.         *)
UnlinksPinned ==
  /\ file # "gone"
  /\ file' = "gone" /\ bytes' = FALSE /\ UNCHANGED pins
  /\ UNCHANGED <<gen, doc, registry, req, taken, slots>>

(* delete_scope or retention retires the record; pinned bytes are kept.    *)
RetireFile ==
  /\ file # "gone"
  /\ file' = "gone" /\ bytes' = (pins # {}) /\ UNCHANGED pins
  /\ UNCHANGED <<gen, doc, registry, req, taken, slots>>

-----------------------------------------------------------------------------
Worker(p) ==
  \/ Abandon(p) \/ ReadDuplicate(p) \/ Refuse(p) \/ ClaimFile(p) \/ ClaimEffect(p)
  \/ Send(p) \/ Reply(p) \/ ReturnCaptured(p) \/ SettleFile(p) \/ Settle(p)

Next ==
  \/ \E p \in Post : Worker(p) \/ Start(p) \/ CancelHandler(p) \/ Take(p)
  \/ \E p \in Post, m \in Mutation : PrepareRefused(p, m)
  \/ \E p \in Post, m \in Mutation, f \in BOOLEAN : Prepare(p, m, f)
  \/ \E m \in Mutation : Reconcile(m)
  \/ ReplaceDocument \/ Disconnect \/ BackendReset \/ RetireFile

Spec == Init /\ [][Next]_vars

(* Workers run and their calls return; a prepared request is started or    *)
(* its handler cancelled.                                                  *)
LiveSpec ==
  Spec /\ \A p \in Post : WF_vars(Worker(p)) /\ WF_vars(Start(p) \/ CancelHandler(p))

-----------------------------------------------------------------------------
TypeOK ==
  /\ gen \in 1..MaxGen /\ doc \in 1..MaxDoc
  /\ active \in [Mutation -> Post \cup {NoPost}] /\ executing \subseteq Mutation
  /\ terminal \in Seq(Receipt) /\ Len(terminal) <= ResultLimit
  /\ source \in [Mutation -> 0..MaxDoc]
  /\ req \in [Post -> Request]
  /\ taken \subseteq Post /\ slots \in [Mutation -> Nat]
  /\ file \in {"pending", "submitted", "gone"} /\ pins \subseteq Post /\ bytes \in BOOLEAN

(* While its receipt is retained a mutation is granted one effect slot.    *)
OneSlot == \A m \in Mutation : slots[m] <= 1

(* A receipt never says "known no effect" of an input that the app-server  *)
(* took or may still take: the browser keeps such a draft as unsent.       *)
NoEffectIsTrue ==
  \A i \in DOMAIN terminal :
    terminal[i].status = "known_no_effect" =>
      terminal[i].by \notin taken /\ ~req[terminal[i].by].wire

(* Nor is a POST that sent its input told so.                              *)
ToldNoEffectIsTrue ==
  \A p \in Post : req[p].fresh /\ req[p].told = "known_no_effect" => p \notin taken

(* A success is only reported for an input the app-server took.            *)
SuccessIsTrue ==
  \A p \in Post : req[p].told = "succeeded" => req[p].m \in Transcript

(* The same attached file reaches the app-server in at most one input.     *)
FileSentOnce == Cardinality({p \in taken : req[p].withFile}) <= 1

(* A worker that may still read the file finds its bytes, and a finished   *)
(* one has given its pin back.                                             *)
PinsHold ==
  /\ pins # {} => bytes
  /\ \A p \in pins : req[p].pc \in {"ready", "granted", "sending", "replied", "answered"}

(* A retained receipt changes only from unknown to success.                *)
ReceiptsAreFinal ==
  [][\A m \in Mutation :
       HasTerminal(m) /\ HasTerminal(m)' /\ TerminalOf(m)' # TerminalOf(m) =>
         TerminalOf(m).status = "outcome_unknown" /\ TerminalOf(m)'.status = "succeeded"]_vars

(* A pending receipt does not stay pending for ever.                       *)
PendingResolves == \A m \in Mutation : active[m] # NoPost ~> active[m] = NoPost

\* What the receipt of a Web prompt says is what happened upstream.
PromptInvariant ==
  /\ TypeOK
  /\ OneSlot
  /\ NoEffectIsTrue
  /\ SuccessIsTrue
  /\ FileSentOnce
  /\ PinsHold
=============================================================================
