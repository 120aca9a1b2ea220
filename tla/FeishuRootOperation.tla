------------------------ MODULE FeishuRootOperation ------------------------
(***************************************************************************)
(* One root thread as the Feishu frontend writes to it:                    *)
(* FeishuRootOperationController (bot/feishu_root_operation_controller.py) *)
(* and the handlers that take an admission from it: prompt                 *)
(* (prompt_turn_entry_controller.py), compaction                           *)
(* (feishu_compact_execution_service.py), goal mutation, attach and resume *)
(* (feishu_continuation_controller.py).                                    *)
(*                                                                         *)
(* A handler runs to its end on the RuntimeLoop, its RPCs included, so it  *)
(* is one step: it takes the blank main-turn lease, performs its RPCs, and *)
(* settles in one of three ways: the lease is released, the admission is   *)
(* kept awaiting the turn identity, or it is kept with an unknown outcome. *)
(* The app-server moves on its own and its notifications wait in a queue,  *)
(* so each of them may describe a turn, or a loaded thread, of the past.   *)
(*                                                                         *)
(* Continuation receipts die with their admission and only decide how the  *)
(* handler that armed them settles; the process-local holder is the        *)
(* holder of the admission.  Neither is state of its own here.             *)
(***************************************************************************)
EXTENDS Naturals, Sequences, FiniteSets

CONSTANTS
  Chats,       \* Feishu chat bindings on this root
  Other,       \* an exclusive holder of another frontend
  NoOne,
  MaxGens,     \* bound: lease generations
  MaxTurns,    \* bound: upstream turns
  MaxCloses,   \* bound: times the thread is unloaded
  Faults       \* TRUE: releases and status reads fail, notifications are lost

HoldersAssumption == Other \notin Chats /\ NoOne \notin Chats \cup {Other}
BoundsAssumption == /\ MaxGens \in Nat /\ MaxTurns \in Nat /\ MaxCloses \in Nat
                    /\ Faults \in BOOLEAN

VARIABLES
  mainLease,  \* InteractionLeaseStore: holder, generation, turn (0 while blank)
  adm,        \* the single admission of the root, gen 0 when there is none
  up,         \* the app-server, and the notifications it has sent
  gens,       \* lease generations created
  floor,      \* history: turns that were over at the last admission
  orphans,    \* history: generations whose release could not be confirmed
  misbound,   \* history: generations bound to a turn that was over before that
  closedLate, \* history: generations ended by a close that a resume has undone
  letgo       \* history: generations given up although their effect was open

rootVars == <<mainLease, adm, up, gens, floor, orphans, misbound, closedLate, letgo>>

NoLease == [holder |-> NoOne, gen |-> 0, turn |-> 0]
NoAdm == [holder |-> NoOne, gen |-> 0, kind |-> "none", awaiting |-> FALSE,
          unknown |-> FALSE, cand |-> 0]

Generation == 0..MaxGens
Turn == 0..MaxTurns
Kind == {"none", "mutation", "prompt", "compact"}
Message == [m : {"started", "item", "completed"}, t : Turn]
             \cup [m : {"status", "closed"}]

RootInit ==
  /\ mainLease = NoLease /\ adm = NoAdm
  /\ gens = 0 /\ floor = 0
  /\ up \in [turn : {0}, turns : {0}, made : {<<>>}, queued : {0}, closes : {0},
             loaded : BOOLEAN, goal : {"none", "paused", "active"}, wire : {<<>>}]
  /\ orphans = {} /\ misbound = {} /\ closedLate = {} /\ letgo = {}

-----------------------------------------------------------------------------
(* The app-server.  made[t] is the generation whose submission produced    *)
(* turn t, 0 for a turn of another frontend or of the goal itself.         *)

NewTurn(u, g) ==
  [u EXCEPT !.turn = u.turns + 1, !.turns = @ + 1, !.made = Append(@, g),
            !.wire = Append(@, [m |-> "started", t |-> u.turns + 1])]

CanStart(u) == u.loaded /\ u.turn = 0 /\ u.turns < MaxTurns

\* An active goal starts a turn by itself once its thread is loaded and idle.
MayContinue(goal) == goal = "active"

Autostarted(u, g) ==
  {u} \cup (IF CanStart(u) /\ MayContinue(u.goal) THEN {NewTurn(u, g)} ELSE {})

Resumed(u, g) == Autostarted([u EXCEPT !.loaded = TRUE], g)

GoalSet(u, status, g) == Autostarted([u EXCEPT !.goal = status], g)

\* turn/start is start-or-steer.
Started(u, g) == {v \in {u, NewTurn(u, g)} : IF v = u THEN u.turn # 0 ELSE CanStart(u)}

-----------------------------------------------------------------------------
(* Outcomes.  An RPC succeeds, is rejected, or has an unknown outcome, its  *)
(* effect made or not.  A handler ends by releasing its lease, by awaiting *)
(* the identity of an accepted start, or with an unknown outcome.          *)

Rpc(u, V) == [r : {"ok"}, u : V] \cup [r : {"rejected"}, u : {u}]
               \cup [r : {"unknown"}, u : V \cup {u}]

\* A resume may also be acknowledged and then fail in its local commit.
ResumeRpc(u, g) == Rpc(u, Resumed(u, g)) \cup [r : {"local"}, u : Resumed(u, g)]

End(u, e) == [u |-> u, end |-> e, id |-> 0]

\* MUTANT of Finish: a known failure releases although the resume may continue.
FinishReleases(risk) == "release"

\* finish_without_turn: retain the submission when the resume may continue.
Finish(risk) == IF risk THEN "unknown" ELSE "release"

\* The settlement of a failed RPC, and what follows a successful one.
OnRpc(S, Ok(_), Local(_)) ==
  UNION {CASE x.r = "ok" -> Ok(x.u)
           [] x.r = "local" -> {End(x.u, Local(x.u))}
           [] x.r = "rejected" -> {End(x.u, "release")}
           [] x.r = "unknown" -> {End(x.u, "unknown")} : x \in S}

NoLocal(u) == "release"

-----------------------------------------------------------------------------
(* start_prompt_turn_result *)

\* One turn/start: the execution card, the receipt or the request is refused,
\* or it is accepted with or without a turn id, or its outcome is unknown.
StartOnce(u, g, risk) ==
  {End(u, Finish(risk))} \cup
  (IF ~u.loaded THEN {} ELSE
     (UNION {[u : {v}, end : {"awaiting"}, id : {0, v.turn}] : v \in Started(u, g)})
       \cup {End(v, "unknown") : v \in Started(u, g) \cup {u}})

\* The resume of a detached binding, or of a thread that was not loaded.  A
\* goal that cannot be read counts as one that may continue.
ResumeAndStart(u, g) ==
  UNION {LET Ok(v) == StartOnce(v, g, risk)
             Local(v) == Finish(risk)
         IN  OnRpc(ResumeRpc(u, g), Ok, Local) : risk \in {MayContinue(u.goal), TRUE}}

PromptEnds(u, g) == {End(u, "release")} \cup StartOnce(u, g, FALSE) \cup ResumeAndStart(u, g)

\* A compaction is queued upstream; its turn begins later.
CompactEnds(u, g) ==
  LET q == [u EXCEPT !.queued = g]
  IN  {End(u, "release"), End(u, "unknown")} \cup
      (IF u.loaded /\ u.turn = 0 /\ u.queued = 0
       THEN {End(q, "unknown"), End(q, "awaiting")} ELSE {})

-----------------------------------------------------------------------------
(* Goal mutation, attach and resume *)

\* settle_noncontinuing: released only when the root is read as inactive.
NoncontinuingEnds(u) ==
  (IF u.turn = 0 THEN {End(u, "release")} ELSE {End(u, "unknown")})
    \cup (IF Faults THEN {End(u, "unknown")} ELSE {})

GoalEnds(u, g, status) ==
  LET Ok(v) == IF MayContinue(status) THEN {End(v, "unknown")} ELSE NoncontinuingEnds(v)
  IN  OnRpc(Rpc(u, GoalSet(u, status, g)), Ok, NoLocal)

ClearEnds(u) ==
  LET Ok(v) == IF u.goal = "none" THEN {End(v, "release")} ELSE NoncontinuingEnds(v)
  IN  OnRpc(Rpc(u, {[u EXCEPT !.goal = "none"]}), Ok, NoLocal)

AttachEnds(u, g) ==
  UNION {LET Ok(v) == {End(v, Finish(risk))}
             Local(v) == Finish(risk)
         IN  OnRpc(ResumeRpc(u, g), Ok, Local) : risk \in {MayContinue(u.goal), TRUE}}

\* The paused goal of a failed cold resume is set active again.
Restored(u, g, err) ==
  LET e == IF err = "unknown" THEN "unknown" ELSE "release"
      Ok(v) == {End(v, e)}
  IN  OnRpc(Rpc(u, GoalSet(u, "active", g)), Ok, NoLocal) \cup {End(u, e)}

Settings(u, g, paused, Done(_)) ==
  Done(u) \cup
  (IF paused THEN Restored(u, g, "rejected") \cup Restored(u, g, "unknown")
   ELSE {End(u, "release"), End(u, "unknown")})

\* A cold thread with an active goal is resumed with the goal paused.
ColdResume(u, g, Done(_)) ==
  LET Paused(p) ==
        UNION {CASE x.r = "ok" -> Settings(x.u, g, TRUE, Done)
                 [] x.r = "local" -> {End(x.u, "release")}
                 [] OTHER -> Restored(x.u, g, x.r) : x \in ResumeRpc(p, g)}
  IN  OnRpc(Rpc(u, {[u EXCEPT !.goal = "paused"]}), Paused, NoLocal)

WarmResume(u, g, Done(_)) ==
  LET Ok(v) == Settings(v, g, FALSE, Done)
      Local(v) == Finish(MayContinue(u.goal))
  IN  OnRpc(ResumeRpc(u, g), Ok, Local)

Cold(u) == ~u.loaded /\ MayContinue(u.goal)

\* resume_thread: an explicit resume is settled as a known mutation.
ExplicitEnds(u, g, pause) ==
  LET Done(v) == {End(v, "release")}
  IN  IF pause /\ Cold(u) THEN ColdResume(u, g, Done) ELSE WarmResume(u, g, Done)

\* resume_goal: the goal is set active last; projecting it locally may fail.
GoalResumeEnds(u, g, attach) ==
  LET Projected(v) == {End(v, "unknown"), End(v, "release")}
      Activate(v) == IF MayContinue(v.goal) THEN Projected(v)
                     ELSE OnRpc(Rpc(v, GoalSet(v, "active", g)), Projected, NoLocal)
  IN  CASE Cold(u) -> ColdResume(u, g, Activate)
        [] ~Cold(u) /\ (attach \/ ~u.loaded) -> WarmResume(u, g, Activate)
        [] OTHER -> Settings(u, g, FALSE, Activate)

-----------------------------------------------------------------------------
(* Admission and settlement *)

EndedTurns(u) == IF u.turn = 0 THEN u.turns ELSE u.turn - 1

\* MUTANT of Taken: the holder's own blank is replaced under the same count.
TakenAgain(b) == [holder |-> b, gen |-> gens + 1, turn |-> 0]

\* The exact blank lease: a new generation, or the blank this holder has.
Taken(b) == IF mainLease = NoLease THEN [holder |-> b, gen |-> gens + 1, turn |-> 0] ELSE mainLease

\* admit: no submission pending or unknown, and the lease free or blank and ours.
Admits(b) ==
  /\ adm = NoAdm
  /\ mainLease = NoLease => gens < MaxGens
  /\ mainLease # NoLease => mainLease.holder = b /\ mainLease.turn = 0

Acquired ==
  /\ gens' = IF mainLease = NoLease THEN gens + 1 ELSE gens
  /\ floor' = EndedTurns(up)

\* The exact release: the store may fail and leave the blank in place.
Released(l) ==
  \/ mainLease' = NoLease /\ orphans' = orphans \ {l.gen}
  \/ Faults /\ mainLease' = l /\ orphans' = orphans \cup {l.gen}

\* How the handler of binding b settles its admission of kind k.
Settle(b, k, e) ==
  LET l == Taken(b)
  IN  /\ up' = e.u
      /\ Acquired
      /\ \/ e.end = "release" /\ adm' = NoAdm /\ Released(l)
         \/ /\ e.end # "release"
            /\ mainLease' = l /\ orphans' = orphans \ {l.gen}
            /\ adm' = [holder |-> b, gen |-> l.gen, kind |-> k,
                       awaiting |-> e.end = "awaiting", unknown |-> e.end = "unknown",
                       cand |-> IF k = "prompt" THEN e.id ELSE 0]
      /\ UNCHANGED <<misbound, closedLate>>

Own(u) == IF u.turn = 0 THEN 0 ELSE u.made[u.turn]

Operation(b, k, E) ==
  /\ Admits(b)
  /\ \E e \in E : Settle(b, k, e) /\ UNCHANGED letgo

Prompt(b) == Operation(b, "prompt", PromptEnds(up, Taken(b).gen))
Compact(b) == Operation(b, "compact", CompactEnds(up, Taken(b).gen))
MutateGoal(b, status) == Operation(b, "mutation", GoalEnds(up, Taken(b).gen, status))
ClearGoal(b) == Operation(b, "mutation", ClearEnds(up))
AttachBinding(b) == Operation(b, "mutation", AttachEnds(up, Taken(b).gen))

\* The two resumes that may release while the goal they resumed has started.
ResumeOperation(b, E) ==
  /\ Admits(b)
  /\ \E e \in E :
       /\ Settle(b, "mutation", e)
       /\ letgo' = letgo \cup (IF e.end = "release" /\ Own(e.u) = Taken(b).gen
                               THEN {Taken(b).gen} ELSE {})

ResumeThread(b, pause) == ResumeOperation(b, ExplicitEnds(up, Taken(b).gen, pause))

ResumeGoal(b, attach) ==
  up.goal # "none" /\ ResumeOperation(b, GoalResumeEnds(up, Taken(b).gen, attach))

-----------------------------------------------------------------------------
(* Between the handlers *)

Waiting == adm.awaiting \/ adm.unknown
Finished == adm' = NoAdm
NoHistory == UNCHANGED <<gens, floor, orphans, misbound, closedLate, letgo>>

TurnOver(u) ==
  [u EXCEPT !.turn = 0,
            !.wire = @ \o <<[m |-> "completed", t |-> u.turn], [m |-> "status"]>>]

\* cancel_current_turn with the accepted id: the candidate is consumed unless
\* the interrupt was not sent, and only its exact turn can be stopped.
Cancel(b) ==
  /\ adm.holder = b /\ adm.kind = "prompt" /\ adm.awaiting /\ adm.cand # 0
  /\ adm' = [adm EXCEPT !.cand = 0]
  /\ up' \in {up} \cup (IF adm.cand = up.turn THEN {TurnOver(up)} ELSE {})
  /\ UNCHANGED mainLease /\ NoHistory

\* settle_owner_loss: the candidate goes; an accepted or unknown submission is
\* kept for the lifecycle, a blank nobody accounts for is released.
OwnerLoss(b) ==
  /\ \/ adm.holder = b /\ adm.cand # 0
     \/ mainLease.holder = b /\ mainLease.turn = 0 /\ adm = NoAdm
  /\ \/ adm.holder = b /\ adm' = [adm EXCEPT !.cand = 0] /\ UNCHANGED <<mainLease, orphans>>
     \/ adm = NoAdm /\ Released(mainLease) /\ UNCHANGED adm
  /\ UNCHANGED <<up, gens, floor, misbound, closedLate, letgo>>

\* The identity of an accepted compaction did not arrive in time.
CompactTimeout ==
  /\ adm.kind = "compact" /\ adm.awaiting /\ ~adm.unknown
  /\ adm' = [adm EXCEPT !.unknown = TRUE]
  /\ UNCHANGED <<mainLease, up>> /\ NoHistory

\* MUTANT of Reconcilable: only an unknown outcome may be settled.
ReconcilableUnknown == adm.unknown

Reconcilable == adm.unknown \/ (adm.awaiting /\ adm.kind # "compact")

Inactive == up.turn = 0

\* MUTANT of ReconciledTerminal: the admission is finished before the release.
ReconciledFinishesFirst ==
  IF Reconcilable /\ Inactive /\ mainLease.gen = adm.gen /\ mainLease.turn = 0
  THEN /\ \/ mainLease' = NoLease /\ Finished
          \/ Faults /\ Finished /\ UNCHANGED mainLease
       /\ UNCHANGED letgo
  ELSE UNCHANGED <<mainLease, adm, letgo>>

\* reconcile_terminal under a fresh status reading.  A release that raises
\* keeps the admission.
ReconciledTerminal ==
  IF Reconcilable /\ Inactive /\ mainLease.gen = adm.gen /\ mainLease.turn = 0
  THEN /\ \/ mainLease' = NoLease /\ Finished
          \/ Faults /\ UNCHANGED <<mainLease, adm>>
       /\ letgo' = letgo \cup (IF up.queued = adm.gen /\ adm.unknown THEN {adm.gen} ELSE {})
  ELSE UNCHANGED <<mainLease, adm, letgo>>

\* The queue service settles the terminal root when queued work is dropped.
QueueReconcile ==
  /\ Reconcilable /\ Inactive
  /\ ReconciledTerminal
  /\ UNCHANGED <<up, gens, floor, orphans, misbound, closedLate>>

\* Recovery saw the bound turn over upstream and retired the execution.
Retire ==
  /\ mainLease.turn # 0 /\ mainLease.turn <= EndedTurns(up)
  /\ mainLease' = NoLease
  /\ UNCHANGED <<adm, up>> /\ NoHistory

-----------------------------------------------------------------------------
(* Notifications, in the order the app-server sent them *)

\* MUTANT of ActivateWaiting: the admission outlives the binding of its lease.
ActivateWaitingKeeps(t, kinds) ==
  IF Waiting /\ adm.kind \in kinds /\ mainLease.gen = adm.gen /\ mainLease.turn = 0
  THEN /\ mainLease' = [mainLease EXCEPT !.turn = t] /\ UNCHANGED adm
       /\ misbound' = misbound \cup (IF t <= floor THEN {adm.gen} ELSE {})
  ELSE UNCHANGED <<mainLease, adm, misbound>>

\* _activate_waiting_turn: whichever turn starts is the one that was awaited.
ActivateWaiting(t, kinds) ==
  IF Waiting /\ adm.kind \in kinds /\ mainLease.gen = adm.gen /\ mainLease.turn = 0
  THEN /\ mainLease' = [mainLease EXCEPT !.turn = t] /\ Finished
       /\ misbound' = misbound \cup (IF t <= floor THEN {adm.gen} ELSE {})
  ELSE /\ mainLease' = IF mainLease.holder = Other /\ mainLease.turn = 0 /\ "prompt" \in kinds
                       THEN [mainLease EXCEPT !.turn = t] ELSE mainLease
       /\ UNCHANGED <<adm, misbound>>

Completed(t) ==
  mainLease' = (IF mainLease.turn = t THEN NoLease ELSE mainLease) /\ UNCHANGED <<adm, misbound>>

\* thread/closed clears the thread whatever generation holds it.
ThreadClosed ==
  /\ mainLease' = NoLease /\ Finished
  /\ closedLate' = closedLate \cup (IF up.loaded THEN {mainLease.gen} \ {0} ELSE {})

\* _release_exact_interaction_lease raises: the lease is still there, and the
\* notification is over with nothing done.
ReleaseRaises == Faults /\ mainLease # NoLease /\ UNCHANGED <<mainLease, adm>>

ReadFails == Faults /\ UNCHANGED <<mainLease, adm, letgo>>

Deliver ==
  /\ up.wire # <<>>
  /\ up' = [up EXCEPT !.wire = Tail(@)]
  /\ LET n == Head(up.wire) IN
     \/ /\ n.m = "started" /\ ActivateWaiting(n.t, Kind)
        /\ UNCHANGED <<closedLate, letgo>>
     \/ /\ n.m = "item" /\ ActivateWaiting(n.t, {"compact"})
        /\ UNCHANGED <<closedLate, letgo>>
     \/ /\ n.m = "completed"
        /\ Completed(n.t) \/ (mainLease.turn = n.t /\ ReleaseRaises /\ UNCHANGED misbound)
        /\ UNCHANGED <<closedLate, letgo>>
     \/ /\ n.m = "status" /\ (ReconciledTerminal \/ ReadFails)
        /\ UNCHANGED <<misbound, closedLate>>
     \/ /\ n.m = "closed" /\ (ThreadClosed \/ (ReleaseRaises /\ UNCHANGED closedLate))
        /\ UNCHANGED <<misbound, letgo>>
  /\ orphans' = orphans \cap {mainLease'.gen}
  /\ UNCHANGED <<gens, floor>>

-----------------------------------------------------------------------------
(* The app-server and the other frontends *)

Upstream(u) == up' = u /\ UNCHANGED <<mainLease, adm>> /\ NoHistory

EndTurn == up.turn # 0 /\ Upstream(TurnOver(up))

\* A prompt of Web or fcodex, or the goal, starts a turn without this lease.
StartElsewhere == CanStart(up) /\ up.queued = 0 /\ Upstream(NewTurn(up, 0))

CompactBegins ==
  /\ up.queued # 0 /\ CanStart(up)
  /\ Upstream([NewTurn(up, up.queued) EXCEPT
                 !.queued = 0, !.wire = Append(@, [m |-> "item", t |-> up.turns + 1])])

CompactDropped == Faults /\ up.queued # 0 /\ Upstream([up EXCEPT !.queued = 0])

ThreadUnloaded ==
  /\ up.loaded /\ up.turn = 0 /\ up.queued = 0 /\ up.closes < MaxCloses
  /\ Upstream([up EXCEPT !.loaded = FALSE, !.closes = @ + 1,
                         !.wire = Append(@, [m |-> "closed"])])

\* The websocket is lost with everything that was on it.
LoseConnection == Faults /\ up.wire # <<>> /\ Upstream([up EXCEPT !.wire = <<>>])

OtherAcquires ==
  /\ mainLease = NoLease /\ gens < MaxGens
  /\ mainLease' = [holder |-> Other, gen |-> gens + 1, turn |-> 0]
  /\ gens' = gens + 1 /\ floor' = EndedTurns(up)
  /\ UNCHANGED <<adm, up, orphans, misbound, closedLate, letgo>>

OtherReleases ==
  /\ mainLease.holder = Other /\ mainLease.turn = 0
  /\ mainLease' = NoLease
  /\ UNCHANGED <<adm, up>> /\ NoHistory

\* retire_backend_epoch_after_stop, with the retirement of the lease.
RetireBackendEpoch ==
  /\ Faults /\ mainLease # NoLease
  /\ mainLease' = NoLease /\ Finished
  /\ up' = [up EXCEPT !.turn = 0, !.queued = 0, !.loaded = FALSE, !.wire = <<>>]
  /\ NoHistory

Handler ==
  \E b \in Chats :
    \/ Prompt(b) \/ Compact(b) \/ ClearGoal(b) \/ AttachBinding(b)
    \/ \E s \in {"active", "paused"} : MutateGoal(b, s)
    \/ \E p \in BOOLEAN : ResumeThread(b, p) \/ ResumeGoal(b, p)
    \/ Cancel(b) \/ OwnerLoss(b)

RootNext ==
  \/ Handler
  \/ CompactTimeout \/ QueueReconcile \/ Retire \/ Deliver
  \/ EndTurn \/ StartElsewhere \/ CompactBegins \/ CompactDropped
  \/ ThreadUnloaded \/ LoseConnection
  \/ OtherAcquires \/ OtherReleases \/ RetireBackendEpoch

RootSpec == RootInit /\ [][RootNext]_rootVars

\* The loop handles every notification, turns end, a queued compaction begins.
Fairness == WF_rootVars(Deliver) /\ WF_rootVars(EndTurn) /\ WF_rootVars(CompactBegins)
FairSpec == RootSpec /\ Fairness

-----------------------------------------------------------------------------
(* Properties *)

\* The state has its shape: in particular a generation of the admission and
\* of the lease is one that was created.
RootTypeOK ==
  /\ mainLease \in [holder : Chats \cup {Other, NoOne}, gen : 0..gens, turn : Turn]
  /\ adm \in [holder : Chats \cup {NoOne}, gen : 0..gens, kind : Kind,
              awaiting : BOOLEAN, unknown : BOOLEAN, cand : Turn]
  /\ gens \in Generation /\ floor \in Turn
  /\ up.turn \in 0..up.turns /\ Len(up.made) = up.turns
  /\ \A i \in 1..Len(up.wire) : up.wire[i] \in Message

\* A blank Feishu lease always has the admission that will settle it, or its
\* release is known to be unconfirmed (_finish and _release_submission_if_idle,
\* reconcile_terminal, settle_owner_loss, retire_backend_epoch_after_stop).
BlankHasAdmission ==
  mainLease.holder \in Chats /\ mainLease.turn = 0 =>
    adm.gen = mainLease.gen \/ (adm = NoAdm /\ mainLease.gen \in orphans)

\* An admission stands for exactly one blank lease of its own holder, so
\* whatever settles it later settles the right generation (_require_token,
\* _activate_waiting_turn).
AdmissionHasLease ==
  adm # NoAdm => mainLease = [holder |-> adm.holder, gen |-> adm.gen, turn |-> 0]

Keeps(S) == Own(up) \in S => mainLease.gen = Own(up)

\* The main turn a Feishu submission produced is covered by that submission's
\* lease until the turn is over, whatever is rejected, lost, timed out, read or
\* detached meanwhile; the ways the code gives it up are the histories.
OwnTurnKeepsLease == Keeps((1..MaxGens) \ (misbound \cup closedLate \cup letgo))

\* A completion of an older turn does not release the lease of the next
\* (root-operation-owner.md, "preventing an old terminal event from releasing
\* the next turn").
OldTerminalKeepsSuccessor == Keeps(misbound)

\* A close of the thread that a resume has undone does not end the lease of
\* the turn started since
\* (root-operation-owner.md: an old notification cannot replace a successor).
OldClosedKeepsSuccessor == Keeps(closedLate)

\* A resume that started the persisted goal keeps its submission until the
\* lifecycle is known (feishu-thread-lifecycle.md).
ResumedTurnKeepsLease == Keeps(letgo)

\* An accepted prompt is settled: its turn is bound, or the root is read idle.
AcceptedPromptResolves ==
  \A g \in 1..MaxGens :
    (adm.gen = g /\ adm.kind = "prompt" /\ adm.awaiting) ~> (adm.gen # g)

\* A submission of a Feishu binding and its lease live and end together.
RootInvariant ==
  /\ RootTypeOK
  /\ BlankHasAdmission
  /\ AdmissionHasLease
  /\ OwnTurnKeepsLease
=============================================================================
