-------------------------- MODULE InteractionLease --------------------------
(***************************************************************************)
(* The main-turn lease ledger, bot/stores/interaction_lease_store.py, with *)
(* the callers that drive it.                                              *)
(*                                                                         *)
(* One file per service instance maps a thread to the frontend that may    *)
(* run its main turn.  A lease is a GENERATION (lease_id): blank while one *)
(* frontend is submitting, bound to an exact turn afterwards.  Every store *)
(* operation is one critical section under the file lock: read, prune the  *)
(* leases of dead processes, decide, write.  A write that fails after the  *)
(* prune leaves exactly what Load leaves.                                  *)
(*                                                                         *)
(* Callers live in the service process.  Most run on its RuntimeLoop; the  *)
(* Web autonomous-turn callers (OffLoop) do not, so they interleave with a *)
(* backend reset.  Processes die, restart and reuse pids.                  *)
(***************************************************************************)
EXTENDS Naturals, FiniteSets

CONSTANTS
  Thread,          \* root threads
  Client,          \* in-process requests that acquire a lease
  Holder,          \* logical holders: kind + holder_id
  HolderOf,        \* the logical holder each client acts for
  OffLoop,         \* clients running on a worker thread, not on RuntimeLoop
  Turn,            \* upstream turn ids
  Pid,             \* process ids, reused by the operating system
  MaxLease,        \* bound: lease generations created
  MaxIncarnation,  \* bound: processes started
  NoLease, NoTurn, NoPid, NoReceipt

ASSUME ConstantsAssumption ==
  /\ HolderOf \in [Client -> Holder]
  /\ OffLoop \subseteq Client
  /\ MaxLease \in Nat /\ MaxIncarnation \in Nat
  /\ NoTurn \notin Turn /\ NoPid \notin Pid

VARIABLES
  proc,        \* the incarnation running at each pid, 0 when there is none
  started,     \* incarnations started so far
  svc,         \* pid of the instance's service, NoPid while it is down
  self,        \* the identity this service reads for its own pid, or Unknown
  leases,      \* the ledger file
  created,     \* lease generations created so far
  receipt,     \* the acquire result each in-flight client still holds
  capture,     \* the leases a backend reset captured before the stop
  todo,        \* those of them its retirement loop has not visited
  resetting,   \* TRUE between the capture and the end of the retirement
  ended,       \* history: how each generation left the ledger
  owner        \* history: the incarnation each generation was last held by

vars == <<proc, started, svc, self, leases, created, receipt, capture, todo,
          resetting, ended, owner>>

LeaseId == 1..MaxLease
Incarnation == 1..MaxIncarnation
Unknown == 0      \* process_identity() could not be read ("")

\* updated_at never changes within a generation and is left out.
LeaseRecord == [holder : Holder, pid : Pid, identity : 0..MaxIncarnation,
                lease_id : LeaseId, turn_id : Turn \cup {NoTurn}]
CapturedLease == [thread : Thread, lease : LeaseRecord]
Receipt == [thread : Thread, lease : LeaseRecord, acquired : BOOLEAN]

ASSUME NullsAssumption == NoLease \notin LeaseRecord /\ NoReceipt \notin Receipt

Cause == {"live", "pruned", "released", "no_start", "offline", "completed",
          "closed", "retired"}

-----------------------------------------------------------------------------
(* Process liveness, as _prune_stale_leases sees it.  R is the set of pids  *)
(* whose identity the platform can report at this moment.                   *)

process_exists(p) == proc[p] # 0

\* Mutant: an unknown recorded identity counts as a mismatch.
IsStaleUnknownToo(l, R) ==
  /\ l # NoLease
  /\ \/ ~process_exists(l.pid)
     \/ l.pid \in R /\ proc[l.pid] # l.identity

IsStale(l, R) ==
  /\ l # NoLease
  /\ \/ ~process_exists(l.pid)
     \/ /\ l.identity # Unknown
        /\ l.pid \in R
        /\ proc[l.pid] # l.identity

Pruned(R) == [t \in Thread |-> IF IsStale(leases[t], R) THEN NoLease ELSE leases[t]]

HeldId(l) == IF l = NoLease THEN 0 ELSE l.lease_id

\* One locked store operation: prune, then leave l in t's slot.
Commit(R, t, l, cause) ==
  /\ leases' = [Pruned(R) EXCEPT ![t] = l]
  /\ ended' = [g \in LeaseId |->
        IF \E u \in Thread : HeldId(leases[u]) = g /\ IsStale(leases[u], R)
        THEN "pruned"
        ELSE IF HeldId(Pruned(R)[t]) = g /\ HeldId(l) # g THEN cause
        ELSE ended[g]]

\* The pruning read that a refused or read-only operation amounts to.
OnlyPrune(R, t) == Commit(R, t, Pruned(R)[t], "pruned")

\* Mutant: the holder is compared by owning process only.
SameProcess(l, h) == l.pid = svc

same_holder(l, h) == l.holder = h

-----------------------------------------------------------------------------
Init ==
  /\ proc = [p \in Pid |-> 0]
  /\ started = 0
  /\ svc = NoPid /\ self = Unknown
  /\ leases = [t \in Thread |-> NoLease]
  /\ created = 0
  /\ receipt = [c \in Client |-> NoReceipt]
  /\ capture = {} /\ todo = {}
  /\ resetting = FALSE
  /\ ended = [g \in LeaseId |-> "live"]
  /\ owner = [g \in LeaseId |-> 0]

\* A RuntimeLoop task cannot start while the reset task occupies the loop.
CanRun(c) == svc # NoPid /\ (resetting => c \in OffLoop)
LoopIdle == svc # NoPid /\ ~resetting

-----------------------------------------------------------------------------
(* Store operations and their callers.                                      *)

\* Any process reading the ledger (load, list) prunes it.
Load(t, R) ==
  /\ OnlyPrune(R, t)
  /\ UNCHANGED <<proc, started, svc, self, created, receipt, capture, todo, resetting, owner>>

\* Mutant: the generation id is derived from the record, not fresh.
DerivedLeaseId == 1

NewLeaseId == created + 1

\* acquire: a free thread gets a new blank generation.
AcquireNew(c, t, R) ==
  /\ CanRun(c) /\ receipt[c] = NoReceipt
  /\ created < MaxLease
  /\ Pruned(R)[t] = NoLease
  /\ LET l == [holder |-> HolderOf[c], pid |-> svc, identity |-> self,
               lease_id |-> NewLeaseId, turn_id |-> NoTurn]
     IN /\ Commit(R, t, l, "pruned")
        /\ receipt' = [receipt EXCEPT
                         ![c] = [thread |-> t, lease |-> l, acquired |-> TRUE]]
  /\ created' = created + 1
  /\ owner' = [owner EXCEPT ![NewLeaseId] = proc[svc]]
  /\ UNCHANGED <<proc, started, svc, self, capture, todo, resetting>>

\* acquire: the same logical holder refreshes the record and keeps the generation.
AcquireRefresh(c, t, R) ==
  /\ CanRun(c) /\ receipt[c] = NoReceipt
  /\ Pruned(R)[t] # NoLease /\ same_holder(leases[t], HolderOf[c])
  /\ LET l == [leases[t] EXCEPT !.pid = svc, !.identity = self]
     IN /\ Commit(R, t, l, "pruned")
        /\ receipt' = [receipt EXCEPT
                         ![c] = [thread |-> t, lease |-> l, acquired |-> FALSE]]
        /\ owner' = [owner EXCEPT ![l.lease_id] = proc[svc]]
  /\ UNCHANGED <<proc, started, svc, self, created, capture, todo, resetting>>

\* acquire: another holder's lease refuses the request.
AcquireDenied(c, t, R) ==
  /\ CanRun(c) /\ receipt[c] = NoReceipt
  /\ Pruned(R)[t] # NoLease /\ ~same_holder(leases[t], HolderOf[c])
  /\ OnlyPrune(R, t)
  /\ UNCHANGED <<proc, started, svc, self, created, receipt, capture, todo, resetting, owner>>

\* Mutant: the compare-and-set only compares the logical holder.
MatchesHolder(l, expected) == l # NoLease /\ same_holder(l, expected.holder)

MatchesExactly(l, expected) == l = expected

\* A known failure before the effect: the caller CAS-releases the blank it acquired.
ReleaseIfMatches(c, R) ==
  /\ CanRun(c) /\ receipt[c] # NoReceipt
  /\ receipt[c].acquired /\ receipt[c].lease.turn_id = NoTurn
  /\ LET t == receipt[c].thread
     IN IF MatchesExactly(Pruned(R)[t], receipt[c].lease)
        THEN Commit(R, t, NoLease, "released")
        ELSE OnlyPrune(R, t)
  /\ receipt' = [receipt EXCEPT ![c] = NoReceipt]
  /\ UNCHANGED <<proc, started, svc, self, created, capture, todo, resetting, owner>>

\* A goal request known not to have started releases its holder's blank.
ReleaseMatchingBlankForHolder(c, t, R) ==
  /\ CanRun(c) /\ c \notin OffLoop
  /\ LET l == Pruned(R)[t]
     IN IF l # NoLease /\ same_holder(l, HolderOf[c]) /\ l.turn_id = NoTurn
        THEN Commit(R, t, NoLease, "no_start")
        ELSE OnlyPrune(R, t)
  /\ UNCHANGED <<proc, started, svc, self, created, receipt, capture, todo, resetting, owner>>

\* Mutant: an active lease may be bound to another turn.
ActivatedAgain(l, expected, turn) ==
  /\ l # NoLease
  /\ l.lease_id = expected.lease_id
  /\ same_holder(l, expected.holder)

Activated(l, expected, turn) ==
  /\ l # NoLease
  /\ l.lease_id = expected.lease_id
  /\ same_holder(l, expected.holder)
  /\ l.turn_id \in {NoTurn, turn}

\* activate_turn with the caller's receipt (a typed review response).
ActivateTurn(c, turn, R) ==
  /\ CanRun(c) /\ c \notin OffLoop /\ receipt[c] # NoReceipt
  /\ LET t == receipt[c].thread
         l == Pruned(R)[t]
     IN IF Activated(l, receipt[c].lease, turn)
        THEN Commit(R, t, [l EXCEPT !.turn_id = turn], "pruned")
        ELSE OnlyPrune(R, t)
  /\ receipt' = [receipt EXCEPT ![c] = NoReceipt]
  /\ UNCHANGED <<proc, started, svc, self, created, capture, todo, resetting, owner>>

\* The outcome is unknown or accepted: the request ends, its lease stays.
Forget(c) ==
  /\ CanRun(c) /\ receipt[c] # NoReceipt
  /\ receipt' = [receipt EXCEPT ![c] = NoReceipt]
  /\ UNCHANGED <<proc, started, svc, self, leases, created, capture, todo, resetting, ended, owner>>

\* turn/started: load, then activate the blank that was read.
TurnStarted(t, turn, R) ==
  /\ LoopIdle
  /\ LET l == Pruned(R)[t]
     IN IF l # NoLease /\ l.turn_id = NoTurn
        THEN Commit(R, t, [l EXCEPT !.turn_id = turn], "pruned")
        ELSE OnlyPrune(R, t)
  /\ UNCHANGED <<proc, started, svc, self, created, receipt, capture, todo, resetting, owner>>

\* turn/completed: release_turn, only for the exact bound turn.
TurnCompleted(t, turn, R) ==
  /\ LoopIdle
  /\ LET l == Pruned(R)[t]
     IN IF l # NoLease /\ l.turn_id = turn
        THEN Commit(R, t, NoLease, "completed")
        ELSE OnlyPrune(R, t)
  /\ UNCHANGED <<proc, started, svc, self, created, receipt, capture, todo, resetting, owner>>

\* thread/closed: clear_thread, whoever holds the thread.
ThreadClosed(t, R) ==
  /\ LoopIdle
  /\ Commit(R, t, NoLease, "closed")
  /\ UNCHANGED <<proc, started, svc, self, created, receipt, capture, todo, resetting, owner>>

\* Offline maintenance clears a stale binding while the service is down.
OfflineRelease(t, h, R) ==
  /\ svc = NoPid
  /\ LET l == Pruned(R)[t]
     IN IF l # NoLease /\ same_holder(l, h)
        THEN Commit(R, t, NoLease, "offline")
        ELSE OnlyPrune(R, t)
  /\ UNCHANGED <<proc, started, svc, self, created, receipt, capture, todo, resetting, owner>>

-----------------------------------------------------------------------------
(* Backend reset: capture, (stop), retire each captured record by CAS.      *)

\* Mutant: the capture trusts the pid alone.
OwnPid(l) == l # NoLease /\ l.pid = svc

OwnIncarnation(l) == l # NoLease /\ l.pid = svc /\ l.identity = self

CaptureForBackendStop ==
  /\ LoopIdle /\ self # Unknown
  /\ \A t \in Thread : leases[t] # NoLease =>
        ~(leases[t].pid = svc /\ leases[t].identity = Unknown)
  /\ capture' = {[thread |-> t, lease |-> leases[t]] :
                   t \in {u \in Thread : OwnIncarnation(leases[u])}}
  /\ todo' = capture'
  /\ resetting' = TRUE
  /\ UNCHANGED <<proc, started, svc, self, leases, created, receipt, ended, owner>>

\* MUTANT of RetireOne: a lease already bound to its turn is left to the
\* turn's completion.
RetireBlankOnly(x) ==
  /\ resetting /\ x \in todo
  /\ IF MatchesExactly(leases[x.thread], x.lease) /\ leases[x.thread].turn_id = NoTurn
     THEN /\ leases' = [leases EXCEPT ![x.thread] = NoLease]
          /\ ended' = [ended EXCEPT ![leases[x.thread].lease_id] = "retired"]
     ELSE UNCHANGED <<leases, ended>>
  /\ todo' = todo \ {x}
  /\ UNCHANGED <<proc, started, svc, self, created, receipt, capture, resetting, owner>>

\* One iteration of retire_after_backend_stop: an exact CAS without pruning.
RetireOne(x) ==
  /\ resetting /\ x \in todo
  /\ IF MatchesExactly(leases[x.thread], x.lease)
     THEN /\ leases' = [leases EXCEPT ![x.thread] = NoLease]
          /\ ended' = [ended EXCEPT ![leases[x.thread].lease_id] = "retired"]
     ELSE UNCHANGED <<leases, ended>>
  /\ todo' = todo \ {x}
  /\ UNCHANGED <<proc, started, svc, self, created, receipt, capture, resetting, owner>>

RetireDone ==
  /\ resetting /\ todo = {}
  /\ capture' = {} /\ resetting' = FALSE
  /\ UNCHANGED <<proc, started, svc, self, leases, created, receipt, todo, ended, owner>>

\* Mutant: the abort forgets the loop's cursor.
RetireFailedMidway ==
  /\ resetting /\ todo # {}
  /\ capture' = {} /\ resetting' = FALSE
  /\ UNCHANGED <<proc, started, svc, self, leases, created, receipt, todo, ended, owner>>

\* A failed write aborts the reset task; a later reset captures anew.
RetireFailed ==
  /\ resetting /\ todo # {}
  /\ capture' = {} /\ todo' = {} /\ resetting' = FALSE
  /\ UNCHANGED <<proc, started, svc, self, leases, created, receipt, ended, owner>>

-----------------------------------------------------------------------------
(* Processes (external): the service and unrelated programs.                *)

StartProcess(p) ==
  /\ started < MaxIncarnation /\ proc[p] = 0
  /\ proc' = [proc EXCEPT ![p] = started + 1]
  /\ started' = started + 1

ServiceStart(p) ==
  /\ svc = NoPid
  /\ StartProcess(p)
  /\ svc' = p /\ self' \in {Unknown, started'}
  /\ UNCHANGED <<leases, created, receipt, capture, todo, resetting, ended, owner>>

ForeignStart(p) ==
  /\ StartProcess(p)
  /\ UNCHANGED <<svc, self, leases, created, receipt, capture, todo, resetting, ended, owner>>

ForeignExit(p) ==
  /\ p # svc /\ proc[p] # 0
  /\ proc' = [proc EXCEPT ![p] = 0]
  /\ UNCHANGED <<started, svc, self, leases, created, receipt, capture, todo, resetting, ended, owner>>

\* The service stops or crashes: its memory is gone, the ledger stays.
ServiceExit ==
  /\ svc # NoPid
  /\ proc' = [proc EXCEPT ![svc] = 0]
  /\ svc' = NoPid /\ self' = Unknown
  /\ receipt' = [c \in Client |-> NoReceipt]
  /\ capture' = {} /\ todo' = {} /\ resetting' = FALSE
  /\ UNCHANGED <<started, leases, created, ended, owner>>

-----------------------------------------------------------------------------
StoreStep(R) ==
  \E t \in Thread :
    \/ Load(t, R)
    \/ \E c \in Client :
         \/ AcquireNew(c, t, R) \/ AcquireRefresh(c, t, R) \/ AcquireDenied(c, t, R)
         \/ ReleaseMatchingBlankForHolder(c, t, R)
    \/ \E turn \in Turn : TurnStarted(t, turn, R) \/ TurnCompleted(t, turn, R)
    \/ ThreadClosed(t, R)
    \/ \E h \in Holder : OfflineRelease(t, h, R)

SettleStep(R) ==
  \E c \in Client :
    \/ ReleaseIfMatches(c, R)
    \/ \E turn \in Turn : ActivateTurn(c, turn, R)

ResetStep ==
  \/ CaptureForBackendStop
  \/ \E x \in todo : RetireOne(x)
  \/ RetireDone
  \/ RetireFailed

ProcessStep ==
  \/ \E p \in Pid : ServiceStart(p) \/ ForeignStart(p) \/ ForeignExit(p)
  \/ ServiceExit

Next ==
  \/ \E R \in SUBSET Pid : StoreStep(R) \/ SettleStep(R)
  \/ \E c \in Client : Forget(c)
  \/ ResetStep
  \/ ProcessStep

Spec == Init /\ [][Next]_vars

-----------------------------------------------------------------------------
(* Properties.                                                              *)

TypeOK ==
  /\ proc \in [Pid -> 0..MaxIncarnation]
  /\ started \in 0..MaxIncarnation
  /\ svc \in Pid \cup {NoPid} /\ self \in 0..MaxIncarnation
  /\ leases \in [Thread -> LeaseRecord \cup {NoLease}]
  /\ created \in 0..MaxLease
  /\ receipt \in [Client -> Receipt \cup {NoReceipt}]
  /\ capture \subseteq CapturedLease /\ todo \subseteq capture
  /\ resetting \in BOOLEAN
  /\ ended \in [LeaseId -> Cause]
  /\ owner \in [LeaseId -> 0..MaxIncarnation]

Alive(i) == \E p \in Pid : proc[p] = i

\* A generation that left the ledger never returns, and no two threads ever
\* share one: a stale activation, refresh or CAS cannot resurrect it.
GenerationsNeverReturn ==
  \A t \in Thread : leases[t] # NoLease =>
    /\ leases[t].lease_id <= created
    /\ ended[leases[t].lease_id] = "live"
    /\ \A u \in Thread \ {t} : leases[u] # NoLease =>
         leases[u].lease_id # leases[t].lease_id

\* Pruning evicts a generation only when the process incarnation that last
\* held it is gone, whatever pid reuse and unreadable identities did.
PrunedOnlyAfterOwnerDied ==
  \A g \in LeaseId : ended[g] = "pruned" => ~Alive(owner[g])

\* A request in flight keeps the thread it acquired: its generation is still
\* the ledger's, or ended by an event about that very generation (its turn
\* completed, the thread closed, a backend reset retired it, or its own holder
\* gave the blank up).  No other frontend is ever let in beside it.
InFlightRequestKeepsThread ==
  \A c \in Client : receipt[c] # NoReceipt =>
    LET r == receipt[c]
    IN \/ HeldId(leases[r.thread]) = r.lease.lease_id
       \/ ended[r.lease.lease_id] \in {"completed", "closed", "retired", "no_start"}
       \/ ~r.acquired /\ ended[r.lease.lease_id] = "released"

\* Two requests for different logical holders never both own one thread.
OneFrontendPerThread ==
  \A c, d \in Client :
    /\ receipt[c] # NoReceipt /\ receipt[d] # NoReceipt
    /\ receipt[c].thread = receipt[d].thread
    /\ ended[receipt[c].lease.lease_id] = "live"
    /\ ended[receipt[d].lease.lease_id] = "live"
    => HolderOf[c] = HolderOf[d]

\* Within one generation the logical holder is fixed and the turn is written
\* at most once: no step rebinds an active main turn.
GenerationIsStable ==
  [][\A t \in Thread :
       (leases[t] # NoLease /\ HeldId(leases'[t]) = HeldId(leases[t])) =>
         /\ leases'[t].holder = leases[t].holder
         /\ leases[t].turn_id # NoTurn => leases'[t].turn_id = leases[t].turn_id]_vars

\* The retirement of a backend reset removes only generations it captured
\* before the stop and that this service incarnation holds: foreign and
\* successor generations are preserved.
RetirementIsExact ==
  [][\A g \in LeaseId : (ended[g] # "retired" /\ ended'[g] = "retired") =>
       /\ \E x \in capture : x.lease.lease_id = g
       /\ owner[g] = proc[svc]]_vars

\* When the retirement loop ends, no captured record is left in the ledger to
\* block its thread behind a backend that no longer exists.
RetirementIsComplete ==
  (resetting /\ todo = {}) => \A x \in capture : leases[x.thread] # x.lease

\* The main-turn lease keeps one frontend per thread through races, crashes,
\* pid reuse and backend resets.
MainTurnInvariant ==
  /\ TypeOK
  /\ GenerationsNeverReturn
  /\ PrunedOnlyAfterOwnerDied
  /\ InFlightRequestKeepsThread
  /\ OneFrontendPerThread
  /\ RetirementIsComplete

\* What no step of the lease store does: change the identity of a
\* generation, or retire one that was not captured.
MainTurnSteps ==
  /\ GenerationIsStable
  /\ RetirementIsExact
=============================================================================
