------------------------------- MODULE Bindings -----------------------------
(***************************************************************************)
(* Feishu bindings: which thread a chat is bound to, whether its pushes    *)
(* are attached, and what of it is resident, stored and subscribed         *)
(* (bot/binding_runtime_manager.py with its owner, session, subscription   *)
(* and store collaborators), and the operations that move it: binding and  *)
(* clearing from chats, attach, detach and clear from the local control    *)
(* plane, the thread lifecycle, a destination that is lost, a lost         *)
(* connection and a restart.                                               *)
(*                                                                         *)
(* All of them run on the RuntimeLoop, so an operation is one step; what   *)
(* can go wrong inside one is a choice: a settler that raises, a store     *)
(* that does not write, a rollback that fails, an RPC that fails with or   *)
(* without its effect, a lease that is not released.  An owner loss that   *)
(* began stays reserved for the generation of its binding, and only the    *)
(* same loss may be tried again.  Settings, titles and directories are     *)
(* left out; the main-turn lease that a settlement releases is             *)
(* InteractionLease's subject.                                             *)
(***************************************************************************)
EXTENDS Naturals, FiniteSets

CONSTANTS
  Bindings, Threads, NoThread,
  Shared,   \* bound: threads that Web opens too
  Ending    \* bound: threads that are archived or deleted

BindingConstants == NoThread \notin Threads /\ Shared \subseteq Threads /\ Ending \subseteq Threads

VARIABLES
  serving, conn,  \* the service has started; the app-server connection is usable
  res,        \* resident runtime state of a binding
  disk,       \* its record in chat_bindings.json (no thread: no record)
  torn,       \* bindings whose record a failed rollback left wrong
  subs,       \* thread -> subscribed bindings
  reserved,   \* the owner loss reserved for the binding's generation, or ""
  held,       \* a captured session that is still accepted
  live,       \* threads in use that the app-server delivers to this connection
  leased,     \* threads with a service runtime lease
  web,        \* threads Web has an interest in
  status,     \* thread -> live, archived, deleted
  kept        \* history: threads whose runtime was knowingly kept

bindingsVars == <<serving, conn, res, disk, torn, subs, reserved, held, live, leased, web, status, kept>>
owner == <<res, disk, torn, subs, reserved, held>>
runtime == <<live, leased, kept>>
outside == <<serving, conn, web, status>>

NoRes == [in |-> FALSE, th |-> NoThread, att |-> FALSE, turn |-> FALSE]
Default == [NoRes EXCEPT !.in = TRUE]
NoRecord == [th |-> NoThread, att |-> FALSE]
NoSession == [b |-> NoThread, th |-> NoThread, att |-> FALSE]
Reasons == {"replaced", "cleared", "detached", "deactivated", "terminal"}

StoredOf(r) == [th |-> r.th, att |-> r.att]
Attached(t) == {b \in Bindings : res[b].att /\ res[b].th = t}
Bound(t) == {b \in Bindings : res[b].in /\ res[b].th = t}
Resident == {b \in Bindings : res[b].in}
HasTurn(S) == \E b \in S : res[b].turn

BindingsInit ==
  /\ serving = FALSE /\ conn = FALSE
  /\ res = [b \in Bindings |-> NoRes]
  /\ disk \in [Bindings -> {NoRecord}]
  /\ torn = {} /\ subs = [t \in Threads |-> {}] /\ reserved = [b \in Bindings |-> ""]
  /\ held = NoSession
  /\ live = {} /\ leased = {} /\ web = {} /\ status = [t \in Threads |-> "live"]
  /\ kept = {}

-----------------------------------------------------------------------------
(* The transaction every owner loss goes through.                          *)

(* reserve_owner_loss: a generation accepts only the loss it began.        *)
Settles(S, reason) == \A b \in S : reserved[b] \in {"", reason}

Pin(S, reason) == reserved' = [b \in Bindings |-> IF b \in S THEN reason ELSE reserved[b]]

(* A later binding refuses, or the settler raises: the ones before stay    *)
(* reserved and nothing else changed.                                      *)
SettleFails(S, reason) ==
  /\ \E P \in SUBSET {b \in S : reserved[b] \in {"", reason}} : P # {} /\ Pin(P, reason)
  /\ UNCHANGED <<res, disk, torn, subs, held>>

(* All are settled, a record is not written: those already written are     *)
(* written back, which may fail too.                                       *)
SaveFails(S, reason, record) ==
  /\ Settles(S, reason) /\ Pin(S, reason)
  /\ \E A \in SUBSET S : \E R \in SUBSET (IF Cardinality(S) > 1 THEN A ELSE {}) :
       /\ disk' = [b \in Bindings |-> IF b \in R THEN record[b]
                                      ELSE IF b \in A THEN StoredOf(res[b]) ELSE disk[b]]
       /\ torn' = (torn \ A) \cup R
  /\ UNCHANGED <<res, subs, held>>

(* Mutant: the session handle survives the change of its owner.            *)
AdvanceOwnerOnly(S) == /\ reserved' = [b \in Bindings |-> IF b \in S THEN "" ELSE reserved[b]]
                       /\ held' = held

(* advance_owner and retire_owner: a new generation, old handles are stale.*)
Advance(S) == /\ reserved' = [b \in Bindings |-> IF b \in S THEN "" ELSE reserved[b]]
              /\ held' = IF held.b \in S THEN NoSession ELSE held

(* The registry after the bindings S moved to what r says.                 *)
Registry(S, r) == [t \in Threads |-> (subs[t] \ S) \cup {b \in S : r[b].att /\ r[b].th = t}]

(* The bindings S become what r says, on disk, in memory and as owners.    *)
Commit(S, r) ==
  /\ disk' = [b \in Bindings |-> IF b \in S THEN StoredOf(r[b]) ELSE disk[b]]
  /\ torn' = torn \ S
  /\ res' = [b \in Bindings |-> IF b \in S THEN r[b] ELSE res[b]]
  /\ subs' = Registry(S, r)
  /\ Advance(S)

LastSubscriber(b) == IF res[b].th # NoThread /\ subs[res[b].th] = {b} THEN {res[b].th} ELSE {}

(* thread/unsubscribe and the release of the lease, thread by thread and   *)
(* not for a thread Web needs; whatever fails keeps the lease.             *)
FinishLeft(T, liveNow, leaseNow) ==
  \E D \in SUBSET (T \ web) :
    /\ ~conn => D = {}
    /\ live' = liveNow \ (T \ web)
    /\ leased' = leaseNow \ D
    /\ kept' = (kept \cup T) \cap leased'

(* Only the lease is released.                                             *)
ReleaseOnly(T) ==
  \E D \in SUBSET (T \ web) :
    leased' = leased \ D /\ kept' = (kept \cup T) \cap leased' /\ live' = live \ (T \ web)

-----------------------------------------------------------------------------
(* The service, the connection and the other users of a thread.            *)

(* hydrate_stored_bindings(replace): every record becomes a detached       *)
(* resident binding; if that fails the service does not start, and some    *)
(* records may have been rewritten.                                        *)
Downgraded(S) == [b \in Bindings |-> IF b \in S THEN [disk[b] EXCEPT !.att = FALSE] ELSE disk[b]]

Start ==
  /\ ~serving /\ serving' = TRUE /\ conn' = TRUE
  /\ disk' = Downgraded(Bindings)
  /\ res' = [b \in Bindings |-> IF disk[b].th # NoThread
                                THEN [Default EXCEPT !.th = disk[b].th] ELSE NoRes]
  /\ UNCHANGED <<torn, subs, reserved, held, runtime, web, status>>

StartFails ==
  /\ ~serving /\ \E S \in SUBSET Bindings : disk' = Downgraded(S)
  /\ UNCHANGED <<serving, conn, res, torn, subs, reserved, held, runtime, web, status>>

Crash ==
  /\ serving /\ serving' = FALSE /\ conn' = FALSE
  /\ res' = [b \in Bindings |-> NoRes] /\ subs' = [t \in Threads |-> {}]
  /\ reserved' = [b \in Bindings |-> ""] /\ held' = NoSession /\ torn' = {}
  /\ live' = {} /\ leased' = {} /\ web' = {} /\ kept' = {}
  /\ UNCHANGED <<disk, status>>

(* The connection dies; its callback is queued on the loop.                *)
ConnectionDies ==
  /\ serving /\ conn /\ conn' = FALSE /\ live' = {}
  /\ UNCHANGED <<owner, leased, kept, serving, web, status>>

AttachedThreads == {t \in Threads : Attached(t) # {}}
DetachedRes(S) == [b \in Bindings |-> IF b \in S THEN [res[b] EXCEPT !.att = FALSE] ELSE res[b]]

(* fail_close_service_attached_runtime: thread by thread without asking    *)
(* the app-server, then the leases.                                        *)
FailClose ==
  /\ serving /\ ~conn /\ Settles(UNION {Attached(t) : t \in AttachedThreads}, "detached")
  /\ conn' = TRUE
  /\ LET S == UNION {Attached(t) : t \in AttachedThreads} IN
     Commit(S, [b \in Bindings |-> [DetachedRes(S)[b] EXCEPT !.turn = @ /\ b \notin S]])
  /\ leased' = leased \ (AttachedThreads \ web)
  /\ kept' = (kept \cup AttachedThreads) \cap leased'
  /\ UNCHANGED <<live, serving, web, status>>

(* It fails at the bindings F of one thread: the threads before are        *)
(* detached, no lease is released, and the gate stays closed.              *)
FailCloseFails ==
  /\ serving /\ ~conn
  /\ \E T \in SUBSET AttachedThreads : \E t \in AttachedThreads \ T :
       LET S == UNION {Attached(u) : u \in T} IN
       /\ Settles(S, "detached")
       /\ disk' = [b \in Bindings |-> IF b \in S THEN StoredOf(DetachedRes(S)[b]) ELSE disk[b]]
       /\ torn' = torn \ S
       /\ res' = DetachedRes(S)
       /\ subs' = Registry(S, DetachedRes(S))
       /\ held' = IF held.b \in S THEN NoSession ELSE held
       /\ \E P \in SUBSET {b \in Attached(t) : reserved[b] \in {"", "detached"}} :
            reserved' = [b \in Bindings |-> IF b \in S THEN ""
                                            ELSE IF b \in P THEN "detached" ELSE reserved[b]]
       /\ kept' = kept \cup T
  /\ UNCHANGED <<live, leased, outside>>

(* Web takes and gives up its interest in a thread; the last one out       *)
(* unsubscribes (bot/web_runtime, seen from here).                         *)
WebOpens(t) ==
  /\ serving /\ conn /\ t \in Shared \ web /\ status[t] = "live"
  /\ web' = web \cup {t} /\ live' = live \cup {t} /\ leased' = leased \cup {t}
  /\ UNCHANGED <<owner, kept, serving, conn, status>>

WebCloses(t) ==
  /\ serving /\ t \in web /\ web' = web \ {t}
  /\ IF subs[t] = {} THEN live' = live \ {t} /\ leased' = leased \ {t} /\ kept' = kept \ {t}
                     ELSE UNCHANGED runtime
  /\ UNCHANGED <<owner, serving, conn, status>>

-----------------------------------------------------------------------------
(* From the chats.                                                         *)

(* resolve_session: a chat without a binding gets the default one.         *)
Resolve(b) ==
  /\ serving /\ ~res[b].in
  /\ res' = [res EXCEPT ![b] = Default]
  /\ UNCHANGED <<disk, torn, subs, reserved, held, runtime, outside>>

(* Some callback captures the session of b.                                *)
Capture(b) ==
  /\ serving /\ res[b].in /\ held = NoSession
  /\ held' = [b |-> b, th |-> res[b].th, att |-> res[b].att]
  /\ UNCHANGED <<res, disk, torn, subs, reserved, runtime, outside>>

(* bind_thread: create, resume, reattach or attach.  thread/resume first   *)
(* (live and leased), the binding then, the old thread last.  An active    *)
(* turn found by attaching is observed.                                    *)
BoundRes(b, t, turn) == [Default EXCEPT !.th = t, !.att = TRUE, !.turn = turn]

MayBind(b, t) ==
  IF res[b].th = t THEN reserved[b] = ""
  ELSE reserved[b] \in {"", "replaced"} /\ ~res[b].turn

Bind(b, t) ==
  /\ serving /\ conn /\ res[b].in /\ status[t] = "live" /\ MayBind(b, t)
  /\ \E turn \in IF res[b].th # t THEN {FALSE} ELSE IF res[b].att THEN {res[b].turn} ELSE BOOLEAN :
       Commit({b}, [c \in Bindings |-> BoundRes(b, t, turn)])
  /\ FinishLeft(IF res[b].th # t THEN LastSubscriber(b) ELSE {}, live \cup {t}, leased \cup {t})
  /\ UNCHANGED outside

(* The resume is refused or its outcome unknown, or its local commit fails *)
(* and is compensated or left for recovery.                                *)
BindFails(b, t) ==
  /\ serving /\ res[b].in /\ status[t] = "live"
  /\ \/ res[b].th # t /\ ~res[b].turn /\ reserved[b] \in {"", "replaced"} /\ Pin({b}, "replaced")
     \/ UNCHANGED reserved
  /\ leased' \in IF conn THEN {leased, leased \cup {t}} ELSE {leased}
  /\ kept' = kept \cup (leased' \ leased)
  /\ UNCHANGED <<res, disk, torn, subs, held, live, outside>>

(* An execution starts on an attached binding and ends under the session   *)
(* it captured.                                                            *)
Prime(b) ==
  /\ serving /\ res[b].att /\ ~res[b].turn
  /\ res' = [res EXCEPT ![b].turn = TRUE]
  /\ held' = [b |-> b, th |-> res[b].th, att |-> TRUE]
  /\ UNCHANGED <<disk, torn, subs, reserved, runtime, outside>>

RetireHeld ==
  /\ serving /\ held # NoSession /\ res[held.b].turn
  /\ res' = [res EXCEPT ![held.b].turn = FALSE]
  /\ UNCHANGED <<disk, torn, subs, reserved, held, runtime, outside>>

TurnEnds(b) ==
  /\ serving /\ res[b].turn
  /\ res' = [res EXCEPT ![b].turn = FALSE]
  /\ UNCHANGED <<disk, torn, subs, reserved, held, runtime, outside>>

(* save_stored_binding, persist_session_locked.                            *)
PersistSession(b) ==
  /\ serving /\ res[b].in
  /\ disk' = [disk EXCEPT ![b] = StoredOf(res[b])] /\ torn' = torn \ {b}
  /\ UNCHANGED <<res, subs, reserved, held, runtime, outside>>

(* clear_thread_binding: the binding stays, without a thread.              *)
ClearThread(b) ==
  /\ serving /\ res[b].in /\ reserved[b] \in {"", "cleared"}
  /\ Commit({b}, [c \in Bindings |-> Default])
  /\ FinishLeft(LastSubscriber(b), live, leased)
  /\ UNCHANGED outside

ClearThreadFails(b) ==
  /\ serving /\ res[b].in
  /\ \/ res[b].th # NoThread /\ SettleFails({b}, "cleared")
     \/ SaveFails({b}, "cleared", [c \in Bindings |-> NoRecord])
  /\ UNCHANGED <<runtime, outside>>

-----------------------------------------------------------------------------
(* From the local control plane.                                           *)

(* attach_thread and attach_service: the detached bindings of one thread   *)
(* or of all, one after the other; those that fail are not in S.  O are    *)
(* the threads with an active turn to observe.                             *)
DetachedOn(t) == {b \in Bound(t) : ~res[b].att /\ reserved[b] = ""}

AttachMany(S) ==
  /\ serving /\ conn /\ S # {}
  /\ \E O \in SUBSET {res[b].th : b \in S} :
       Commit(S, [b \in Bindings |-> BoundRes(b, res[b].th, res[b].turn \/ res[b].th \in O)])
  /\ live' = live \cup {res[b].th : b \in S} /\ leased' = leased \cup {res[b].th : b \in S}
  /\ kept' = kept \ {res[b].th : b \in S}
  /\ UNCHANGED outside

AttachThread(t) == status[t] = "live" /\ \E S \in SUBSET DetachedOn(t) : AttachMany(S)

AttachService ==
  \E S \in SUBSET UNION {DetachedOn(t) : t \in {u \in Threads : status[u] = "live"}} :
    /\ \E b, c \in S : res[b].th # res[c].th
    /\ AttachMany(S)

LastAttached(b) == IF Attached(res[b].th) = {b} THEN {res[b].th} ELSE {}

(* detach_binding: the binding first, the app-server after it.             *)
DetachBinding(b) ==
  /\ serving /\ res[b].att /\ ~res[b].turn /\ reserved[b] \in {"", "detached"}
  /\ Commit({b}, DetachedRes({b}))
  /\ FinishLeft(LastAttached(b), live, leased)
  /\ UNCHANGED outside

DetachBindingFails(b) ==
  /\ serving /\ res[b].att /\ ~res[b].turn
  /\ SettleFails({b}, "detached") \/ SaveFails({b}, "detached", [c \in Bindings |-> NoRecord])
  /\ UNCHANGED <<runtime, outside>>

(* detach_thread: settle, ask the app-server, commit.                      *)
MayDetachThread(t) == serving /\ Attached(t) # {} /\ ~HasTurn(Attached(t))

DetachThread(t) ==
  /\ MayDetachThread(t) /\ (conn \/ t \in web) /\ Settles(Attached(t), "detached")
  /\ Commit(Attached(t), DetachedRes(Attached(t)))
  /\ live' = live \ ({t} \ web)
  /\ \E D \in SUBSET ({t} \ web) : leased' = leased \ D /\ kept' = (kept \cup {t}) \cap leased'
  /\ UNCHANGED outside

DetachThreadSettleFails(t) ==
  /\ MayDetachThread(t) /\ SettleFails(Attached(t), "detached")
  /\ UNCHANGED <<runtime, outside>>

DetachThreadRpcFails(t) ==
  /\ MayDetachThread(t) /\ t \notin web /\ Settles(Attached(t), "detached")
  /\ Pin(Attached(t), "detached")
  /\ live' \in {live, live \ {t}}
  /\ UNCHANGED <<res, disk, torn, subs, held, leased, kept, outside>>

DetachThreadSaveFails(t) ==
  /\ MayDetachThread(t) /\ (conn \/ t \in web)
  /\ SaveFails(Attached(t), "detached", [b \in Bindings |-> [th |-> t, att |-> FALSE]])
  /\ live' = live \ ({t} \ web)
  /\ UNCHANGED <<leased, kept, outside>>

(* deactivate_bindings_with_receipts: the bindings S go.                   *)
Removed == [b \in Bindings |-> NoRes]

(* The threads whose last subscribers went; one that another record still  *)
(* names keeps its runtime.                                                *)
LeftBy(S) == {t \in Threads : subs[t] # {} /\ subs[t] \subseteq S}
Finishable(S) == {t \in LeftBy(S) : Bound(t) \subseteq S}

FinishRemoved(S) ==
  \E D \in SUBSET (Finishable(S) \ web) :
    /\ ~conn => D = {}
    /\ live' = live \ (LeftBy(S) \ web)
    /\ leased' = leased \ D
    /\ kept' = (kept \cup LeftBy(S)) \cap leased'

Deactivates(S, reason) == Settles(S, reason) /\ Commit(S, Removed)

DeactivateFails(S, reason) ==
  \/ SettleFails({b \in S : res[b].th # NoThread}, reason)
  \/ SaveFails(S, reason, [b \in Bindings |-> NoRecord])

(* clear_one and the deactivation of a sender, which does not look for a   *)
(* running turn.                                                           *)
ClearOne(b) ==
  /\ serving /\ res[b].in /\ ~res[b].turn /\ Deactivates({b}, "deactivated")
  /\ FinishRemoved({b}) /\ UNCHANGED outside

DeactivateSender(b) ==
  /\ serving /\ res[b].in /\ Deactivates({b}, "deactivated")
  /\ FinishRemoved({b}) /\ UNCHANGED outside

ClearAll ==
  /\ serving /\ Resident # {} /\ ~HasTurn(Resident) /\ Deactivates(Resident, "deactivated")
  /\ FinishRemoved(Resident) /\ UNCHANGED outside

ClearFails(S) ==
  /\ serving /\ DeactivateFails(S, "deactivated")
  /\ UNCHANGED <<runtime, outside>>

(* clear_stale_bindings: every binding of a thread that is gone.           *)
Stale == {b \in Resident : res[b].th # NoThread /\ status[res[b].th] = "deleted"}

ClearStale ==
  /\ serving /\ conn /\ Stale # {} /\ ~HasTurn(Stale) /\ Deactivates(Stale, "deactivated")
  /\ ReleaseOnly({res[b].th : b \in Stale})
  /\ UNCHANGED outside

(* clear_archived_thread_bindings.                                         *)
ClearArchived(t) ==
  /\ serving /\ conn /\ status[t] = "archived" /\ Bound(t) # {} /\ ~HasTurn(Bound(t))
  /\ Deactivates(Bound(t), "deactivated")
  /\ IF subs[t] # {} THEN FinishRemoved(Bound(t)) ELSE ReleaseOnly({t})
  /\ UNCHANGED outside

-----------------------------------------------------------------------------
(* The lifecycle of a thread: the app-server first, the bindings after it. *)

MayEnd(t, to) ==
  /\ serving /\ conn /\ t \in Ending
  /\ status[t] \in IF to = "archived" THEN {"live"} ELSE {"live", "archived"}
  /\ ~HasTurn(Bound(t))

EndThread(t, to) ==
  /\ MayEnd(t, to) /\ status' = [status EXCEPT ![t] = to]
  /\ Deactivates(Bound(t), "terminal")
  /\ live' = live \ {t}
  /\ \E D \in SUBSET ({t} \ web) :
       leased' = leased \ D /\ kept' = (kept \cup {t}) \cap leased'
  /\ UNCHANGED <<serving, conn, web>>

EndThreadCleanupFails(t, to) ==
  /\ MayEnd(t, to) /\ Bound(t) # {} /\ status' = [status EXCEPT ![t] = to]
  /\ DeactivateFails(Bound(t), "terminal") \/ (~Settles(Bound(t), "terminal") /\ UNCHANGED owner)
  /\ live' = live \ {t} /\ kept' = kept \cup (leased \cap {t})
  /\ UNCHANGED <<leased, serving, conn, web>>

(* The outcome is unknown and nothing is cleaned up.                       *)
EndThreadUnknown(t, to) ==
  /\ MayEnd(t, to) /\ status' = [status EXCEPT ![t] = to]
  /\ live' = live \ {t} /\ kept' = kept \cup (leased \cap {t})
  /\ UNCHANGED <<owner, leased, serving, conn, web>>

Unarchive(t) ==
  /\ serving /\ conn /\ status[t] = "archived" /\ t \notin leased /\ Bound(t) = {}
  /\ status' = [status EXCEPT ![t] = "live"]
  /\ UNCHANGED <<owner, runtime, serving, conn, web>>

-----------------------------------------------------------------------------
(* A destination that no longer exists: its durable proof is applied by a  *)
(* worker, again and again until it is settled, to what is resident then.  *)
ReconcileLoss(b) ==
  /\ serving
  /\ LET S == {b} \cap Resident IN Deactivates(S, "deactivated") /\ FinishRemoved(S)
  /\ UNCHANGED outside

BindingsNext ==
  \/ Start \/ StartFails \/ Crash \/ ConnectionDies \/ FailClose \/ FailCloseFails
  \/ \E b \in Bindings :
       \/ Resolve(b) \/ Capture(b) \/ Prime(b) \/ TurnEnds(b) \/ PersistSession(b)
       \/ ClearThread(b) \/ ClearThreadFails(b) \/ DetachBinding(b) \/ DetachBindingFails(b)
       \/ ClearOne(b) \/ DeactivateSender(b) \/ ReconcileLoss(b)
       \/ \E t \in Threads : Bind(b, t) \/ BindFails(b, t)
  \/ RetireHeld \/ AttachService \/ ClearAll \/ ClearStale
  \/ \E S \in {Resident, Stale} \cup {{b} : b \in Resident} : ClearFails(S)
  \/ \E t \in Threads :
       \/ WebOpens(t) \/ WebCloses(t) \/ AttachThread(t) \/ DetachThread(t)
       \/ DetachThreadSettleFails(t) \/ DetachThreadRpcFails(t) \/ DetachThreadSaveFails(t) \/ ClearArchived(t)
       \/ Unarchive(t)
       \/ \E to \in {"archived", "deleted"} :
            EndThread(t, to) \/ EndThreadCleanupFails(t, to) \/ EndThreadUnknown(t, to)

BindingsSpec == BindingsInit /\ [][BindingsNext]_bindingsVars

-----------------------------------------------------------------------------
BindingsTypeOK ==
  /\ serving \in BOOLEAN /\ conn \in BOOLEAN
  /\ res \in [Bindings -> [in : BOOLEAN, th : Threads \cup {NoThread},
                           att : BOOLEAN, turn : BOOLEAN]]
  /\ disk \in [Bindings -> [th : Threads \cup {NoThread}, att : BOOLEAN]]
  /\ torn \subseteq Bindings /\ subs \in [Threads -> SUBSET Bindings]
  /\ reserved \in [Bindings -> Reasons \cup {""}]
  /\ held \in [b : Bindings \cup {NoThread}, th : Threads \cup {NoThread}, att : BOOLEAN]
  /\ live \subseteq Threads /\ leased \subseteq Threads /\ web \subseteq Threads
  /\ status \in [Threads -> {"live", "archived", "deleted"}]
  /\ kept \subseteq Threads

\* The registry lists exactly the bindings that are attached to a thread:
\* events go to them and to nobody else.
SubscribersAreAttached == \A t \in Threads : subs[t] = Attached(t)

\* A restart would find what the service believes, except where a rollback
\* was reported as failed.
DiskMatches == serving => \A b \in Bindings \ torn : disk[b] = StoredOf(res[b])

\* A session handle that is still accepted means the thread and the
\* attachment it was captured with: not another one, and not the same one
\* left and entered again in between.
HeldIsExact ==
  held # NoSession => /\ res[held.b].in /\ res[held.b].th = held.th /\ res[held.b].att = held.att

\* An attached binding gets its events: its thread is subscribed and leased,
\* unless a detach of it has begun and only a detach may follow.
AttachedIsCovered ==
  \A b \in Bindings :
    res[b].att /\ conn /\ status[res[b].th] = "live" /\ reserved[b] # "detached"
      => res[b].th \in live \cap leased

\* A reserved owner loss can still be carried out: its subject exists, and a
\* terminal one is about a thread that has ended.
PinnedCanRetry ==
  \A b \in Bindings :
    /\ reserved[b] # "" => res[b].in
    /\ reserved[b] = "detached" => res[b].att
    /\ reserved[b] = "terminal" => status[res[b].th] # "live"

\* A service runtime lease without a Feishu subscriber or a Web interest is
\* one that a failure, a lifecycle outcome or another record kept.
LeaseHasReason == \A t \in leased : subs[t] # {} \/ t \in web \/ t \in kept

\* Bindings stay consistent through every partial failure: the subscription
\* registry is exactly the attached bindings, the store agrees unless a
\* rollback was reported as failed, an accepted session handle is the one
\* captured, an attached binding's thread is subscribed and leased, a
\* reserved owner loss can be retried, and no runtime lease is lost track of.
BindingsInvariant ==
  /\ BindingsTypeOK /\ SubscribersAreAttached /\ DiskMatches /\ HeldIsExact
  /\ AttachedIsCovered /\ PinnedCanRetry /\ LeaseHasReason
=============================================================================
