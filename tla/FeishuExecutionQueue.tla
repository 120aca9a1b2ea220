------------------------ MODULE FeishuExecutionQueue ------------------------
(***************************************************************************)
(* The Feishu continuation FIFO: bot/feishu_execution_queue.py (the state  *)
(* owner) and bot/feishu_execution_queue_service.py (admission and drain). *)
(*                                                                         *)
(* A chat binding that is attached to a root thread may queue prompts and  *)
(* /compact commands behind the execution that is running.  The terminal   *)
(* event of that execution is the queue's only wake-up: it drains the      *)
(* queue, claiming one head at a time with a receipt and starting it       *)
(* through the ordinary entry point.  An item is stamped with the epoch    *)
(* and the root of its admission; losing the binding ends the epoch.       *)
(*                                                                         *)
(* Every operation runs on the RuntimeLoop thread, so a drain occupies the *)
(* loop (busy) until it returns.  What can still happen inside a drain is  *)
(* what the entry point itself calls or re-enters: a binding is cleared or *)
(* replaced, queues are invalidated, a message is recalled.                *)
(***************************************************************************)
EXTENDS Naturals, Sequences

CONSTANTS
  Binding,     \* chat bindings
  Root,        \* root threads
  Msg,         \* Feishu message ids
  Compact,     \* those that are /compact commands; the others are prompts
  MaxItems,    \* bound: items ever enqueued
  MaxLife,     \* bound: authority changes per binding
  NoRoot, NoBinding, NoDrain

ASSUME ConstantsAssumption ==
  /\ Compact \subseteq Msg
  /\ MaxItems \in Nat /\ MaxLife \in Nat
  /\ NoRoot \notin Root /\ NoBinding \notin Binding

VARIABLES
  bound,      \* the root each binding is active and attached on, or NoRoot
  inflight,   \* the binding's execution is running or awaiting its turn
  local,      \* roots with an exact Web/fcodex turn not mirrored to Feishu
  epoch,      \* _binding_epoch, 0 before the first use
  qroot,      \* _binding_root
  items,      \* _items
  active,     \* _active_by_binding
  busy,       \* the binding whose drain occupies the loop, or NoBinding
  phase,      \* how far that drain got with its claimed head
  outcome,    \* the outcome it is about to commit
  admitted,   \* items enqueued so far (the item nonce)
  life,       \* history: authority changes of each binding
  sent,       \* history: the upstream mutations, in order
  recalled,   \* history: items recalled before they were sent
  stalled     \* history: bindings whose wake-up is knowingly gone

queueVars == <<epoch, qroot, items, active>>
drainVars == <<busy, phase, outcome>>
vars == <<bound, inflight, local, queueVars, drainVars, admitted, life, sent,
          recalled, stalled>>

Item == [id : 1..MaxItems, epoch : Nat, root : Root, msg : Msg, life : Nat]
Drain == [item : Item, cancel : {"", "binding_invalidation", "recall"}]
Sent == [id : 1..MaxItems, binding : Binding, epoch : Nat, life : Nat,
         root : Root, to : Root \cup {NoRoot}, during : Nat]
Phase == {"idle", "begin", "claimed", "prepared", "primed", "settle"}
Outcome == {"none", "started", "known_no_effect", "blocked", "dropped"}

ASSUME NullsAssumption == NoDrain \notin Drain

Init ==
  /\ bound = [b \in Binding |-> NoRoot]
  /\ inflight = [b \in Binding |-> FALSE]
  /\ local = {}
  /\ epoch = [b \in Binding |-> 0]
  /\ qroot = [b \in Binding |-> NoRoot]
  /\ items = [b \in Binding |-> <<>>]
  /\ active = [b \in Binding |-> NoDrain]
  /\ busy = NoBinding /\ phase = "idle" /\ outcome = "none"
  /\ admitted = 0
  /\ life = [b \in Binding |-> 0]
  /\ sent = <<>> /\ recalled = {} /\ stalled = {}

-----------------------------------------------------------------------------
(* Reads of the queue.                                                      *)

Stale(b, i) == i.epoch # epoch[b] \/ i.root # qroot[b]

\* The queue without its stale heads.
DropStaleHeads(b) ==
  LET current == {k \in DOMAIN items[b] : ~Stale(b, items[b][k])}
      first == CHOOSE k \in current : \A j \in current : k <= j
  IN IF current = {} THEN <<>> ELSE SubSeq(items[b], first, Len(items[b]))

HasCurrentPending(b) == DropStaleHeads(b) # <<>>

HeadIsItem(b, i) == items[b] # <<>> /\ Head(items[b]) = i

HasCurrentDrain(b) ==
  /\ active[b] # NoDrain /\ active[b].cancel = ""
  /\ ~Stale(b, active[b].item)
  /\ HeadIsItem(b, active[b].item)

ContinuityPending(b) ==
  /\ bound[b] # NoRoot
  /\ qroot[b] = bound[b]
  /\ HasCurrentPending(b) \/ HasCurrentDrain(b)

\* Mutant: only a claimed head counts as another binding's continuity.
OtherDrainOnly(b, r) ==
  \E c \in Binding \ {b} : qroot[c] = r /\ HasCurrentDrain(c)

HasOtherBindingContinuity(b, r) ==
  \E c \in Binding \ {b} :
    qroot[c] = r /\ (HasCurrentPending(c) \/ HasCurrentDrain(c))

\* Mutant: the guard only looks at the root the binding is on now.
RootStillBound(b, requireIdle) == bound[b] = active[b].item.root

\* Mutant: a recall does not cancel the receipt.
MatchesDespiteRecall(b, requireIdle) ==
  LET i == active[b].item
  IN /\ active[b].cancel # "binding_invalidation"
     /\ bound[b] = i.root
     /\ requireIdle => ~inflight[b]
     /\ ~Stale(b, i)
     /\ HeadIsItem(b, i)

ClaimedReceiptMatches(b, requireIdle) ==
  LET i == active[b].item
  IN /\ active[b].cancel = ""
     /\ bound[b] = i.root
     /\ requireIdle => ~inflight[b]
     /\ ~Stale(b, i)
     /\ HeadIsItem(b, i)

-----------------------------------------------------------------------------
(* Binding authority.  Every loss of it ends the queue's generation.        *)

InvalidateBindings(S, r) ==
  /\ epoch' = [b \in Binding |-> epoch[b] + IF b \in S THEN 1 ELSE 0]
  /\ qroot' = [b \in Binding |-> IF b \in S THEN r ELSE qroot[b]]
  /\ items' = [b \in Binding |-> IF b \in S THEN <<>> ELSE items[b]]
  /\ active' = [b \in Binding |->
       IF b \in S /\ active[b] # NoDrain
       THEN [active[b] EXCEPT !.cancel = "binding_invalidation"]
       ELSE active[b]]
  /\ stalled' = stalled \ S

\* Attach or rebind b.  Replacing a root retires its execution; attaching may
\* find the thread's turn running.
BindThread(b, r) ==
  /\ bound[b] # r /\ life[b] < MaxLife
  /\ life' = [life EXCEPT ![b] = @ + 1]
  /\ bound' = [bound EXCEPT ![b] = r]
  /\ IF bound[b] = NoRoot
     THEN /\ \E f \in BOOLEAN : inflight' = [inflight EXCEPT ![b] = f]
          /\ UNCHANGED <<queueVars, stalled>>
     ELSE /\ inflight' = [inflight EXCEPT ![b] = FALSE]
          /\ InvalidateBindings({b}, NoRoot)
  /\ UNCHANGED <<local, drainVars, admitted, sent, recalled>>

\* Detach, clear or deactivate b.
UnbindThread(b) ==
  /\ bound[b] # NoRoot /\ life[b] < MaxLife
  /\ life' = [life EXCEPT ![b] = @ + 1]
  /\ bound' = [bound EXCEPT ![b] = NoRoot]
  /\ inflight' = [inflight EXCEPT ![b] = FALSE]
  /\ InvalidateBindings({b}, NoRoot)
  /\ UNCHANGED <<local, drainVars, admitted, sent, recalled>>

\* A deactivated group loses its queue but stays bound to its root.
InvalidateGroupContinuity(b) ==
  /\ life[b] < MaxLife
  /\ life' = [life EXCEPT ![b] = @ + 1]
  /\ InvalidateBindings({b}, NoRoot)
  /\ UNCHANGED <<bound, inflight, local, drainVars, admitted, sent, recalled>>

\* A backend reset invalidates every queue that was ever used.
InvalidateAll ==
  LET S == {b \in Binding : epoch[b] > 0}
  IN /\ S # {} /\ \A b \in S : life[b] < MaxLife
     /\ life' = [b \in Binding |-> life[b] + IF b \in S THEN 1 ELSE 0]
     /\ InvalidateBindings(S, NoRoot)
     /\ UNCHANGED <<bound, inflight, local, drainVars, admitted, sent, recalled>>

-----------------------------------------------------------------------------
(* Upstream turns, as the loop's notification tasks see them.               *)

\* A Web or fcodex turn of this process is active before its Feishu mirror.
LocalTurn(r) ==
  /\ busy = NoBinding /\ r \notin local
  /\ local' = local \cup {r}
  /\ UNCHANGED <<bound, inflight, queueVars, drainVars, admitted, life, sent,
                 recalled, stalled>>

\* turn/started is mirrored into every binding attached to the root.
TurnStarted(r) ==
  /\ busy = NoBinding
  /\ inflight' = [b \in Binding |-> inflight[b] \/ bound[b] = r]
  /\ local' = local \ {r}
  /\ stalled' = {b \in stalled : bound[b] # r}
  /\ UNCHANGED <<bound, queueVars, drainVars, admitted, life, sent, recalled>>

\* The local turn ends and its mirror never arrived: no execution is
\* finalized, so nothing wakes the queue.
LocalTurnLost(r) ==
  /\ busy = NoBinding /\ r \in local
  /\ local' = local \ {r}
  /\ stalled' = stalled \cup
       {b \in Binding : bound[b] = r /\ items[b] # <<>> /\ ~inflight[b]}
  /\ UNCHANGED <<bound, inflight, queueVars, drainVars, admitted, life, sent, recalled>>

\* The binding's execution is finalized: its anchor retires and the same task
\* drains the queue.
Terminal(b) ==
  /\ busy = NoBinding /\ bound[b] # NoRoot /\ inflight[b]
  /\ inflight' = [inflight EXCEPT ![b] = FALSE]
  /\ busy' = b /\ phase' = "begin"
  /\ UNCHANGED <<bound, local, queueVars, outcome, admitted, life, sent, recalled, stalled>>

-----------------------------------------------------------------------------
(* Admission: start_or_enqueue_prompt and start_or_enqueue_compact.         *)

\* What lets a message queue rather than start at once.
MayQueue(b, m) ==
  \/ inflight[b]
  \/ m \notin Compact /\ (ContinuityPending(b) \/ bound[b] \in local)

SynchronizedEpoch(b) ==
  IF qroot[b] = NoRoot THEN IF epoch[b] = 0 THEN 1 ELSE epoch[b]
  ELSE IF qroot[b] # bound[b] THEN epoch[b] + 1 ELSE epoch[b]

Enqueue(b, m) ==
  /\ busy = NoBinding /\ admitted < MaxItems
  /\ bound[b] # NoRoot
  /\ ~HasOtherBindingContinuity(b, bound[b])
  /\ MayQueue(b, m)
  /\ admitted' = admitted + 1
  /\ LET e == SynchronizedEpoch(b)
         item == [id |-> admitted + 1, epoch |-> e, root |-> bound[b], msg |-> m,
                  life |-> life[b]]
         kept == IF qroot[b] \in {NoRoot, bound[b]} THEN items[b] ELSE <<>>
     IN /\ epoch' = [epoch EXCEPT ![b] = e]
        /\ items' = [items EXCEPT ![b] = Append(kept, item)]
  /\ qroot' = [qroot EXCEPT ![b] = bound[b]]
  /\ UNCHANGED <<bound, inflight, local, active, drainVars, life, sent, recalled, stalled>>

\* Nothing to queue behind: the message is started at once.
StartImmediately(b, m) ==
  /\ busy = NoBinding /\ bound[b] # NoRoot
  /\ ~inflight[b]
  /\ \/ m \in Compact
     \/ /\ ~HasOtherBindingContinuity(b, bound[b])
        /\ ~MayQueue(b, m)
  /\ inflight' = [inflight EXCEPT ![b] = TRUE]
  /\ stalled' = stalled \ {b}
  /\ UNCHANGED <<bound, local, queueVars, drainVars, admitted, life, sent, recalled>>

\* The head b's drain has claimed comes from message m.
ClaimedFrom(b, m) == active[b] # NoDrain /\ active[b].item.msg = m /\ items[b] # <<>>

\* Mutant: the claimed head is removed like any other item.
KeepOtherMessages(b, i, m) == i.msg # m

KeptOnRecall(b, i, m) == i.msg # m \/ (ClaimedFrom(b, m) /\ i = active[b].item)

\* The items of s that are in S, in their order (a recursive function, so that
\* it can be reasoned about).
Select(s, S) ==
  LET prefix[k \in 0..Len(s)] ==
        IF k = 0 THEN <<>>
        ELSE IF s[k] \in S THEN Append(prefix[k - 1], s[k]) ELSE prefix[k - 1]
  IN prefix[Len(s)]

Listed(b) == {items[b][k] : k \in DOMAIN items[b]}
AlreadySent(i) == \E k \in DOMAIN sent : sent[k].id = i.id

\* A recalled message leaves every queue; a claimed head is only marked and
\* is settled by its receipt.
RemoveRecalledMessage(m) ==
  /\ \E b \in Binding : \E i \in Listed(b) : i.msg = m
  /\ items' = [b \in Binding |->
       Select(items[b], {i \in Listed(b) : KeptOnRecall(b, i, m)})]
  /\ active' = [b \in Binding |->
       IF ClaimedFrom(b, m) THEN [active[b] EXCEPT !.cancel = "recall"] ELSE active[b]]
  /\ recalled' = recalled \cup
       {i.id : i \in {j \in UNION {Listed(b) : b \in Binding} :
                        j.msg = m /\ ~AlreadySent(j)}}
  /\ stalled' = {b \in stalled : items'[b] # <<>>}
  /\ UNCHANGED <<bound, inflight, local, epoch, qroot, drainVars, admitted, life, sent>>

-----------------------------------------------------------------------------
(* The drain of the binding in busy.                                        *)

Return == busy' = NoBinding /\ phase' = "idle" /\ outcome' = "none"

\* The binding is gone or on another root: the old generation is discarded.
BeginInvalidates(b) ==
  /\ phase = "begin"
  /\ \/ bound[b] = NoRoot /\ InvalidateBindings({b}, NoRoot)
     \/ /\ bound[b] # NoRoot /\ qroot[b] \notin {NoRoot, bound[b]}
        /\ InvalidateBindings({b}, bound[b])
  /\ Return
  /\ UNCHANGED <<bound, inflight, local, admitted, life, sent, recalled>>

Drainable(b) == bound[b] # NoRoot /\ qroot[b] \in {NoRoot, bound[b]}

SynchronizeRoot(b) ==
  /\ qroot' = [qroot EXCEPT ![b] = bound[b]]
  /\ epoch' = [epoch EXCEPT ![b] = IF @ = 0 THEN 1 ELSE @]

BeginNothing(b) ==
  /\ phase = "begin" /\ Drainable(b)
  /\ active[b] # NoDrain \/ inflight[b] \/ ~HasCurrentPending(b)
  /\ SynchronizeRoot(b)
  /\ items' = [items EXCEPT ![b] =
       IF active[b] # NoDrain \/ inflight[b] THEN @ ELSE DropStaleHeads(b)]
  /\ Return
  /\ UNCHANGED <<bound, inflight, local, active, admitted, life, sent, recalled, stalled>>

ClaimHead(b) ==
  /\ phase = "begin" /\ Drainable(b)
  /\ active[b] = NoDrain /\ ~inflight[b] /\ HasCurrentPending(b)
  /\ SynchronizeRoot(b)
  /\ items' = [items EXCEPT ![b] = DropStaleHeads(b)]
  /\ active' = [active EXCEPT ![b] = [item |-> Head(DropStaleHeads(b)), cancel |-> ""]]
  /\ phase' = "claimed"
  /\ stalled' = stalled \ {b}
  /\ UNCHANGED <<bound, inflight, local, busy, outcome, admitted, life, sent, recalled>>

\* The snapshot raised before a receipt existed.
PreclaimFails(b) ==
  /\ phase = "begin" /\ life[b] < MaxLife
  /\ life' = [life EXCEPT ![b] = @ + 1]
  /\ InvalidateBindings({b}, NoRoot)
  /\ Return
  /\ UNCHANGED <<bound, inflight, local, admitted, sent, recalled>>

Settle(o) ==
  /\ phase' = "settle" /\ outcome' = o
  /\ UNCHANGED <<bound, local, queueVars, busy, admitted, life, recalled, stalled>>

\* The receipt no longer holds while the binding is idle, or the preparation
\* of the prompt drops it.
DropHead(b) ==
  /\ phase \in {"claimed", "prepared"}
  /\ \/ ~ClaimedReceiptMatches(b, TRUE)
     \/ phase = "claimed" /\ active[b].item.msg \notin Compact
  /\ Settle("dropped")
  /\ UNCHANGED <<inflight, sent>>

\* The receipt check or the message restore raises an untyped error.
PreflightRaises(b) ==
  /\ phase = "claimed"
  /\ Settle("blocked")
  /\ UNCHANGED <<inflight, sent>>

\* Preparing a prompt raises before any mutation.
PrepareFails(b) ==
  /\ phase = "claimed" /\ active[b].item.msg \notin Compact
  /\ ClaimedReceiptMatches(b, TRUE)
  /\ Settle("known_no_effect")
  /\ UNCHANGED <<inflight, sent>>

Prepare(b) ==
  /\ phase = "claimed"
  /\ ClaimedReceiptMatches(b, TRUE)
  /\ phase' = "prepared"
  /\ UNCHANGED <<bound, inflight, local, queueVars, busy, outcome, admitted, life, sent,
                 recalled, stalled>>

\* Mutant: the entry point's raw disposition is passed through.
StartDenied(b) ==
  /\ phase = "prepared" /\ ClaimedReceiptMatches(b, TRUE)
  /\ Settle("denied")
  /\ UNCHANGED <<inflight, sent>>

\* The entry point refuses the head before it primes an execution anchor.
StartRefused(b) ==
  /\ phase = "prepared" /\ ClaimedReceiptMatches(b, TRUE)
  /\ \E o \in {"known_no_effect", "blocked"} : Settle(o)
  /\ UNCHANGED <<inflight, sent>>

\* The entry point primes the local execution anchor.
Prime(b) ==
  /\ phase = "prepared" /\ ClaimedReceiptMatches(b, TRUE)
  /\ phase' = "primed"
  /\ inflight' = [inflight EXCEPT ![b] = TRUE]
  /\ UNCHANGED <<bound, local, queueVars, busy, outcome, admitted, life, sent, recalled,
                 stalled>>

\* The mutation guard fails: nothing is sent and the anchor is withdrawn, or
\* kept when the operation owner could not be settled.
StaleMutation(b) ==
  /\ phase = "primed" /\ ~ClaimedReceiptMatches(b, FALSE)
  /\ \/ /\ Settle("known_no_effect")
        /\ inflight' = [inflight EXCEPT ![b] = FALSE]
     \/ Settle("blocked") /\ UNCHANGED inflight
  /\ UNCHANGED sent

\* turn/start or thread/compact/start is sent.  It is accepted; or rejected,
\* and the anchor retired; or its outcome is unknown.
Mutate(b) ==
  /\ phase = "primed" /\ ClaimedReceiptMatches(b, FALSE)
  /\ LET i == active[b].item
     IN sent' = Append(sent, [id |-> i.id, binding |-> b, epoch |-> i.epoch,
                              life |-> i.life, root |-> i.root, to |-> bound[b],
                              during |-> life[b]])
  /\ \/ Settle("started") /\ UNCHANGED inflight
     \/ /\ Settle("known_no_effect")
        /\ inflight' = [inflight EXCEPT ![b] = FALSE]
     \/ /\ Settle("blocked")
        /\ \E f \in BOOLEAN : inflight' = [inflight EXCEPT ![b] = f]

\* complete_drain: consume the exact head and decide whether to go on.
CancelledByInvalidation(b) ==
  active[b].cancel = "binding_invalidation" \/ Stale(b, active[b].item)

BlocksContinuation(b) == outcome = "blocked" /\ active[b].cancel # "recall"

\* Mutant: the claimed head stays in the queue.
KeepHead(b) == items[b]

ConsumeHead(b) == IF CancelledByInvalidation(b) THEN items[b] ELSE Tail(items[b])

\* Mutant: a head that was not started ends the drain.
ContinueAfterDropOnly(b) ==
  /\ outcome = "dropped"
  /\ ~CancelledByInvalidation(b)
  /\ ConsumeHead(b) # <<>>

ContinueSameEpoch(b) ==
  /\ outcome # "started" /\ ~BlocksContinuation(b)
  /\ ~CancelledByInvalidation(b)
  /\ ConsumeHead(b) # <<>>

CompleteDrain(b) ==
  /\ phase = "settle"
  /\ CancelledByInvalidation(b) \/ HeadIsItem(b, active[b].item)
  /\ items' = [items EXCEPT ![b] = ConsumeHead(b)]
  /\ active' = [active EXCEPT ![b] = NoDrain]
  /\ IF ContinueSameEpoch(b)
     THEN phase' = "begin" /\ outcome' = "none" /\ UNCHANGED busy
     ELSE Return
  /\ stalled' = IF BlocksContinuation(b) /\ ~inflight[b] /\ ConsumeHead(b) # <<>>
                THEN stalled \cup {b} ELSE stalled
  /\ UNCHANGED <<bound, inflight, local, epoch, qroot, admitted, life, sent, recalled>>

DrainStep ==
  \E b \in Binding : busy = b /\
    \/ BeginInvalidates(b) \/ BeginNothing(b) \/ ClaimHead(b) \/ PreclaimFails(b)
    \/ DropHead(b) \/ PreflightRaises(b) \/ PrepareFails(b) \/ Prepare(b)
    \/ StartRefused(b) \/ Prime(b) \/ StaleMutation(b) \/ Mutate(b)
    \/ CompleteDrain(b)

-----------------------------------------------------------------------------
Next ==
  \/ DrainStep
  \/ InvalidateAll
  \/ \E b \in Binding : UnbindThread(b) \/ InvalidateGroupContinuity(b) \/ Terminal(b)
  \/ \E r \in Root : LocalTurn(r) \/ TurnStarted(r) \/ LocalTurnLost(r)
  \/ \E b \in Binding, r \in Root : BindThread(b, r)
  \/ \E b \in Binding, m \in Msg : Enqueue(b, m) \/ StartImmediately(b, m)
  \/ \E m \in Msg : RemoveRecalledMessage(m)

Spec == Init /\ [][Next]_vars

\* The drain is straight-line code on the loop thread: it keeps stepping.
FairSpec == Spec /\ WF_vars(DrainStep)

-----------------------------------------------------------------------------
TypeOK ==
  /\ bound \in [Binding -> Root \cup {NoRoot}]
  /\ inflight \in [Binding -> BOOLEAN]
  /\ local \subseteq Root
  /\ epoch \in [Binding -> Nat]
  /\ qroot \in [Binding -> Root \cup {NoRoot}]
  /\ items \in [Binding -> Seq(Item)]
  /\ active \in [Binding -> Drain \cup {NoDrain}]
  /\ busy \in Binding \cup {NoBinding} /\ phase \in Phase /\ outcome \in Outcome
  /\ admitted \in 0..MaxItems
  /\ life \in [Binding -> 0..MaxLife]
  /\ sent \in Seq(Sent)
  /\ recalled \subseteq 1..MaxItems
  /\ stalled \subseteq Binding

\* A queued item only reaches Codex in the binding lifecycle that admitted it
\* and on the root that admitted it: no detach, rebind or A -> B -> A, not even
\* one between the claim and the send, lets it follow the binding.
SentOnlyInItsLifecycle ==
  \A k \in DOMAIN sent : sent[k].life = sent[k].during /\ sent[k].root = sent[k].to

\* Items of one binding generation are sent in admission order, each once.
SentInOrder ==
  \A j, k \in DOMAIN sent :
    (j < k /\ sent[j].binding = sent[k].binding /\ sent[j].epoch = sent[k].epoch)
      => sent[j].id < sent[k].id

\* At most one Feishu binding keeps FIFO continuity for one root.
OneBindingPerRoot ==
  \A b, c \in Binding :
    (b # c /\ ContinuityPending(b) /\ ContinuityPending(c)) => bound[b] # bound[c]

\* A message recalled while its item waited, or was claimed but not sent, is
\* never sent.
RecalledNeverSent == \A k \in DOMAIN sent : sent[k].id \notin recalled

\* complete_drain never finds its exact head gone: a claimed head that was not
\* invalidated is still the head of its queue.
ClaimedHeadIsHead ==
  \A b \in Binding : active[b] # NoDrain =>
    CancelledByInvalidation(b) \/ HeadIsItem(b, active[b].item)

\* Waiting items always have a wake-up coming: an execution whose terminal
\* event drains them, a local turn still to be mirrored, or the drain that is
\* running.  The two documented exceptions are recorded in stalled.
NoLostWakeup ==
  \A b \in Binding : items[b] # <<>> =>
    \/ inflight[b] \/ bound[b] \in local \/ busy = b \/ b \in stalled

\* A drain returns the loop: every round consumes its head.
DrainReturns == \A b \in Binding : busy = b ~> busy # b

\* Queued items are sent in order, once, in the lifecycle they were queued
\* in, and never left without a wake-up.
QueueInvariant ==
  /\ TypeOK
  /\ SentOnlyInItsLifecycle
  /\ SentInOrder
  /\ OneBindingPerRoot
  /\ RecalledNeverSent
  /\ ClaimedHeadIsHead
  /\ NoLostWakeup
=============================================================================
