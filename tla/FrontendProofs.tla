--------------------------- MODULE FrontendProofs ---------------------------
(***************************************************************************)
(* Proofs about two clients of the service.                                *)
(*                                                                         *)
(* The Feishu continuation FIFO, for every set of bindings, roots and      *)
(* messages and every bound: queued items are sent in order, once, in the  *)
(* binding lifecycle that admitted them and never after a recall, a        *)
(* claimed head is consumed by its own receipt, and a queue that waits     *)
(* always has a wake-up coming.                                            *)
(*                                                                         *)
(* The fcodex participants, for every set of participants, connections     *)
(* and threads and every bound: a runtime source is backed by a holder,    *)
(* no holder is forgotten, what the app-server subscribed for a live       *)
(* connection is covered, and stale timers and late answers do no harm.    *)
(***************************************************************************)
EXTENDS FeishuExecutionQueue, FcodexParticipants, SequenceTheorems,
        FiniteSetTheorems, WellFoundedInduction, TLAPS

-----------------------------------------------------------------------------
(* The inductive invariant.                                                 *)

\* A queue's root is the root its binding is on; only a binding with a root
\* has an epoch, and only a queue with a root has items.
QueuesHaveARoot ==
  \A b \in Binding : /\ qroot[b] \in {NoRoot, bound[b]}
                     /\ qroot[b] # NoRoot => epoch[b] > 0
                     /\ items[b] # <<>> => qroot[b] # NoRoot

\* Losing the binding empties its queue at once: what is listed belongs to the
\* current generation and lifecycle of its binding.
ListedAreCurrent ==
  \A b \in Binding : \A i \in Listed(b) :
    ~Stale(b, i) /\ i.life = life[b] /\ i.id <= admitted

InOrder(s) == \A j, k \in 1..Len(s) : j < k => s[j].id < s[k].id

ListedInOrder == \A b \in Binding : InOrder(items[b])

ListedOnce ==
  \A b, c \in Binding : b # c => \A i \in Listed(b), j \in Listed(c) : i.id # j.id

\* HasOtherBindingContinuity seen as a relation of the queues.
OneQueuePerRoot ==
  \A b, c \in Binding : b # c /\ items[b] # <<>> /\ items[c] # <<>> => bound[b] # bound[c]

Claimed == {"claimed", "prepared", "primed", "settle"}

\* One drain at a time, and only it has a claimed head; its head is the head
\* of the queue until the queue is invalidated, which empties it.  From Prime
\* until a started head is consumed the execution anchor is there, unless the
\* queue was invalidated.
DrainHoldsHead ==
  /\ busy = NoBinding <=> phase = "idle"
  /\ \A b \in Binding : active[b] # NoDrain <=> busy = b /\ phase \in Claimed
  /\ \A b \in Binding : active[b] # NoDrain =>
       IF active[b].cancel = "binding_invalidation" THEN items[b] = <<>>
       ELSE /\ HeadIsItem(b, active[b].item)
            /\ phase = "primed" \/ (phase = "settle" /\ outcome = "started") => inflight[b]

\* The head that was sent and waits to be consumed.
SentHead(b, i) == phase = "settle" /\ active[b] # NoDrain /\ active[b].item = i

\* What was sent in a generation precedes what is listed of it.
SentPrecedesListed ==
  \A k \in DOMAIN sent :
    /\ sent[k].id <= admitted
    /\ \A b \in Binding : sent[k].binding = b =>
         /\ sent[k].epoch <= epoch[b]
         /\ sent[k].epoch = epoch[b] => \A i \in Listed(b) :
              sent[k].id < i.id \/ (SentHead(b, i) /\ sent[k].id = i.id)

\* Of the recalled items only a claimed head is still listed, and its receipt
\* is cancelled.
RecalledAreGone ==
  /\ \A n \in recalled : n <= admitted
  /\ \A b \in Binding : \A i \in Listed(b) : i.id \in recalled =>
       active[b] # NoDrain /\ active[b].item = i /\ active[b].cancel = "recall"

QueueInd ==
  /\ TypeOK
  /\ QueuesHaveARoot
  /\ ListedAreCurrent
  /\ ListedInOrder
  /\ ListedOnce
  /\ OneQueuePerRoot
  /\ DrainHoldsHead
  /\ SentPrecedesListed
  /\ RecalledAreGone
  /\ SentOnlyInItsLifecycle
  /\ SentInOrder
  /\ RecalledNeverSent
  /\ NoLostWakeup

-----------------------------------------------------------------------------
(* Selecting from a sequence.                                               *)

LEMMA SmallestOf ==
  ASSUME NEW T, T \subseteq Nat, T # {}
  PROVE  \E m \in T : \A k \in T : m <= k
<1>1. \E m \in T : \A k \in T : <<k, m>> \notin OpToRel(<, Nat)
  BY NatLessThanWellFounded, WFMin
<1>2. PICK m \in T : \A k \in T : <<k, m>> \notin OpToRel(<, Nat)
  BY <1>1
<1>3. ASSUME NEW k \in T PROVE m <= k
  <2>1. ~(k < m)
    BY <1>2, <1>3 DEF OpToRel
  <2> QED BY <2>1
<1> QED BY <1>3

\* The prefixes of s with only the items of S, up to m.
IsPrefixes(f, s, S, m) ==
  f = [k \in 0..m |-> IF k = 0 THEN <<>>
                      ELSE IF s[k] \in S THEN Append(f[k - 1], s[k]) ELSE f[k - 1]]

LEMMA PrefixesExist ==
  ASSUME NEW s, NEW S, NEW n \in Nat
  PROVE  \E f : IsPrefixes(f, s, S, n)
<1> DEFINE Missing == {m \in Nat : ~\E f : IsPrefixes(f, s, S, m)}
<1> SUFFICES ASSUME n \in Missing PROVE FALSE
  OBVIOUS
<1>1. PICK m \in Missing : \A k \in Missing : m <= k
  BY SmallestOf
<1>2. CASE m = 0
  <2> DEFINE f == [k \in 0..0 |-> <<>>]
  <2>1. IsPrefixes(f, s, S, 0)
    BY DEF IsPrefixes
  <2> QED BY <1>1, <1>2, <2>1
<1>3. CASE m # 0
  <2>1. m - 1 \in Nat /\ m - 1 \notin Missing
    BY <1>1, <1>3
  <2>2. PICK f : IsPrefixes(f, s, S, m - 1)
    BY <2>1
  <2> DEFINE g == [k \in 0..m |->
                     IF k = m THEN IF s[m] \in S THEN Append(f[m - 1], s[m]) ELSE f[m - 1]
                     ELSE f[k]]
             h == [k \in 0..m |-> IF k = 0 THEN <<>>
                     ELSE IF s[k] \in S THEN Append(g[k - 1], s[k]) ELSE g[k - 1]]
  <2>3. ASSUME NEW k \in 0..m PROVE g[k] = h[k]
    <3>1. CASE k = m
      BY <1>3, <2>1, <3>1
    <3>2. CASE k # m /\ k = 0
      BY <2>2, <3>2 DEF IsPrefixes
    <3>3. CASE k # m /\ k # 0
      <4>1. k \in 0..(m - 1) /\ k - 1 \in 0..m /\ k - 1 # m
        BY <3>3, <2>1
      <4>2. f[k] = IF s[k] \in S THEN Append(f[k - 1], s[k]) ELSE f[k - 1]
        BY <2>2, <3>3, <4>1 DEF IsPrefixes
      <4> QED BY <3>3, <4>1, <4>2
    <3> QED BY <3>1, <3>2, <3>3
  <2>4. g = h
    BY <2>3
  <2>5. IsPrefixes(g, s, S, m)
    BY <2>4 DEF IsPrefixes
  <2> QED BY <1>1, <2>5
<1> QED BY <1>2, <1>3

\* The values of a sequence.
Values(s) == {s[k] : k \in 1..Len(s)}

LEMMA AppendInOrder ==
  ASSUME NEW s \in Seq(Item), InOrder(s), NEW i \in Item, \A j \in Values(s) : j.id < i.id
  PROVE  /\ Append(s, i) \in Seq(Item)
         /\ Values(Append(s, i)) = Values(s) \cup {i}
         /\ InOrder(Append(s, i))
<1> DEFINE t == Append(s, i)
<1>1. /\ t \in Seq(Item) /\ Len(t) = Len(s) + 1 /\ Len(s) \in Nat
      /\ \A k \in 1..Len(s) : t[k] = s[k]
      /\ t[Len(s) + 1] = i
  BY AppendProperties, LenProperties
<1> HIDE DEF t
<1>2. 1..Len(t) = 1..Len(s) \cup {Len(s) + 1}
  BY <1>1
<1>3. Values(t) = Values(s) \cup {i}
  BY <1>1, <1>2 DEF Values
<1>4. InOrder(t)
  <2> SUFFICES ASSUME NEW j \in 1..Len(t), NEW k \in 1..Len(t), j < k
               PROVE  t[j].id < t[k].id
    BY DEF InOrder
  <2>1. j \in 1..Len(s)
    BY <1>1
  <2>2. CASE k \in 1..Len(s)
    BY <1>1, <2>1, <2>2 DEF InOrder
  <2>3. CASE k = Len(s) + 1
    BY <1>1, <2>1, <2>3 DEF Values
  <2> QED BY <1>2, <2>2, <2>3
<1> QED BY <1>1, <1>3, <1>4 DEF t

\* Selecting keeps exactly the items of S, in their order.
LEMMA SelectKeeps ==
  ASSUME NEW s \in Seq(Item), InOrder(s), NEW S
  PROVE  /\ Select(s, S) \in Seq(Item)
         /\ Values(Select(s, S)) = Values(s) \cap S
         /\ InOrder(Select(s, S))
<1> DEFINE n == Len(s)
           F == CHOOSE f : IsPrefixes(f, s, S, n)
           Good(k) == /\ F[k] \in Seq(Item) /\ InOrder(F[k])
                      /\ Values(F[k]) = {s[j] : j \in 1..k} \cap S
           Bad == {k \in 0..n : ~Good(k)}
<1>1. n \in Nat /\ \A k \in 1..n : s[k] \in Item
  BY LenProperties, ElementOfSeq
<1>2. IsPrefixes(F, s, S, n)
  BY <1>1, PrefixesExist
<1>3. Select(s, S) = F[n]
  BY DEF Select, IsPrefixes
<1>4. \A k \in 0..n : F[k] = IF k = 0 THEN <<>>
                              ELSE IF s[k] \in S THEN Append(F[k - 1], s[k]) ELSE F[k - 1]
  BY <1>2 DEF IsPrefixes
<1> HIDE DEF F, n
<1>5. Good(0)
  <2>1. F[0] = <<>>
    BY <1>1, <1>4
  <2>2. <<>> \in Seq(Item) /\ InOrder(<<>>) /\ Values(<<>>) = {}
    BY EmptySeq DEF InOrder, Values
  <2> QED BY <2>1, <2>2
<1>6. ASSUME NEW k \in 1..n, Good(k - 1) PROVE Good(k)
  <2>1. /\ k \in 0..n /\ k # 0 /\ s[k] \in Item
        /\ {s[j] : j \in 1..k} = {s[j] : j \in 1..(k - 1)} \cup {s[k]}
    BY <1>1
  <2>2. CASE s[k] \notin S
    BY <1>4, <1>6, <2>1, <2>2
  <2>3. CASE s[k] \in S
    <3>1. \A j \in 1..(k - 1) : s[j].id < s[k].id
      BY <1>1 DEF InOrder, n
    <3>2. \A j \in Values(F[k - 1]) : j.id < s[k].id
      BY <1>6, <3>1
    <3>3. F[k] = Append(F[k - 1], s[k])
      BY <1>4, <2>1, <2>3
    <3> QED BY <1>6, <2>1, <2>3, <3>2, <3>3, AppendInOrder
  <2> QED BY <2>2, <2>3
<1>7. \A k \in 0..n : Good(k)
  <2> SUFFICES ASSUME Bad # {} PROVE FALSE
    OBVIOUS
  <2> HIDE DEF Good
  <2>0. Bad \subseteq Nat
    BY <1>1
  <2>1. PICK m \in Bad : \A k \in Bad : m <= k
    <3> HIDE DEF Bad
    <3> QED BY <2>0, SmallestOf
  <2>2. m # 0
    BY <1>5, <2>1
  <2>3. m \in 1..n /\ m - 1 \in 0..n /\ m - 1 \notin Bad
    BY <1>1, <2>1, <2>2
  <2> QED BY <1>6, <2>1, <2>3
<1>8. Good(n)
  <2>1. n \in 0..n
    BY <1>1
  <2> HIDE DEF Good
  <2> QED BY <1>7, <2>1
<1>9. Values(s) = {s[j] : j \in 1..n}
  BY DEF Values, n
<1> QED BY <1>3, <1>8, <1>9

\* The first item of an ordered sequence precedes all others.
LEMMA HeadFirst ==
  ASSUME NEW s \in Seq(Item), s # <<>>, InOrder(s)
  PROVE  /\ Head(s) \in Values(s) /\ Tail(s) \in Seq(Item) /\ InOrder(Tail(s))
         /\ Values(Tail(s)) \subseteq Values(s)
         /\ \A i \in Values(Tail(s)) : Head(s).id < i.id
         /\ \A i \in Values(s) : i = Head(s) \/ Head(s).id < i.id
<1>1. /\ Len(s) \in Nat /\ Len(s) >= 1 /\ Head(s) = s[1]
      /\ Tail(s) \in Seq(Item) /\ Len(Tail(s)) = Len(s) - 1
      /\ \A i \in 1..Len(Tail(s)) : Tail(s)[i] = s[i + 1]
  BY HeadTailProperties, LenProperties, EmptySeq
<1> DEFINE t == Tail(s)
<1>2. \A i \in 1..Len(t) : i + 1 \in 1..Len(s) /\ t[i] = s[i + 1]
  BY <1>1
<1>3. \A i \in 1..Len(s) : i # 1 => s[1].id < s[i].id
  BY <1>1 DEF InOrder
<1>4. InOrder(t)
  <2> SUFFICES ASSUME NEW j \in 1..Len(t), NEW k \in 1..Len(t), j < k
               PROVE  t[j].id < t[k].id
    BY DEF InOrder
  <2>1. j + 1 < k + 1
    BY <1>1
  <2> QED BY <1>2, <2>1 DEF InOrder
<1>5. \A i \in Values(t) : i \in Values(s) /\ s[1].id < i.id
  <2> SUFFICES ASSUME NEW k \in 1..Len(t) PROVE t[k] \in Values(s) /\ s[1].id < t[k].id
    BY DEF Values
  <2>1. k + 1 # 1 /\ k + 1 \in 1..Len(s) /\ t[k] = s[k + 1]
    BY <1>1, <1>2
  <2> QED BY <1>3, <2>1 DEF Values
<1>6. s[1] \in Values(s) /\ \A i \in Values(s) : i = s[1] \/ s[1].id < i.id
  BY <1>1, <1>3 DEF Values
<1> QED BY <1>1, <1>4, <1>5, <1>6

LEMMA ValuesNonEmpty ==
  ASSUME NEW s \in Seq(Item)
  PROVE  (s = <<>> <=> Values(s) = {}) /\ Values(s) \subseteq Item
BY EmptySeq, LenProperties, ElementOfSeq DEF Values

\* A kept first item stays the first.
LEMMA SelectKeepsHead ==
  ASSUME NEW s \in Seq(Item), InOrder(s), NEW S, s # <<>>, Head(s) \in S
  PROVE  Select(s, S) # <<>> /\ Head(Select(s, S)) = Head(s)
<1> DEFINE t == Select(s, S)
<1>1. t \in Seq(Item) /\ Values(t) = Values(s) \cap S /\ InOrder(t)
  BY SelectKeeps
<1> HIDE DEF t
<1>2. Head(s) \in Values(s) /\ \A i \in Values(s) : i = Head(s) \/ Head(s).id < i.id
  BY HeadFirst
<1>3. Head(s) \in Values(t)
  BY <1>1, <1>2
<1>4. t # <<>>
  BY <1>1, <1>3, ValuesNonEmpty
<1>5. Head(t) \in Values(t) /\ \A i \in Values(t) : i = Head(t) \/ Head(t).id < i.id
  BY <1>1, <1>4, HeadFirst
<1>6. Head(t).id \in Nat /\ Head(s).id \in Nat
  <2>1. Head(t) \in Item /\ Head(s) \in Item
    BY <1>1, <1>2, <1>5, ValuesNonEmpty
  <2> QED BY <2>1, ConstantsAssumption DEF Item
<1>7. Head(t) = Head(s)
  BY <1>1, <1>2, <1>3, <1>5, <1>6
<1> QED BY <1>4, <1>7 DEF t

-----------------------------------------------------------------------------
(* Queues.                                                                  *)

LEMMA Queues ==
  TypeOK => \A b \in Binding : /\ items[b] \in Seq(Item) /\ Listed(b) = Values(items[b])
                               /\ items[b] = <<>> <=> Listed(b) = {}
                               /\ Listed(b) \subseteq Item
<1> SUFFICES ASSUME TypeOK, NEW b \in Binding
             PROVE  /\ items[b] \in Seq(Item) /\ Listed(b) = Values(items[b])
                    /\ items[b] = <<>> <=> Listed(b) = {}
                    /\ Listed(b) \subseteq Item
  OBVIOUS
<1>1. items[b] \in Seq(Item)
  BY DEF TypeOK
<1>2. Listed(b) = Values(items[b])
  BY <1>1, LenProperties DEF Listed, Values
<1> QED BY <1>1, <1>2, ValuesNonEmpty

LEMMA QueuesNext ==
  TypeOK' => \A b \in Binding : /\ items'[b] \in Seq(Item) /\ Listed(b)' = Values(items'[b])
                                /\ items'[b] = <<>> <=> Listed(b)' = {}
                                /\ Listed(b)' \subseteq Item
<1>1. TypeOK' => (\A b \in Binding : /\ items[b] \in Seq(Item) /\ Listed(b) = Values(items[b])
                                     /\ items[b] = <<>> <=> Listed(b) = {}
                                     /\ Listed(b) \subseteq Item)'
  BY Queues, PTL
<1> QED BY <1>1 DEF Values

\* Nothing that is listed is stale, so no head is ever dropped as one.
LEMMA NoStaleHeads ==
  ASSUME QueueInd, NEW b \in Binding
  PROVE  DropStaleHeads(b) = items[b] /\ (HasCurrentPending(b) <=> items[b] # <<>>)
<1> DEFINE s == items[b]
           current == {k \in DOMAIN s : ~Stale(b, s[k])}
<1>1. s \in Seq(Item) /\ Len(s) \in Nat /\ DOMAIN s = 1..Len(s)
  BY LenProperties DEF QueueInd, TypeOK
<1>2. current = 1..Len(s)
  BY <1>1 DEF QueueInd, ListedAreCurrent, Listed
<1>3. CASE s = <<>>
  <2>1. current = {}
    BY <1>1, <1>2, <1>3, EmptySeq
  <2> QED BY <1>3, <2>1 DEF DropStaleHeads, HasCurrentPending
<1>4. CASE s # <<>>
  <2>1. Len(s) >= 1
    BY <1>1, <1>4, EmptySeq
  <2>2. current # {} /\ (CHOOSE k \in current : \A j \in current : k <= j) = 1
    <3>1. 1 \in current /\ \A j \in current : 1 <= j
      BY <1>1, <1>2, <2>1
    <3>2. \A k \in current : (\A j \in current : k <= j) => k = 1
      BY <1>1, <1>2, <2>1
    <3> QED BY <3>1, <3>2
  <2>3. SubSeq(s, 1, Len(s)) = s
    BY <1>1, SubSeqFull
  <2> QED BY <1>4, <2>2, <2>3 DEF DropStaleHeads, HasCurrentPending
<1> QED BY <1>3, <1>4

\* What is known while a drain holds a claimed head.
LEMMA DrainContext ==
  ASSUME QueueInd, NEW b \in Binding, busy = b
  PROVE  /\ phase # "idle" /\ \A c \in Binding : c # b => active[c] = NoDrain
         /\ phase \in Claimed <=> active[b] # NoDrain
         /\ active[b] # NoDrain => active[b] \in Drain /\ active[b].item \in Item
BY ConstantsAssumption DEF QueueInd, TypeOK, DrainHoldsHead, Drain

-----------------------------------------------------------------------------
(* Losing bindings.                                                         *)

\* Ending the generation of the bindings of S, with or without returning the
\* drain that found one of them lost, keeps everything.
LEMMA InvalidatedInd ==
  ASSUME QueueInd, TypeOK', NEW S, S \subseteq Binding, InvalidateBindings(S, NoRoot),
         UNCHANGED <<local, admitted, sent, recalled>>,
         \A b \in Binding \ S :
           bound'[b] = bound[b] /\ life'[b] = life[b] /\ inflight'[b] = inflight[b],
         UNCHANGED drainVars \/ (phase = "begin" /\ busy \in S /\ Return)
  PROVE  QueueInd'
<1> USE DEF QueueInd
<1>1. ASSUME NEW b \in S
      PROVE  /\ b \in Binding /\ items'[b] = <<>> /\ qroot'[b] = NoRoot
             /\ epoch'[b] = epoch[b] + 1 /\ b \notin stalled'
             /\ Listed(b)' = {}
  <2>1. /\ b \in Binding /\ items'[b] = <<>> /\ qroot'[b] = NoRoot
        /\ epoch'[b] = epoch[b] + 1 /\ b \notin stalled'
    BY DEF InvalidateBindings
  <2> QED BY <2>1, QueuesNext
<1>2. ASSUME NEW b \in S
      PROVE  /\ active'[b] # NoDrain <=> active[b] # NoDrain
             /\ active[b] # NoDrain => active'[b].cancel = "binding_invalidation"
  <2>1. b \in Binding /\ active[b] \in Drain \cup {NoDrain}
    BY <1>1 DEF TypeOK
  <2>2. CASE active[b] = NoDrain
    BY <2>1, <2>2 DEF InvalidateBindings
  <2>3. CASE active[b] # NoDrain
    <3>1. active'[b] = [active[b] EXCEPT !.cancel = "binding_invalidation"]
      BY <2>1, <2>3 DEF InvalidateBindings
    <3>2. active[b] \in Drain
      BY <2>1, <2>3
    <3>3. active'[b] \in Drain /\ active'[b].cancel = "binding_invalidation"
      BY <3>1, <3>2 DEF Drain
    <3> QED BY <2>3, <3>3, NullsAssumption
  <2> QED BY <2>2, <2>3
<1>3. ASSUME NEW b \in Binding, b \notin S
      PROVE  /\ items'[b] = items[b] /\ qroot'[b] = qroot[b] /\ epoch'[b] = epoch[b]
             /\ active'[b] = active[b] /\ bound'[b] = bound[b] /\ life'[b] = life[b]
             /\ inflight'[b] = inflight[b] /\ (b \in stalled => b \in stalled')
             /\ Listed(b)' = Listed(b)
  <2>1. /\ items'[b] = items[b] /\ qroot'[b] = qroot[b] /\ epoch'[b] = epoch[b]
        /\ active'[b] = active[b] /\ (b \in stalled => b \in stalled')
    <3>1. epoch[b] \in Nat
      BY DEF TypeOK
    <3> QED BY <1>3, <3>1 DEF InvalidateBindings
  <2> QED BY <1>3, <2>1 DEF Listed
<1>4. QueuesHaveARoot'
  BY <1>1, <1>3 DEF QueuesHaveARoot
<1>5. ListedAreCurrent'
  <2> SUFFICES ASSUME NEW b \in Binding, NEW i \in Listed(b)'
               PROVE  ~Stale(b, i)' /\ i.life = life'[b] /\ i.id <= admitted'
    BY DEF ListedAreCurrent
  <2>1. b \notin S /\ i \in Listed(b)
    BY <1>1, <1>3
  <2>2. ~Stale(b, i) /\ i.life = life[b] /\ i.id <= admitted
    BY <2>1 DEF ListedAreCurrent
  <2> QED BY <1>3, <2>1, <2>2 DEF Stale
<1>6. ListedInOrder'
  <2>1. InOrder(<<>>)
    BY DEF InOrder
  <2>2. \A b \in Binding : items'[b] \in {<<>>, items[b]}
    BY <1>1, <1>3
  <2>3. \A b \in Binding : InOrder(items[b])
    BY DEF ListedInOrder
  <2>4. \A b \in Binding : InOrder(items'[b])
    BY <2>1, <2>2, <2>3
  <2> QED BY <2>4 DEF ListedInOrder, InOrder
<1>7. ListedOnce'
  BY <1>1, <1>3 DEF ListedOnce
<1>8. OneQueuePerRoot'
  BY <1>1, <1>3 DEF OneQueuePerRoot
<1>9. CASE UNCHANGED drainVars
  <2> USE <1>9 DEF drainVars
  <2>1. DrainHoldsHead'
    <3>1. busy' = NoBinding <=> phase' = "idle"
      BY DEF DrainHoldsHead
    <3>2. ASSUME NEW b \in Binding
          PROVE  /\ active'[b] # NoDrain <=> busy' = b /\ phase' \in Claimed
                 /\ active'[b] # NoDrain =>
                      IF active'[b].cancel = "binding_invalidation" THEN items'[b] = <<>>
                      ELSE /\ HeadIsItem(b, active[b].item)'
                           /\ phase' = "primed" \/ (phase' = "settle" /\ outcome' = "started")
                              => inflight'[b]
      <4>1. CASE b \in S
        BY <1>1, <1>2, <4>1 DEF DrainHoldsHead
      <4>2. CASE b \notin S
        BY <1>3, <4>2 DEF DrainHoldsHead, HeadIsItem
      <4> QED BY <4>1, <4>2
    <3> QED BY <3>1, <3>2 DEF DrainHoldsHead
  <2>2. SentPrecedesListed'
    <3> SUFFICES ASSUME NEW k \in DOMAIN sent
                 PROVE  /\ sent[k].id <= admitted
                        /\ \A b \in Binding : sent[k].binding = b =>
                             /\ sent[k].epoch <= epoch'[b]
                             /\ sent[k].epoch = epoch'[b] => \A i \in Listed(b)' :
                                  sent[k].id < i.id \/ (SentHead(b, i)' /\ sent[k].id = i.id)
      BY DEF SentPrecedesListed
    <3>1. sent[k] \in Sent
      BY ElementOfSeq, LenProperties DEF TypeOK
    <3>2. sent[k].id <= admitted
      BY DEF SentPrecedesListed
    <3>3. ASSUME NEW b \in Binding, sent[k].binding = b
          PROVE  /\ sent[k].epoch <= epoch'[b]
                 /\ sent[k].epoch = epoch'[b] => \A i \in Listed(b)' :
                      sent[k].id < i.id \/ (SentHead(b, i)' /\ sent[k].id = i.id)
      <4>1. sent[k].epoch <= epoch[b] /\ sent[k].epoch \in Nat /\ epoch[b] \in Nat
        BY <3>1, <3>3 DEF SentPrecedesListed, TypeOK, Sent
      <4>2. CASE b \in S
        BY <1>1, <4>1, <4>2
      <4>3. CASE b \notin S
        BY <1>3, <3>3, <4>3 DEF SentPrecedesListed, SentHead
      <4> QED BY <4>2, <4>3
    <3> QED BY <3>2, <3>3
  <2>3. RecalledAreGone'
    BY <1>1, <1>3 DEF RecalledAreGone
  <2>4. NoLostWakeup'
    BY <1>1, <1>3 DEF NoLostWakeup
  <2> QED BY <1>4, <1>5, <1>6, <1>7, <1>8, <2>1, <2>2, <2>3, <2>4
          DEF SentOnlyInItsLifecycle, SentInOrder, RecalledNeverSent
<1>10. CASE phase = "begin" /\ busy \in S /\ Return
  <2>1. \A b \in Binding : active[b] = NoDrain /\ active'[b] = NoDrain
    BY <1>2, <1>3, <1>10 DEF DrainHoldsHead, Claimed
  <2>2. DrainHoldsHead'
    BY <1>10, <2>1, ConstantsAssumption DEF DrainHoldsHead, Return, Claimed
  <2>3. SentPrecedesListed'
    <3> SUFFICES ASSUME NEW k \in DOMAIN sent
                 PROVE  /\ sent[k].id <= admitted
                        /\ \A b \in Binding : sent[k].binding = b =>
                             /\ sent[k].epoch <= epoch'[b]
                             /\ sent[k].epoch = epoch'[b] => \A i \in Listed(b)' :
                                  sent[k].id < i.id \/ (SentHead(b, i)' /\ sent[k].id = i.id)
      BY DEF SentPrecedesListed
    <3>1. sent[k] \in Sent
      BY ElementOfSeq, LenProperties DEF TypeOK
    <3>2. sent[k].id <= admitted
      BY DEF SentPrecedesListed
    <3>3. ASSUME NEW b \in Binding, sent[k].binding = b
          PROVE  /\ sent[k].epoch <= epoch'[b]
                 /\ sent[k].epoch = epoch'[b] => \A i \in Listed(b)' : sent[k].id < i.id
      <4>1. sent[k].epoch <= epoch[b] /\ sent[k].epoch \in Nat /\ epoch[b] \in Nat
        BY <3>1, <3>3 DEF SentPrecedesListed, TypeOK, Sent
      <4>2. CASE b \in S
        BY <1>1, <4>1, <4>2
      <4>3. CASE b \notin S
        BY <1>3, <1>10, <3>3, <4>3 DEF SentPrecedesListed, SentHead
      <4> QED BY <4>2, <4>3
    <3> QED BY <3>2, <3>3
  <2>4. RecalledAreGone'
    BY <1>1, <1>3 DEF RecalledAreGone
  <2>5. NoLostWakeup'
    BY <1>1, <1>3, <1>10 DEF NoLostWakeup
  <2> QED BY <1>4, <1>5, <1>6, <1>7, <1>8, <2>2, <2>3, <2>4, <2>5
          DEF SentOnlyInItsLifecycle, SentInOrder, RecalledNeverSent
<1> QED BY <1>9, <1>10

-----------------------------------------------------------------------------
(* Types.                                                                   *)

LEMMA InvalidatedTypes ==
  ASSUME TypeOK, NEW S, NEW r \in Root \cup {NoRoot}, InvalidateBindings(S, r)
  PROVE  /\ epoch' \in [Binding -> Nat] /\ qroot' \in [Binding -> Root \cup {NoRoot}]
         /\ items' \in [Binding -> Seq(Item)] /\ active' \in [Binding -> Drain \cup {NoDrain}]
         /\ stalled' \subseteq Binding
<1>1. epoch' \in [Binding -> Nat]
  <2>1. \A b \in Binding : epoch[b] \in Nat
    BY DEF TypeOK
  <2> QED BY <2>1 DEF InvalidateBindings
<1>2. qroot' \in [Binding -> Root \cup {NoRoot}] /\ stalled' \subseteq Binding
  BY DEF InvalidateBindings, TypeOK
<1>3. items' \in [Binding -> Seq(Item)]
  <2>1. <<>> \in Seq(Item) /\ \A b \in Binding : items[b] \in Seq(Item)
    BY EmptySeq DEF TypeOK
  <2> QED BY <2>1 DEF InvalidateBindings
<1>4. active' \in [Binding -> Drain \cup {NoDrain}]
  <2> DEFINE new(b) == IF b \in S /\ active[b] # NoDrain
                       THEN [active[b] EXCEPT !.cancel = "binding_invalidation"] ELSE active[b]
  <2>1. ASSUME NEW b \in Binding PROVE new(b) \in Drain \cup {NoDrain}
    <3>1. active[b] \in Drain \cup {NoDrain}
      BY DEF TypeOK
    <3> QED BY <3>1 DEF Drain
  <2>2. active' = [b \in Binding |-> new(b)]
    BY DEF InvalidateBindings
  <2> HIDE DEF new
  <2> QED BY <2>1, <2>2
<1> QED BY <1>1, <1>2, <1>3, <1>4

LEMMA LostTypes ==
  ASSUME QueueInd, NEW b \in Binding,
         \/ UnbindThread(b) \/ InvalidateGroupContinuity(b) \/ InvalidateAll
         \/ PreclaimFails(b) \/ BeginInvalidates(b)
         \/ \E r \in Root : BindThread(b, r)
  PROVE  TypeOK'
<1> USE ConstantsAssumption DEF QueueInd
<1>1. \/ \E S \in SUBSET Binding, r \in Root \cup {NoRoot} : InvalidateBindings(S, r)
      \/ UNCHANGED <<queueVars, stalled>>
  BY DEF UnbindThread, InvalidateGroupContinuity, InvalidateAll, PreclaimFails, BeginInvalidates,
         BindThread, TypeOK
<1>2. /\ epoch' \in [Binding -> Nat] /\ qroot' \in [Binding -> Root \cup {NoRoot}]
      /\ items' \in [Binding -> Seq(Item)] /\ active' \in [Binding -> Drain \cup {NoDrain}]
      /\ stalled' \subseteq Binding
  BY <1>1, InvalidatedTypes DEF TypeOK, queueVars
<1>3. bound' \in [Binding -> Root \cup {NoRoot}]
  BY DEF UnbindThread, InvalidateGroupContinuity, InvalidateAll, PreclaimFails, BeginInvalidates,
         BindThread, TypeOK
<1>4. life' \in [Binding -> 0..MaxLife]
  <2>1. \A c \in Binding : life[c] \in 0..MaxLife /\ (life[c] < MaxLife => life[c] + 1 \in 0..MaxLife)
    BY DEF TypeOK
  <2>2. CASE InvalidateAll
    BY <2>1, <2>2 DEF InvalidateAll
  <2>3. CASE ~InvalidateAll
    BY <2>1, <2>3 DEF UnbindThread, InvalidateGroupContinuity, PreclaimFails,
           BeginInvalidates, BindThread, TypeOK
  <2> QED BY <2>2, <2>3
<1>5. /\ busy' \in Binding \cup {NoBinding} /\ phase' \in Phase /\ outcome' \in Outcome
      /\ UNCHANGED <<local, admitted, sent, recalled>>
  BY DEF UnbindThread, InvalidateGroupContinuity, InvalidateAll, PreclaimFails, BeginInvalidates,
         BindThread, TypeOK, drainVars, Return, Phase, Outcome
<1>6. inflight' \in [Binding -> BOOLEAN]
  <2>1. inflight' = inflight \/ \E f \in BOOLEAN : inflight' = [inflight EXCEPT ![b] = f]
    BY Zenon DEF UnbindThread, InvalidateGroupContinuity, InvalidateAll, PreclaimFails,
           BeginInvalidates, BindThread
  <2>2. inflight \in [Binding -> BOOLEAN]
    BY DEF TypeOK
  <2> QED BY <2>1, <2>2
<1> QED BY <1>2, <1>3, <1>4, <1>5, <1>6 DEF TypeOK

\* Steps that leave the queues and what was sent alone.
LEMMA QuietTypes ==
  ASSUME TypeOK, UNCHANGED <<bound, queueVars, admitted, life, sent, recalled>>,
         inflight' \in [Binding -> BOOLEAN], local' \subseteq Root, stalled' \subseteq Binding,
         busy' \in Binding \cup {NoBinding}, phase' \in Phase, outcome' \in Outcome
  PROVE  TypeOK'
BY DEF TypeOK, queueVars

-----------------------------------------------------------------------------
(* Steps that keep what is listed.                                          *)

\* A queue's root may be recorded, and its first epoch begun, while it is
\* empty.
Synchronized(b) ==
  \/ qroot'[b] = qroot[b] /\ epoch'[b] = epoch[b]
  \/ /\ items[b] = <<>> /\ bound[b] # NoRoot /\ qroot'[b] = bound[b]
     /\ epoch'[b] > 0 /\ epoch'[b] >= epoch[b]

LEMMA ListsKept ==
  ASSUME QueueInd, TypeOK', UNCHANGED <<bound, items, life, admitted, sent, recalled>>,
         \A b \in Binding : Synchronized(b),
         DrainHoldsHead', NoLostWakeup',
         \A b \in Binding : \A i \in Listed(b) : SentHead(b, i) => SentHead(b, i)',
         \A b \in Binding : active[b] # NoDrain /\ active[b].cancel = "recall" =>
                             active'[b] = active[b]
  PROVE  QueueInd'
<1> USE DEF QueueInd
<1>1. \A b \in Binding : Listed(b)' = Listed(b)
  BY DEF Listed
<1>2. \A b \in Binding : items[b] = <<>> <=> Listed(b) = {}
  BY Queues
<1>3. QueuesHaveARoot'
  BY DEF QueuesHaveARoot, Synchronized
<1>4. ListedAreCurrent'
  <2> SUFFICES ASSUME NEW b \in Binding, NEW i \in Listed(b)
               PROVE  ~Stale(b, i)' /\ i.life = life[b] /\ i.id <= admitted
    BY <1>1 DEF ListedAreCurrent
  <2>1. ~Stale(b, i) /\ i.life = life[b] /\ i.id <= admitted
    BY DEF ListedAreCurrent
  <2>2. qroot'[b] = qroot[b] /\ epoch'[b] = epoch[b]
    BY <1>2 DEF Synchronized
  <2> QED BY <2>1, <2>2 DEF Stale
<1>5. ListedInOrder' /\ ListedOnce' /\ OneQueuePerRoot'
  BY <1>1 DEF ListedInOrder, InOrder, ListedOnce, OneQueuePerRoot
<1>6. SentPrecedesListed'
  <2> SUFFICES ASSUME NEW k \in DOMAIN sent, NEW b \in Binding, sent[k].binding = b
               PROVE  /\ sent[k].epoch <= epoch'[b]
                      /\ sent[k].epoch = epoch'[b] => \A i \in Listed(b) :
                           sent[k].id < i.id \/ (SentHead(b, i)' /\ sent[k].id = i.id)
    BY <1>1 DEF SentPrecedesListed
  <2>1. sent[k] \in Sent
    BY ElementOfSeq, LenProperties DEF TypeOK
  <2>2. /\ sent[k].epoch <= epoch[b] /\ sent[k].epoch \in Nat
        /\ epoch[b] \in Nat /\ epoch'[b] \in Nat
    BY <2>1 DEF SentPrecedesListed, TypeOK, Sent
  <2>3. sent[k].epoch <= epoch'[b]
    BY <2>2 DEF Synchronized
  <2>4. ASSUME sent[k].epoch = epoch'[b], NEW i \in Listed(b)
        PROVE  sent[k].id < i.id \/ (SentHead(b, i)' /\ sent[k].id = i.id)
    <3>1. epoch'[b] = epoch[b]
      BY <1>2, <2>4 DEF Synchronized
    <3>2. sent[k].id < i.id \/ (SentHead(b, i) /\ sent[k].id = i.id)
      BY <2>4, <3>1 DEF SentPrecedesListed
    <3> QED BY <3>2
  <2> QED BY <2>3, <2>4
<1>7. RecalledAreGone'
  BY <1>1 DEF RecalledAreGone
<1> QED BY <1>3, <1>4, <1>5, <1>6, <1>7
        DEF SentOnlyInItsLifecycle, SentInOrder, RecalledNeverSent

-----------------------------------------------------------------------------
(* Action by action.                                                        *)

LEMMA LostInd ==
  ASSUME QueueInd, NEW b \in Binding,
         \/ UnbindThread(b) \/ InvalidateGroupContinuity(b) \/ InvalidateAll
         \/ busy = b /\ (PreclaimFails(b) \/ BeginInvalidates(b))
  PROVE  QueueInd'
<1>1. TypeOK'
  BY LostTypes
<1>2. \A c \in Binding : life[c] \in Nat
  BY ConstantsAssumption DEF QueueInd, TypeOK
<1>3. CASE UnbindThread(b) \/ InvalidateGroupContinuity(b)
  <2>1. /\ {b} \subseteq Binding /\ InvalidateBindings({b}, NoRoot)
        /\ UNCHANGED <<local, admitted, sent, recalled>> /\ UNCHANGED drainVars
        /\ \A c \in Binding \ {b} :
             bound'[c] = bound[c] /\ life'[c] = life[c] /\ inflight'[c] = inflight[c]
    BY <1>3 DEF UnbindThread, InvalidateGroupContinuity, QueueInd, TypeOK
  <2> QED BY <1>1, <2>1, InvalidatedInd
<1>4. CASE InvalidateAll
  <2> DEFINE S == {c \in Binding : epoch[c] > 0}
  <2>1. /\ S \subseteq Binding /\ InvalidateBindings(S, NoRoot)
        /\ UNCHANGED <<local, admitted, sent, recalled>> /\ UNCHANGED drainVars
        /\ UNCHANGED <<bound, inflight>>
        /\ life' = [c \in Binding |-> life[c] + IF c \in S THEN 1 ELSE 0]
    BY <1>4 DEF InvalidateAll
  <2> HIDE DEF S
  <2>2. \A c \in Binding \ S : life'[c] = life[c]
    BY <1>2, <2>1
  <2> QED BY <1>1, <2>1, <2>2, InvalidatedInd
<1>5. CASE busy = b /\ (PreclaimFails(b) \/ BeginInvalidates(b))
  <2>1. /\ {b} \subseteq Binding /\ InvalidateBindings({b}, NoRoot)
        /\ UNCHANGED <<local, admitted, sent, recalled>>
        /\ phase = "begin" /\ busy \in {b} /\ Return
    BY <1>5 DEF PreclaimFails, BeginInvalidates, QueueInd, QueuesHaveARoot
  <2>2. \A c \in Binding \ {b} :
          bound'[c] = bound[c] /\ life'[c] = life[c] /\ inflight'[c] = inflight[c]
    BY <1>5 DEF PreclaimFails, BeginInvalidates, QueueInd, TypeOK
  <2> QED BY <1>1, <2>1, <2>2, InvalidatedInd
<1> QED BY <1>3, <1>4, <1>5

\* Rebinding ends the old generation; attaching finds an empty queue.
LEMMA BindThreadInd ==
  ASSUME QueueInd, NEW b \in Binding, NEW r \in Root, BindThread(b, r)
  PROVE  QueueInd'
<1>1. TypeOK'
  BY LostTypes
<1>2. /\ \A c \in Binding \ {b} :
           bound'[c] = bound[c] /\ life'[c] = life[c] /\ inflight'[c] = inflight[c]
      /\ UNCHANGED <<local, admitted, sent, recalled>> /\ UNCHANGED drainVars
  BY DEF BindThread, QueueInd, TypeOK
<1>3. CASE bound[b] # NoRoot
  <2>1. InvalidateBindings({b}, NoRoot)
    BY <1>3 DEF BindThread
  <2> QED BY <1>1, <1>2, <2>1, InvalidatedInd
<1>4. CASE bound[b] = NoRoot
  <2> USE DEF QueueInd
  <2>1. UNCHANGED <<queueVars, stalled>>
    BY <1>4 DEF BindThread
  <2>2. items[b] = <<>> /\ Listed(b) = {} /\ qroot[b] = NoRoot
    BY <1>4, Queues DEF QueuesHaveARoot
  <2>3. \A c \in Binding : Listed(c)' = Listed(c)
    BY <2>1 DEF Listed, queueVars
  <2> USE <1>2, <2>1, <2>2, <2>3 DEF queueVars, drainVars
  <2>4. QueuesHaveARoot' /\ ListedInOrder' /\ ListedOnce' /\ OneQueuePerRoot'
    BY DEF QueuesHaveARoot, ListedInOrder, InOrder, ListedOnce, OneQueuePerRoot
  <2>5. ListedAreCurrent'
    BY DEF ListedAreCurrent, Stale
  <2>6. DrainHoldsHead'
    <3>1. \A c \in Binding : active[c] # NoDrain /\ active[c].cancel # "binding_invalidation"
                              => c # b
      BY DEF DrainHoldsHead, HeadIsItem
    <3> QED BY <3>1 DEF DrainHoldsHead, HeadIsItem
  <2>7. SentPrecedesListed' /\ RecalledAreGone'
    BY DEF SentPrecedesListed, SentHead, RecalledAreGone
  <2>8. NoLostWakeup'
    BY DEF NoLostWakeup
  <2> QED BY <1>1, <2>4, <2>5, <2>6, <2>7, <2>8
          DEF SentOnlyInItsLifecycle, SentInOrder, RecalledNeverSent
<1> QED BY <1>3, <1>4

\* Upstream turns, between drains.
LEMMA TurnsInd ==
  ASSUME QueueInd, busy = NoBinding,
         \/ \E r \in Root : LocalTurn(r) \/ TurnStarted(r) \/ LocalTurnLost(r)
         \/ \E b \in Binding, m \in Msg : StartImmediately(b, m)
         \/ \E b \in Binding : Terminal(b)
  PROVE  QueueInd'
<1> USE DEF QueueInd
<1>1. UNCHANGED <<bound, queueVars, outcome, admitted, life, sent, recalled>>
  BY DEF LocalTurn, TurnStarted, LocalTurnLost, StartImmediately, Terminal, drainVars
<1>2. inflight' \in [Binding -> BOOLEAN]
  <2>1. inflight \in [Binding -> BOOLEAN]
    BY DEF TypeOK
  <2> QED BY <2>1, Zenon DEF LocalTurn, TurnStarted, LocalTurnLost, StartImmediately, Terminal
<1>3. local' \subseteq Root /\ stalled' \subseteq Binding
  BY DEF LocalTurn, TurnStarted, LocalTurnLost, StartImmediately, Terminal, TypeOK
<1>4. \/ UNCHANGED <<busy, phase>>
      \/ \E b \in Binding : Terminal(b) /\ busy' = b /\ phase' = "begin"
  BY DEF LocalTurn, TurnStarted, LocalTurnLost, StartImmediately, Terminal, drainVars
<1>5. TypeOK'
  BY <1>1, <1>2, <1>3, <1>4, QuietTypes DEF TypeOK, Phase
<1>6. \A b \in Binding : active[b] = NoDrain
  BY ConstantsAssumption DEF DrainHoldsHead
<1>7. DrainHoldsHead'
  BY <1>1, <1>4, <1>6, ConstantsAssumption DEF DrainHoldsHead, Claimed, queueVars
<1>8. NoLostWakeup'
  <2> SUFFICES ASSUME NEW c \in Binding, items[c] # <<>>
               PROVE  inflight'[c] \/ bound[c] \in local' \/ busy' = c \/ c \in stalled'
    BY <1>1 DEF NoLostWakeup, queueVars
  <2>1. inflight[c] \/ bound[c] \in local \/ c \in stalled
    BY ConstantsAssumption DEF NoLostWakeup
  <2>2. inflight \in [Binding -> BOOLEAN]
    BY DEF TypeOK
  <2>3. ASSUME NEW r \in Root, LocalTurn(r) \/ TurnStarted(r) \/ LocalTurnLost(r)
        PROVE  inflight'[c] \/ bound[c] \in local' \/ c \in stalled'
    BY <2>1, <2>2, <2>3 DEF LocalTurn, TurnStarted, LocalTurnLost
  <2>4. ASSUME NEW b \in Binding, NEW m \in Msg, StartImmediately(b, m)
        PROVE  inflight'[c] \/ bound[c] \in local' \/ c \in stalled'
    BY <2>1, <2>2, <2>4 DEF StartImmediately
  <2>5. ASSUME NEW b \in Binding, Terminal(b)
        PROVE  inflight'[c] \/ bound[c] \in local' \/ busy' = c \/ c \in stalled'
    BY <2>1, <2>2, <2>5 DEF Terminal
  <2> QED BY <2>3, <2>4, <2>5
<1>9. \A b \in Binding : Synchronized(b)
  BY <1>1 DEF Synchronized, queueVars
<1>10. \A b \in Binding : \A i \in Listed(b) : ~SentHead(b, i)
  BY <1>6 DEF SentHead
<1> HIDE DEF QueueInd
<1> QED BY <1>1, <1>5, <1>6, <1>7, <1>8, <1>9, <1>10, ListsKept DEF queueVars

\* A drain that finds nothing to start records the root and returns.
LEMMA BeginNothingInd ==
  ASSUME QueueInd, NEW b \in Binding, busy = b, BeginNothing(b)
  PROVE  QueueInd'
<1>1. /\ phase = "begin" /\ bound[b] # NoRoot /\ Return
      /\ UNCHANGED <<bound, inflight, local, active, admitted, life, sent, recalled, stalled>>
      /\ qroot' = [qroot EXCEPT ![b] = bound[b]]
      /\ epoch' = [epoch EXCEPT ![b] = IF @ = 0 THEN 1 ELSE @]
  BY DEF BeginNothing, Drainable, SynchronizeRoot
<1>2. items' = items
  <2>1. items' = [items EXCEPT ![b] = items[b]]
    BY NoStaleHeads DEF BeginNothing
  <2> QED BY <2>1 DEF QueueInd, TypeOK
<1>3. \A c \in Binding : active[c] = NoDrain
  BY <1>1, DrainContext DEF Claimed
<1>4. items[b] # <<>> => inflight[b]
  BY <1>3, NoStaleHeads DEF BeginNothing
<1>5. epoch[b] \in Nat /\ qroot \in [Binding -> Root \cup {NoRoot}] /\ epoch \in [Binding -> Nat]
  BY DEF QueueInd, TypeOK
<1>6. TypeOK'
  <2>1. epoch' \in [Binding -> Nat] /\ qroot' \in [Binding -> Root \cup {NoRoot}]
    BY <1>1, <1>5 DEF QueueInd, TypeOK
  <2>2. busy' = NoBinding /\ phase' \in Phase /\ outcome' \in Outcome
    BY <1>1 DEF Return, Phase, Outcome
  <2> QED BY <1>1, <1>2, <2>1, <2>2 DEF QueueInd, TypeOK
<1>7. \A c \in Binding : Synchronized(c)
  <2> SUFFICES ASSUME NEW c \in Binding PROVE Synchronized(c)
    OBVIOUS
  <2>1. CASE c # b
    BY <1>1, <1>5, <2>1 DEF Synchronized
  <2>2. CASE c = b /\ items[b] = <<>>
    BY <1>1, <1>5, <2>2 DEF Synchronized
  <2>3. CASE c = b /\ items[b] # <<>>
    BY <1>1, <1>5, <2>3 DEF Synchronized, QueueInd, QueuesHaveARoot
  <2> QED BY <2>1, <2>2, <2>3
<1>8. DrainHoldsHead'
  BY <1>1, <1>3, ConstantsAssumption DEF DrainHoldsHead, Return, Claimed
<1>9. NoLostWakeup'
  <2> SUFFICES ASSUME NEW c \in Binding, items[c] # <<>>
               PROVE  inflight[c] \/ bound[c] \in local \/ c \in stalled
    BY <1>1, <1>2 DEF NoLostWakeup
  <2> QED BY <1>4 DEF QueueInd, NoLostWakeup
<1>10. \A c \in Binding : \A i \in Listed(c) : ~SentHead(c, i)
  BY <1>3 DEF SentHead
<1> QED BY <1>1, <1>2, <1>3, <1>6, <1>7, <1>8, <1>9, <1>10, ListsKept

\* Claiming pins the head: a receipt for the first item, which nothing stale
\* precedes.
LEMMA ClaimHeadInd ==
  ASSUME QueueInd, NEW b \in Binding, busy = b, ClaimHead(b)
  PROVE  QueueInd'
<1> DEFINE claim == [item |-> Head(items[b]), cancel |-> ""]
<1>1. /\ phase = "begin" /\ bound[b] # NoRoot /\ items[b] # <<>>
      /\ UNCHANGED <<bound, inflight, local, busy, outcome, admitted, life, sent, recalled>>
      /\ qroot' = [qroot EXCEPT ![b] = bound[b]]
      /\ epoch' = [epoch EXCEPT ![b] = IF @ = 0 THEN 1 ELSE @]
      /\ active' = [active EXCEPT ![b] = claim]
      /\ phase' = "claimed" /\ stalled' = stalled \ {b}
  BY NoStaleHeads DEF ClaimHead, Drainable, SynchronizeRoot
<1>2. items' = items
  <2>1. items' = [items EXCEPT ![b] = items[b]]
    BY NoStaleHeads DEF ClaimHead
  <2> QED BY <2>1 DEF QueueInd, TypeOK
<1>3. \A c \in Binding : active[c] = NoDrain
  BY <1>1, DrainContext DEF Claimed
<1>4. /\ qroot \in [Binding -> Root \cup {NoRoot}] /\ epoch \in [Binding -> Nat]
      /\ active \in [Binding -> Drain \cup {NoDrain}] /\ items[b] \in Seq(Item)
  BY DEF QueueInd, TypeOK
<1>5. claim \in Drain /\ claim # NoDrain /\ claim.item = Head(items[b]) /\ claim.cancel = ""
  <2>1. Head(items[b]) \in Item
    BY <1>1, <1>4, HeadTailProperties
  <2>2. claim \in Drain
    BY <2>1 DEF Drain
  <2> QED BY <2>2, NullsAssumption
<1> HIDE DEF claim
<1>6. active'[b] = claim /\ \A c \in Binding \ {b} : active'[c] = NoDrain
  BY <1>1, <1>3, <1>4
<1>7. TypeOK'
  <2>1. epoch' \in [Binding -> Nat] /\ qroot' \in [Binding -> Root \cup {NoRoot}]
    BY <1>1, <1>4 DEF QueueInd, TypeOK
  <2>2. active' \in [Binding -> Drain \cup {NoDrain}]
    BY <1>1, <1>4, <1>5
  <2>3. phase' \in Phase
    BY <1>1 DEF Phase
  <2> QED BY <1>1, <1>2, <2>1, <2>2, <2>3 DEF QueueInd, TypeOK
<1>8. \A c \in Binding : Synchronized(c)
  <2> SUFFICES ASSUME NEW c \in Binding PROVE Synchronized(c)
    OBVIOUS
  <2>1. CASE c # b
    BY <1>1, <1>4, <2>1 DEF Synchronized
  <2>2. CASE c = b
    BY <1>1, <1>4, <2>2 DEF Synchronized, QueueInd, QueuesHaveARoot
  <2> QED BY <2>1, <2>2
<1>9. DrainHoldsHead'
  <2>1. busy' = NoBinding <=> phase' = "idle"
    BY <1>1, ConstantsAssumption
  <2>2. \A c \in Binding : active'[c] # NoDrain <=> busy' = c /\ phase' \in Claimed
    BY <1>1, <1>5, <1>6 DEF Claimed
  <2>3. \A c \in Binding : active'[c] # NoDrain => c = b
    BY <1>6
  <2>4. HeadIsItem(b, active[b].item)'
    BY <1>1, <1>2, <1>5, <1>6 DEF HeadIsItem
  <2> QED BY <1>1, <1>5, <1>6, <2>1, <2>2, <2>3, <2>4 DEF DrainHoldsHead
<1>10. NoLostWakeup'
  BY <1>1, <1>2 DEF QueueInd, NoLostWakeup
<1>11. \A c \in Binding : \A i \in Listed(c) : ~SentHead(c, i)
  BY <1>3 DEF SentHead
<1> QED BY <1>1, <1>2, <1>3, <1>7, <1>8, <1>9, <1>10, <1>11, ListsKept

\* The steps between a claim and its commit, but for the mutation itself.
LEMMA HeldInd ==
  ASSUME QueueInd, NEW b \in Binding, busy = b,
         \/ DropHead(b) \/ PreflightRaises(b) \/ PrepareFails(b) \/ Prepare(b)
         \/ StartRefused(b) \/ Prime(b) \/ StaleMutation(b)
  PROVE  QueueInd'
<1>1. /\ phase \in Claimed \ {"settle"} /\ phase' \in Claimed
      /\ UNCHANGED <<bound, local, queueVars, busy, admitted, life, sent, recalled, stalled>>
  BY DEF DropHead, PreflightRaises, PrepareFails, Prepare, StartRefused, Prime, StaleMutation,
         Settle, Claimed
<1>2. inflight' = inflight \/ \E f \in BOOLEAN : inflight' = [inflight EXCEPT ![b] = f]
  BY Zenon DEF DropHead, PreflightRaises, PrepareFails, Prepare, StartRefused, Prime,
       StaleMutation, Settle
<1>3. inflight \in [Binding -> BOOLEAN]
  BY DEF QueueInd, TypeOK
<1>4. /\ inflight' \in [Binding -> BOOLEAN]
      /\ \A c \in Binding \ {b} : inflight'[c] = inflight[c]
  BY <1>2, <1>3
<1>5. TypeOK'
  <2>1. phase' \in Phase /\ outcome' \in Outcome
    BY DEF DropHead, PreflightRaises, PrepareFails, Prepare, StartRefused, Prime, StaleMutation,
           Settle, Phase, Outcome, QueueInd, TypeOK
  <2>2. TypeOK
    BY DEF QueueInd
  <2> QED BY <1>1, <1>4, <2>1, <2>2, QuietTypes DEF TypeOK
<1>6. active[b] # NoDrain /\ \A c \in Binding : active[c] # NoDrain => c = b
  BY <1>1, DrainContext
<1>7. phase' = "primed" \/ (phase' = "settle" /\ outcome' = "started") => inflight'[b]
  BY <1>1, <1>3 DEF DropHead, PreflightRaises, PrepareFails, Prepare, StartRefused, Prime,
       StaleMutation, Settle
<1>8. DrainHoldsHead'
  <2>1. \A c \in Binding : active'[c] # NoDrain <=> busy' = c /\ phase' \in Claimed
    BY <1>1, <1>6 DEF queueVars
  <2>2. busy' = NoBinding <=> phase' = "idle"
    BY <1>1, ConstantsAssumption DEF Claimed
  <2>3. IF active'[b].cancel = "binding_invalidation" THEN items'[b] = <<>>
        ELSE HeadIsItem(b, active[b].item)'
    BY <1>1, <1>6 DEF QueueInd, DrainHoldsHead, HeadIsItem, queueVars
  <2>4. \A c \in Binding : active'[c] # NoDrain => c = b
    BY <1>1, <1>6 DEF queueVars
  <2> QED BY <1>7, <2>1, <2>2, <2>3, <2>4 DEF DrainHoldsHead
<1>9. NoLostWakeup'
  BY <1>1, <1>4 DEF QueueInd, NoLostWakeup, queueVars
<1>10. \A c \in Binding : Synchronized(c)
  BY <1>1 DEF Synchronized, queueVars
<1>11. \A c \in Binding : \A i \in Listed(c) : ~SentHead(c, i)
  BY <1>1 DEF SentHead
<1> QED BY <1>1, <1>5, <1>8, <1>9, <1>10, <1>11, ListsKept DEF queueVars

\* The mutation: the claimed head is the first of its queue, current and not
\* recalled, and follows everything sent of its generation.
LEMMA MutateInd ==
  ASSUME QueueInd, NEW b \in Binding, busy = b, Mutate(b)
  PROVE  QueueInd'
<1> DEFINE i == active[b].item
           new == [id |-> i.id, binding |-> b, epoch |-> i.epoch, life |-> i.life,
                   root |-> i.root, to |-> bound[b], during |-> life[b]]
<1>1. /\ phase = "primed" /\ phase' = "settle" /\ sent' = Append(sent, new)
      /\ UNCHANGED <<bound, local, queueVars, busy, admitted, life, recalled, stalled>>
      /\ outcome' \in Outcome /\ (outcome' = "started" => inflight' = inflight)
      /\ ClaimedReceiptMatches(b, FALSE)
  BY DEF Mutate, Settle, Outcome
<1>2. /\ active[b] \in Drain /\ active[b] # NoDrain /\ i \in Item
      /\ \A c \in Binding : active[c] # NoDrain => c = b
  BY <1>1, DrainContext DEF Claimed
<1>3. active[b].cancel = "" /\ bound[b] = i.root /\ HeadIsItem(b, i)
  BY <1>1 DEF ClaimedReceiptMatches
<1>4. /\ i \in Listed(b) /\ \A x \in Listed(b) : x = i \/ i.id < x.id
  <2>1. items[b] \in Seq(Item) /\ items[b] # <<>> /\ InOrder(items[b]) /\ i = Head(items[b])
    BY <1>3 DEF QueueInd, TypeOK, ListedInOrder, HeadIsItem
  <2>2. Listed(b) = Values(items[b])
    BY Queues DEF QueueInd
  <2> QED BY <2>1, <2>2, HeadFirst
<1>5. i.epoch = epoch[b] /\ i.life = life[b] /\ i.id <= admitted
  BY <1>4 DEF QueueInd, ListedAreCurrent, Stale
<1>6. i.id \notin recalled
  BY <1>3, <1>4 DEF QueueInd, RecalledAreGone
<1> HIDE DEF i
<1>7. \A c \in Binding : Listed(c)' = Listed(c)
  BY <1>1 DEF Listed, queueVars
<1>8. new \in Sent /\ new.id = i.id /\ new.binding = b /\ new.epoch = epoch[b]
      /\ new.life = new.during /\ new.root = new.to
  <2>1. /\ life[b] \in Nat /\ i.id \in 1..MaxItems /\ i.epoch \in Nat /\ i.life \in Nat
        /\ i.root \in Root /\ bound[b] \in Root \cup {NoRoot}
    BY <1>2, ConstantsAssumption DEF Item, QueueInd, TypeOK
  <2> QED BY <1>3, <1>5, <2>1 DEF Sent
<1> HIDE DEF new
<1>9. /\ Len(sent) \in Nat /\ DOMAIN sent = 1..Len(sent) /\ DOMAIN sent' = 1..(Len(sent) + 1)
      /\ sent' \in Seq(Sent) /\ sent'[Len(sent) + 1] = new
      /\ \A k \in DOMAIN sent : sent'[k] = sent[k] /\ sent[k] \in Sent
  <2>1. sent \in Seq(Sent)
    BY DEF QueueInd, TypeOK
  <2> QED BY <1>1, <1>8, <2>1, AppendProperties, LenProperties, ElementOfSeq
<1>10. \A k \in DOMAIN sent' : k \in DOMAIN sent \/ k = Len(sent) + 1
  BY <1>9
<1>11. \A k \in DOMAIN sent : sent[k].binding = b /\ sent[k].epoch = epoch[b] => sent[k].id < i.id
  BY <1>1, <1>4 DEF QueueInd, SentPrecedesListed, SentHead
<1>12. inflight' = inflight \/ \E f \in BOOLEAN : inflight' = [inflight EXCEPT ![b] = f]
  BY Zenon DEF Mutate, Settle
<1>13. inflight \in [Binding -> BOOLEAN]
  BY DEF QueueInd, TypeOK
<1>14. /\ inflight' \in [Binding -> BOOLEAN]
       /\ \A c \in Binding \ {b} : inflight'[c] = inflight[c]
  BY <1>12, <1>13
<1>15. TypeOK'
  <2>1. phase' \in Phase
    BY <1>1 DEF Phase
  <2> QED BY <1>1, <1>9, <1>14, <2>1 DEF QueueInd, TypeOK, queueVars
<1>16. QueuesHaveARoot' /\ ListedAreCurrent' /\ ListedInOrder' /\ ListedOnce' /\ OneQueuePerRoot'
  BY <1>1, <1>7 DEF QueueInd, QueuesHaveARoot, ListedAreCurrent, Stale, ListedInOrder, InOrder,
     ListedOnce, OneQueuePerRoot, queueVars
<1>17. DrainHoldsHead'
  <2>1. outcome' = "started" => inflight'[b]
    BY <1>1, <1>2, <1>3 DEF QueueInd, DrainHoldsHead
  <2>2. \A c \in Binding : active'[c] # NoDrain <=> busy' = c /\ phase' \in Claimed
    BY <1>1, <1>2 DEF queueVars, Claimed
  <2>3. busy' = NoBinding <=> phase' = "idle"
    BY <1>1, ConstantsAssumption
  <2>4. active'[b].cancel # "binding_invalidation" /\ HeadIsItem(b, active[b].item)'
    BY <1>1, <1>3 DEF HeadIsItem, queueVars, i
  <2> QED BY <1>1, <1>2, <2>1, <2>2, <2>3, <2>4 DEF DrainHoldsHead, queueVars
<1>18. SentPrecedesListed'
  <2>1. ASSUME NEW k \in DOMAIN sent
        PROVE  /\ sent[k].id <= admitted
               /\ \A c \in Binding : sent[k].binding = c =>
                    /\ sent[k].epoch <= epoch[c]
                    /\ sent[k].epoch = epoch[c] => \A x \in Listed(c) : sent[k].id < x.id
    BY <1>1 DEF QueueInd, SentPrecedesListed, SentHead
  <2>2. \A x \in Listed(b) : i.id < x.id \/ (SentHead(b, x)' /\ i.id = x.id)
    BY <1>1, <1>2, <1>4 DEF SentHead, queueVars, i
  <2>3. epoch[b] \in Nat
    BY DEF QueueInd, TypeOK
  <2> SUFFICES ASSUME NEW k \in DOMAIN sent'
               PROVE  /\ sent'[k].id <= admitted
                      /\ \A c \in Binding : sent'[k].binding = c =>
                           /\ sent'[k].epoch <= epoch[c]
                           /\ sent'[k].epoch = epoch[c] => \A x \in Listed(c) :
                                sent'[k].id < x.id \/ (SentHead(c, x)' /\ sent'[k].id = x.id)
    BY <1>1, <1>7 DEF SentPrecedesListed, queueVars
  <2>4. CASE k \in DOMAIN sent
    BY <1>9, <2>1, <2>4
  <2>5. CASE k = Len(sent) + 1
    BY <1>5, <1>8, <1>9, <2>2, <2>3, <2>5
  <2> QED BY <1>10, <2>4, <2>5
<1>19. RecalledAreGone'
  BY <1>1, <1>7 DEF QueueInd, RecalledAreGone, queueVars
<1>20. SentOnlyInItsLifecycle' /\ RecalledNeverSent'
  <2> SUFFICES ASSUME NEW k \in DOMAIN sent'
               PROVE  /\ sent'[k].life = sent'[k].during /\ sent'[k].root = sent'[k].to
                      /\ sent'[k].id \notin recalled
    BY <1>1 DEF SentOnlyInItsLifecycle, RecalledNeverSent
  <2>1. CASE k \in DOMAIN sent
    BY <1>9, <2>1 DEF QueueInd, SentOnlyInItsLifecycle, RecalledNeverSent
  <2>2. CASE k = Len(sent) + 1
    BY <1>6, <1>8, <1>9, <2>2
  <2> QED BY <1>10, <2>1, <2>2
<1>21. SentInOrder'
  <2> SUFFICES ASSUME NEW j \in DOMAIN sent', NEW k \in DOMAIN sent', j < k,
                      sent'[j].binding = sent'[k].binding, sent'[j].epoch = sent'[k].epoch
               PROVE  sent'[j].id < sent'[k].id
    BY DEF SentInOrder
  <2>1. j \in DOMAIN sent
    BY <1>9
  <2>2. CASE k \in DOMAIN sent
    BY <1>9, <2>1, <2>2 DEF QueueInd, SentInOrder
  <2>3. CASE k = Len(sent) + 1
    BY <1>8, <1>9, <1>11, <2>1, <2>3
  <2> QED BY <1>10, <2>2, <2>3
<1>22. NoLostWakeup'
  BY <1>1, <1>14 DEF QueueInd, NoLostWakeup, queueVars
<1> QED BY <1>15, <1>16, <1>17, <1>18, <1>19, <1>20, <1>21, <1>22 DEF QueueInd

\* Queues that only lose items keep their generation and their order.
LEMMA ShrunkLists ==
  ASSUME QueueInd, TypeOK', UNCHANGED <<bound, epoch, qroot, admitted, life>>,
         \A c \in Binding : Listed(c)' \subseteq Listed(c) /\ InOrder(items'[c])
  PROVE  QueuesHaveARoot' /\ ListedAreCurrent' /\ ListedInOrder' /\ ListedOnce'
         /\ OneQueuePerRoot'
<1> USE DEF QueueInd
<1>1. \A c \in Binding : items'[c] # <<>> => items[c] # <<>>
  BY Queues, QueuesNext
<1>2. QueuesHaveARoot' /\ OneQueuePerRoot'
  BY <1>1 DEF QueuesHaveARoot, OneQueuePerRoot
<1>3. ListedAreCurrent'
  BY DEF ListedAreCurrent, Stale
<1>4. ListedInOrder'
  BY DEF ListedInOrder, InOrder
<1>5. ListedOnce'
  BY DEF ListedOnce
<1> QED BY <1>2, <1>3, <1>4, <1>5

\* The receipt consumes exactly the claimed head, or nothing of an invalidated
\* queue, which is empty.
LEMMA CompleteDrainInd ==
  ASSUME QueueInd, NEW b \in Binding, busy = b, CompleteDrain(b)
  PROVE  QueueInd'
<1> DEFINE i == active[b].item
<1>1. /\ phase = "settle" /\ active' = [active EXCEPT ![b] = NoDrain]
      /\ items' = [items EXCEPT ![b] = ConsumeHead(b)]
      /\ UNCHANGED <<bound, inflight, local, epoch, qroot, admitted, life, sent, recalled>>
      /\ IF ContinueSameEpoch(b)
         THEN phase' = "begin" /\ outcome' = "none" /\ UNCHANGED busy
         ELSE Return
      /\ stalled' = IF BlocksContinuation(b) /\ ~inflight[b] /\ ConsumeHead(b) # <<>>
                    THEN stalled \cup {b} ELSE stalled
  BY DEF CompleteDrain
<1>2. /\ active[b] \in Drain /\ active[b] # NoDrain /\ i \in Item
      /\ \A c \in Binding : active[c] # NoDrain => c = b
  BY <1>1, DrainContext DEF Claimed
<1>3. items[b] \in Seq(Item) /\ Listed(b) = Values(items[b]) /\ InOrder(items[b])
  BY Queues DEF QueueInd, TypeOK, ListedInOrder
<1>4. \/ /\ active[b].cancel = "binding_invalidation" /\ items[b] = <<>> /\ CancelledByInvalidation(b)
         /\ ConsumeHead(b) = <<>>
      \/ /\ ~CancelledByInvalidation(b) /\ HeadIsItem(b, i)
         /\ outcome = "started" => inflight[b]
         /\ ConsumeHead(b) = Tail(items[b])
  <2>1. CASE active[b].cancel = "binding_invalidation"
    BY <1>2, <2>1 DEF QueueInd, DrainHoldsHead, CancelledByInvalidation, ConsumeHead
  <2>2. CASE active[b].cancel # "binding_invalidation"
    <3>1. HeadIsItem(b, i) /\ (outcome = "started" => inflight[b])
      BY <1>1, <1>2, <2>2 DEF QueueInd, DrainHoldsHead
    <3>2. i \in Listed(b)
      BY <1>3, <3>1, HeadFirst DEF HeadIsItem
    <3>3. ~Stale(b, i)
      BY <3>2 DEF QueueInd, ListedAreCurrent
    <3> QED BY <2>2, <3>1, <3>3 DEF CancelledByInvalidation, ConsumeHead
  <2> QED BY <2>1, <2>2
<1>5. /\ ConsumeHead(b) \in Seq(Item) /\ InOrder(ConsumeHead(b))
      /\ Values(ConsumeHead(b)) \subseteq Listed(b)
      /\ \A x \in Values(ConsumeHead(b)) : i.id < x.id
      /\ ConsumeHead(b) # <<>> => items[b] # <<>>
  <2>1. CASE ConsumeHead(b) = <<>>
    BY <2>1, EmptySeq DEF InOrder, Values
  <2>2. CASE ConsumeHead(b) = Tail(items[b]) /\ HeadIsItem(b, i)
    BY <1>3, <2>2, HeadFirst DEF HeadIsItem
  <2> QED BY <1>4, <2>1, <2>2
<1>6. /\ active' \in [Binding -> Drain \cup {NoDrain}] /\ items' \in [Binding -> Seq(Item)]
      /\ \A c \in Binding : active'[c] = NoDrain
      /\ items'[b] = ConsumeHead(b) /\ \A c \in Binding \ {b} : items'[c] = items[c]
  BY <1>1, <1>2, <1>5 DEF QueueInd, TypeOK
<1>7. TypeOK'
  <2>1. /\ busy' \in Binding \cup {NoBinding} /\ phase' \in Phase /\ outcome' \in Outcome
        /\ stalled' \subseteq Binding
    BY <1>1 DEF Return, Phase, Outcome, QueueInd, TypeOK
  <2> QED BY <1>1, <1>6, <2>1 DEF QueueInd, TypeOK
<1>8. /\ Listed(b)' = Values(ConsumeHead(b))
      /\ \A c \in Binding \ {b} : Listed(c)' = Listed(c)
  BY <1>6, <1>7, QueuesNext DEF Listed
<1>9. QueuesHaveARoot' /\ ListedAreCurrent' /\ ListedInOrder' /\ ListedOnce' /\ OneQueuePerRoot'
  <2>1. \A c \in Binding : Listed(c)' \subseteq Listed(c) /\ InOrder(items'[c])
    BY <1>5, <1>6, <1>8 DEF QueueInd, ListedInOrder
  <2> QED BY <1>1, <1>7, <2>1, ShrunkLists
<1>10. DrainHoldsHead'
  BY <1>1, <1>6, ConstantsAssumption DEF DrainHoldsHead, Return, Claimed
<1>11. SentPrecedesListed'
  <2> SUFFICES ASSUME NEW k \in DOMAIN sent, NEW c \in Binding, sent[k].binding = c
               PROVE  /\ sent[k].epoch <= epoch[c]
                      /\ sent[k].epoch = epoch[c] => \A x \in Listed(c)' : sent[k].id < x.id
    BY <1>1 DEF QueueInd, SentPrecedesListed
  <2>1. /\ sent[k].epoch <= epoch[c]
        /\ sent[k].epoch = epoch[c] => \A x \in Listed(c) :
             sent[k].id < x.id \/ (SentHead(c, x) /\ sent[k].id = x.id)
    BY DEF QueueInd, SentPrecedesListed
  <2>2. \A x \in Listed(c)' : x \in Listed(c) /\ (SentHead(c, x) => c = b /\ x = i /\ i.id < x.id)
    BY <1>2, <1>5, <1>8 DEF SentHead
  <2>3. i.id \in Nat
    BY <1>2, ConstantsAssumption DEF Item
  <2> QED BY <2>1, <2>2, <2>3
<1>12. RecalledAreGone'
  <2>1. \A c \in Binding : \A x \in Listed(c)' : x.id \notin recalled
    <3> SUFFICES ASSUME NEW c \in Binding, NEW x \in Listed(c)', x.id \in recalled PROVE FALSE
      OBVIOUS
    <3>1. x \in Listed(c)
      BY <1>5, <1>8
    <3>2. active[c] # NoDrain /\ active[c].item = x
      BY <3>1 DEF QueueInd, RecalledAreGone
    <3>3. c = b /\ x = i /\ i.id < x.id
      BY <1>2, <1>5, <1>8, <3>2
    <3>4. i.id \in Nat
      BY <1>2, ConstantsAssumption DEF Item
    <3> QED BY <3>3, <3>4
  <2> QED BY <1>1, <2>1 DEF QueueInd, RecalledAreGone
<1>13. NoLostWakeup'
  <2> SUFFICES ASSUME NEW c \in Binding, items'[c] # <<>>
               PROVE  inflight[c] \/ bound[c] \in local \/ busy' = c \/ c \in stalled'
    BY <1>1 DEF NoLostWakeup
  <2>1. CASE c # b
    BY <1>1, <1>6, <2>1 DEF QueueInd, NoLostWakeup
  <2>2. CASE c = b
    BY <1>1, <1>4, <1>6, <2>2 DEF ContinueSameEpoch
  <2> QED BY <2>1, <2>2
<1> QED BY <1>1, <1>7, <1>9, <1>10, <1>11, <1>12, <1>13
        DEF QueueInd, SentOnlyInItsLifecycle, SentInOrder, RecalledNeverSent

\* A recall takes every item of the message out of the queues, but for a
\* claimed head, whose receipt it cancels.
LEMMA RecallInd ==
  ASSUME QueueInd, NEW m \in Msg, RemoveRecalledMessage(m)
  PROVE  QueueInd'
<1> DEFINE keep(c) == {x \in Listed(c) : KeptOnRecall(c, x, m)}
           Gone == {x \in UNION {Listed(c) : c \in Binding} : x.msg = m /\ ~AlreadySent(x)}
<1>1. /\ items' = [c \in Binding |-> Select(items[c], keep(c))]
      /\ active' = [c \in Binding |->
           IF ClaimedFrom(c, m) THEN [active[c] EXCEPT !.cancel = "recall"] ELSE active[c]]
      /\ recalled' = recalled \cup {x.id : x \in Gone}
      /\ stalled' = {c \in stalled : items'[c] # <<>>}
      /\ UNCHANGED <<bound, inflight, local, epoch, qroot, drainVars, admitted, life, sent>>
  BY DEF RemoveRecalledMessage
<1>2. ASSUME NEW c \in Binding
      PROVE  /\ items[c] \in Seq(Item) /\ InOrder(items[c]) /\ Listed(c) = Values(items[c])
             /\ items[c] = <<>> <=> Listed(c) = {}
             /\ Listed(c) \subseteq Item
  BY Queues DEF QueueInd, ListedInOrder
<1>3. ASSUME NEW c \in Binding
      PROVE  /\ items'[c] \in Seq(Item) /\ InOrder(items'[c])
             /\ Values(items'[c]) = keep(c)
  <2> DEFINE s == items[c]
             K == keep(c)
  <2>1. items'[c] = Select(s, K)
    BY <1>1
  <2>2. s \in Seq(Item) /\ InOrder(s) /\ K \subseteq Values(s)
    BY <1>2
  <2>3. K = keep(c)
    OBVIOUS
  <2> HIDE DEF keep, K, s
  <2>4. Select(s, K) \in Seq(Item) /\ InOrder(Select(s, K)) /\ Values(Select(s, K)) = K
    BY <2>2, SelectKeeps
  <2> QED BY <2>1, <2>3, <2>4
<1>4. ASSUME NEW c \in Binding
      PROVE  /\ active'[c] \in Drain \cup {NoDrain}
             /\ active'[c] # NoDrain <=> active[c] # NoDrain
             /\ active[c] # NoDrain => active'[c].item = active[c].item
             /\ active[c] # NoDrain /\ ClaimedFrom(c, m) => active'[c].cancel = "recall"
             /\ ~ClaimedFrom(c, m) => active'[c] = active[c]
  <2>1. active[c] \in Drain \cup {NoDrain}
    BY DEF QueueInd, TypeOK
  <2>2. CASE ClaimedFrom(c, m)
    <3>1. active[c] \in Drain /\ active[c] # NoDrain
      BY <2>1, <2>2 DEF ClaimedFrom
    <3>2. active'[c] = [active[c] EXCEPT !.cancel = "recall"]
      BY <1>1, <2>2
    <3>3. active'[c] \in Drain /\ active'[c].cancel = "recall" /\ active'[c].item = active[c].item
      BY <3>1, <3>2 DEF Drain
    <3> QED BY <2>2, <3>1, <3>3, NullsAssumption
  <2>3. CASE ~ClaimedFrom(c, m)
    BY <1>1, <2>1, <2>3
  <2> QED BY <2>2, <2>3
<1>5. TypeOK'
  <2>1. items' \in [Binding -> Seq(Item)]
    BY <1>1, <1>3
  <2>2. active' \in [Binding -> Drain \cup {NoDrain}]
    BY <1>1, <1>4
  <2>3. recalled' \subseteq 1..MaxItems
    BY <1>1, <1>2 DEF QueueInd, TypeOK, Item
  <2> QED BY <1>1, <2>1, <2>2, <2>3 DEF QueueInd, TypeOK, drainVars
<1>6. ASSUME NEW c \in Binding
      PROVE  Listed(c)' = keep(c) /\ Listed(c)' \subseteq Listed(c) /\ (items'[c] # <<>> => items[c] # <<>>)
  BY <1>2, <1>3, <1>5, QueuesNext
<1>7. QueuesHaveARoot' /\ ListedAreCurrent' /\ ListedInOrder' /\ ListedOnce' /\ OneQueuePerRoot'
  BY <1>1, <1>3, <1>5, <1>6, ShrunkLists
<1>8. DrainHoldsHead'
  <2>1. ASSUME NEW c \in Binding, active[c] # NoDrain, active[c].cancel # "binding_invalidation"
        PROVE  items'[c] # <<>> /\ Head(items'[c]) = active[c].item
    <3>1. items[c] # <<>> /\ Head(items[c]) = active[c].item
      BY <2>1 DEF QueueInd, DrainHoldsHead, HeadIsItem
    <3>2. Head(items[c]) \in keep(c)
      BY <1>2, <2>1, <3>1, HeadFirst DEF KeptOnRecall, ClaimedFrom
    <3> HIDE DEF keep
    <3> QED BY <1>1, <1>2, <3>1, <3>2, SelectKeepsHead
  <2>2. ASSUME NEW c \in Binding, active'[c] # NoDrain
        PROVE  IF active'[c].cancel = "binding_invalidation" THEN items'[c] = <<>>
               ELSE /\ HeadIsItem(c, active[c].item)'
                    /\ phase = "primed" \/ (phase = "settle" /\ outcome = "started") => inflight[c]
    <3>1. CASE active[c].cancel = "binding_invalidation"
      <4>1. items[c] = <<>> /\ ~ClaimedFrom(c, m)
        BY <1>4, <2>2, <3>1 DEF QueueInd, DrainHoldsHead, ClaimedFrom
      <4> QED BY <1>4, <1>6, <3>1, <4>1
    <3>2. CASE active[c].cancel # "binding_invalidation"
      <4>1. active'[c].cancel # "binding_invalidation"
        BY <1>4, <2>2, <3>2
      <4>2. HeadIsItem(c, active[c].item)'
        BY <1>4, <2>1, <2>2, <3>2 DEF HeadIsItem
      <4>3. phase = "primed" \/ (phase = "settle" /\ outcome = "started") => inflight[c]
        BY <1>4, <2>2, <3>2 DEF QueueInd, DrainHoldsHead
      <4> QED BY <4>1, <4>2, <4>3
    <3> QED BY <3>1, <3>2
  <2> QED BY <1>1, <1>4, <2>2 DEF QueueInd, DrainHoldsHead, drainVars
<1>9. SentPrecedesListed'
  <2> SUFFICES ASSUME NEW k \in DOMAIN sent, NEW c \in Binding, sent[k].binding = c
               PROVE  /\ sent[k].epoch <= epoch[c]
                      /\ sent[k].epoch = epoch[c] => \A x \in Listed(c)' :
                           sent[k].id < x.id \/ (SentHead(c, x)' /\ sent[k].id = x.id)
    BY <1>1 DEF QueueInd, SentPrecedesListed
  <2>1. /\ sent[k].epoch <= epoch[c]
        /\ sent[k].epoch = epoch[c] => \A x \in Listed(c) :
             sent[k].id < x.id \/ (SentHead(c, x) /\ sent[k].id = x.id)
    BY DEF QueueInd, SentPrecedesListed
  <2>2. ASSUME NEW x PROVE SentHead(c, x) => SentHead(c, x)'
    BY <1>1, <1>4 DEF SentHead, drainVars
  <2> QED BY <1>6, <2>1, <2>2
<1>10. RecalledAreGone'
  <2>1. \A n \in recalled' : n <= admitted
    BY <1>1 DEF QueueInd, RecalledAreGone, ListedAreCurrent
  <2>2. ASSUME NEW c \in Binding, NEW x \in Listed(c)', x.id \in recalled'
        PROVE  active'[c] # NoDrain /\ active'[c].item = x /\ active'[c].cancel = "recall"
    <3>1. x \in Listed(c) /\ KeptOnRecall(c, x, m)
      BY <1>6, <2>2
    <3>2. CASE x.id \in recalled
      BY <1>4, <3>1, <3>2 DEF QueueInd, RecalledAreGone
    <3>3. CASE x.id \notin recalled
      <4>1. PICK j \in Gone : j.id = x.id
        BY <1>1, <2>2, <3>3
      <4>2. PICK d \in Binding : j \in Listed(d) /\ j.msg = m
        BY <4>1
      <4>3. d = c
        BY <3>1, <4>1, <4>2 DEF QueueInd, ListedOnce
      <4>4. j = x
        <5>1. PICK p \in 1..Len(items[c]), q \in 1..Len(items[c]) : j = items[c][p] /\ x = items[c][q]
          BY <1>2, <3>1, <4>2, <4>3 DEF Values
        <5>2. p = q
          <6>1. Len(items[c]) \in Nat /\ j.id \in Nat /\ x.id \in Nat
            <7>1. j \in Item /\ x \in Item
              BY <1>2, <3>1, <4>2, <4>3
            <7>2. j.id \in Nat /\ x.id \in Nat
              BY <7>1, ConstantsAssumption DEF Item
            <7>3. Len(items[c]) \in Nat
              BY <1>2, LenProperties
            <7> QED BY <7>2, <7>3
          <6>2. p < q => j.id < x.id
            BY <1>2, <5>1 DEF InOrder
          <6>3. q < p => x.id < j.id
            BY <1>2, <5>1 DEF InOrder
          <6> QED BY <4>1, <6>1, <6>2, <6>3
        <5> QED BY <5>1, <5>2
      <4>5. ClaimedFrom(c, m) /\ x = active[c].item
        BY <3>1, <4>2, <4>4 DEF KeptOnRecall
      <4> QED BY <1>4, <4>5 DEF ClaimedFrom
    <3> QED BY <3>2, <3>3
  <2> QED BY <1>1, <2>1, <2>2 DEF RecalledAreGone
<1>11. RecalledNeverSent'
  BY <1>1 DEF QueueInd, RecalledNeverSent, AlreadySent
<1>12. NoLostWakeup'
  BY <1>1, <1>6 DEF QueueInd, NoLostWakeup, drainVars
<1> QED BY <1>1, <1>5, <1>7, <1>8, <1>9, <1>10, <1>11, <1>12
        DEF QueueInd, SentOnlyInItsLifecycle, SentInOrder

\* Admission: no other queue waits on this root, so the queue starts or keeps
\* the generation it is in and the new item follows everything in it.
LEMMA EnqueueInd ==
  ASSUME QueueInd, NEW b \in Binding, NEW m \in Msg, Enqueue(b, m)
  PROVE  QueueInd'
<1> DEFINE e == SynchronizedEpoch(b)
           new == [id |-> admitted + 1, epoch |-> e, root |-> bound[b], msg |-> m,
                   life |-> life[b]]
<1>1. /\ busy = NoBinding /\ admitted < MaxItems /\ bound[b] # NoRoot
      /\ ~HasOtherBindingContinuity(b, bound[b]) /\ MayQueue(b, m)
      /\ admitted' = admitted + 1
      /\ epoch' = [epoch EXCEPT ![b] = e] /\ qroot' = [qroot EXCEPT ![b] = bound[b]]
      /\ UNCHANGED <<bound, inflight, local, active, drainVars, life, sent, recalled, stalled>>
  BY DEF Enqueue
<1>2. /\ admitted \in Nat /\ epoch[b] \in Nat /\ life[b] \in Nat /\ bound[b] \in Root
      /\ epoch \in [Binding -> Nat] /\ qroot \in [Binding -> Root \cup {NoRoot}]
      /\ items \in [Binding -> Seq(Item)]
  BY <1>1, ConstantsAssumption DEF QueueInd, TypeOK
<1>3. qroot[b] \in {NoRoot, bound[b]} /\ (items[b] # <<>> => qroot[b] = bound[b])
  BY DEF QueueInd, QueuesHaveARoot
<1>4. /\ e \in Nat /\ e > 0 /\ e >= epoch[b]
      /\ qroot[b] = bound[b] => e = epoch[b]
  BY <1>1, <1>2, <1>3 DEF QueueInd, QueuesHaveARoot, SynchronizedEpoch
<1>5. new \in Item /\ new.id = admitted + 1 /\ new.epoch = e /\ new.root = bound[b]
      /\ new.life = life[b]
  <2>1. admitted + 1 \in 1..MaxItems
    BY <1>1, <1>2, ConstantsAssumption
  <2> QED BY <1>2, <1>4, <2>1 DEF Item
<1>6. items' = [items EXCEPT ![b] = Append(items[b], new)]
  BY <1>3 DEF Enqueue
<1> HIDE DEF e, new
<1>7. /\ items[b] \in Seq(Item) /\ InOrder(items[b]) /\ Listed(b) = Values(items[b])
      /\ items[b] = <<>> <=> Listed(b) = {}
      /\ Listed(b) \subseteq Item
  BY Queues DEF QueueInd, ListedInOrder
<1>8. \A c \in Binding : \A x \in Listed(c) : x.id <= admitted /\ x.id < new.id /\ x.id \in Nat
  <2> SUFFICES ASSUME NEW c \in Binding, NEW x \in Listed(c)
               PROVE  x.id <= admitted /\ x.id < new.id /\ x.id \in Nat
    OBVIOUS
  <2>1. x \in Item
    BY Queues DEF QueueInd
  <2>2. x.id \in Nat
    BY <2>1, ConstantsAssumption DEF Item
  <2>3. x.id <= admitted
    BY DEF QueueInd, ListedAreCurrent
  <2> QED BY <1>2, <1>5, <2>2, <2>3
<1>9. /\ Append(items[b], new) \in Seq(Item) /\ InOrder(Append(items[b], new))
      /\ Values(Append(items[b], new)) = Listed(b) \cup {new}
  BY <1>5, <1>7, <1>8, AppendInOrder
<1>10. /\ items' \in [Binding -> Seq(Item)]
       /\ items'[b] = Append(items[b], new) /\ \A c \in Binding \ {b} : items'[c] = items[c]
  BY <1>2, <1>6, <1>9
<1>11. /\ epoch'[b] = e /\ qroot'[b] = bound[b]
       /\ \A c \in Binding \ {b} : epoch'[c] = epoch[c] /\ qroot'[c] = qroot[c]
  BY <1>1, <1>2
<1>12. TypeOK'
  <2>1. epoch' \in [Binding -> Nat] /\ qroot' \in [Binding -> Root \cup {NoRoot}]
    BY <1>1, <1>2, <1>4
  <2>2. admitted' \in 0..MaxItems
    BY <1>1, <1>2, ConstantsAssumption
  <2> QED BY <1>1, <1>10, <2>1, <2>2 DEF QueueInd, TypeOK, drainVars
<1>13. /\ Listed(b)' = Listed(b) \cup {new}
       /\ \A c \in Binding \ {b} : Listed(c)' = Listed(c)
  <2>1. Listed(b)' = Values(items'[b])
    BY <1>12, QueuesNext
  <2>2. \A c \in Binding \ {b} : Listed(c)' = Listed(c)
    BY <1>10 DEF Listed
  <2> QED BY <1>9, <1>10, <2>1, <2>2
<1>14. \A c \in Binding : active[c] = NoDrain
  BY <1>1, ConstantsAssumption DEF QueueInd, DrainHoldsHead
<1>15. \A c \in Binding \ {b} : items[c] # <<>> => bound[c] # bound[b]
  <2> SUFFICES ASSUME NEW c \in Binding \ {b}, items[c] # <<>>, bound[c] = bound[b] PROVE FALSE
    OBVIOUS
  <2>1. qroot[c] = bound[b]
    BY DEF QueueInd, QueuesHaveARoot
  <2>2. HasCurrentPending(c)
    BY NoStaleHeads
  <2> QED BY <1>1, <2>1, <2>2 DEF HasOtherBindingContinuity
<1>16. QueuesHaveARoot'
  <2>1. ASSUME NEW c \in Binding
        PROVE  /\ qroot'[c] \in {NoRoot, bound'[c]}
               /\ qroot'[c] # NoRoot => epoch'[c] > 0
               /\ items'[c] # <<>> => qroot'[c] # NoRoot
    <3>1. CASE c = b
      BY <1>1, <1>4, <1>11, <3>1
    <3>2. CASE c # b
      BY <1>1, <1>10, <1>11, <3>2 DEF QueueInd, QueuesHaveARoot
    <3> QED BY <3>1, <3>2
  <2> QED BY <2>1 DEF QueuesHaveARoot
<1>17. ListedAreCurrent'
  <2> SUFFICES ASSUME NEW c \in Binding, NEW x \in Listed(c)'
               PROVE  ~Stale(c, x)' /\ x.life = life[c] /\ x.id <= admitted'
    BY <1>1 DEF ListedAreCurrent
  <2>1. CASE x \in Listed(c)
    <3>1. ~Stale(c, x) /\ x.life = life[c] /\ x.id <= admitted
      BY <2>1 DEF QueueInd, ListedAreCurrent
    <3>2. qroot'[c] = qroot[c] /\ epoch'[c] = epoch[c]
      <4>1. CASE c # b
        BY <1>11, <4>1
      <4>2. CASE c = b
        BY <1>3, <1>4, <1>7, <1>11, <2>1, <4>2
      <4> QED BY <4>1, <4>2
    <3>3. x.id <= admitted'
      BY <1>1, <1>2, <1>8, <2>1
    <3> QED BY <3>1, <3>2, <3>3 DEF Stale
  <2>2. CASE c = b /\ x = new
    <3>1. x.id <= admitted'
      BY <1>1, <1>2, <1>5, <2>2
    <3> QED BY <1>5, <1>11, <2>2, <3>1 DEF Stale
  <2> QED BY <1>13, <2>1, <2>2
<1>18. ListedInOrder'
  <2>1. \A c \in Binding : InOrder(items'[c])
    BY <1>9, <1>10 DEF QueueInd, ListedInOrder
  <2> QED BY <2>1 DEF ListedInOrder, InOrder
<1>19. ListedOnce'
  <2> SUFFICES ASSUME NEW c \in Binding, NEW d \in Binding, c # d,
                      NEW x \in Listed(c)', NEW y \in Listed(d)'
               PROVE  x.id # y.id
    BY DEF ListedOnce
  <2>1. CASE x \in Listed(c) /\ y \in Listed(d)
    BY <2>1 DEF QueueInd, ListedOnce
  <2>2. CASE x = new /\ y \in Listed(d)
    BY <1>8, <2>2
  <2>3. CASE x \in Listed(c) /\ y = new
    BY <1>8, <2>3
  <2> QED BY <1>13, <2>1, <2>2, <2>3
<1>20. OneQueuePerRoot'
  <2> SUFFICES ASSUME NEW c \in Binding, NEW d \in Binding, c # d,
                      items'[c] # <<>>, items'[d] # <<>>
               PROVE  bound[c] # bound[d]
    BY <1>1 DEF OneQueuePerRoot
  <2>1. CASE c # b /\ d # b
    BY <1>10, <2>1 DEF QueueInd, OneQueuePerRoot
  <2>2. CASE c = b \/ d = b
    BY <1>10, <1>15, <2>2
  <2> QED BY <2>1, <2>2
<1>21. DrainHoldsHead'
  BY <1>1, <1>14 DEF QueueInd, DrainHoldsHead, drainVars
<1>22. SentPrecedesListed'
  <2> SUFFICES ASSUME NEW k \in DOMAIN sent
               PROVE  /\ sent[k].id <= admitted'
                      /\ \A c \in Binding : sent[k].binding = c =>
                           /\ sent[k].epoch <= epoch'[c]
                           /\ sent[k].epoch = epoch'[c] => \A x \in Listed(c)' :
                                sent[k].id < x.id
    BY <1>1 DEF SentPrecedesListed
  <2>1. sent[k] \in Sent
    BY ElementOfSeq, LenProperties DEF QueueInd, TypeOK
  <2>2. sent[k].epoch \in Nat
    BY <2>1 DEF Sent
  <2>3. sent[k].id \in Nat
    BY <2>1, ConstantsAssumption DEF Sent
  <2>4. /\ sent[k].id <= admitted
        /\ \A c \in Binding : sent[k].binding = c =>
             /\ sent[k].epoch <= epoch[c]
             /\ sent[k].epoch = epoch[c] => \A x \in Listed(c) : sent[k].id < x.id
    BY <1>14 DEF QueueInd, SentPrecedesListed, SentHead
  <2>5. sent[k].id <= admitted' /\ sent[k].id < new.id
    BY <1>1, <1>2, <1>5, <2>3, <2>4
  <2>6. ASSUME NEW c \in Binding, sent[k].binding = c
        PROVE  /\ sent[k].epoch <= epoch'[c]
               /\ sent[k].epoch = epoch'[c] => \A x \in Listed(c)' : sent[k].id < x.id
    <3>1. CASE c # b
      BY <1>11, <1>13, <2>4, <2>6, <3>1
    <3>2. CASE c = b
      <4>1. sent[k].epoch <= e
        BY <1>2, <1>4, <2>2, <2>4, <2>6, <3>2
      <4>2. sent[k].epoch = e /\ Listed(b) # {} => sent[k].epoch = epoch[b]
        BY <1>3, <1>4, <1>7
      <4>3. sent[k].epoch = e => \A x \in Listed(b) : sent[k].id < x.id
        BY <2>4, <2>6, <3>2, <4>2
      <4> QED BY <1>11, <1>13, <2>5, <3>2, <4>1, <4>3
    <3> QED BY <3>1, <3>2
  <2> QED BY <2>5, <2>6
<1>23. RecalledAreGone'
  <2>1. \A n \in recalled : n <= admitted /\ n \in Nat
    <3>1. recalled \subseteq 1..MaxItems
      BY DEF QueueInd, TypeOK
    <3>2. \A n \in recalled : n <= admitted
      BY DEF QueueInd, RecalledAreGone
    <3> QED BY <3>1, <3>2, ConstantsAssumption
  <2>2. \A n \in recalled : n <= admitted' /\ n # new.id
    BY <1>1, <1>2, <1>5, <2>1
  <2> QED BY <1>1, <1>13, <2>2 DEF QueueInd, RecalledAreGone
<1>24. NoLostWakeup'
  <2> SUFFICES ASSUME NEW c \in Binding, items'[c] # <<>>
               PROVE  inflight[c] \/ bound[c] \in local \/ busy = c \/ c \in stalled
    BY <1>1 DEF NoLostWakeup, drainVars
  <2>1. CASE items[c] # <<>>
    BY <2>1 DEF QueueInd, NoLostWakeup
  <2>2. CASE items[c] = <<>>
    <3>1. c = b
      BY <1>10, <2>2
    <3>2. ~HasCurrentPending(b) /\ ~HasCurrentDrain(b)
      BY <1>14, <2>2, <3>1, NoStaleHeads DEF HasCurrentDrain
    <3> QED BY <1>1, <3>1, <3>2 DEF MayQueue, ContinuityPending
  <2> QED BY <2>1, <2>2
<1> QED BY <1>1, <1>12, <1>16, <1>17, <1>18, <1>19, <1>20, <1>21, <1>22, <1>23, <1>24
        DEF QueueInd, SentOnlyInItsLifecycle, SentInOrder, RecalledNeverSent

-----------------------------------------------------------------------------
(* The theorem.                                                             *)

LEMMA QueueInitInd == Init => QueueInd
<1> SUFFICES ASSUME Init PROVE QueueInd
  OBVIOUS
<1> USE ConstantsAssumption, EmptySeq DEF Init
<1>1. TypeOK
  BY DEF TypeOK, Phase, Outcome
<1>2. Len(<<>>) = 0 /\ \A b \in Binding : Listed(b) = {} /\ InOrder(items[b])
  BY DEF Listed, InOrder
<1>3. DOMAIN sent = {}
  OBVIOUS
<1>4. DrainHoldsHead
  BY DEF DrainHoldsHead, Claimed
<1> QED BY <1>1, <1>2, <1>3, <1>4
        DEF QueueInd, QueuesHaveARoot, ListedAreCurrent, ListedInOrder, ListedOnce,
            OneQueuePerRoot, SentPrecedesListed, RecalledAreGone, SentOnlyInItsLifecycle,
            SentInOrder, RecalledNeverSent, NoLostWakeup

LEMMA QueueStutters ==
  ASSUME QueueInd, UNCHANGED vars
  PROVE  QueueInd'
BY DEF QueueInd, vars, queueVars, drainVars, TypeOK, QueuesHaveARoot, ListedAreCurrent, Stale,
   Listed, ListedInOrder, InOrder, ListedOnce, OneQueuePerRoot, DrainHoldsHead, HeadIsItem,
   SentPrecedesListed, SentHead, RecalledAreGone, SentOnlyInItsLifecycle, SentInOrder,
   RecalledNeverSent, NoLostWakeup

LEMMA QueueNextInd ==
  ASSUME QueueInd, [Next]_vars
  PROVE  QueueInd'
<1>1. CASE DrainStep
  <2> PICK b \in Binding : busy = b /\
        \/ BeginInvalidates(b) \/ BeginNothing(b) \/ ClaimHead(b) \/ PreclaimFails(b)
        \/ DropHead(b) \/ PreflightRaises(b) \/ PrepareFails(b) \/ Prepare(b)
        \/ StartRefused(b) \/ Prime(b) \/ StaleMutation(b) \/ Mutate(b)
        \/ CompleteDrain(b)
    BY <1>1 DEF DrainStep
  <2>1. CASE BeginInvalidates(b) \/ PreclaimFails(b)
    BY <2>1, LostInd
  <2>2. CASE BeginNothing(b)
    BY <2>2, BeginNothingInd
  <2>3. CASE ClaimHead(b)
    BY <2>3, ClaimHeadInd
  <2>4. CASE \/ DropHead(b) \/ PreflightRaises(b) \/ PrepareFails(b) \/ Prepare(b)
             \/ StartRefused(b) \/ Prime(b) \/ StaleMutation(b)
    BY <2>4, HeldInd
  <2>5. CASE Mutate(b)
    BY <2>5, MutateInd
  <2>6. CASE CompleteDrain(b)
    BY <2>6, CompleteDrainInd
  <2> QED BY <2>1, <2>2, <2>3, <2>4, <2>5, <2>6
<1>2. CASE InvalidateAll
  <2>1. Binding # {}
    BY <1>2 DEF InvalidateAll
  <2> QED BY <1>2, <2>1, LostInd
<1>3. CASE \E b \in Binding : UnbindThread(b) \/ InvalidateGroupContinuity(b)
  BY <1>3, LostInd
<1>4. CASE \/ \E b \in Binding : Terminal(b)
           \/ \E r \in Root : LocalTurn(r) \/ TurnStarted(r) \/ LocalTurnLost(r)
           \/ \E b \in Binding, m \in Msg : StartImmediately(b, m)
  <2>1. busy = NoBinding
    <3>1. \A b \in Binding : Terminal(b) => busy = NoBinding
      BY DEF Terminal
    <3>2. \A r \in Root : LocalTurn(r) \/ TurnStarted(r) \/ LocalTurnLost(r) => busy = NoBinding
      BY DEF LocalTurn, TurnStarted, LocalTurnLost
    <3>3. \A b \in Binding, m \in Msg : StartImmediately(b, m) => busy = NoBinding
      BY DEF StartImmediately
    <3> QED BY <1>4, <3>1, <3>2, <3>3
  <2> QED BY <1>4, <2>1, TurnsInd
<1>5. CASE \E b \in Binding, r \in Root : BindThread(b, r)
  BY <1>5, BindThreadInd
<1>6. CASE \E b \in Binding, m \in Msg : Enqueue(b, m)
  BY <1>6, EnqueueInd
<1>7. CASE \E m \in Msg : RemoveRecalledMessage(m)
  BY <1>7, RecallInd
<1>8. CASE UNCHANGED vars
  BY <1>8, QueueStutters
<1> QED BY <1>1, <1>2, <1>3, <1>4, <1>5, <1>6, <1>7, <1>8 DEF Next

\* What QueueInvariant says beyond its parts of the inductive invariant.
LEMMA QueueIndImplies == QueueInd => QueueInvariant
<1> SUFFICES ASSUME QueueInd PROVE QueueInvariant
  OBVIOUS
<1>1. ASSUME NEW b \in Binding, ContinuityPending(b) PROVE items[b] # <<>>
  BY <1>1, NoStaleHeads DEF ContinuityPending, HasCurrentDrain, HeadIsItem
<1>2. OneBindingPerRoot
  BY <1>1 DEF QueueInd, OneQueuePerRoot, OneBindingPerRoot
<1>3. ClaimedHeadIsHead
  BY DEF QueueInd, DrainHoldsHead, ClaimedHeadIsHead, CancelledByInvalidation
<1> QED BY <1>2, <1>3 DEF QueueInd, QueueInvariant

\* Queued messages are sent in the order they were queued in, once each and
\* only in the binding lifecycle and on the root that admitted them; a message
\* recalled before it was sent never is; one binding at a time waits for a
\* root; a drain always finds the head it claimed; and a waiting queue has a
\* wake-up coming: start_or_enqueue_prompt, drain_after_terminal and
\* remove_recalled_message, for any number of chats, roots and messages.
THEOREM QueueSafety == Spec => []QueueInvariant
<1>1. Spec => []QueueInd
  BY QueueInitInd, QueueNextInd, PTL DEF Spec
<1> QED BY <1>1, QueueIndImplies, PTL

-----------------------------------------------------------------------------
(***************************************************************************)
(* fcodex participants.                                                     *)
(***************************************************************************)

Tokens == 1..MaxRequests
Response == [kind : {"response"}, key : Keys, tok : Tokens, out : Outcomes, t : AllThreads]
GoneFrame == [kind : {"gone"}, t : AllThreads]
Request == [tok : Tokens, method : Methods, t : AllThreads, revoked : BOOLEAN,
            epoch : 0..MaxEpochs]
Frame == Response \cup GoneFrame
WireType == wire \in [Connections -> Seq(Frame)]

IsRequest(k, m) == reqs[k] # NoRequest /\ reqs[k].method = m

\* Generations are drawn once.  A timer knows that its endpoint or participant
\* was heard from only through the generation, so one that is stale must not
\* find its own.
EndpointInv ==
  /\ pstate \in [Participants -> {"none", "connected", "grace", "orphaned"}]
  /\ live \subseteq Connections
  /\ lseq \in Nat
  /\ cgen \in [Connections -> 0..lseq] /\ pgen \in [Participants -> 0..lseq]
  /\ timers \subseteq [who : Connections \cup Participants, gen : 1..lseq, stale : BOOLEAN]
  /\ \A tm \in timers : tm.stale =>
       /\ tm.who \in Connections => cgen[tm.who] # tm.gen
       /\ tm.who \in Participants => pgen[tm.who] # tm.gen

SourceTypes ==
  /\ connSrc \subseteq Connections \X AllThreads
  /\ unkSrc \subseteq Pairs
  /\ pending \subseteq [key : Keys, tok : Tokens, t : AllThreads]
  /\ staged \subseteq Keys
  /\ cleanup \in [AllThreads -> SUBSET Participants]

\* What the registry knows of a holder: "confirmed" and "absent" are true,
\* "unknown" may be either; and a source has its holder.
Honest(pr, st, w) ==
  /\ pr[w] = "confirmed" => w \in st
  /\ w \in st => pr[w] # "absent"

MachineTypes ==
  /\ pres \in [Pairs -> {"absent", "confirmed", "unknown"}]
  /\ store \subseteq Pairs
  /\ fails \in 0..MaxFailures

MachineInv ==
  /\ MachineTypes
  /\ \A w \in Pairs : Honest(pres, store, w)
  /\ SourcesAreHeld

\* A create that was not revoked is of the backend connection there is.
RequestInv ==
  /\ reqs \in [Keys -> Request \cup {NoRequest}]
  /\ seq \in 0..MaxRequests
  /\ attempts \subseteq Tokens
  /\ backend \in 0..MaxEpochs
  /\ \A k \in Keys : /\ reqs[k] # NoRequest => reqs[k].tok <= seq
                     /\ IsRequest(k, "start") /\ ~reqs[k].revoked => reqs[k].epoch = backend

\* The handler that loses a connection's requests runs when the endpoint is
\* gone and its participant still known.
JobInv ==
  /\ job \in [conn : Connections \cup {NoConn}, todo : SUBSET Keys]
  /\ Idle => job.todo = {}
  /\ \A k \in job.todo : reqs[k] # NoRequest
  /\ ~Idle => /\ job.conn \notin live
              /\ pstate[Owner[job.conn]] # "none"
              /\ \A k \in job.todo : k[1] = job.conn

\* Sources and requests belong together.
SourcesFit ==
  /\ \A s \in pending : /\ IsRequest(s.key, "resume")
                        /\ reqs[s.key].tok = s.tok
                        /\ reqs[s.key].t = s.t
  /\ \A k \in staged : IsRequest(k, "resume") /\ PendingOf(k) = {}
  /\ \A k \in Keys : IsRequest(k, "resume") => k \in staged \/ PendingOf(k) # {}
  /\ \A s \in connSrc : s[1] \in live

\* A websocket is used once, and only an open one has subscriptions and
\* frames.  Threads that nobody has created have neither.
WorldInv ==
  /\ px \in [Connections -> {"idle", "open", "quarantined", "closed"}]
  /\ WireType
  /\ late \subseteq Response
  /\ sub \subseteq Connections \X AllThreads
  /\ made \subseteq NewThreads
  /\ gone \in Nat
  /\ \A c \in live : px[c] # "idle"
  /\ \A c \in Connections : px[c] = "idle" => wire[c] = <<>>
  /\ \A s \in sub : px[s[1]] # "idle" /\ s[2] \in Threads \cup made
  /\ \A k \in Keys : IsRequest(k, "unsubscribe") => reqs[k].t \in Threads \cup made
  /\ \A f \in late : px[f.key[1]] \in {"quarantined", "closed"}

\* The answer to the request that key k had the token n for.
AnswerTo(f, k, n) == f.kind = "response" /\ f.key = k /\ f.tok = n

\* An answer that is on the wire, or in the report its proxy gave up on.
Outstanding(f) ==
  f \in late \/ \E c \in Connections : \E i \in DOMAIN wire[c] : wire[c][i] = f

\* Each request is answered once.
AnswersOnce ==
  /\ \A c \in Connections : \A i \in DOMAIN wire[c] : wire[c][i].kind = "response" =>
       /\ wire[c][i].key[1] = c
       /\ \A j \in DOMAIN wire[c] : i # j => ~AnswerTo(wire[c][j], wire[c][i].key, wire[c][i].tok)
       /\ \A f \in late : ~AnswerTo(f, wire[c][i].key, wire[c][i].tok)
  /\ \A f, g \in late : g.key[1] = f.key[1] => g = f

\* A discard that waits for its release was answered.
AnswersFit ==
  \A f \in Response : Outstanding(f) =>
    /\ f.tok <= seq
    /\ TokenMatches(f.key, f.tok) => f.key \notin staged

AnswerInv == AnswersOnce /\ AnswersFit

\* An answer that is late, or on the wire before place i.
AnsweredBefore(k, n, i) ==
  \/ \E f \in late : AnswerTo(f, k, n)
  \/ \E j \in DOMAIN wire[k[1]] : j < i /\ AnswerTo(wire[k[1]][j], k, n)

Refused(k, n) == \E f \in Response : Outstanding(f) /\ AnswerTo(f, k, n) /\ f.out = "error"

\* A resume of t on connection c that is not refused and, if it is answered,
\* is answered from place i on.
WaitsFrom(c, t, i) ==
  \E s \in pending : /\ s.key[1] = c /\ s.t = t
                     /\ ~Refused(s.key, s.tok) /\ ~AnsweredBefore(s.key, s.tok, i)

\* The answer that will take the subscription of t on c back.
Unsubscribes(f, c, t) ==
  /\ f.kind = "response" /\ f.out = "success" /\ f.key[1] = c
  /\ TokenMatches(f.key, f.tok) /\ IsRequest(f.key, "unsubscribe") /\ reqs[f.key].t = t

Sourced(s) ==
  \/ s \in connSrc
  \/ <<Owner[s[1]], s[2]>> \in unkSrc
  \/ \E q \in pending : q.key[1] = s[1] /\ q.t = s[2] /\ ~Refused(q.key, q.tok)

\* A subscription of a live connection has a source; and when an answer is on
\* its way that takes a source of it back, the app-server has subscribed it
\* again since, for a resume that is answered later.
CoverInv ==
  \A s \in sub : s[1] \in live =>
    /\ s \notin loose => Sourced(s)
    /\ \A f \in late : Unsubscribes(f, s[1], s[2]) => WaitsFrom(s[1], s[2], 0)
    /\ \A i \in DOMAIN wire[s[1]] :
         Unsubscribes(wire[s[1]][i], s[1], s[2]) => WaitsFrom(s[1], s[2], i)

FcodexInd ==
  /\ EndpointInv /\ SourceTypes /\ MachineInv /\ RequestInv /\ JobInv
  /\ SourcesFit /\ RetiredIsEmpty /\ WorldInv /\ AnswerInv /\ CoverInv

-----------------------------------------------------------------------------
(* The machine holder.                                                      *)

Presence == {"absent", "confirmed", "unknown"}
HolderType == [pres : [Pairs -> Presence], store : SUBSET Pairs, fails : 0..MaxFailures]

LEMMA PairsAreFinite == IsFiniteSet(Pairs)
  BY FiniteAssumption, FS_Product DEF Pairs, AllThreads

LEMMA PairParts == \A w \in Pairs : w[1] \in Participants /\ w[2] \in AllThreads /\ w = <<w[1], w[2]>>
  BY DEF Pairs

LEMMA KeyParts ==
  \A k \in Keys : /\ k[1] \in Connections /\ k[2] \in RequestIds
                  /\ Owner[k[1]] \in Participants
  BY OwnerAssumption DEF Keys

LEMMA BoundTypes ==
  /\ MaxRequests \in Nat /\ MaxFailures \in Nat /\ MaxTimers \in Nat
  /\ MaxGone \in Nat /\ MaxEpochs \in Nat
  BY BoundsAssumption

LEMMA HolderFields ==
  /\ Holder.pres = pres /\ Holder.store = store /\ Holder.fails = fails
  /\ MachineTypes <=> Holder \in HolderType
  BY DEF Holder, HolderType, MachineTypes, Presence

\* Releases of the pairs of D: the others keep what they have, and what is
\* known of those in D stays true.
LEMMA ReleasesAreHonest ==
  ASSUME NEW h \in HolderType, NEW D \in SUBSET Pairs,
         \A w \in Pairs : Honest(h.pres, h.store, w),
         NEW g \in Releases(h, D)
  PROVE  /\ g \in HolderType
         /\ \A w \in Pairs : Honest(g.pres, g.store, w)
         /\ \A w \in Pairs \ D : g.pres[w] = h.pres[w] /\ (w \in g.store <=> w \in h.store)
<1> DEFINE F == [D -> {"ok", "blind", "kept", "dropped"}]
           P(e) == [w \in Pairs |-> IF w \in D THEN PresenceAfter(h, w, e[w]) ELSE h.pres[w]]
           S(e) == h.store \ {w \in D : e[w] \in {"ok", "dropped"}}
           X(e) == h.fails - Cardinality({w \in D : e[w] # "ok"})
           R(e) == [pres |-> P(e), store |-> S(e), fails |-> X(e)]
<1>1. PICK e \in F : (\A w \in D : e[w] \in ReleaseEnds(h, w)) /\ g = R(e) /\ g.fails >= 0
  <2>1. g \in {x \in {R(e) : e \in {f \in F : \A w \in D : f[w] \in ReleaseEnds(h, w)}} : x.fails >= 0}
    BY DEF Releases
  <2> QED
    BY <2>1
<1>2. g.pres = P(e) /\ g.store = S(e) /\ g.fails = X(e)
  BY <1>1
<1>3. h.pres \in [Pairs -> Presence] /\ h.store \subseteq Pairs /\ h.fails \in 0..MaxFailures
  BY DEF HolderType
<1>4. \A w \in Pairs : P(e)[w] \in Presence
  <2> SUFFICES ASSUME NEW w \in Pairs
               PROVE  P(e)[w] \in Presence
    OBVIOUS
  <2>1. CASE w \in D
    <3>1. P(e)[w] = PresenceAfter(h, w, e[w])
      BY <2>1
    <3>2. e[w] \in {"ok", "blind", "kept", "dropped"}
      BY <1>1, <2>1
    <3> QED
      BY <3>1, <3>2, <1>3 DEF PresenceAfter, Presence
  <2>2. CASE w \notin D
    BY <2>2, <1>3
  <2> QED
    BY <2>1, <2>2
<1>5. P(e) \in [Pairs -> Presence]
  BY <1>4
<1>6. S(e) \subseteq Pairs
  BY <1>3
<1>7. X(e) \in 0..MaxFailures
  <2> DEFINE B == {w \in D : e[w] # "ok"}
  <2>1. IsFiniteSet(B)
    BY PairsAreFinite, FS_Subset
  <2>2. Cardinality(B) \in Nat
    BY <2>1, FS_CardinalityType
  <2>3. X(e) = h.fails - Cardinality(B) /\ X(e) >= 0
    BY <1>1, <1>2
  <2> QED
    BY <2>2, <2>3, <1>3, BoundTypes
<1>8. g \in HolderType
  <2> HIDE DEF P, S, X
  <2> QED
    BY <1>1, <1>5, <1>6, <1>7 DEF HolderType
<1>9. \A w \in Pairs \ D : g.pres[w] = h.pres[w] /\ (w \in g.store <=> w \in h.store)
  BY <1>2
<1>10. ASSUME NEW w \in D
       PROVE  Honest(g.pres, g.store, w)
  <2>1. e[w] \in ReleaseEnds(h, w) /\ w \in Pairs
    BY <1>1
  <2>2. g.pres[w] = PresenceAfter(h, w, e[w])
    BY <1>2, <2>1
  <2>3. w \in g.store <=> w \in h.store /\ e[w] \notin {"ok", "dropped"}
    BY <1>2
  <2>4. Honest(h.pres, h.store, w)
    BY <2>1
  <2>5. e[w] \in {"ok", "blind", "kept", "dropped"} /\ (e[w] \in {"kept", "dropped"} => w \in h.store)
    BY <2>1 DEF ReleaseEnds
  <2> QED
    BY <2>2, <2>3, <2>4, <2>5 DEF Honest, PresenceAfter
<1> QED
  BY <1>8, <1>9, <1>10 DEF Honest

\* An acquire of the pair w: the others keep what they have, nothing is lost,
\* and what is known of w stays true.
LEMMA AcquiresAreHonest ==
  ASSUME NEW h \in HolderType, NEW w \in Pairs,
         \A v \in Pairs : Honest(h.pres, h.store, v),
         NEW g \in Acquires(h, w)
  PROVE  /\ g \in HolderType
         /\ \A v \in Pairs : Honest(g.pres, g.store, v)
         /\ \A v \in Pairs \ {w} : g.pres[v] = h.pres[v]
         /\ h.store \subseteq g.store /\ g.store \subseteq h.store \cup {w}
<1>1. h.pres \in [Pairs -> Presence] /\ h.store \subseteq Pairs /\ h.fails \in 0..MaxFailures
  BY DEF HolderType
<1>2. h = [pres |-> h.pres, store |-> h.store, fails |-> h.fails]
  BY DEF HolderType
<1> DEFINE R(a, S, n) == [pres |-> [h.pres EXCEPT ![w] = a], store |-> S, fails |-> n]
<1>3. ASSUME NEW a \in Presence, NEW S, S \in {h.store, h.store \cup {w}}, NEW n \in 0..MaxFailures,
             g.pres = [h.pres EXCEPT ![w] = a], g.store = S, g.fails = n,
             g = [pres |-> g.pres, store |-> g.store, fails |-> g.fails],
             a = "confirmed" => w \in S, w \in S => a # "absent"
      PROVE  /\ g \in HolderType
             /\ \A v \in Pairs : Honest(g.pres, g.store, v)
             /\ \A v \in Pairs \ {w} : g.pres[v] = h.pres[v]
             /\ h.store \subseteq g.store /\ g.store \subseteq h.store \cup {w}
  <2>1. g.pres \in [Pairs -> Presence] /\ g.pres[w] = a /\ \A v \in Pairs \ {w} : g.pres[v] = h.pres[v]
    BY <1>1, <1>3
  <2>2. g.store \subseteq Pairs /\ h.store \subseteq g.store /\ g.store \subseteq h.store \cup {w}
    BY <1>1, <1>3
  <2>3. g \in HolderType
    BY <1>3, <2>1, <2>2 DEF HolderType
  <2>4. ASSUME NEW v \in Pairs
        PROVE  Honest(g.pres, g.store, v)
    <3>1. CASE v = w
      BY <1>3, <2>1, <3>1 DEF Honest
    <3>2. CASE v # w
      BY <2>1, <2>2, <3>2 DEF Honest
    <3> QED
      BY <3>1, <3>2
  <2> QED
    BY <2>1, <2>2, <2>3, <2>4
<1>4. CASE g = h
  BY <1>4
<1>5. CASE g # h
  <2>1. h.pres[w] # "confirmed"
    BY <1>5 DEF Acquires
  <2>2. \/ g = [h EXCEPT !.pres[w] = "confirmed", !.store = @ \cup {w}]
        \/ /\ h.fails # 0
           /\ \/ g = [h EXCEPT !.fails = @ - 1]
              \/ g = [h EXCEPT !.fails = @ - 1,
                               !.pres[w] = IF w \in h.store THEN "confirmed" ELSE "absent"]
              \/ g = [h EXCEPT !.fails = @ - 1, !.pres[w] = "unknown"]
              \/ g = [h EXCEPT !.fails = @ - 1, !.pres[w] = "unknown", !.store = @ \cup {w}]
    BY <2>1, Zenon DEF Acquires
  <2>3. h.fails # 0 => h.fails - 1 \in 0..MaxFailures
    BY <1>1, BoundTypes
  <2>4. CASE g = [h EXCEPT !.pres[w] = "confirmed", !.store = @ \cup {w}]
    <3>1. g.pres = [h.pres EXCEPT ![w] = "confirmed"] /\ g.store = h.store \cup {w} /\ g.fails = h.fails
      BY <1>2, <2>4
    <3>2. g = [pres |-> g.pres, store |-> g.store, fails |-> g.fails]
      BY <1>2, <2>4
    <3> QED
      BY <3>1, <3>2, <1>1, <1>3 DEF Presence
  <2>5. CASE h.fails # 0 /\ g = [h EXCEPT !.fails = @ - 1]
    <3>1. g.pres = h.pres /\ g.store = h.store /\ g.fails = h.fails - 1
      BY <1>2, <2>5
    <3>2. g = [pres |-> g.pres, store |-> g.store, fails |-> g.fails]
      BY <1>2, <2>5
    <3>3. g \in HolderType
      BY <3>1, <3>2, <1>1, <2>3, <2>5 DEF HolderType
    <3> QED
      BY <3>1, <3>3 DEF Honest
  <2>6. CASE h.fails # 0 /\ g = [h EXCEPT !.fails = @ - 1,
                               !.pres[w] = IF w \in h.store THEN "confirmed" ELSE "absent"]
    <3> DEFINE a == IF w \in h.store THEN "confirmed" ELSE "absent"
    <3>1. g.pres = [h.pres EXCEPT ![w] = a] /\ g.store = h.store /\ g.fails = h.fails - 1
      BY <1>2, <2>6
    <3>2. g = [pres |-> g.pres, store |-> g.store, fails |-> g.fails]
      BY <1>2, <2>6
    <3>3. a \in Presence /\ (a = "confirmed" => w \in h.store) /\ (w \in h.store => a # "absent")
      BY DEF Presence
    <3> HIDE DEF a
    <3> QED
      BY <3>1, <3>2, <3>3, <1>1, <1>3, <2>3, <2>6
  <2>7. CASE h.fails # 0 /\ g = [h EXCEPT !.fails = @ - 1, !.pres[w] = "unknown"]
    <3>1. g.pres = [h.pres EXCEPT ![w] = "unknown"] /\ g.store = h.store /\ g.fails = h.fails - 1
      BY <1>2, <2>7
    <3>2. g = [pres |-> g.pres, store |-> g.store, fails |-> g.fails]
      BY <1>2, <2>7
    <3> QED
      BY <3>1, <3>2, <1>1, <1>3, <2>3, <2>7 DEF Presence
  <2>8. CASE h.fails # 0 /\ g = [h EXCEPT !.fails = @ - 1, !.pres[w] = "unknown", !.store = @ \cup {w}]
    <3>1. g.pres = [h.pres EXCEPT ![w] = "unknown"] /\ g.store = h.store \cup {w} /\ g.fails = h.fails - 1
      BY <1>2, <2>8
    <3>2. g = [pres |-> g.pres, store |-> g.store, fails |-> g.fails]
      BY <1>2, <2>8
    <3> QED
      BY <3>1, <3>2, <1>1, <1>3, <2>3, <2>8 DEF Presence
  <2> QED
    BY <2>2, <2>4, <2>5, <2>6, <2>7, <2>8
<1> QED
  BY <1>4, <1>5

-----------------------------------------------------------------------------
(* What a step does to holders and sources, pair by pair.                   *)

Has(w) == HasSource(w, connSrc, unkSrc, pending)

\* A pair without holder and source, of a participant that is not known, gets
\* neither.
Quiet ==
  \A w \in Pairs : pstate[w[1]] = "none" /\ pres[w] = "absent" /\ ~Has(w)
                   => pres'[w] = "absent" /\ ~Has(w)'

\* The same seen from a participant.
Empty(p) == \A t \in AllThreads : pres[<<p, t>>] = "absent" /\ ~Has(<<p, t>>)

NoEndpoint(p) == \A c \in live : Owner[c] # p

LEMMA MachineInvParts ==
  MachineInv <=> /\ Holder \in HolderType
                 /\ \A w \in Pairs : Honest(Holder.pres, Holder.store, w)
                 /\ \A w \in Pairs : Has(w) => w \in Holder.store
  BY HolderFields DEF MachineInv, SourcesAreHeld, Has

LEMMA SettledHolder ==
  ASSUME NEW g \in HolderType, pres' = g.pres, store' = g.store,
         \/ fails' = g.fails
         \/ g.fails >= 1 /\ fails' = g.fails - 1,
         \A w \in Pairs : Honest(g.pres, g.store, w),
         \A w \in Pairs : Has(w)' => w \in g.store
  PROVE  MachineInv'
<1>1. g.pres \in [Pairs -> Presence] /\ g.store \subseteq Pairs /\ g.fails \in 0..MaxFailures
  BY DEF HolderType
<1>2. fails' \in 0..MaxFailures
  BY <1>1, BoundTypes
<1>3. MachineTypes'
  BY <1>1, <1>2 DEF MachineTypes, Presence
<1>4. (\A w \in Pairs : Honest(pres, store, w))'
  OBVIOUS
<1>5. SourcesAreHeld'
  BY DEF SourcesAreHeld, Has
<1> QED
  BY <1>3, <1>4, <1>5 DEF MachineInv

LEMMA MachineRests ==
  ASSUME MachineInv, UNCHANGED <<machine, connSrc, unkSrc, pending>>
  PROVE  MachineInv' /\ Quiet
<1>1. pres' = pres /\ store' = store /\ fails' = fails /\ \A w \in Pairs : Has(w)' <=> Has(w)
  BY DEF machine, Has
<1> QED
  BY <1>1 DEF MachineInv, MachineTypes, SourcesAreHeld, Has, Quiet

LEMMA FewerSources ==
  ASSUME NEW cs, NEW us, NEW pe,
         cs \subseteq connSrc, us \subseteq unkSrc, pe \subseteq pending,
         NEW w, HasSource(w, cs, us, pe)
  PROVE  Has(w)
  BY DEF HasSource, Has

\* Sources go, and holders that no source is left for are released.
LEMMA MachineReleases ==
  ASSUME MachineInv,
         NEW cs, NEW us, NEW pe,
         cs \subseteq connSrc, us \subseteq unkSrc, pe \subseteq pending,
         connSrc' = cs, unkSrc' = us, pending' = pe,
         NEW D, D \subseteq Pairs, \A w \in D : pres[w] # "absent" /\ ~HasSource(w, cs, us, pe),
         NEW g \in Releases(Holder, D),
         pres' = g.pres, store' = g.store,
         \/ fails' = g.fails
         \/ g.fails >= 1 /\ fails' = g.fails - 1
  PROVE  MachineInv' /\ Quiet
<1>1. /\ Holder \in HolderType
      /\ \A w \in Pairs : Honest(Holder.pres, Holder.store, w)
      /\ \A w \in Pairs : Has(w) => w \in Holder.store
      /\ Holder.pres = pres
  BY MachineInvParts, HolderFields
<1>2. /\ g \in HolderType
      /\ \A w \in Pairs : Honest(g.pres, g.store, w)
      /\ \A w \in Pairs \ D : g.pres[w] = Holder.pres[w] /\ (w \in g.store <=> w \in Holder.store)
  BY <1>1, ReleasesAreHonest
<1>3. \A w \in Pairs : Has(w)' => Has(w) /\ w \notin D
  BY FewerSources DEF Has
<1>4. \A w \in Pairs : Has(w)' => w \in g.store
  BY <1>1, <1>2, <1>3
<1>5. MachineInv'
  BY <1>2, <1>4, SettledHolder
<1>6. Quiet
  BY <1>1, <1>2, <1>3 DEF Quiet
<1> QED
  BY <1>5, <1>6

\* The holder of a pair is acquired, and becomes a source when it is confirmed.
LEMMA MachineAcquires ==
  ASSUME MachineInv,
         NEW w \in Pairs, pstate[w[1]] # "none",
         NEW g \in Acquires(Holder, w), SetHolder(g),
         \A v \in Pairs : Has(v)' => \/ Has(v)
                                     \/ v = w /\ g.pres[w] = "confirmed"
  PROVE  MachineInv' /\ Quiet
<1>1. /\ Holder \in HolderType
      /\ \A v \in Pairs : Honest(Holder.pres, Holder.store, v)
      /\ \A v \in Pairs : Has(v) => v \in Holder.store
      /\ Holder.pres = pres
  BY MachineInvParts, HolderFields
<1>2. /\ g \in HolderType
      /\ \A v \in Pairs : Honest(g.pres, g.store, v)
      /\ \A v \in Pairs \ {w} : g.pres[v] = Holder.pres[v]
      /\ Holder.store \subseteq g.store
  BY <1>1, AcquiresAreHonest
<1>3. \A v \in Pairs : Has(v)' => v \in g.store
  BY <1>1, <1>2 DEF Honest
<1>4. pres' = g.pres /\ store' = g.store /\ fails' = g.fails
  BY DEF SetHolder
<1>5. MachineInv'
  BY <1>2, <1>3, <1>4, SettledHolder
<1>6. Quiet
  BY <1>1, <1>2, <1>4 DEF Quiet
<1> QED
  BY <1>5, <1>6

LEMMA UnneededPairs ==
  ASSUME NEW W, W \subseteq Pairs, NEW cs, NEW us, NEW pe
  PROVE  /\ Unneeded(W, Holder, cs, us, pe) \subseteq Pairs
         /\ \A w \in Unneeded(W, Holder, cs, us, pe) : pres[w] # "absent" /\ ~HasSource(w, cs, us, pe)
  BY HolderFields DEF Unneeded

\* _retire_orphaned_participant_if_empty retires only what is empty.
LEMMA RetiredOnly ==
  ASSUME NEW P, NEW ps \in [Participants -> {"none", "connected", "grace", "orphaned"}],
         NEW g, NEW cs, NEW us, NEW pe,
         pres' = g.pres, connSrc' = cs, unkSrc' = us, pending' = pe,
         pstate' = Retired(P, ps, g, cs, us, pe)
  PROVE  /\ pstate' \in [Participants -> {"none", "connected", "grace", "orphaned"}]
         /\ \A p \in Participants :
              \/ pstate'[p] = ps[p]
              \/ pstate'[p] = "none" /\ ps[p] = "orphaned" /\ NoEndpoint(p) /\ Empty(p)'
<1>1. ASSUME NEW p \in Participants
      PROVE  /\ pstate'[p] \in {"none", "connected", "grace", "orphaned"}
             /\ \/ pstate'[p] = ps[p]
                \/ pstate'[p] = "none" /\ ps[p] = "orphaned" /\ NoEndpoint(p) /\ Empty(p)'
  <2> DEFINE C == /\ p \in P /\ ps[p] = "orphaned"
                  /\ \A c \in live : Owner[c] # p
                  /\ \A t \in AllThreads :
                        g.pres[<<p, t>>] = "absent" /\ ~HasSource(<<p, t>>, cs, us, pe)
  <2>1. pstate'[p] = IF C THEN "none" ELSE ps[p]
    BY DEF Retired
  <2>2. C => ps[p] = "orphaned" /\ NoEndpoint(p) /\ Empty(p)'
    BY DEF NoEndpoint, Empty, Has
  <2> QED
    BY <2>1, <2>2
<1>2. pstate' = [p \in Participants |-> pstate'[p]]
  BY DEF Retired
<1> QED
  BY <1>1, <1>2

LEMMA EmptyParts ==
  RetiredIsEmpty <=> \A p \in Participants : pstate[p] = "none" => NoEndpoint(p) /\ Empty(p)
  BY DEF RetiredIsEmpty, NoEndpoint, Empty, Has

\* A record is not there or was given up only with its sources and holders.
LEMMA StillEmpty ==
  ASSUME RetiredIsEmpty, Quiet,
         \A p \in Participants : pstate'[p] = "none" =>
            pstate[p] = "none" \/ (NoEndpoint(p) /\ Empty(p)'),
         \A c \in live' : c \in live \/ pstate'[Owner[c]] # "none"
  PROVE  RetiredIsEmpty'
<1>0. RetiredIsEmpty' <=> (\A p \in Participants : pstate[p] = "none" => NoEndpoint(p) /\ Empty(p))'
  BY EmptyParts, PTL
<1> SUFFICES ASSUME NEW p \in Participants, pstate'[p] = "none"
             PROVE  NoEndpoint(p)' /\ Empty(p)'
  BY <1>0
<1>1. NoEndpoint(p) /\ Empty(p)'
  <2>1. CASE pstate[p] = "none"
    <3>1. NoEndpoint(p) /\ Empty(p)
      BY <2>1, EmptyParts
    <3>2. ASSUME NEW t \in AllThreads
          PROVE  pres'[<<p, t>>] = "absent" /\ ~Has(<<p, t>>)'
      <4>1. <<p, t>> \in Pairs /\ <<p, t>>[1] = p
        BY DEF Pairs
      <4> QED
        BY <2>1, <3>1, <4>1 DEF Quiet, Empty
    <3> QED
      BY <3>1, <3>2 DEF Empty
  <2>2. CASE pstate[p] # "none"
    BY <2>2
  <2> QED
    BY <2>1, <2>2
<1> QED
  BY <1>1 DEF NoEndpoint

-----------------------------------------------------------------------------
(* Holders and participant records, operation by operation.                 *)

PStates == [Participants -> {"none", "connected", "grace", "orphaned"}]

RegistryKept == MachineInv' /\ RetiredIsEmpty' /\ pstate' \in PStates

LEMMA RegistryRests ==
  ASSUME MachineInv, RetiredIsEmpty, pstate \in PStates,
         UNCHANGED <<machine, connSrc, unkSrc, pending, pstate, live>>
  PROVE  RegistryKept
<1>1. MachineInv' /\ Quiet
  BY MachineRests
<1>2. RetiredIsEmpty'
  BY <1>1, StillEmpty
<1> QED
  BY <1>1, <1>2 DEF RegistryKept

LEMMA ReleaseUnneededHolds ==
  ASSUME MachineInv, UNCHANGED <<connSrc, unkSrc, pending>>,
         NEW p \in Participants, NEW ps \in PStates,
         ReleaseUnneeded(p, ps, Holder, connSrc, unkSrc, pending)
  PROVE  /\ MachineInv' /\ Quiet /\ pstate' \in PStates
         /\ \A q \in Participants :
              \/ pstate'[q] = ps[q]
              \/ pstate'[q] = "none" /\ ps[q] = "orphaned" /\ NoEndpoint(q) /\ Empty(q)'
<1> DEFINE D == Unneeded({p} \X AllThreads, Holder, connSrc, unkSrc, pending)
<1>1. PICK g \in Releases(Holder, D) :
        /\ SetHolder(g)
        /\ pstate' = Retired({p}, ps, g, connSrc, unkSrc, pending)
  BY DEF ReleaseUnneeded
<1>2. {p} \X AllThreads \subseteq Pairs
  BY DEF Pairs
<1>3. D \subseteq Pairs /\ \A w \in D : pres[w] # "absent" /\ ~HasSource(w, connSrc, unkSrc, pending)
  BY <1>2, UnneededPairs
<1> HIDE DEF D
<1>4. pres' = g.pres /\ store' = g.store /\ fails' = g.fails
  BY <1>1 DEF SetHolder
<1>5. MachineInv' /\ Quiet
  BY <1>3, <1>4, MachineReleases
<1>6. /\ pstate' \in PStates
      /\ \A q \in Participants :
           \/ pstate'[q] = ps[q]
           \/ pstate'[q] = "none" /\ ps[q] = "orphaned" /\ NoEndpoint(q) /\ Empty(q)'
  BY <1>1, <1>4, RetiredOnly DEF PStates
<1> QED
  BY <1>5, <1>6

LEMMA ReleaseUnneededKeeps ==
  ASSUME MachineInv, RetiredIsEmpty, UNCHANGED <<connSrc, unkSrc, pending>>,
         NEW p \in Participants, NEW ps \in PStates,
         ReleaseUnneeded(p, ps, Holder, connSrc, unkSrc, pending),
         \A q \in Participants : ps[q] = "none" => pstate[q] = "none",
         live' \subseteq live
  PROVE  RegistryKept
<1>1. /\ MachineInv' /\ Quiet /\ pstate' \in PStates
      /\ \A q \in Participants :
           \/ pstate'[q] = ps[q]
           \/ pstate'[q] = "none" /\ ps[q] = "orphaned" /\ NoEndpoint(q) /\ Empty(q)'
  BY ReleaseUnneededHolds
<1>2. RetiredIsEmpty'
  BY <1>1, StillEmpty
<1> QED
  BY <1>1, <1>2 DEF RegistryKept

LEMMA ConnectRegistry ==
  ASSUME FcodexInd, NEW c \in Connections, Connect(c)
  PROVE  RegistryKept
<1> DEFINE p == Owner[c]
           ps == [pstate EXCEPT ![p] = "connected"]
<1>1. MachineInv /\ RetiredIsEmpty /\ pstate \in PStates /\ live \subseteq Connections /\ p \in Participants
  BY OwnerAssumption DEF FcodexInd, EndpointInv, PStates
<1>2. /\ ReleaseUnneeded(p, ps, Holder, connSrc, unkSrc, pending)
      /\ live' = live \cup {c}
      /\ UNCHANGED <<connSrc, unkSrc, pending>>
  BY DEF Connect, sources
<1>3. ps \in PStates /\ ps[p] = "connected" /\ \A q \in Participants : q # p => ps[q] = pstate[q]
  BY <1>1 DEF PStates
<1> HIDE DEF ps
<1>4. /\ MachineInv' /\ Quiet /\ pstate' \in PStates
      /\ \A q \in Participants :
           \/ pstate'[q] = ps[q]
           \/ pstate'[q] = "none" /\ ps[q] = "orphaned" /\ NoEndpoint(q) /\ Empty(q)'
  BY <1>1, <1>2, <1>3, ReleaseUnneededHolds
<1>5. pstate'[p] # "none"
  BY <1>1, <1>3, <1>4
<1>6. RetiredIsEmpty'
  BY <1>1, <1>2, <1>3, <1>4, <1>5, StillEmpty
<1> QED
  BY <1>4, <1>6 DEF RegistryKept

LEMMA HeartbeatRegistry ==
  ASSUME FcodexInd, NEW c \in Connections, Heartbeat(c)
  PROVE  RegistryKept
<1>1. MachineInv /\ RetiredIsEmpty /\ pstate \in PStates /\ Owner[c] \in Participants
  BY OwnerAssumption DEF FcodexInd, EndpointInv, PStates
<1>2. /\ ReleaseUnneeded(Owner[c], pstate, Holder, connSrc, unkSrc, pending)
      /\ live' = live
      /\ UNCHANGED <<connSrc, unkSrc, pending>>
  BY DEF Heartbeat, sources
<1> QED
  BY <1>1, <1>2, ReleaseUnneededKeeps

LEMMA ExpireParticipantRegistry ==
  ASSUME FcodexInd, NEW tm \in timers, ExpireParticipant(tm)
  PROVE  RegistryKept
<1> DEFINE p == tm.who
           ps == [pstate EXCEPT ![p] = "orphaned"]
<1>1. MachineInv /\ RetiredIsEmpty /\ pstate \in PStates
  BY DEF FcodexInd, EndpointInv, PStates
<1>2. p \in Participants /\ live' = live /\ UNCHANGED <<connSrc, unkSrc, pending>>
  BY DEF ExpireParticipant, sources
<1>3. \/ ReleaseUnneeded(p, ps, Holder, connSrc, unkSrc, pending)
      \/ UNCHANGED <<pstate, machine>>
  BY DEF ExpireParticipant
<1>4. ps \in PStates /\ \A q \in Participants : ps[q] = "none" => pstate[q] = "none"
  BY <1>1, <1>2 DEF PStates
<1> HIDE DEF ps, p
<1>5. CASE ReleaseUnneeded(p, ps, Holder, connSrc, unkSrc, pending)
  BY <1>1, <1>2, <1>4, <1>5, ReleaseUnneededKeeps
<1>6. CASE UNCHANGED <<pstate, machine>>
  BY <1>1, <1>2, <1>6, RegistryRests
<1> QED
  BY <1>3, <1>5, <1>6

LEMMA FinishDisconnectRegistry ==
  ASSUME FcodexInd, FinishDisconnect
  PROVE  RegistryKept
<1> DEFINE p == Owner[job.conn]
<1>1. MachineInv /\ RetiredIsEmpty /\ pstate \in PStates
  BY DEF FcodexInd, EndpointInv, PStates
<1>2. p \in Participants /\ live' = live /\ UNCHANGED <<connSrc, unkSrc, pending>>
  BY OwnerAssumption DEF FinishDisconnect, sources, FcodexInd, JobInv, Idle
<1>3. \/ ReleaseUnneeded(p, pstate, Holder, connSrc, unkSrc, pending)
      \/ UNCHANGED <<pstate, machine>>
  BY DEF FinishDisconnect
<1> HIDE DEF p
<1>5. CASE ReleaseUnneeded(p, pstate, Holder, connSrc, unkSrc, pending)
  BY <1>1, <1>2, <1>5, ReleaseUnneededKeeps
<1>6. CASE UNCHANGED <<pstate, machine>>
  BY <1>1, <1>2, <1>6, RegistryRests
<1> QED
  BY <1>3, <1>5, <1>6

\* Releases of any unneeded pairs and the retirements that follow them.
LEMMA ReleaseAndRetire ==
  ASSUME MachineInv, RetiredIsEmpty, pstate \in PStates,
         NEW cs, NEW us, NEW pe,
         cs \subseteq connSrc, us \subseteq unkSrc, pe \subseteq pending,
         connSrc' = cs, unkSrc' = us, pending' = pe,
         NEW W, W \subseteq Pairs,
         NEW g \in Releases(Holder, Unneeded(W, Holder, cs, us, pe)), SetHolder(g),
         NEW P, pstate' = Retired(P, pstate, g, cs, us, pe),
         live' = live
  PROVE  RegistryKept
<1> DEFINE D == Unneeded(W, Holder, cs, us, pe)
<1>3. D \subseteq Pairs /\ \A w \in D : pres[w] # "absent" /\ ~HasSource(w, cs, us, pe)
  BY UnneededPairs
<1>0. g \in Releases(Holder, D)
  OBVIOUS
<1> HIDE DEF D
<1>4. pres' = g.pres /\ store' = g.store /\ fails' = g.fails
  BY DEF SetHolder
<1>5. MachineInv' /\ Quiet
  BY <1>0, <1>3, <1>4, MachineReleases
<1>6. /\ pstate' \in PStates
      /\ \A q \in Participants :
           \/ pstate'[q] = pstate[q]
           \/ pstate'[q] = "none" /\ pstate[q] = "orphaned" /\ NoEndpoint(q) /\ Empty(q)'
  BY <1>4, RetiredOnly DEF PStates
<1>7. RetiredIsEmpty'
  BY <1>5, <1>6, StillEmpty
<1> QED
  BY <1>5, <1>6, <1>7 DEF RegistryKept

LEMMA DropEndpointRegistry ==
  ASSUME FcodexInd, NEW c \in live, NEW ts, DropEndpoint(c, ts), UNCHANGED <<unkSrc, pending>>
  PROVE  RegistryKept /\ pstate'[Owner[c]] # "none"
<1> DEFINE p == Owner[c]
           cs == {s \in connSrc : s[1] # c}
           W == {<<p, s[2]>> : s \in connSrc \ cs}
           lastOne == {d \in live : Owner[d] = p} = {c}
           D == Unneeded(W, Holder, cs, unkSrc, pending)
<1>1. MachineInv /\ RetiredIsEmpty /\ pstate \in PStates /\ live \subseteq Connections /\ SourceTypes
  BY DEF FcodexInd, EndpointInv, PStates
<1>2. p \in Participants /\ live' = live \ {c} /\ connSrc' = cs
  BY <1>1, OwnerAssumption DEF DropEndpoint
<1>3. PICK scheduled \in BOOLEAN :
        /\ pstate' = [pstate EXCEPT ![p] = IF ~lastOne THEN @ ELSE IF scheduled THEN "grace" ELSE "orphaned"]
        /\ \E g \in Releases(Holder, D) :
             LET cost == IF scheduled THEN 0 ELSE 1 IN
             g.fails >= cost /\ SetHolder([g EXCEPT !.fails = @ - cost])
  BY DEF DropEndpoint
<1>4. PICK g \in Releases(Holder, D) :
        LET cost == IF scheduled THEN 0 ELSE 1 IN
        g.fails >= cost /\ SetHolder([g EXCEPT !.fails = @ - cost])
  BY <1>3
<1>5. W \subseteq Pairs
  <2>1. \A s \in connSrc : s[2] \in AllThreads
    BY <1>1 DEF SourceTypes
  <2> QED
    BY <2>1, <1>2 DEF Pairs
<1>6. D \subseteq Pairs /\ \A w \in D : pres[w] # "absent" /\ ~HasSource(w, cs, unkSrc, pending)
  BY <1>5, UnneededPairs
<1>7. cs \subseteq connSrc
  OBVIOUS
<1>8. pstate[p] # "none"
  BY <1>1, <1>2 DEF RetiredIsEmpty
<1>9. /\ pstate' \in PStates /\ pstate'[p] # "none"
      /\ \A q \in Participants : pstate'[q] = "none" => pstate[q] = "none"
  <2> HIDE DEF lastOne
  <2> QED
    BY <1>1, <1>2, <1>3, <1>8 DEF PStates
<1> HIDE DEF D, cs
<1>10. g \in HolderType
  BY <1>1, <1>4, <1>6, MachineInvParts, ReleasesAreHonest
<1>11. /\ pres' = g.pres /\ store' = g.store
       /\ \/ fails' = g.fails
          \/ g.fails >= 1 /\ fails' = g.fails - 1
  <2>1. CASE scheduled
    BY <2>1, <1>4, <1>10 DEF SetHolder, HolderType
  <2>2. CASE ~scheduled
    BY <2>2, <1>4, <1>10 DEF SetHolder, HolderType
  <2> QED
    BY <2>1, <2>2
<1>12. MachineInv' /\ Quiet
  BY <1>1, <1>2, <1>4, <1>6, <1>7, <1>11, MachineReleases
<1>13. RetiredIsEmpty'
  BY <1>1, <1>2, <1>9, <1>12, StillEmpty
<1> QED
  BY <1>9, <1>12, <1>13 DEF RegistryKept

LEMMA DisconnectRegistry ==
  ASSUME FcodexInd, NEW c \in Connections, ParticipantDisconnects(c), UNCHANGED <<unkSrc, pending>>
  PROVE  RegistryKept
<1>1. MachineInv /\ RetiredIsEmpty /\ pstate \in PStates
  BY DEF FcodexInd, EndpointInv, PStates
<1>2. CASE c \in live /\ DropEndpoint(c, timers)
  BY <1>2, DropEndpointRegistry
<1>3. CASE UNCHANGED <<endpoints, connSrc, machine>>
  BY <1>1, <1>3, RegistryRests DEF endpoints
<1> QED
  BY <1>2, <1>3 DEF ParticipantDisconnects

LEMMA CloseProxyRegistry ==
  ASSUME FcodexInd, NEW c \in Connections, CloseProxy(c)
  PROVE  RegistryKept
<1>1. MachineInv /\ RetiredIsEmpty /\ pstate \in PStates
  BY DEF FcodexInd, EndpointInv, PStates
<1>2. CASE ParticipantDisconnects(c)
  BY <1>2, DisconnectRegistry DEF CloseProxy
<1>3. CASE UNCHANGED <<endpoints, connSrc, machine, job>>
  BY <1>1, <1>3, RegistryRests DEF endpoints, CloseProxy
<1> QED
  BY <1>2, <1>3 DEF CloseProxy

LEMMA ExpireConnectionRegistry ==
  ASSUME FcodexInd, NEW tm \in timers, ExpireConnection(tm)
  PROVE  RegistryKept
<1>1. MachineInv /\ RetiredIsEmpty /\ pstate \in PStates
  BY DEF FcodexInd, EndpointInv, PStates
<1>2. CASE tm.who \in live /\ DropEndpoint(tm.who, timers \ {tm})
  BY <1>2, DropEndpointRegistry DEF ExpireConnection
<1>3. CASE UNCHANGED <<pstate, live, cgen, pgen, lseq, connSrc, machine, job>>
  BY <1>1, <1>3, RegistryRests DEF ExpireConnection
<1> QED
  BY <1>2, <1>3 DEF ExpireConnection

LEMMA FrameAtHead ==
  ASSUME WorldInv, NEW c \in Connections, wire[c] # <<>>
  PROVE  /\ Head(wire[c]) \in Response \cup GoneFrame
         /\ Head(wire[c]) = wire[c][1] /\ 1 \in DOMAIN wire[c]
         /\ Head(wire[c]).kind = "response" => Head(wire[c]) \in Response
         /\ Head(wire[c]).kind = "gone" => Head(wire[c]).t \in AllThreads
<1>1. wire[c] \in Seq(Response \cup GoneFrame)
  BY DEF WorldInv, WireType, Frame
<1>2. Len(wire[c]) \in Nat /\ DOMAIN wire[c] = 1..Len(wire[c]) /\ Len(wire[c]) # 0
  BY <1>1, EmptySeq, LenProperties
<1>3. 1 \in DOMAIN wire[c] /\ Head(wire[c]) = wire[c][1]
  BY <1>1, <1>2
<1>4. wire[c][1] \in Response \cup GoneFrame
  BY <1>1, <1>2, <1>3, ElementOfSeq
<1>5. (Head(wire[c]).kind = "response" => Head(wire[c]) \in Response)
      /\ (Head(wire[c]).kind = "gone" => Head(wire[c]) \in GoneFrame)
  BY <1>3, <1>4 DEF Response, GoneFrame
<1> QED
  BY <1>3, <1>4, <1>5 DEF GoneFrame

LEMMA ResponseFields ==
  ASSUME NEW f \in Response
  PROVE  /\ f.kind = "response" /\ f.key \in Keys /\ f.tok \in Tokens
         /\ f.out \in Outcomes /\ f.t \in AllThreads /\ f.tok # 0
  BY BoundTypes DEF Response, Tokens

LEMMA RequestFields ==
  ASSUME RequestInv, NEW k \in Keys
  PROVE  /\ reqs[k] = NoRequest => reqs[k].tok = 0
         /\ reqs[k] # NoRequest =>
              /\ reqs[k] \in Request
              /\ reqs[k].tok \in Tokens /\ reqs[k].tok # 0 /\ reqs[k].tok <= seq
              /\ reqs[k].method \in Methods /\ reqs[k].t \in AllThreads
              /\ reqs[k].revoked \in BOOLEAN /\ reqs[k].epoch \in 0..MaxEpochs
<1>1. reqs[k] \in Request \cup {NoRequest}
  BY DEF RequestInv
<1>2. reqs[k] # NoRequest => reqs[k].tok <= seq
  BY DEF RequestInv
<1> QED
  BY <1>1, <1>2, BoundTypes DEF Request, NoRequest, Tokens

\* An answer speaks of the request it was issued for.
LEMMA MatchedRequest ==
  ASSUME RequestInv, NEW f \in Response, TokenMatches(f.key, f.tok)
  PROVE  reqs[f.key] # NoRequest
  BY ResponseFields, RequestFields DEF TokenMatches

LEMMA DeliverGoneRegistry ==
  ASSUME FcodexInd, NEW c \in Connections, DeliverGone(c)
  PROVE  RegistryKept
<1> DEFINE t == Head(wire[c]).t
           n == SourcesAfterGone(t)
           who == {p \in Participants : pres[<<p, t>>] # "absent"}
           W == who \X {t}
           D == Unneeded(W, Holder, n.cs, n.us, n.pe)
<1>1. MachineInv /\ RetiredIsEmpty /\ pstate \in PStates /\ WorldInv
  BY DEF FcodexInd, EndpointInv, PStates
<1>2. live' = live
  BY DEF DeliverGone
<1>3. t \in AllThreads
  BY <1>1, FrameAtHead DEF DeliverGone
<1>4. W \subseteq Pairs
  BY <1>3 DEF Pairs
<1>5. n.cs \subseteq connSrc /\ n.us \subseteq unkSrc /\ n.pe \subseteq pending
  BY DEF SourcesAfterGone
<1>6. CASE UNCHANGED <<connSrc, unkSrc, pending, cleanup, machine, pstate, loose>>
  BY <1>1, <1>2, <1>6, RegistryRests
<1>7. CASE /\ connSrc' = n.cs /\ unkSrc' = n.us /\ pending' = n.pe
           /\ \E h \in Releases(Holder, D) :
                  /\ SetHolder(h)
                  /\ pstate' = Retired(who, pstate, h, n.cs, n.us, n.pe)
  <2> HIDE DEF n, W, who, t
  <2>1. PICK h \in Releases(Holder, Unneeded(W, Holder, n.cs, n.us, n.pe)) :
                  /\ SetHolder(h)
                  /\ pstate' = Retired(who, pstate, h, n.cs, n.us, n.pe)
    BY <1>7
  <2> QED
    BY <1>1, <1>2, <1>4, <1>5, <1>7, <2>1, ReleaseAndRetire
<1> QED
  BY <1>6, <1>7 DEF DeliverGone

LEMMA RetryCleanupsRegistry ==
  ASSUME FcodexInd, RetryCleanups
  PROVE  RegistryKept
<1> DEFINE W == {w \in Pairs : w[1] \in cleanup[w[2]]}
           D == Unneeded(W, Holder, connSrc, unkSrc, pending)
           P == {w[1] : w \in W}
<1>1. MachineInv /\ RetiredIsEmpty /\ pstate \in PStates
  BY DEF FcodexInd, EndpointInv, PStates
<1>2. live' = live /\ UNCHANGED <<connSrc, unkSrc, pending>>
  BY DEF RetryCleanups
<1>3. W \subseteq Pairs
  OBVIOUS
<1>4. PICK h \in Releases(Holder, D) :
        /\ SetHolder(h)
        /\ pstate' = Retired(P, pstate, h, connSrc, unkSrc, pending)
  BY DEF RetryCleanups
<1> HIDE DEF W, P
<1> QED
  BY <1>1, <1>2, <1>3, <1>4, ReleaseAndRetire

LEMMA BackendResetRegistry ==
  ASSUME FcodexInd, BackendEpochCloses
  PROVE  RegistryKept
<1>1. /\ pstate' = [p \in Participants |-> "none"] /\ live' = {}
      /\ connSrc' = {} /\ unkSrc' = {} /\ pending' = {}
      /\ pres' = [w \in Pairs |-> "absent"] /\ store' = {} /\ fails' = fails
  BY DEF BackendEpochCloses
<1>2. \A w \in Pairs : ~Has(w)'
  BY <1>1 DEF Has, HasSource
<1>3. MachineInv'
  BY <1>1, <1>2 DEF FcodexInd, MachineInv, MachineTypes, SourcesAreHeld, Has, Honest
<1>4. \A p \in Participants, t \in AllThreads : pres'[<<p, t>>] = "absent" /\ ~Has(<<p, t>>)'
  BY <1>1, <1>2 DEF Pairs
<1>5. RetiredIsEmpty'
  BY <1>1, <1>4 DEF RetiredIsEmpty, Has
<1>6. pstate' \in PStates
  BY <1>1 DEF PStates
<1> QED
  BY <1>3, <1>5, <1>6 DEF RegistryKept

\* A holder is acquired for a participant that is known.
LEMMA AcquireAndPublish ==
  ASSUME MachineInv, RetiredIsEmpty, pstate \in PStates,
         NEW w \in Pairs, pstate[w[1]] # "none",
         NEW g \in Acquires(Holder, w), SetHolder(g),
         \A v \in Pairs : Has(v)' => \/ Has(v)
                                     \/ v = w /\ g.pres[w] = "confirmed",
         UNCHANGED <<pstate, live>>
  PROVE  RegistryKept
<1>1. MachineInv' /\ Quiet
  BY MachineAcquires
<1>2. RetiredIsEmpty'
  BY <1>1, StillEmpty
<1> QED
  BY <1>1, <1>2 DEF RegistryKept

LEMMA AdmitResumeRegistry ==
  ASSUME FcodexInd, NEW k \in Keys, NEW t \in AllThreads, AdmitResume(k, t)
  PROVE  RegistryKept
<1> DEFINE w == <<Owner[k[1]], t>>
<1>1. MachineInv /\ RetiredIsEmpty /\ pstate \in PStates
  BY DEF FcodexInd, EndpointInv, PStates
<1>2. w \in Pairs /\ k[1] \in live /\ w[1] = Owner[k[1]] /\ w[2] = t
  BY KeyParts DEF AdmitResume, Pairs
<1>3. pstate[w[1]] # "none"
  BY <1>1, <1>2, KeyParts DEF RetiredIsEmpty
<1>4. PICK h \in Acquires(Holder, w) :
         /\ SetHolder(h)
         /\ IF h.pres[w] = "confirmed"
            THEN pending' = pending \cup {[key |-> k, tok |-> seq', t |-> t]}
            ELSE pending' = pending
  BY DEF AdmitResume
<1>5. connSrc' = connSrc /\ unkSrc' = unkSrc /\ pstate' = pstate /\ live' = live
  BY DEF AdmitResume, endpoints
<1>6. ASSUME NEW v \in Pairs, Has(v)'
      PROVE  Has(v) \/ (v = w /\ h.pres[w] = "confirmed")
  <2> DEFINE q == [key |-> k, tok |-> seq', t |-> t]
  <2>1. q.key = k /\ q.t = t
    OBVIOUS
  <2> HIDE DEF q
  <2>2. CASE h.pres[w] # "confirmed"
    BY <1>4, <1>5, <1>6, <2>2 DEF Has
  <2>3. CASE h.pres[w] = "confirmed" /\ ~Has(v)
    <3>1. pending' = pending \cup {q}
      BY <1>4, <2>3 DEF q
    <3>2. Owner[q.key[1]] = v[1] /\ q.t = v[2]
      BY <1>5, <1>6, <2>3, <3>1 DEF Has, HasSource
    <3>3. v = w
      BY <2>1, <3>2, PairParts
    <3> QED
      BY <2>3, <3>3
  <2> QED
    BY <2>2, <2>3
<1> HIDE DEF w
<1> QED
  BY <1>1, <1>2, <1>3, <1>4, <1>5, <1>6, AcquireAndPublish

LEMMA ResumeSucceededRegistry ==
  ASSUME FcodexInd, NEW k \in Keys, IsRequest(k, "resume"),
         ResumeSucceeded(k, <<Owner[k[1]], reqs[k].t>>), live' = live
  PROVE  RegistryKept
<1> DEFINE t == reqs[k].t
           w == <<Owner[k[1]], t>>
<1>1. MachineInv /\ RetiredIsEmpty /\ pstate \in PStates /\ RequestInv
  BY DEF FcodexInd, EndpointInv, PStates
<1>2. t \in AllThreads /\ k[1] \in live /\ Owner[k[1]] \in Participants
  BY <1>1, RequestFields, KeyParts DEF IsRequest, ResumeSucceeded
<1>3. w \in Pairs /\ w[1] = Owner[k[1]] /\ w[2] = t
  BY <1>2 DEF Pairs
<1>4. pstate[w[1]] # "none"
  BY <1>1, <1>2, <1>3 DEF RetiredIsEmpty
<1>5. PICK h \in Acquires(Holder, w) :
         /\ SetHolder(h)
         /\ IF h.pres[w] = "confirmed"
            THEN /\ connSrc' = connSrc \cup {<<k[1], w[2]>>}
                 /\ pending' = pending \ PendingOf(k)
                 /\ reqs' = Drop(k)
            ELSE UNCHANGED <<connSrc, pending, reqs>>
  BY DEF ResumeSucceeded
<1>6. unkSrc' = unkSrc /\ pstate' = pstate
  BY DEF ResumeSucceeded
<1>7. ASSUME NEW v \in Pairs, Has(v)'
      PROVE  Has(v) \/ (v = w /\ h.pres[w] = "confirmed")
  <2>1. CASE h.pres[w] # "confirmed"
    BY <1>5, <1>6, <1>7, <2>1 DEF Has
  <2>2. CASE h.pres[w] = "confirmed" /\ ~Has(v)
    <3>1. connSrc' = connSrc \cup {<<k[1], w[2]>>} /\ pending' \subseteq pending
      BY <1>5, <2>2
    <3>2. \E c \in Connections : Owner[c] = v[1] /\ <<c, v[2]>> = <<k[1], w[2]>>
      BY <1>6, <1>7, <2>2, <3>1 DEF Has, HasSource
    <3>3. v[1] = w[1] /\ v[2] = w[2]
      BY <1>3, <3>2
    <3>4. v = w
      BY <1>3, <3>3, PairParts
    <3> QED
      BY <2>2, <3>4
  <2> QED
    BY <2>1, <2>2
<1> HIDE DEF w
<1> QED
  BY <1>1, <1>3, <1>4, <1>5, <1>6, <1>7, AcquireAndPublish

LEMMA ResumeRejectedRegistry ==
  ASSUME FcodexInd, NEW k \in Keys, IsRequest(k, "resume"),
         ResumeRejected(k, <<Owner[k[1]], reqs[k].t>>), live' = live
  PROVE  RegistryKept
<1> DEFINE w == <<Owner[k[1]], reqs[k].t>>
           pe == pending \ PendingOf(k)
           D == Unneeded({w}, Holder, connSrc, unkSrc, pe)
<1>1. MachineInv /\ RetiredIsEmpty /\ pstate \in PStates /\ RequestInv
  BY DEF FcodexInd, EndpointInv, PStates
<1>2. {w} \subseteq Pairs
  BY <1>1, RequestFields, KeyParts DEF IsRequest, Pairs
<1>3. connSrc' = connSrc /\ unkSrc' = unkSrc /\ pending' = pe /\ pe \subseteq pending
  BY DEF ResumeRejected
<1>4. PICK h \in Releases(Holder, D) :
         /\ SetHolder(h)
         /\ \/ pstate' = Retired({w[1]}, pstate, h, connSrc, unkSrc, pe)
            \/ pstate' = pstate
  BY DEF ResumeRejected
<1> DEFINE P == {w[1]}
<1> HIDE DEF w, pe, P
<1>5. CASE pstate' = Retired(P, pstate, h, connSrc, unkSrc, pe)
  BY <1>1, <1>2, <1>3, <1>4, <1>5, ReleaseAndRetire
<1>6. CASE pstate' = pstate
  <2>1. D \subseteq Pairs /\ \A v \in D : pres[v] # "absent" /\ ~HasSource(v, connSrc, unkSrc, pe)
    BY <1>2, UnneededPairs
  <2> HIDE DEF D
  <2>2. pres' = h.pres /\ store' = h.store /\ fails' = h.fails
    BY <1>4 DEF SetHolder
  <2>3. MachineInv' /\ Quiet
    BY <1>1, <1>3, <1>4, <2>1, <2>2, MachineReleases
  <2>4. RetiredIsEmpty'
    BY <1>1, <1>6, <2>3, StillEmpty
  <2> QED
    BY <1>1, <1>6, <2>3, <2>4 DEF RegistryKept
<1> QED
  BY <1>4, <1>5, <1>6 DEF P

LEMMA ResumeUnknownRegistry ==
  ASSUME FcodexInd, NEW k \in Keys, IsRequest(k, "resume"),
         k \in staged => pstate[Owner[k[1]]] # "none",
         ResumeUnknown(k, <<Owner[k[1]], reqs[k].t>>), live' = live
  PROVE  RegistryKept
<1> DEFINE t == reqs[k].t
           w == <<Owner[k[1]], t>>
<1>1. MachineInv /\ RetiredIsEmpty /\ pstate \in PStates /\ RequestInv /\ SourcesFit
  BY DEF FcodexInd, EndpointInv, PStates
<1>2. t \in AllThreads /\ Owner[k[1]] \in Participants
  BY <1>1, RequestFields, KeyParts DEF IsRequest
<1>3. w \in Pairs /\ w[1] = Owner[k[1]] /\ w[2] = t
  BY <1>2 DEF Pairs
<1>4. pstate[w[1]] # "none"
  <2>1. CASE k \in staged
    BY <1>3, <2>1
  <2>2. CASE PendingOf(k) # {}
    <3>1. PICK s \in pending : s.key = k
      BY <2>2 DEF PendingOf
    <3>2. s.t = t
      BY <1>1, <3>1 DEF SourcesFit
    <3>3. Has(w)
      BY <1>3, <3>1, <3>2 DEF Has, HasSource
    <3> QED
      BY <1>1, <1>2, <1>3, <3>3 DEF RetiredIsEmpty, Has
  <2> QED
    BY <2>1, <2>2 DEF ResumeUnknown
<1>5. PICK h \in Acquires(Holder, w) :
         /\ SetHolder(h)
         /\ IF h.pres[w] = "confirmed"
            THEN unkSrc' = unkSrc \cup {w} /\ pending' = pending \ PendingOf(k)
            ELSE unkSrc' = unkSrc /\ pending' = pending
  BY DEF ResumeUnknown
<1>6. connSrc' = connSrc /\ pstate' = pstate
  BY DEF ResumeUnknown
<1>7. ASSUME NEW v \in Pairs, Has(v)'
      PROVE  Has(v) \/ (v = w /\ h.pres[w] = "confirmed")
  BY <1>5, <1>6, <1>7 DEF Has, HasSource
<1> HIDE DEF w
<1> QED
  BY <1>1, <1>3, <1>4, <1>5, <1>6, <1>7, AcquireAndPublish

LEMMA UnsubscribeRegistry ==
  ASSUME FcodexInd, NEW k \in Keys, IsRequest(k, "unsubscribe"), NEW out,
         UnsubscribeResponse(k, out), live' = live
  PROVE  RegistryKept
<1> DEFINE w == <<Owner[k[1]], reqs[k].t>>
           cs == IF out = "success" THEN connSrc \ {<<k[1], w[2]>>} ELSE connSrc
           W == IF out = "success" THEN {w} ELSE {}
           P == {w[1]}
<1>1. MachineInv /\ RetiredIsEmpty /\ pstate \in PStates /\ RequestInv
  BY DEF FcodexInd, EndpointInv, PStates
<1>2. W \subseteq Pairs
  BY <1>1, RequestFields, KeyParts DEF IsRequest, Pairs
<1>3. connSrc' = cs /\ unkSrc' = unkSrc /\ pending' = pending /\ cs \subseteq connSrc
  BY DEF UnsubscribeResponse
<1>4. PICK h \in Releases(Holder, IF out = "success"
                                  THEN Unneeded({w}, Holder, cs, unkSrc, pending) ELSE {}) :
         /\ SetHolder(h)
         /\ pstate' = Retired(P, pstate, h, cs, unkSrc, pending)
  BY DEF UnsubscribeResponse
<1>5. (IF out = "success" THEN Unneeded({w}, Holder, cs, unkSrc, pending) ELSE {})
        = Unneeded(W, Holder, cs, unkSrc, pending)
  BY DEF Unneeded
<1>6. h \in Releases(Holder, Unneeded(W, Holder, cs, unkSrc, pending))
  BY <1>4, <1>5
<1> HIDE DEF W, P, cs
<1> QED
  BY <1>1, <1>2, <1>3, <1>4, <1>6, ReleaseAndRetire

LEMMA StartRegistry ==
  ASSUME FcodexInd, NEW k \in Keys, NEW out, NEW t \in AllThreads,
         StartResponse(k, out, t), live' = live
  PROVE  RegistryKept
<1> DEFINE w == <<Owner[k[1]], t>>
           counts == out = "success" /\ k[1] \in live
<1>1. MachineInv /\ RetiredIsEmpty /\ pstate \in PStates
  BY DEF FcodexInd, EndpointInv, PStates
<1>2. w \in Pairs /\ w[1] = Owner[k[1]] /\ w[2] = t /\ Owner[k[1]] \in Participants
  BY KeyParts DEF Pairs
<1>3. CASE reqs[k].revoked
  BY <1>1, <1>3, RegistryRests DEF StartResponse
<1>4. CASE ~reqs[k].revoked /\ ~counts
  <2>1. SetHolder(Holder) /\ connSrc' = connSrc /\ unkSrc' = unkSrc /\ pending' = pending /\ pstate' = pstate
    BY <1>4 DEF StartResponse
  <2> QED
    BY <1>1, <2>1, HolderFields, RegistryRests DEF SetHolder, machine
<1>5. CASE ~reqs[k].revoked /\ counts
  <2>1. PICK h \in Acquires(Holder, w) :
           /\ SetHolder(h)
           /\ IF h.pres[w] = "confirmed" THEN connSrc' = connSrc \cup {<<k[1], t>>}
                                         ELSE connSrc' = connSrc
    BY <1>5 DEF StartResponse
  <2>2. unkSrc' = unkSrc /\ pending' = pending /\ pstate' = pstate
    BY <1>5 DEF StartResponse
  <2>3. pstate[w[1]] # "none"
    BY <1>1, <1>2, <1>5 DEF RetiredIsEmpty
  <2>4. ASSUME NEW v \in Pairs, Has(v)'
        PROVE  Has(v) \/ (v = w /\ h.pres[w] = "confirmed")
    <3>1. CASE h.pres[w] # "confirmed"
      BY <2>1, <2>2, <2>4, <3>1 DEF Has
    <3>2. CASE h.pres[w] = "confirmed" /\ ~Has(v)
      <4>1. connSrc' = connSrc \cup {<<k[1], t>>}
        BY <2>1, <3>2
      <4>2. \E c \in Connections : Owner[c] = v[1] /\ <<c, v[2]>> = <<k[1], t>>
        BY <2>2, <2>4, <3>2, <4>1 DEF Has, HasSource
      <4>3. v[1] = w[1] /\ v[2] = w[2]
        BY <1>2, <4>2
      <4>4. v = w
        BY <1>2, <4>3, PairParts
      <4> QED
        BY <3>2, <4>4
    <3> QED
      BY <3>1, <3>2
  <2> HIDE DEF w
  <2> QED
    BY <1>1, <1>2, <2>1, <2>2, <2>3, <2>4, AcquireAndPublish
<1> QED
  BY <1>3, <1>4, <1>5

LEMMA ClientResponseRegistry ==
  ASSUME FcodexInd, NEW f \in Response, ClientResponse(f),
         TokenMatches(f.key, f.tok) => f.key \notin staged, live' = live
  PROVE  RegistryKept
<1>1. MachineInv /\ RetiredIsEmpty /\ pstate \in PStates /\ RequestInv
  BY DEF FcodexInd, EndpointInv, PStates
<1>2. f.key \in Keys /\ f.t \in AllThreads
  BY ResponseFields
<1>3. CASE ~TokenMatches(f.key, f.tok)
  BY <1>1, <1>3, RegistryRests DEF ClientResponse
<1>4. CASE TokenMatches(f.key, f.tok)
  <2> DEFINE k == f.key
             w == <<Owner[k[1]], reqs[k].t>>
  <2>1. reqs[k] # NoRequest /\ k \notin staged
    BY <1>1, <1>4, MatchedRequest
  <2>2. CASE reqs[k].method = "resume" /\ ResumeResponse(k, f.out)
    <3>1. IsRequest(k, "resume")
      BY <2>1, <2>2 DEF IsRequest
    <3>2. \/ ResumeSucceeded(k, w) \/ ResumeRejected(k, w) \/ ResumeUnknown(k, w)
          \/ ResumeConflict(k, f.out)
      BY <2>2 DEF ResumeResponse
    <3>3. CASE ResumeConflict(k, f.out)
      BY <1>1, <3>3, RegistryRests DEF ResumeConflict
    <3> QED
      BY <1>2, <2>1, <3>1, <3>2, <3>3, ResumeSucceededRegistry, ResumeRejectedRegistry,
         ResumeUnknownRegistry
  <2>3. CASE reqs[k].method = "unsubscribe" /\ UnsubscribeResponse(k, f.out)
    BY <1>2, <2>1, <2>3, UnsubscribeRegistry DEF IsRequest
  <2>4. CASE reqs[k].method = "start" /\ StartResponse(k, f.out, f.t)
    BY <1>2, <2>4, StartRegistry
  <2> QED
    BY <1>4, <2>2, <2>3, <2>4 DEF ClientResponse
<1> QED
  BY <1>3, <1>4

\* The answer at the head of a wire, or a late one, is not of a staged discard.
LEMMA HeadIsNotStaged ==
  ASSUME WorldInv, AnswerInv, NEW c \in Connections, wire[c] # <<>>,
         Head(wire[c]).kind = "response"
  PROVE  /\ Head(wire[c]) \in Response
         /\ Head(wire[c]).key[1] = c
         /\ TokenMatches(Head(wire[c]).key, Head(wire[c]).tok) => Head(wire[c]).key \notin staged
<1>1. Head(wire[c]) \in Response /\ Head(wire[c]) = wire[c][1] /\ 1 \in DOMAIN wire[c]
  BY FrameAtHead
<1> QED
  BY <1>1 DEF AnswerInv, AnswersOnce, AnswersFit, Outstanding

LEMMA DeliverResponseRegistry ==
  ASSUME FcodexInd, NEW c \in Connections, DeliverResponse(c)
  PROVE  RegistryKept
<1>1. WorldInv /\ AnswerInv
  BY DEF FcodexInd
<1>2. ClientResponse(Head(wire[c])) /\ live' = live /\ wire[c] # <<>> /\ Head(wire[c]).kind = "response"
  BY DEF DeliverResponse
<1> QED
  BY <1>1, <1>2, HeadIsNotStaged, ClientResponseRegistry

LEMMA LateResponseRegistry ==
  ASSUME FcodexInd, NEW f \in late, LateResponse(f)
  PROVE  RegistryKept
<1>1. f \in Response /\ (TokenMatches(f.key, f.tok) => f.key \notin staged)
  BY DEF FcodexInd, WorldInv, AnswerInv, AnswersFit, Outstanding
<1>2. ClientResponse(f) /\ live' = live
  BY DEF LateResponse
<1> QED
  BY <1>1, <1>2, ClientResponseRegistry

LEMMA LostRequestRegistry ==
  ASSUME FcodexInd, NEW k \in Keys, LostRequest(k)
  PROVE  RegistryKept
<1> DEFINE w == <<Owner[k[1]], reqs[k].t>>
<1>1. MachineInv /\ RetiredIsEmpty /\ pstate \in PStates /\ RequestInv /\ JobInv
  BY DEF FcodexInd, EndpointInv, PStates
<1>2. live' = live /\ k \in job.todo
  BY DEF LostRequest
<1>3. CASE ResumeUnknown(k, w) /\ IsRequest(k, "resume")
  <2>1. ~Idle
    BY <1>1, <1>2 DEF JobInv
  <2>2. pstate[Owner[k[1]]] # "none"
    BY <1>1, <1>2, <2>1 DEF JobInv
  <2> QED
    BY <1>2, <1>3, <2>2, ResumeUnknownRegistry
<1>4. CASE ResumeConflict(k, "unknown")
  BY <1>1, <1>2, <1>4, RegistryRests DEF ResumeConflict
<1>5. CASE UNCHANGED <<connSrc, unkSrc, pending, staged, machine, pstate>>
  BY <1>1, <1>2, <1>5, RegistryRests
<1>6. reqs[k] # NoRequest
  BY <1>1, <1>2 DEF JobInv
<1> QED
  BY <1>3, <1>4, <1>5, <1>6 DEF LostRequest, IsRequest

-----------------------------------------------------------------------------
(* Timers and liveness generations.                                         *)

Timer(n) == [who : Connections \cup Participants, gen : 1..n, stale : BOOLEAN]

\* A generation is kept, dropped or drawn anew.
Redrawn(old, new) == new = old \/ new = 0 \/ new \in (lseq + 1)..lseq'

\* What a timer of this name was armed for is heard from in this step.
HeardFrom(x) ==
  /\ x \in Connections => cgen'[x] > lseq
  /\ x \in Participants => pgen'[x] > lseq

LEMMA EndpointStep ==
  ASSUME EndpointInv, pstate' \in PStates, live' \subseteq Connections,
         lseq' \in Nat, lseq' >= lseq,
         cgen' = [x \in Connections |-> cgen'[x]], pgen' = [x \in Participants |-> pgen'[x]],
         \A x \in Connections : Redrawn(cgen[x], cgen'[x]),
         \A x \in Participants : Redrawn(pgen[x], pgen'[x]),
         timers' \subseteq Timer(lseq'),
         \A tm \in timers' : tm.stale =>
           \E o \in timers : o.who = tm.who /\ o.gen = tm.gen /\ (o.stale \/ HeardFrom(tm.who))
  PROVE  EndpointInv'
<1>1. /\ lseq \in Nat /\ cgen \in [Connections -> 0..lseq] /\ pgen \in [Participants -> 0..lseq]
      /\ \A o \in timers : o.gen \in 1..lseq
      /\ \A o \in timers : o.stale => /\ o.who \in Connections => cgen[o.who] # o.gen
                                      /\ o.who \in Participants => pgen[o.who] # o.gen
  BY DEF EndpointInv
<1>2. ASSUME NEW x \in Connections
      PROVE  cgen'[x] \in 0..lseq'
  BY <1>1 DEF Redrawn
<1>3. ASSUME NEW x \in Participants
      PROVE  pgen'[x] \in 0..lseq'
  BY <1>1 DEF Redrawn
<1>4. cgen' \in [Connections -> 0..lseq'] /\ pgen' \in [Participants -> 0..lseq']
  BY <1>2, <1>3
<1>5. ASSUME NEW tm \in timers', tm.stale
      PROVE  /\ tm.who \in Connections => cgen'[tm.who] # tm.gen
             /\ tm.who \in Participants => pgen'[tm.who] # tm.gen
  <2>1. PICK o \in timers : o.who = tm.who /\ o.gen = tm.gen /\ (o.stale \/ HeardFrom(tm.who))
    BY <1>5
  <2>2. tm.gen \in 1..lseq
    BY <1>1, <2>1
  <2>3. ASSUME tm.who \in Connections
        PROVE  cgen'[tm.who] # tm.gen
    <3>1. o.stale => cgen[tm.who] # tm.gen
      BY <1>1, <2>1, <2>3
    <3>2. HeardFrom(tm.who) => cgen'[tm.who] > lseq
      BY <2>3 DEF HeardFrom
    <3>3. Redrawn(cgen[tm.who], cgen'[tm.who])
      BY <2>3
    <3>4. cgen'[tm.who] \in Nat
      BY <1>2, <2>3
    <3> QED
      BY <1>1, <2>1, <2>2, <3>1, <3>2, <3>3, <3>4 DEF Redrawn
  <2>4. ASSUME tm.who \in Participants
        PROVE  pgen'[tm.who] # tm.gen
    <3>1. o.stale => pgen[tm.who] # tm.gen
      BY <1>1, <2>1, <2>4
    <3>2. HeardFrom(tm.who) => pgen'[tm.who] > lseq
      BY <2>4 DEF HeardFrom
    <3>3. Redrawn(pgen[tm.who], pgen'[tm.who])
      BY <2>4
    <3>4. pgen'[tm.who] \in Nat
      BY <1>3, <2>4
    <3> QED
      BY <1>1, <2>1, <2>2, <3>1, <3>2, <3>3, <3>4 DEF Redrawn
  <2> QED
    BY <2>3, <2>4
<1> QED
  BY <1>4, <1>5 DEF EndpointInv, PStates, Timer

LEMMA EndpointTypes ==
  ASSUME EndpointInv
  PROVE  /\ pstate \in PStates /\ live \subseteq Connections /\ lseq \in Nat
         /\ cgen \in [Connections -> 0..lseq] /\ pgen \in [Participants -> 0..lseq]
         /\ timers \subseteq Timer(lseq)
         /\ \A n \in Nat : n >= lseq => Timer(lseq) \subseteq Timer(n)
<1>1. ASSUME NEW n \in Nat, n >= lseq
      PROVE  Timer(lseq) \subseteq Timer(n)
  <2>1. 1..lseq \subseteq 1..n
    BY <1>1 DEF EndpointInv
  <2> QED
    BY <2>1 DEF Timer
<1> QED
  BY <1>1 DEF EndpointInv, PStates, Timer

LEMMA EndpointsRest ==
  ASSUME EndpointInv, pstate' \in PStates, live' \subseteq live, timers' \subseteq timers,
         UNCHANGED <<cgen, pgen, lseq>>
  PROVE  EndpointInv'
  BY EndpointTypes DEF EndpointInv, PStates

\* _touch_connection_liveness
LEMMA TouchedTimers ==
  ASSUME EndpointInv, NEW c \in Connections, NEW W \in SUBSET (Connections \cup Participants),
         NEW n \in 1..lseq', lseq' \in Nat, lseq' >= lseq, Touch(c, n, W),
         \A x \in W : HeardFrom(x)
  PROVE  /\ timers' \subseteq Timer(lseq')
         /\ \A tm \in timers' : tm.stale =>
              \E o \in timers : o.who = tm.who /\ o.gen = tm.gen /\ (o.stale \/ HeardFrom(tm.who))
<1> DEFINE fresh == [who |-> c, gen |-> n, stale |-> FALSE]
<1>1. timers \subseteq Timer(lseq') /\ timers \subseteq Timer(lseq)
  BY EndpointTypes
<1>2. fresh \in Timer(lseq') /\ ~fresh.stale
  BY DEF Timer
<1>3. timers' = MarkStale(timers, W) \cup {fresh}
  BY DEF Touch
<1>4. ASSUME NEW o \in timers
      PROVE  LET tm == IF o.who \in W THEN [o EXCEPT !.stale = TRUE] ELSE o IN
             /\ tm \in Timer(lseq') /\ o.who = tm.who /\ o.gen = tm.gen
             /\ tm.stale => o.stale \/ HeardFrom(tm.who)
  <2>1. o \in Timer(lseq')
    BY <1>1
  <2>2. CASE o.who \in W
    BY <2>1, <2>2 DEF Timer
  <2>3. CASE o.who \notin W
    BY <2>1, <2>3
  <2> QED
    BY <2>2, <2>3
<1> HIDE DEF fresh
<1>5. ASSUME NEW tm \in timers'
      PROVE  tm \in Timer(lseq') /\
             (tm.stale => \E o \in timers : o.who = tm.who /\ o.gen = tm.gen /\ (o.stale \/ HeardFrom(tm.who)))
  <2>1. tm = fresh \/ \E o \in timers : tm = IF o.who \in W THEN [o EXCEPT !.stale = TRUE] ELSE o
    BY <1>3 DEF MarkStale
  <2> QED
    BY <1>2, <1>4, <2>1
<1> QED
  BY <1>5

LEMMA ConnectEndpoint ==
  ASSUME EndpointInv, pstate' \in PStates, NEW c \in Connections, Connect(c)
  PROVE  EndpointInv'
<1> DEFINE p == Owner[c]
           n == lseq + 1
<1>1. /\ lseq \in Nat /\ live \subseteq Connections /\ p \in Participants
      /\ cgen \in [Connections -> 0..lseq] /\ pgen \in [Participants -> 0..lseq]
  BY OwnerAssumption DEF EndpointInv
<1>2. /\ Touch(c, n, {c, p}) /\ live' = live \cup {c}
      /\ pgen' = [pgen EXCEPT ![p] = n + 1] /\ lseq' = n + 1
      /\ cgen' = [cgen EXCEPT ![c] = n]
  BY DEF Connect, Touch, NextLiveness
<1>3. n > lseq /\ n <= lseq' /\ lseq' \in Nat /\ n \in 1..lseq' /\ n + 1 > lseq
      /\ n \in (lseq + 1)..lseq' /\ n + 1 \in (lseq + 1)..lseq'
  BY <1>1, <1>2
<1>4. c \notin Participants /\ p \notin Connections
  BY <1>1, NamesAssumption
<1>5. cgen'[c] = n /\ pgen'[p] = n + 1
  BY <1>1, <1>2
<1> HIDE DEF n, p
<1>6. \A x \in {c, p} : HeardFrom(x)
  BY <1>3, <1>4, <1>5 DEF HeardFrom
<1>7. {c, p} \in SUBSET (Connections \cup Participants)
  BY <1>1
<1>8. /\ timers' \subseteq Timer(lseq')
      /\ \A tm \in timers' : tm.stale =>
           \E o \in timers : o.who = tm.who /\ o.gen = tm.gen /\ (o.stale \/ HeardFrom(tm.who))
  BY <1>1, <1>2, <1>3, <1>6, <1>7, TouchedTimers
<1>9. /\ \A x \in Connections : Redrawn(cgen[x], cgen'[x])
      /\ \A x \in Participants : Redrawn(pgen[x], pgen'[x])
      /\ cgen' = [x \in Connections |-> cgen'[x]] /\ pgen' = [x \in Participants |-> pgen'[x]]
  BY <1>1, <1>2, <1>3 DEF Redrawn
<1> QED
  BY <1>1, <1>2, <1>3, <1>8, <1>9, EndpointStep

LEMMA HeartbeatEndpoint ==
  ASSUME EndpointInv, pstate' \in PStates, NEW c \in Connections, Heartbeat(c)
  PROVE  EndpointInv'
<1> DEFINE n == lseq + 1
<1>1. /\ lseq \in Nat /\ live \subseteq Connections
      /\ cgen \in [Connections -> 0..lseq] /\ pgen \in [Participants -> 0..lseq]
  BY DEF EndpointInv
<1>2. live' = live /\ pgen' = pgen
  BY DEF Heartbeat
<1>3. CASE UNCHANGED <<timers, cgen, lseq>>
  BY <1>2, <1>3, EndpointsRest
<1>4. CASE Touch(c, n, {c}) /\ lseq' = n
  <2>1. cgen' = [cgen EXCEPT ![c] = n]
    BY <1>4 DEF Touch
  <2>3. n > lseq /\ n <= lseq' /\ lseq' \in Nat /\ n \in 1..lseq' /\ n \in (lseq + 1)..lseq'
    BY <1>1, <1>4
  <2>5. cgen'[c] = n /\ c \notin Participants
    BY <1>1, <2>1, NamesAssumption
  <2> HIDE DEF n
  <2>6. \A x \in {c} : HeardFrom(x)
    BY <2>3, <2>5 DEF HeardFrom
  <2>8. /\ timers' \subseteq Timer(lseq')
        /\ \A tm \in timers' : tm.stale =>
             \E o \in timers : o.who = tm.who /\ o.gen = tm.gen /\ (o.stale \/ HeardFrom(tm.who))
    BY <1>1, <1>4, <2>3, <2>6, TouchedTimers
  <2>9. /\ \A x \in Connections : Redrawn(cgen[x], cgen'[x])
        /\ \A x \in Participants : Redrawn(pgen[x], pgen'[x])
        /\ cgen' = [x \in Connections |-> cgen'[x]] /\ pgen' = [x \in Participants |-> pgen'[x]]
    BY <1>1, <1>2, <2>1, <2>3 DEF Redrawn
  <2> QED
    BY <1>1, <1>2, <2>3, <2>8, <2>9, EndpointStep
<1> QED
  BY <1>3, <1>4 DEF Heartbeat, NextLiveness

LEMMA DropEndpointEndpoint ==
  ASSUME EndpointInv, pstate' \in PStates, NEW c \in live, NEW ts \in SUBSET timers, DropEndpoint(c, ts)
  PROVE  EndpointInv'
<1> DEFINE p == Owner[c]
           n == lseq + 1
           lastOne == {d \in live : Owner[d] = p} = {c}
           fresh == [who |-> p, gen |-> n, stale |-> FALSE]
<1>1. /\ lseq \in Nat /\ live \subseteq Connections /\ p \in Participants
      /\ cgen \in [Connections -> 0..lseq] /\ pgen \in [Participants -> 0..lseq]
  BY OwnerAssumption DEF EndpointInv
<1>2. /\ live' = live \ {c} /\ lseq' = n
      /\ cgen' = [cgen EXCEPT ![c] = 0]
      /\ pgen' = [pgen EXCEPT ![p] = IF lastOne THEN n ELSE @]
      /\ timers' = ts \/ timers' = ts \cup {fresh}
  BY DEF DropEndpoint, NextLiveness
<1>3. n > lseq /\ n <= lseq' /\ lseq' \in Nat /\ n \in 1..lseq' /\ lseq' >= lseq
      /\ n \in (lseq + 1)..lseq'
  BY <1>1, <1>2
<1>4. fresh \in Timer(lseq') /\ ~fresh.stale
  BY <1>1, <1>3 DEF Timer
<1>5. timers \subseteq Timer(lseq')
  BY <1>3, EndpointTypes
<1> HIDE DEF n, lastOne, fresh, p
<1>6. timers' \subseteq Timer(lseq')
  BY <1>2, <1>4, <1>5
<1>7. \A tm \in timers' : tm.stale => tm \in timers
  BY <1>2, <1>4
<1>9. /\ \A x \in Connections : Redrawn(cgen[x], cgen'[x])
      /\ \A x \in Participants : Redrawn(pgen[x], pgen'[x])
      /\ cgen' = [x \in Connections |-> cgen'[x]] /\ pgen' = [x \in Participants |-> pgen'[x]]
  BY <1>1, <1>2, <1>3 DEF Redrawn
<1> QED
  BY <1>1, <1>2, <1>3, <1>6, <1>7, <1>9, EndpointStep

LEMMA ExpireConnectionEndpoint ==
  ASSUME EndpointInv, pstate' \in PStates, NEW tm \in timers, ExpireConnection(tm)
  PROVE  EndpointInv'
  BY DropEndpointEndpoint, EndpointsRest DEF ExpireConnection

LEMMA ExpireParticipantEndpoint ==
  ASSUME EndpointInv, pstate' \in PStates, NEW tm \in timers, ExpireParticipant(tm)
  PROVE  EndpointInv'
  BY EndpointsRest DEF ExpireParticipant

LEMMA CloseProxyEndpoint ==
  ASSUME EndpointInv, pstate' \in PStates, NEW c \in Connections, CloseProxy(c)
  PROVE  EndpointInv'
<1>1. CASE c \in live /\ DropEndpoint(c, timers)
  BY <1>1, DropEndpointEndpoint
<1>2. CASE UNCHANGED endpoints
  BY <1>2, EndpointsRest DEF endpoints
<1> QED
  BY <1>1, <1>2 DEF CloseProxy, ParticipantDisconnects

LEMMA BackendResetEndpoint ==
  ASSUME EndpointInv, pstate' \in PStates, BackendEpochCloses
  PROVE  EndpointInv'
<1>1. /\ live' = {} /\ cgen' = [c \in Connections |-> 0] /\ pgen' = [p \in Participants |-> 0]
      /\ lseq' = lseq /\ timers' = timers
  BY DEF BackendEpochCloses
<1>2. lseq \in Nat /\ timers \subseteq Timer(lseq)
  BY EndpointTypes
<1>3. /\ \A x \in Connections : Redrawn(cgen[x], cgen'[x])
      /\ \A x \in Participants : Redrawn(pgen[x], pgen'[x])
      /\ cgen' = [x \in Connections |-> cgen'[x]] /\ pgen' = [x \in Participants |-> pgen'[x]]
  BY <1>1 DEF Redrawn
<1> QED
  BY <1>1, <1>2, <1>3, EndpointStep

-----------------------------------------------------------------------------
(* Requests and the sources that wait for them.                             *)

SourcesLive == \A s \in connSrc : s[1] \in live

LEMMA NoPending ==
  ASSUME SourcesFit, NEW k, ~IsRequest(k, "resume")
  PROVE  PendingOf(k) = {} /\ k \notin staged
  BY DEF SourcesFit, PendingOf

LEMMA DropRequests ==
  ASSUME RequestInv, NEW k \in Keys, reqs' = Drop(k), attempts' \subseteq attempts,
         UNCHANGED <<seq, backend>>
  PROVE  /\ RequestInv' /\ reqs'[k] = NoRequest
         /\ \A j \in Keys : j # k => reqs'[j] = reqs[j]
<1>1. reqs' = [reqs EXCEPT ![k] = NoRequest] /\ reqs \in [Keys -> Request \cup {NoRequest}]
  BY DEF Drop, RequestInv
<1>2. /\ reqs' \in [Keys -> Request \cup {NoRequest}] /\ reqs'[k] = NoRequest
      /\ \A j \in Keys : j # k => reqs'[j] = reqs[j]
  BY <1>1
<1>3. \A j \in Keys : /\ reqs'[j] # NoRequest => reqs'[j].tok <= seq'
                      /\ IsRequest(j, "start")' /\ ~reqs'[j].revoked => reqs'[j].epoch = backend'
  BY <1>2 DEF RequestInv, IsRequest
<1> QED
  BY <1>2, <1>3 DEF RequestInv

LEMMA RequestsRest ==
  ASSUME RequestInv, UNCHANGED reqs, attempts' \subseteq attempts, UNCHANGED <<seq, backend>>
  PROVE  RequestInv'
  BY DEF RequestInv, IsRequest

LEMMA TrackedRequest ==
  ASSUME RequestInv, NEW k \in Keys, NEW m \in Methods, NEW t \in AllThreads, Track(k, m, t),
         seq < MaxRequests, attempts' \subseteq attempts \cup {seq'}, backend' = backend
  PROVE  /\ RequestInv' /\ seq' = seq + 1 /\ seq' \in Tokens
         /\ reqs'[k] # NoRequest /\ reqs'[k].tok = seq' /\ reqs'[k].method = m /\ reqs'[k].t = t
         /\ \A j \in Keys : j # k => reqs'[j] = reqs[j]
<1> DEFINE r == [tok |-> seq + 1, method |-> m, t |-> t, revoked |-> FALSE, epoch |-> backend]
<1>1. /\ reqs' = [reqs EXCEPT ![k] = r] /\ reqs \in [Keys -> Request \cup {NoRequest}]
      /\ seq' = seq + 1 /\ seq \in 0..MaxRequests /\ backend \in 0..MaxEpochs
  BY DEF Track, RequestInv
<1>2. seq' \in Tokens /\ seq' \in 0..MaxRequests /\ seq' # 0
  BY <1>1, BoundTypes DEF Tokens
<1>3. r \in Request /\ r.tok = seq' /\ r.method = m /\ r.t = t /\ r.epoch = backend
  BY <1>1, <1>2 DEF Request
<1>4. r # NoRequest
  BY <1>2, <1>3 DEF NoRequest
<1> HIDE DEF r
<1>5. /\ reqs' \in [Keys -> Request \cup {NoRequest}] /\ reqs'[k] = r
      /\ \A j \in Keys : j # k => reqs'[j] = reqs[j]
  BY <1>1, <1>3
<1>6. ASSUME NEW j \in Keys
      PROVE  /\ reqs'[j] # NoRequest => reqs'[j].tok <= seq'
             /\ IsRequest(j, "start")' /\ ~reqs'[j].revoked => reqs'[j].epoch = backend'
  <2>1. CASE j = k
    BY <1>2, <1>3, <1>5, <2>1, BoundTypes DEF IsRequest, Tokens
  <2>2. CASE j # k
    <3>1. reqs'[j] = reqs[j]
      BY <1>5, <2>2
    <3>2. reqs[j] # NoRequest => reqs[j].tok \in Tokens /\ reqs[j].tok <= seq
      BY RequestFields
    <3>3. reqs[j] # NoRequest => reqs[j].tok <= seq'
      BY <1>1, <3>2, BoundTypes DEF Tokens
    <3> QED
      BY <3>1, <3>3 DEF IsRequest, RequestInv
  <2> QED
    BY <2>1, <2>2
<1>7. attempts' \subseteq Tokens
  BY <1>2 DEF RequestInv
<1>8. RequestInv'
  BY <1>1, <1>2, <1>5, <1>6, <1>7 DEF RequestInv
<1> QED
  BY <1>1, <1>2, <1>3, <1>4, <1>5, <1>8

\* Requests keep their token, method and thread.
SameRequests ==
  \A k \in Keys : /\ reqs'[k] = NoRequest <=> reqs[k] = NoRequest
                  /\ reqs[k] # NoRequest => /\ reqs'[k].tok = reqs[k].tok
                                            /\ reqs'[k].method = reqs[k].method
                                            /\ reqs'[k].t = reqs[k].t

LEMMA FitRests ==
  ASSUME SourceTypes, SourcesFit, SameRequests, UNCHANGED <<pending, staged>>, SourcesLive'
  PROVE  SourcesFit'
<1>1. \A s \in pending : s.key \in Keys
  BY DEF SourceTypes
<1>2. \A k \in staged : k \in Keys
  BY DEF SourceTypes
<1>3. \A k \in Keys : PendingOf(k)' = PendingOf(k) /\ (IsRequest(k, "resume")' <=> IsRequest(k, "resume"))
  BY DEF PendingOf, IsRequest, SameRequests
<1>4. (\A s \in pending : IsRequest(s.key, "resume") /\ reqs[s.key].tok = s.tok /\ reqs[s.key].t = s.t)'
  BY <1>1, <1>3 DEF SameRequests, SourcesFit, IsRequest
<1> QED
  BY <1>2, <1>3, <1>4 DEF SourcesFit, SourcesLive

\* The request of k is settled, and with it what waited for it.
LEMMA FitSettled ==
  ASSUME SourceTypes, SourcesFit, NEW k \in Keys,
         reqs'[k] = NoRequest, \A j \in Keys : j # k => reqs'[j] = reqs[j],
         pending' = pending \ PendingOf(k), staged' = staged \ {k}, SourcesLive'
  PROVE  SourcesFit'
<1>1. \A s \in pending : s.key \in Keys
  BY DEF SourceTypes
<1>2. \A j \in staged : j \in Keys
  BY DEF SourceTypes
<1>3. ~IsRequest(k, "resume")'
  BY DEF IsRequest
<1>4. \A j \in Keys : j # k => /\ PendingOf(j)' = PendingOf(j)
                               /\ IsRequest(j, "resume")' <=> IsRequest(j, "resume")
  BY DEF PendingOf, IsRequest
<1>5. ASSUME NEW s \in pending'
      PROVE  IsRequest(s.key, "resume")' /\ reqs'[s.key].tok = s.tok /\ reqs'[s.key].t = s.t
  <2>1. s \in pending /\ s.key # k /\ s.key \in Keys
    BY <1>1 DEF PendingOf
  <2> QED
    BY <1>4, <2>1 DEF SourcesFit
<1>6. ASSUME NEW j \in staged'
      PROVE  IsRequest(j, "resume")' /\ PendingOf(j)' = {}
  BY <1>2, <1>4 DEF SourcesFit
<1>7. ASSUME NEW j \in Keys, IsRequest(j, "resume")'
      PROVE  j \in staged' \/ PendingOf(j)' # {}
  BY <1>3, <1>4, <1>7 DEF SourcesFit
<1> QED
  BY <1>5, <1>6, <1>7 DEF SourcesFit, SourcesLive

\* The discard of k waits for its release.
LEMMA FitStaged ==
  ASSUME SourceTypes, SourcesFit, NEW k \in Keys, IsRequest(k, "resume"),
         reqs' = reqs, pending' = pending \ PendingOf(k), staged' = staged \cup {k}, SourcesLive'
  PROVE  SourcesFit'
<1>1. \A s \in pending' : s \in pending /\ s.key # k
  BY DEF PendingOf
<1>2. PendingOf(k)' = {} /\ \A j : j # k => PendingOf(j)' = PendingOf(j)
  BY DEF PendingOf
<1>3. \A j : IsRequest(j, "resume")' <=> IsRequest(j, "resume")
  BY DEF IsRequest
<1> QED
  BY <1>1, <1>2, <1>3 DEF SourcesFit, SourcesLive

\* A new request, of a key that had none.
LEMMA FitTracked ==
  ASSUME SourceTypes, SourcesFit, NEW k \in Keys, reqs[k] = NoRequest,
         reqs'[k] # NoRequest, \A j \in Keys : j # k => reqs'[j] = reqs[j],
         \/ reqs'[k].method # "resume" /\ pending' = pending
         \/ /\ reqs'[k].method = "resume"
            /\ \E s : /\ pending' = pending \cup {s}
                      /\ s.key = k /\ s.tok = reqs'[k].tok /\ s.t = reqs'[k].t,
         staged' = staged, SourcesLive'
  PROVE  SourcesFit'
<1>0. PendingOf(k) = {} /\ k \notin staged
  BY NoPending DEF IsRequest
<1>1. \A s \in pending : s.key \in Keys /\ s.key # k
  BY <1>0 DEF SourceTypes, PendingOf
<1>2. \A j \in staged : j \in Keys /\ j # k
  BY <1>0 DEF SourceTypes
<1>3. \A j \in Keys : j # k => (IsRequest(j, "resume")' <=> IsRequest(j, "resume"))
  BY DEF IsRequest
<1>4. CASE reqs'[k].method # "resume" /\ pending' = pending
  <2>1. ~IsRequest(k, "resume")' /\ \A j : PendingOf(j)' = PendingOf(j)
    BY <1>4 DEF IsRequest, PendingOf
  <2>2. ASSUME NEW s \in pending'
        PROVE  IsRequest(s.key, "resume")' /\ reqs'[s.key].tok = s.tok /\ reqs'[s.key].t = s.t
    BY <1>1, <1>3, <1>4 DEF SourcesFit
  <2>3. \A j \in staged' : IsRequest(j, "resume")' /\ PendingOf(j)' = {}
    BY <1>2, <1>3, <2>1 DEF SourcesFit
  <2>4. \A j \in Keys : IsRequest(j, "resume")' => j \in staged' \/ PendingOf(j)' # {}
    BY <1>3, <2>1 DEF SourcesFit
  <2> QED
    BY <2>2, <2>3, <2>4 DEF SourcesFit, SourcesLive
<1>5. ASSUME reqs'[k].method = "resume",
             NEW s, pending' = pending \cup {s}, s.key = k, s.tok = reqs'[k].tok, s.t = reqs'[k].t
      PROVE  SourcesFit'
  <2>1. IsRequest(k, "resume")' /\ \A j : j # k => PendingOf(j)' = PendingOf(j)
    BY <1>5 DEF IsRequest, PendingOf
  <2>0. PendingOf(k)' # {}
    BY <1>5 DEF PendingOf
  <2>2. ASSUME NEW q \in pending'
        PROVE  IsRequest(q.key, "resume")' /\ reqs'[q.key].tok = q.tok /\ reqs'[q.key].t = q.t
    <3>1. CASE q = s
      BY <1>5, <2>1, <3>1
    <3>2. CASE q \in pending
      BY <1>1, <1>3, <3>2 DEF SourcesFit
    <3> QED
      BY <1>5, <3>1, <3>2
  <2>3. \A j \in staged' : IsRequest(j, "resume")' /\ PendingOf(j)' = {}
    BY <1>2, <1>3, <2>1 DEF SourcesFit
  <2>4. \A j \in Keys : IsRequest(j, "resume")' => j \in staged' \/ PendingOf(j)' # {}
    BY <1>3, <2>0, <2>1 DEF SourcesFit
  <2> QED
    BY <2>2, <2>3, <2>4 DEF SourcesFit, SourcesLive
<1> QED
  BY <1>4, <1>5

\* How an outcome leaves the sources: nothing happens, a resume is settled as
\* a source of the connection or an unknown one, it is rejected, a subscription
\* is taken back, or a create is consumed.
Ignored == UNCHANGED <<connSrc, unkSrc, pending, staged, reqs>>

Settled(k) == reqs' = Drop(k) /\ pending' = pending \ PendingOf(k) /\ staged' = staged \ {k}

OnlyNewOf(k, S) == \A s \in connSrc' : s \in connSrc \/ (s \in S /\ k[1] \in live)

ResumeKept(k) ==
  /\ IsRequest(k, "resume") /\ Settled(k)
  /\ connSrc \subseteq connSrc' /\ unkSrc \subseteq unkSrc'
  /\ OnlyNewOf(k, {<<k[1], reqs[k].t>>})
  /\ \A w \in unkSrc' : w \in unkSrc \/ w = <<Owner[k[1]], reqs[k].t>>
  /\ <<k[1], reqs[k].t>> \in connSrc' \/ <<Owner[k[1]], reqs[k].t>> \in unkSrc'

ResumeRefused(k) ==
  /\ IsRequest(k, "resume") /\ connSrc' = connSrc /\ unkSrc' = unkSrc
  /\ \/ Settled(k)
     \/ reqs' = reqs /\ pending' = pending \ PendingOf(k) /\ staged' = staged \cup {k}

TakenBack(k, out) ==
  /\ IsRequest(k, "unsubscribe") /\ Settled(k) /\ unkSrc' = unkSrc /\ pending' = pending
  /\ connSrc' = IF out = "success" THEN connSrc \ {<<k[1], reqs[k].t>>} ELSE connSrc

CreateConsumed(k, t) ==
  /\ IsRequest(k, "start") /\ ~reqs[k].revoked /\ Settled(k) /\ unkSrc' = unkSrc /\ pending' = pending
  /\ connSrc \subseteq connSrc' /\ OnlyNewOf(k, {<<k[1], t>>})

LEMMA ResumeSucceededShape ==
  ASSUME SourcesFit, NEW k \in Keys, IsRequest(k, "resume"),
         ResumeSucceeded(k, <<Owner[k[1]], reqs[k].t>>)
  PROVE  Ignored \/ ResumeKept(k)
<1> DEFINE t == reqs[k].t
           w == <<Owner[k[1]], t>>
<1>1. PICK h \in Acquires(Holder, w) :
         IF h.pres[w] = "confirmed"
         THEN /\ connSrc' = connSrc \cup {<<k[1], w[2]>>}
              /\ pending' = pending \ PendingOf(k)
              /\ reqs' = Drop(k)
         ELSE UNCHANGED <<connSrc, pending, reqs>>
  BY DEF ResumeSucceeded
<1>2. unkSrc' = unkSrc /\ staged' = staged /\ k[1] \in live /\ k \notin staged
  BY DEF ResumeSucceeded, SourcesFit
<1>3. w[2] = t
  OBVIOUS
<1> HIDE DEF w
<1>4. CASE h.pres[w] = "confirmed"
  <2>1. staged' = staged \ {k}
    BY <1>2
  <2> QED
    BY <1>1, <1>2, <1>3, <1>4, <2>1 DEF ResumeKept, Settled, OnlyNewOf
<1>5. CASE h.pres[w] # "confirmed"
  BY <1>1, <1>2, <1>5 DEF Ignored
<1> QED
  BY <1>4, <1>5

LEMMA ResumeRejectedShape ==
  ASSUME NEW k \in Keys, IsRequest(k, "resume"),
         ResumeRejected(k, <<Owner[k[1]], reqs[k].t>>)
  PROVE  ResumeRefused(k)
  BY DEF ResumeRejected, ResumeRefused, Settled

LEMMA ResumeUnknownShape ==
  ASSUME NEW k \in Keys, IsRequest(k, "resume"),
         ResumeUnknown(k, <<Owner[k[1]], reqs[k].t>>)
  PROVE  Ignored \/ ResumeKept(k)
<1> DEFINE w == <<Owner[k[1]], reqs[k].t>>
<1>1. PICK h \in Acquires(Holder, w) :
         IF h.pres[w] = "confirmed"
         THEN /\ unkSrc' = unkSrc \cup {w}
              /\ pending' = pending \ PendingOf(k)
              /\ staged' = staged \ {k}
              /\ reqs' = Drop(k)
         ELSE UNCHANGED <<unkSrc, pending, staged, reqs>>
  BY DEF ResumeUnknown
<1>2. connSrc' = connSrc
  BY DEF ResumeUnknown
<1>4. CASE h.pres[w] = "confirmed"
  BY <1>1, <1>2, <1>4 DEF ResumeKept, Settled, OnlyNewOf
<1>5. CASE h.pres[w] # "confirmed"
  BY <1>1, <1>2, <1>5 DEF Ignored
<1> QED
  BY <1>4, <1>5

LEMMA UnsubscribeShape ==
  ASSUME SourcesFit, NEW k \in Keys, IsRequest(k, "unsubscribe"), NEW out,
         UnsubscribeResponse(k, out)
  PROVE  TakenBack(k, out)
<1>1. PendingOf(k) = {} /\ k \notin staged
  BY NoPending DEF IsRequest
<1>2. reqs' = Drop(k) /\ unkSrc' = unkSrc /\ pending' = pending /\ staged' = staged
  BY DEF UnsubscribeResponse
<1>3. connSrc' = IF out = "success" THEN connSrc \ {<<k[1], reqs[k].t>>} ELSE connSrc
  BY DEF UnsubscribeResponse
<1>4. pending = pending \ PendingOf(k) /\ staged = staged \ {k}
  BY <1>1
<1> QED
  BY <1>2, <1>3, <1>4 DEF TakenBack, Settled

LEMMA StartShape ==
  ASSUME SourcesFit, NEW k \in Keys, IsRequest(k, "start"), NEW out, NEW t,
         StartResponse(k, out, t)
  PROVE  Ignored \/ CreateConsumed(k, t)
<1>1. PendingOf(k) = {} /\ k \notin staged
  BY NoPending DEF IsRequest
<1>4. pending = pending \ PendingOf(k) /\ staged = staged \ {k}
  BY <1>1
<1>5. CASE reqs[k].revoked
  BY <1>5 DEF StartResponse, Ignored
<1>6. CASE ~reqs[k].revoked
  <2>1. reqs' = Drop(k) /\ unkSrc' = unkSrc /\ pending' = pending /\ staged' = staged
    BY <1>6 DEF StartResponse
  <2>2. connSrc' = connSrc \/ (connSrc' = connSrc \cup {<<k[1], t>>} /\ k[1] \in live)
    BY <1>6 DEF StartResponse
  <2> QED
    BY <1>4, <1>6, <2>1, <2>2 DEF CreateConsumed, Settled, OnlyNewOf
<1> QED
  BY <1>5, <1>6

LEMMA ClientResponseShape ==
  ASSUME RequestInv, SourcesFit, NEW f \in Response, ClientResponse(f)
  PROVE  \/ Ignored
         \/ /\ TokenMatches(f.key, f.tok)
            /\ \/ ResumeKept(f.key)
               \/ ResumeRefused(f.key) /\ f.out = "error"
               \/ TakenBack(f.key, f.out)
               \/ CreateConsumed(f.key, f.t)
<1> DEFINE k == f.key
           w == <<Owner[k[1]], reqs[k].t>>
<1>1. k \in Keys
  BY ResponseFields
<1>2. CASE ~TokenMatches(k, f.tok)
  BY <1>2 DEF ClientResponse, Ignored
<1>3. CASE TokenMatches(k, f.tok)
  <2>1. reqs[k] # NoRequest
    BY <1>3, MatchedRequest
  <2>2. CASE reqs[k].method = "resume" /\ ResumeResponse(k, f.out)
    <3>1. IsRequest(k, "resume")
      BY <2>1, <2>2 DEF IsRequest
    <3>2. \/ ResumeSucceeded(k, w) \/ (f.out = "error" /\ ResumeRejected(k, w)) \/ ResumeUnknown(k, w)
          \/ ResumeConflict(k, f.out)
      BY <2>2 DEF ResumeResponse
    <3>3. ResumeConflict(k, f.out) => Ignored
      BY DEF ResumeConflict, Ignored
    <3> QED
      BY <1>1, <1>3, <3>1, <3>2, <3>3, ResumeSucceededShape, ResumeRejectedShape, ResumeUnknownShape
  <2>3. CASE reqs[k].method = "unsubscribe" /\ UnsubscribeResponse(k, f.out)
    BY <1>1, <1>3, <2>1, <2>3, UnsubscribeShape DEF IsRequest
  <2>4. CASE reqs[k].method = "start" /\ StartResponse(k, f.out, f.t)
    BY <1>1, <1>3, <2>1, <2>4, StartShape DEF IsRequest
  <2> QED
    BY <1>3, <2>2, <2>3, <2>4 DEF ClientResponse
<1> QED
  BY <1>2, <1>3

LEMMA LostRequestShape ==
  ASSUME RequestInv, JobInv, SourcesFit, NEW k \in Keys, LostRequest(k)
  PROVE  \/ Ignored
         \/ ResumeKept(k)
         \/ ~IsRequest(k, "resume") /\ Settled(k) /\ UNCHANGED <<connSrc, unkSrc, pending>>
<1> DEFINE w == <<Owner[k[1]], reqs[k].t>>
<1>1. reqs[k] # NoRequest
  BY DEF LostRequest, JobInv
<1>2. CASE reqs[k].method = "resume" /\ ResumeUnknown(k, w)
  BY <1>1, <1>2, ResumeUnknownShape DEF IsRequest
<1>3. CASE ResumeConflict(k, "unknown")
  BY <1>3 DEF ResumeConflict, Ignored
<1>4. CASE /\ reqs[k].method \in {"unsubscribe", "start"}
           /\ reqs' = Drop(k) /\ UNCHANGED <<connSrc, unkSrc, pending, staged>>
  <2>1. ~IsRequest(k, "resume")
    BY <1>4 DEF IsRequest
  <2>2. pending = pending \ PendingOf(k) /\ staged = staged \ {k}
    BY <2>1, NoPending
  <2> QED
    BY <1>4, <2>1, <2>2 DEF Settled
<1>5. CASE UNCHANGED <<connSrc, unkSrc, pending, staged, reqs>>
  BY <1>5 DEF Ignored
<1> QED
  BY <1>2, <1>3, <1>4, <1>5 DEF LostRequest

\* Types of the sources and their fit with the requests after an outcome.
LEMMA OutcomeFits ==
  ASSUME SourceTypes, SourcesFit, RequestInv, NEW k \in Keys, NEW t \in AllThreads, NEW out,
         \/ Ignored
         \/ ResumeKept(k) \/ ResumeRefused(k) \/ TakenBack(k, out) \/ CreateConsumed(k, t)
         \/ ~IsRequest(k, "resume") /\ Settled(k) /\ UNCHANGED <<connSrc, unkSrc, pending>>,
         UNCHANGED <<cleanup, live>>,
         attempts' \subseteq attempts, UNCHANGED <<seq, backend>>
  PROVE  SourceTypes' /\ SourcesFit' /\ RequestInv'
<1>1. /\ k[1] \in Connections /\ Owner[k[1]] \in Participants
      /\ IsRequest(k, "resume") => reqs[k].t \in AllThreads
  BY KeyParts, RequestFields DEF IsRequest
<1>2. SourcesLive
  BY DEF SourcesFit, SourcesLive
<1>3. CASE Ignored
  <2>1. SourceTypes' /\ RequestInv' /\ SameRequests /\ SourcesLive'
    BY <1>2, <1>3, RequestsRest DEF Ignored, SourceTypes, SameRequests, SourcesLive
  <2> QED
    BY <1>3, <2>1, FitRests DEF Ignored
<1>4. CASE /\ \/ ResumeKept(k) \/ (ResumeRefused(k) /\ Settled(k)) \/ TakenBack(k, out) \/ CreateConsumed(k, t)
              \/ ~IsRequest(k, "resume") /\ Settled(k) /\ UNCHANGED <<connSrc, unkSrc, pending>>
  <2>1. Settled(k)
    BY <1>4 DEF ResumeKept, ResumeRefused, TakenBack, CreateConsumed
  <2>2. \A s \in connSrc' : s \in connSrc \/ (s[1] = k[1] /\ k[1] \in live /\ s \in Connections \X AllThreads)
    <3>1. CASE ResumeKept(k)
      <4>1. \A s \in connSrc' : s \in connSrc \/ (s = <<k[1], reqs[k].t>> /\ k[1] \in live)
        BY <3>1 DEF ResumeKept, OnlyNewOf
      <4>2. <<k[1], reqs[k].t>> \in Connections \X AllThreads
        BY <1>1, <3>1 DEF ResumeKept
      <4> QED
        BY <4>1, <4>2
    <3>2. CASE CreateConsumed(k, t)
      <4>1. \A s \in connSrc' : s \in connSrc \/ (s = <<k[1], t>> /\ k[1] \in live)
        BY <3>2 DEF CreateConsumed, OnlyNewOf
      <4>2. <<k[1], t>> \in Connections \X AllThreads
        BY <1>1
      <4> QED
        BY <4>1, <4>2
    <3>3. CASE connSrc' \subseteq connSrc
      BY <3>3
    <3> QED
      BY <1>4, <3>1, <3>2, <3>3 DEF ResumeRefused, TakenBack
  <2>3. \A w \in unkSrc' : w \in unkSrc \/ w \in Pairs
    <3>1. CASE ResumeKept(k)
      BY <1>1, <3>1 DEF ResumeKept, Pairs
    <3>2. CASE unkSrc' = unkSrc
      BY <3>2
    <3> QED
      BY <1>4, <3>1, <3>2 DEF ResumeRefused, TakenBack, CreateConsumed
  <2>4. SourcesLive'
    BY <1>2, <2>2 DEF SourcesLive
  <2>5. SourceTypes'
    BY <2>1, <2>2, <2>3 DEF SourceTypes, Settled
  <2>6. RequestInv' /\ reqs'[k] = NoRequest /\ \A j \in Keys : j # k => reqs'[j] = reqs[j]
    BY <2>1, DropRequests DEF Settled
  <2>7. SourcesFit'
    BY <2>1, <2>4, <2>6, FitSettled DEF Settled
  <2> QED
    BY <2>5, <2>6, <2>7
<1>5. CASE ResumeRefused(k) /\ ~Settled(k)
  <2>1. /\ IsRequest(k, "resume") /\ connSrc' = connSrc /\ unkSrc' = unkSrc
        /\ reqs' = reqs /\ pending' = pending \ PendingOf(k) /\ staged' = staged \cup {k}
    BY <1>5 DEF ResumeRefused
  <2>2. SourcesLive' /\ SourceTypes'
    BY <1>2, <2>1 DEF SourcesLive, SourceTypes
  <2>3. SourcesFit'
    BY <2>1, <2>2, FitStaged
  <2>4. RequestInv'
    BY <2>1, RequestsRest
  <2> QED
    BY <2>2, <2>3, <2>4
<1> QED
  BY <1>3, <1>4, <1>5

FitKept == SourceTypes' /\ SourcesFit' /\ RequestInv' /\ JobInv'

LEMMA JobIdle ==
  ASSUME JobInv, Idle, job' = job
  PROVE  JobInv'
  BY DEF JobInv, Idle

LEMMA SameReqs ==
  ASSUME reqs' = reqs
  PROVE  SameRequests
  BY DEF SameRequests

\* Steps that leave the requests alone and take no source of a live endpoint's
\* connection away but by clearing it.
LEMMA FitFewer ==
  ASSUME SourceTypes, SourcesFit, RequestInv,
         connSrc' \subseteq connSrc, unkSrc' \subseteq unkSrc, UNCHANGED <<pending, staged, requests>>,
         cleanup' \in [AllThreads -> SUBSET Participants],
         \A s \in connSrc' : s[1] \in live'
  PROVE  SourceTypes' /\ SourcesFit' /\ RequestInv'
<1>1. SourceTypes' /\ SourcesLive'
  BY DEF SourceTypes, SourcesLive
<1>2. SourcesFit'
  BY <1>1, SameReqs, FitRests DEF requests
<1>3. RequestInv'
  BY RequestsRest DEF requests
<1> QED
  BY <1>1, <1>2, <1>3

LEMMA FitQuietSteps ==
  ASSUME FcodexInd, UNCHANGED <<sources, requests, job>>, live \subseteq live', Idle
  PROVE  FitKept
<1>1. SourceTypes /\ SourcesFit /\ RequestInv /\ JobInv
  BY DEF FcodexInd
<1>2. SourceTypes' /\ SourcesFit' /\ RequestInv'
  BY <1>1, FitFewer DEF sources, SourceTypes, SourcesFit
<1> QED
  BY <1>1, <1>2, JobIdle DEF FitKept

LEMMA FitUntouched ==
  ASSUME FcodexInd, UNCHANGED <<sources, requests, job, live, pstate>>
  PROVE  FitKept
<1>1. SourceTypes /\ SourcesFit /\ RequestInv /\ JobInv
  BY DEF FcodexInd
<1>2. SourceTypes' /\ SourcesFit' /\ RequestInv'
  BY <1>1, FitFewer DEF sources, SourceTypes, SourcesFit
<1>3. JobInv'
  BY <1>1 DEF JobInv, Idle, requests
<1> QED
  BY <1>2, <1>3 DEF FitKept

LEMMA FinishDisconnectFit ==
  ASSUME FcodexInd, FinishDisconnect
  PROVE  FitKept
<1>1. SourceTypes /\ SourcesFit /\ RequestInv
  BY DEF FcodexInd
<1>2. UNCHANGED <<live, sources, requests>> /\ job' = [conn |-> NoConn, todo |-> {}]
  BY DEF FinishDisconnect
<1>3. SourceTypes' /\ SourcesFit' /\ RequestInv'
  BY <1>1, <1>2, FitFewer DEF sources, SourceTypes, SourcesFit
<1>4. JobInv'
  BY <1>2 DEF JobInv, Idle
<1> QED
  BY <1>3, <1>4 DEF FitKept

LEMMA RetryCleanupsFit ==
  ASSUME FcodexInd, RetryCleanups
  PROVE  FitKept
<1>1. SourceTypes /\ SourcesFit /\ RequestInv /\ JobInv
  BY DEF FcodexInd
<1>2. UNCHANGED <<live, connSrc, unkSrc, pending, staged, requests, job>> /\ Idle
  BY DEF RetryCleanups
<1>3. cleanup' \in [AllThreads -> SUBSET Participants]
  <2> DEFINE D == Unneeded({w \in Pairs : w[1] \in cleanup[w[2]]}, Holder, connSrc, unkSrc, pending)
  <2>1. PICK h \in Releases(Holder, D) : cleanup' = [t \in AllThreads |->
                               IF \A w \in D : w[2] = t => h.pres[w] = "absent"
                               THEN {} ELSE cleanup[t]]
    BY DEF RetryCleanups
  <2> HIDE DEF D
  <2>2. \A t \in AllThreads : cleanup[t] \in SUBSET Participants
    BY <1>1 DEF SourceTypes
  <2>3. \A t \in AllThreads : (IF \A w \in D : w[2] = t => h.pres[w] = "absent"
                               THEN {} ELSE cleanup[t]) \in SUBSET Participants
    BY <2>2
  <2> QED
    BY <2>1, <2>3
<1>4. SourceTypes' /\ SourcesFit' /\ RequestInv'
  BY <1>1, <1>2, <1>3, FitFewer DEF SourcesFit
<1> QED
  BY <1>1, <1>2, <1>4, JobIdle DEF FitKept

LEMMA DeliverGoneFit ==
  ASSUME FcodexInd, NEW c \in Connections, DeliverGone(c)
  PROVE  FitKept
<1> DEFINE t == Head(wire[c]).t
           n == SourcesAfterGone(t)
           who == {p \in Participants : pres[<<p, t>>] # "absent"}
           D == Unneeded(who \X {t}, Holder, n.cs, n.us, n.pe)
<1>1. SourceTypes /\ SourcesFit /\ RequestInv /\ JobInv
  BY DEF FcodexInd
<1>2. UNCHANGED <<live, staged, requests, job>> /\ Idle
  BY DEF DeliverGone
<1>3. CASE UNCHANGED <<connSrc, unkSrc, pending, cleanup, machine, pstate, loose>>
  <2>1. SourceTypes' /\ SourcesFit' /\ RequestInv'
    BY <1>1, <1>2, <1>3, FitFewer DEF SourceTypes, SourcesFit
  <2> QED
    BY <1>1, <1>2, <2>1, JobIdle DEF FitKept
<1>4. CASE /\ connSrc' = n.cs /\ unkSrc' = n.us /\ pending' = n.pe
           /\ \E h \in Releases(Holder, D) :
                cleanup' = [cleanup EXCEPT ![t] =
                                   IF \A w \in D : h.pres[w] = "absent" THEN {} ELSE who]
  <2>1. connSrc' \subseteq connSrc /\ unkSrc' \subseteq unkSrc /\ pending' = pending
    BY <1>4 DEF SourcesAfterGone
  <2>2. who \in SUBSET Participants
    OBVIOUS
  <2>3. cleanup' = [cleanup EXCEPT ![t] = {}] \/ cleanup' = [cleanup EXCEPT ![t] = who]
    <3> HIDE DEF who, D, n, t
    <3> QED
      BY <1>4
  <2> HIDE DEF who, t
  <2>4. cleanup' \in [AllThreads -> SUBSET Participants]
    BY <1>1, <2>2, <2>3 DEF SourceTypes
  <2>5. SourceTypes' /\ SourcesFit' /\ RequestInv'
    BY <1>1, <1>2, <2>1, <2>4, FitFewer DEF SourcesFit
  <2> QED
    BY <1>1, <1>2, <2>5, JobIdle DEF FitKept
<1> QED
  BY <1>2, <1>3, <1>4 DEF DeliverGone

LEMMA DropEndpointFit ==
  ASSUME FcodexInd, RegistryKept, NEW c \in live, NEW ts, DropEndpoint(c, ts),
         UNCHANGED <<unkSrc, pending, staged, cleanup, requests>>
  PROVE  FitKept
<1>1. SourceTypes /\ SourcesFit /\ RequestInv /\ live \subseteq Connections
  BY DEF FcodexInd, EndpointInv
<1>2. /\ live' = live \ {c} /\ connSrc' = {s \in connSrc : s[1] # c}
      /\ job' = [conn |-> c, todo |-> {k \in Keys : k[1] = c /\ reqs[k] # NoRequest}]
  BY DEF DropEndpoint
<1>3. SourceTypes' /\ SourcesFit' /\ RequestInv'
  BY <1>1, <1>2, FitFewer DEF SourceTypes, SourcesFit
<1>4. pstate'[Owner[c]] # "none"
  BY DropEndpointRegistry
<1>5. JobInv'
  BY <1>1, <1>2, <1>4, NoConnAssumption DEF JobInv, Idle, requests
<1> QED
  BY <1>3, <1>5 DEF FitKept

LEMMA DisconnectFit ==
  ASSUME FcodexInd, RegistryKept, NEW c \in Connections, ParticipantDisconnects(c), Idle,
         UNCHANGED <<unkSrc, pending, staged, cleanup, requests>>
  PROVE  FitKept
<1>1. SourceTypes /\ SourcesFit /\ RequestInv /\ JobInv
  BY DEF FcodexInd
<1>2. CASE UNCHANGED <<endpoints, connSrc, machine, job>>
  <2>1. SourceTypes' /\ SourcesFit' /\ RequestInv'
    BY <1>1, <1>2, FitFewer DEF SourceTypes, SourcesFit, endpoints
  <2> QED
    BY <1>1, <1>2, <2>1, JobIdle DEF FitKept
<1>3. CASE c \in live /\ DropEndpoint(c, timers)
  BY <1>3, DropEndpointFit
<1>4. CASE /\ pstate[Owner[c]] # "none" /\ c \notin live
           /\ job' = [conn |-> c, todo |-> {k \in Keys : k[1] = c /\ reqs[k] # NoRequest}]
           /\ UNCHANGED <<endpoints, connSrc, machine>>
  <2>1. SourceTypes' /\ SourcesFit' /\ RequestInv'
    BY <1>1, <1>4, FitFewer DEF SourceTypes, SourcesFit, endpoints
  <2>2. JobInv'
    BY <1>1, <1>4, NoConnAssumption DEF JobInv, Idle, requests, endpoints
  <2> QED
    BY <2>1, <2>2 DEF FitKept
<1> QED
  BY <1>2, <1>3, <1>4 DEF ParticipantDisconnects

LEMMA CloseProxyFit ==
  ASSUME FcodexInd, RegistryKept, NEW c \in Connections, CloseProxy(c)
  PROVE  FitKept
<1>1. UNCHANGED <<unkSrc, pending, staged, cleanup, requests>> /\ Idle
  BY DEF CloseProxy
<1>2. CASE ParticipantDisconnects(c)
  BY <1>1, <1>2, DisconnectFit
<1>3. CASE UNCHANGED <<endpoints, connSrc, machine, job>>
  BY <1>1, <1>3, FitUntouched DEF endpoints, sources
<1> QED
  BY <1>2, <1>3 DEF CloseProxy

LEMMA ExpireConnectionFit ==
  ASSUME FcodexInd, RegistryKept, NEW tm \in timers, ExpireConnection(tm)
  PROVE  FitKept
<1>1. UNCHANGED <<unkSrc, pending, staged, cleanup, requests>>
  BY DEF ExpireConnection
<1>2. CASE tm.who \in live /\ DropEndpoint(tm.who, timers \ {tm})
  BY <1>1, <1>2, DropEndpointFit
<1>3. CASE UNCHANGED <<pstate, live, cgen, pgen, lseq, connSrc, machine, job>>
  BY <1>1, <1>3, FitUntouched DEF sources
<1> QED
  BY <1>2, <1>3 DEF ExpireConnection

LEMMA AdmitResumeFit ==
  ASSUME FcodexInd, NEW k \in Keys, NEW t \in AllThreads, AdmitResume(k, t)
  PROVE  FitKept
<1> DEFINE q == [key |-> k, tok |-> seq', t |-> t]
<1>1. SourceTypes /\ SourcesFit /\ RequestInv /\ JobInv
  BY DEF FcodexInd
<1>2. /\ UNCHANGED <<endpoints, connSrc, unkSrc, staged, cleanup, attempts, backend, job>> /\ Idle
      /\ reqs[k] = NoRequest /\ seq < MaxRequests
  BY DEF AdmitResume
<1>3. JobInv'
  BY <1>1, <1>2, JobIdle
<1>4. CASE UNCHANGED <<reqs, seq, pending>>
  <2>1. SourceTypes' /\ SourcesFit' /\ RequestInv'
    BY <1>1, <1>2, <1>4, FitFewer DEF SourceTypes, SourcesFit, requests, endpoints
  <2> QED
    BY <1>3, <2>1 DEF FitKept
<1>5. CASE Track(k, "resume", t) /\ pending' = pending \cup {q}
  <2>0. "resume" \in Methods
    BY DEF Methods
  <2>1. /\ RequestInv' /\ seq' \in Tokens
        /\ reqs'[k] # NoRequest /\ reqs'[k].tok = seq' /\ reqs'[k].method = "resume" /\ reqs'[k].t = t
        /\ \A j \in Keys : j # k => reqs'[j] = reqs[j]
    BY <1>1, <1>2, <1>5, <2>0, TrackedRequest
  <2>2. q \in [key : Keys, tok : Tokens, t : AllThreads] /\ q.key = k /\ q.tok = seq' /\ q.t = t
    BY <2>1
  <2> HIDE DEF q
  <2>3. SourceTypes' /\ SourcesLive'
    BY <1>1, <1>2, <1>5, <2>2 DEF SourceTypes, SourcesLive, SourcesFit, endpoints
  <2>4. SourcesFit'
    BY <1>1, <1>2, <1>5, <2>1, <2>2, <2>3, FitTracked
  <2> QED
    BY <1>3, <2>1, <2>3, <2>4 DEF FitKept
<1> QED
  BY <1>4, <1>5 DEF AdmitResume

LEMMA AdmitOtherFit ==
  ASSUME FcodexInd, NEW k \in Keys, NEW t \in AllThreads, NEW m \in {"unsubscribe", "start"},
         Track(k, m, t), reqs[k] = NoRequest, seq < MaxRequests,
         attempts' \subseteq attempts \cup {seq'},
         UNCHANGED <<endpoints, sources, backend, job>>, Idle
  PROVE  FitKept
<1>1. SourceTypes /\ SourcesFit /\ RequestInv /\ JobInv
  BY DEF FcodexInd
<1>2. JobInv'
  BY <1>1, JobIdle
<1>3. m \in Methods /\ m # "resume"
  BY DEF Methods
<1>4. /\ RequestInv'
      /\ reqs'[k] # NoRequest /\ reqs'[k].method = m
      /\ \A j \in Keys : j # k => reqs'[j] = reqs[j]
  BY <1>1, <1>3, TrackedRequest
<1>5. SourceTypes' /\ SourcesLive' /\ UNCHANGED <<pending, staged>>
  BY <1>1 DEF SourceTypes, SourcesLive, SourcesFit, endpoints, sources
<1>6. SourcesFit'
  BY <1>1, <1>3, <1>4, <1>5, FitTracked
<1> QED
  BY <1>2, <1>4, <1>5, <1>6 DEF FitKept

LEMMA AdmitUnsubscribeFit ==
  ASSUME FcodexInd, NEW k \in Keys, NEW t \in AllThreads, AdmitUnsubscribe(k, t)
  PROVE  FitKept
  BY AdmitOtherFit DEF AdmitUnsubscribe

LEMMA AdmitStartFit ==
  ASSUME FcodexInd, NEW k \in Keys, NEW t \in AllThreads, AdmitStart(k, t)
  PROVE  FitKept
  BY AdmitOtherFit DEF AdmitStart

LEMMA ClientAttempts ==
  ASSUME NEW f, ClientResponse(f)
  PROVE  attempts' \subseteq attempts
  BY DEF ClientResponse, ResumeResponse, UnsubscribeResponse, StartResponse

LEMMA ClientResponseFit ==
  ASSUME FcodexInd, NEW f \in Response, ClientResponse(f), UNCHANGED <<live, cleanup, seq, backend, job>>, Idle
  PROVE  FitKept
<1>1. SourceTypes /\ SourcesFit /\ RequestInv /\ JobInv
  BY DEF FcodexInd
<1>2. JobInv'
  BY <1>1, JobIdle
<1>3. f.key \in Keys /\ f.t \in AllThreads
  BY ResponseFields
<1>4. \/ Ignored
      \/ ResumeKept(f.key) \/ ResumeRefused(f.key) \/ TakenBack(f.key, f.out) \/ CreateConsumed(f.key, f.t)
  BY <1>1, ClientResponseShape
<1>5. SourceTypes' /\ SourcesFit' /\ RequestInv'
  BY <1>1, <1>3, <1>4, ClientAttempts, OutcomeFits
<1> QED
  BY <1>2, <1>5 DEF FitKept

LEMMA DeliverResponseFit ==
  ASSUME FcodexInd, NEW c \in Connections, DeliverResponse(c)
  PROVE  FitKept
<1>1. WorldInv /\ AnswerInv
  BY DEF FcodexInd
<1>2. /\ ClientResponse(Head(wire[c])) /\ wire[c] # <<>> /\ Head(wire[c]).kind = "response"
      /\ UNCHANGED <<live, cleanup, seq, backend, job>> /\ Idle
  BY DEF DeliverResponse
<1> QED
  BY <1>1, <1>2, HeadIsNotStaged, ClientResponseFit

LEMMA LateResponseFit ==
  ASSUME FcodexInd, NEW f \in late, LateResponse(f)
  PROVE  FitKept
<1>1. f \in Response
  BY DEF FcodexInd, WorldInv
<1>2. /\ ClientResponse(f)
      /\ UNCHANGED <<live, cleanup, seq, backend, job>> /\ Idle
  BY DEF LateResponse
<1> QED
  BY <1>1, <1>2, ClientResponseFit

LEMMA LostRequestFit ==
  ASSUME FcodexInd, RegistryKept, NEW k \in Keys, LostRequest(k)
  PROVE  FitKept
<1>1. SourceTypes /\ SourcesFit /\ RequestInv /\ JobInv
  BY DEF FcodexInd
<1>2. /\ k \in job.todo /\ job' = [job EXCEPT !.todo = @ \ {k}]
      /\ UNCHANGED <<live, cleanup, seq, backend>> /\ attempts' \subseteq attempts
  BY DEF LostRequest
<1>3. \/ Ignored \/ ResumeKept(k)
      \/ ~IsRequest(k, "resume") /\ Settled(k) /\ UNCHANGED <<connSrc, unkSrc, pending>>
  BY <1>1, LostRequestShape
<1>4. reqs[k].t \in AllThreads
  BY <1>1, <1>2, RequestFields DEF JobInv
<1>5. SourceTypes' /\ SourcesFit' /\ RequestInv'
  BY <1>1, <1>2, <1>3, <1>4, OutcomeFits
<1>6. \A j \in Keys : j # k => reqs'[j] = reqs[j]
  BY <1>1, <1>3, DropRequests DEF Ignored, ResumeKept, Settled, Drop, RequestInv
<1>7. pstate' = pstate
  BY DEF LostRequest, ResumeUnknown, ResumeConflict
<1>8. job'.conn = job.conn /\ job'.todo = job.todo \ {k}
      /\ job' \in [conn : Connections \cup {NoConn}, todo : SUBSET Keys]
  BY <1>1, <1>2 DEF JobInv
<1>9. JobInv'
  <2>1. \A j \in job'.todo : reqs'[j] # NoRequest
    BY <1>1, <1>6, <1>8 DEF JobInv
  <2> QED
    BY <1>1, <1>2, <1>7, <1>8, <2>1 DEF JobInv, Idle
<1> QED
  BY <1>5, <1>9 DEF FitKept

LEMMA BackendDisconnectedFit ==
  ASSUME FcodexInd, BackendDisconnected
  PROVE  FitKept
<1> DEFINE R(k) == IF reqs[k] # NoRequest /\ reqs[k].method = "start"
                   THEN [reqs[k] EXCEPT !.revoked = TRUE] ELSE reqs[k]
<1>1. SourceTypes /\ SourcesFit /\ RequestInv /\ JobInv
  BY DEF FcodexInd
<1>2. /\ reqs' = [k \in Keys |-> R(k)] /\ attempts' = {} /\ backend' = backend + 1 /\ backend < MaxEpochs
      /\ UNCHANGED <<endpoints, sources, seq, job>> /\ Idle
  BY DEF BackendDisconnected
<1>3. ASSUME NEW k \in Keys
      PROVE  /\ R(k) \in Request \cup {NoRequest}
             /\ R(k) = NoRequest <=> reqs[k] = NoRequest
             /\ reqs[k] # NoRequest => /\ R(k).tok = reqs[k].tok /\ R(k).method = reqs[k].method
                                       /\ R(k).t = reqs[k].t
                                       /\ reqs[k].method = "start" => R(k).revoked
  <2>1. reqs[k] \in Request \cup {NoRequest} /\ (reqs[k] # NoRequest => reqs[k] \in Request /\ reqs[k].tok # 0)
    BY <1>1, RequestFields DEF RequestInv
  <2>2. CASE reqs[k] # NoRequest /\ reqs[k].method = "start"
    <3> DEFINE r == [reqs[k] EXCEPT !.revoked = TRUE]
    <3>1. r \in Request /\ r.tok = reqs[k].tok /\ r.method = reqs[k].method /\ r.t = reqs[k].t /\ r.revoked = TRUE
      BY <2>1, <2>2 DEF Request
    <3>2. r # NoRequest
      BY <2>1, <2>2, <3>1 DEF NoRequest
    <3>3. R(k) = r
      BY <2>2
    <3> HIDE DEF r, R
    <3> QED
      BY <2>2, <3>1, <3>2, <3>3
  <2>3. CASE ~(reqs[k] # NoRequest /\ reqs[k].method = "start")
    <3>1. R(k) = reqs[k]
      BY <2>3
    <3> HIDE DEF R
    <3> QED
      BY <2>1, <2>3, <3>1
  <2> QED
    BY <2>2, <2>3
<1> HIDE DEF R
<1>4. /\ reqs' \in [Keys -> Request \cup {NoRequest}] /\ \A k \in Keys : reqs'[k] = R(k)
  BY <1>2, <1>3
<1>5. SameRequests
  BY <1>3, <1>4 DEF SameRequests
<1>6. SourceTypes' /\ SourcesLive' /\ UNCHANGED <<pending, staged>>
  BY <1>1, <1>2 DEF SourceTypes, SourcesLive, SourcesFit, endpoints, sources
<1>7. SourcesFit'
  BY <1>1, <1>5, <1>6, FitRests
<1>8. ASSUME NEW k \in Keys
      PROVE  /\ reqs'[k] # NoRequest => reqs'[k].tok <= seq'
             /\ IsRequest(k, "start")' /\ ~reqs'[k].revoked => reqs'[k].epoch = backend'
  BY <1>1, <1>2, <1>3, <1>4 DEF RequestInv, IsRequest
<1>9. backend' \in 0..MaxEpochs
  BY <1>1, <1>2, BoundTypes DEF RequestInv
<1>10. RequestInv'
  BY <1>1, <1>2, <1>4, <1>8, <1>9 DEF RequestInv
<1> QED
  BY <1>1, <1>2, <1>6, <1>7, <1>10, JobIdle DEF FitKept

LEMMA BackendResetFit ==
  ASSUME FcodexInd, BackendEpochCloses
  PROVE  FitKept
<1>1. RequestInv /\ JobInv
  BY DEF FcodexInd
<1>2. /\ reqs' = [k \in Keys |-> NoRequest] /\ attempts' = {} /\ backend' = backend + 1 /\ backend < MaxEpochs
      /\ connSrc' = {} /\ unkSrc' = {} /\ pending' = {} /\ staged' = {}
      /\ cleanup' = [t \in AllThreads |-> {}] /\ seq' = seq /\ job' = job /\ Idle
  BY DEF BackendEpochCloses
<1>3. SourceTypes'
  BY <1>2 DEF SourceTypes
<1>4. \A k \in Keys : reqs'[k] = NoRequest
  BY <1>2
<1>5. SourcesFit'
  BY <1>2, <1>4 DEF SourcesFit, IsRequest
<1>6. backend' \in 0..MaxEpochs
  BY <1>1, <1>2, BoundTypes DEF RequestInv
<1>7. RequestInv'
  BY <1>1, <1>2, <1>4, <1>6 DEF RequestInv, IsRequest
<1> QED
  BY <1>1, <1>2, <1>3, <1>5, <1>7, JobIdle DEF FitKept

-----------------------------------------------------------------------------
(* Frames and answers.                                                      *)

LEMMA FrameKinds ==
  \A f \in Frame : f.kind = "response" <=> f \in Response
  BY DEF Frame, Response, GoneFrame

LEMMA WirePlaces ==
  ASSUME WireType, NEW c \in Connections
  PROVE  /\ Len(wire[c]) \in Nat /\ DOMAIN wire[c] = 1..Len(wire[c])
         /\ \A i \in DOMAIN wire[c] : i \in Nat /\ i >= 1 /\ wire[c][i] \in Frame
<1>1. wire[c] \in Seq(Frame)
  BY DEF WireType
<1>2. Len(wire[c]) \in Nat /\ DOMAIN wire[c] = 1..Len(wire[c])
  BY <1>1, LenProperties
<1>3. \A i \in 1..Len(wire[c]) : wire[c][i] \in Frame
  BY <1>1, ElementOfSeq
<1> QED
  BY <1>2, <1>3

\* The head of one wire is taken.
Taken(c) ==
  /\ wire' = [wire EXCEPT ![c] = Tail(@)] /\ wire[c] # <<>>

LEMMA TakenPlaces ==
  ASSUME WireType, NEW c \in Connections, Taken(c)
  PROVE  /\ WireType'
         /\ \A d \in Connections : d # c => wire'[d] = wire[d]
         /\ \A i \in DOMAIN wire'[c] : /\ i \in Nat /\ i >= 1 /\ i + 1 \in DOMAIN wire[c]
                                       /\ i + 1 # 1 /\ wire'[c][i] = wire[c][i + 1]
         /\ 1 \in DOMAIN wire[c] /\ Head(wire[c]) = wire[c][1] /\ Head(wire[c]) \in Frame
<1>1. wire[c] \in Seq(Frame) /\ wire \in [Connections -> Seq(Frame)] /\ wire[c] # <<>>
  BY DEF WireType, Taken
<1>2. /\ Tail(wire[c]) \in Seq(Frame) /\ Len(Tail(wire[c])) = Len(wire[c]) - 1
      /\ \A i \in 1..Len(Tail(wire[c])) : Tail(wire[c])[i] = wire[c][i + 1]
      /\ DOMAIN Tail(wire[c]) = 1..Len(Tail(wire[c]))
  BY <1>1, HeadTailProperties, LenProperties
<1>3. Len(wire[c]) \in Nat /\ DOMAIN wire[c] = 1..Len(wire[c]) /\ Len(wire[c]) # 0
  BY <1>1, EmptySeq, LenProperties
<1>4. /\ wire'[c] = Tail(wire[c]) /\ WireType'
      /\ \A d \in Connections : d # c => wire'[d] = wire[d]
  BY <1>1, <1>2 DEF WireType, Taken
<1>5. \A i \in DOMAIN wire'[c] : /\ i \in Nat /\ i >= 1 /\ i + 1 \in DOMAIN wire[c]
                                 /\ i + 1 # 1 /\ wire'[c][i] = wire[c][i + 1]
  BY <1>2, <1>3, <1>4
<1>6. 1 \in DOMAIN wire[c] /\ Head(wire[c]) = wire[c][1] /\ Head(wire[c]) \in Frame
  BY <1>1, <1>3, WirePlaces DEF WireType
<1> QED
  BY <1>4, <1>5, <1>6

\* A frame is put on one wire.
Posted(c, m) == wire' = [wire EXCEPT ![c] = Append(@, m)]

LEMMA PostedPlaces ==
  ASSUME WireType, NEW c \in Connections, NEW m \in Frame, Posted(c, m)
  PROVE  /\ WireType'
         /\ \A d \in Connections : d # c => wire'[d] = wire[d]
         /\ \A i \in DOMAIN wire[c] : i \in DOMAIN wire'[c] /\ wire'[c][i] = wire[c][i]
         /\ \A i \in DOMAIN wire'[c] :
              \/ i \in DOMAIN wire[c] /\ wire'[c][i] = wire[c][i]
              \/ i = Len(wire[c]) + 1 /\ wire'[c][i] = m
         /\ \A i \in DOMAIN wire[c] : i < Len(wire[c]) + 1
<1>1. wire[c] \in Seq(Frame) /\ wire \in [Connections -> Seq(Frame)]
  BY DEF WireType
<1>2. /\ Append(wire[c], m) \in Seq(Frame) /\ Len(Append(wire[c], m)) = Len(wire[c]) + 1
      /\ \A i \in 1..Len(wire[c]) : Append(wire[c], m)[i] = wire[c][i]
      /\ Append(wire[c], m)[Len(wire[c]) + 1] = m
  BY <1>1, AppendProperties
<1>3. Len(wire[c]) \in Nat /\ DOMAIN wire[c] = 1..Len(wire[c])
  BY <1>1, LenProperties
<1>4. DOMAIN Append(wire[c], m) = 1..(Len(wire[c]) + 1)
  BY <1>2, LenProperties
<1>5. /\ wire'[c] = Append(wire[c], m) /\ WireType'
      /\ \A d \in Connections : d # c => wire'[d] = wire[d]
  BY <1>1, <1>2 DEF WireType, Posted
<1>6. \A i \in DOMAIN wire[c] : i \in DOMAIN wire'[c] /\ wire'[c][i] = wire[c][i]
  BY <1>2, <1>3, <1>4, <1>5
<1>7. \A i \in DOMAIN wire'[c] : i \in DOMAIN wire[c] \/ i = Len(wire[c]) + 1
  BY <1>3, <1>4, <1>5
<1>8. \A i \in DOMAIN wire[c] : i < Len(wire[c]) + 1
  BY <1>3
<1> QED
  BY <1>2, <1>5, <1>6, <1>7, <1>8

\* An answer that was not reported in time is late, or lost with its report.
LEMMA TakenAnswers ==
  ASSUME WireType, late \subseteq Response, AnswersOnce,
         NEW c \in Connections, Taken(c),
         \/ late' = late
         \/ /\ late' = late \cup {Head(wire[c])} /\ Head(wire[c]).kind = "response"
            /\ \A f \in late : f.key[1] # c
  PROVE  /\ WireType' /\ late' \subseteq Response /\ AnswersOnce'
         /\ \A f \in Response : Outstanding(f)' => Outstanding(f)
         /\ late' = late /\ Head(wire[c]).kind = "response" =>
              \A f : Outstanding(f)' => ~AnswerTo(f, Head(wire[c]).key, Head(wire[c]).tok)
<1> DEFINE h == Head(wire[c])
<1>1. /\ WireType'
      /\ \A d \in Connections : d # c => wire'[d] = wire[d]
      /\ \A i \in DOMAIN wire'[c] : /\ i \in Nat /\ i >= 1 /\ i + 1 \in DOMAIN wire[c]
                                    /\ i + 1 # 1 /\ wire'[c][i] = wire[c][i + 1]
      /\ 1 \in DOMAIN wire[c] /\ h = wire[c][1] /\ h \in Frame
  BY TakenPlaces
<1>2. h.kind = "response" => /\ h \in Response /\ h.key[1] = c
                             /\ \A j \in DOMAIN wire[c] : 1 # j => ~AnswerTo(wire[c][j], h.key, h.tok)
                             /\ \A f \in late : ~AnswerTo(f, h.key, h.tok)
  BY <1>1, FrameKinds DEF AnswersOnce
<1> HIDE DEF h
<1>3. late' \subseteq Response
  BY <1>2 DEF h
<1>4. \A f \in late' : f \in late \/ (f = h /\ h.kind = "response" /\ \A g \in late : g.key[1] # c)
  BY DEF h
<1>5. ASSUME NEW d \in Connections, NEW i \in DOMAIN wire'[d], wire'[d][i].kind = "response"
      PROVE  /\ wire'[d][i].key[1] = d
             /\ \A j \in DOMAIN wire'[d] : i # j => ~AnswerTo(wire'[d][j], wire'[d][i].key, wire'[d][i].tok)
             /\ \A f \in late' : ~AnswerTo(f, wire'[d][i].key, wire'[d][i].tok)
  <2>1. CASE d # c
    <3>1. wire'[d] = wire[d]
      BY <1>1, <2>1
    <3>2. /\ wire[d][i].key[1] = d
          /\ \A j \in DOMAIN wire[d] : i # j => ~AnswerTo(wire[d][j], wire[d][i].key, wire[d][i].tok)
          /\ \A f \in late : ~AnswerTo(f, wire[d][i].key, wire[d][i].tok)
      BY <1>5, <3>1 DEF AnswersOnce
    <3>3. h.kind = "response" => ~AnswerTo(h, wire[d][i].key, wire[d][i].tok)
      BY <1>2, <2>1, <3>2 DEF AnswerTo
    <3> QED
      BY <1>4, <3>1, <3>2, <3>3
  <2>2. CASE d = c
    <3>1. i \in Nat /\ i + 1 \in DOMAIN wire[c] /\ wire'[d][i] = wire[c][i + 1] /\ i + 1 # 1
      BY <1>1, <1>5, <2>2
    <3>2. /\ wire[c][i + 1].key[1] = c
          /\ \A j \in DOMAIN wire[c] : i + 1 # j => ~AnswerTo(wire[c][j], wire[c][i + 1].key, wire[c][i + 1].tok)
          /\ \A f \in late : ~AnswerTo(f, wire[c][i + 1].key, wire[c][i + 1].tok)
      BY <1>5, <3>1 DEF AnswersOnce
    <3>3. ~AnswerTo(h, wire[c][i + 1].key, wire[c][i + 1].tok)
      BY <1>1, <3>1, <3>2
    <3>4. ASSUME NEW j \in DOMAIN wire'[d], i # j
          PROVE  ~AnswerTo(wire'[d][j], wire'[d][i].key, wire'[d][i].tok)
      <4>1. j \in Nat /\ j + 1 \in DOMAIN wire[c] /\ wire'[d][j] = wire[c][j + 1]
        BY <1>1, <2>2
      <4>2. i + 1 # j + 1
        BY <3>1, <3>4, <4>1
      <4> QED
        BY <3>1, <3>2, <4>1, <4>2
    <3> QED
      BY <1>4, <2>2, <3>1, <3>2, <3>3, <3>4
  <2> QED
    BY <2>1, <2>2
<1>6. \A f, g \in late' : g.key[1] = f.key[1] => g = f
  BY <1>2, <1>4 DEF AnswersOnce
<1>7. AnswersOnce'
  BY <1>5, <1>6 DEF AnswersOnce
<1>8. ASSUME NEW f \in Response, Outstanding(f)'
      PROVE  Outstanding(f)
  <2>1. CASE f \in late'
    BY <1>1, <1>4, <2>1 DEF Outstanding
  <2>2. CASE \E d \in Connections : \E i \in DOMAIN wire'[d] : wire'[d][i] = f
    BY <1>1, <2>2 DEF Outstanding
  <2> QED
    BY <1>8, <2>1, <2>2 DEF Outstanding
<1>9. ASSUME late' = late, h.kind = "response", NEW f, Outstanding(f)'
      PROVE  ~AnswerTo(f, h.key, h.tok)
  <2>1. CASE f \in late
    BY <1>2, <1>9, <2>1
  <2>2. ASSUME NEW d \in Connections, NEW i \in DOMAIN wire'[d], wire'[d][i] = f
        PROVE  ~AnswerTo(f, h.key, h.tok)
    <3>1. CASE d = c
      BY <1>1, <1>2, <1>9, <2>2, <3>1
    <3>2. CASE d # c
      <4>1. wire'[d] = wire[d]
        BY <1>1, <3>2
      <4>2. f.kind = "response" => f.key[1] = d
        BY <2>2, <4>1 DEF AnswersOnce
      <4> QED
        BY <1>2, <1>9, <3>2, <4>2 DEF AnswerTo
    <3> QED
      BY <3>1, <3>2
  <2> QED
    BY <1>9, <2>1, <2>2 DEF Outstanding
<1> QED
  BY <1>1, <1>3, <1>7, <1>8, <1>9 DEF h

\* The report of a late answer gets there after all.
LEMMA LateAnswers ==
  ASSUME WireType, late \subseteq Response, AnswersOnce, wire' = wire,
         NEW h \in late, late' = late \ {h}
  PROVE  /\ WireType' /\ late' \subseteq Response /\ AnswersOnce'
         /\ \A f \in Response : Outstanding(f)' => Outstanding(f) /\ ~AnswerTo(f, h.key, h.tok)
<1>1. WireType' /\ late' \subseteq Response
  BY DEF WireType
<1>2. AnswersOnce'
  BY DEF AnswersOnce
<1>3. ASSUME NEW f \in Response, Outstanding(f)'
      PROVE  Outstanding(f) /\ ~AnswerTo(f, h.key, h.tok)
  <2>1. Outstanding(f)
    BY <1>3 DEF Outstanding
  <2>2. CASE f \in late'
    <3>1. f \in late /\ f # h
      BY <2>2
    <3>2. ~AnswerTo(f, h.key, h.tok)
      BY <3>1 DEF AnswersOnce, AnswerTo
    <3> QED
      BY <2>1, <3>2
  <2>3. ASSUME NEW c \in Connections, NEW i \in DOMAIN wire[c], wire[c][i] = f
        PROVE  Outstanding(f) /\ ~AnswerTo(f, h.key, h.tok)
    <3>1. f.kind = "response" /\ h.kind = "response"
      BY ResponseFields
    <3>2. ~AnswerTo(h, f.key, f.tok)
      BY <2>3, <3>1 DEF AnswersOnce
    <3> QED
      BY <2>1, <3>1, <3>2 DEF AnswerTo
  <2> QED
    BY <1>3, <2>1, <2>2, <2>3 DEF Outstanding
<1> QED
  BY <1>1, <1>2, <1>3

\* A new request is answered, with a token no answer has.
LEMMA PostedAnswers ==
  ASSUME WireType, late \subseteq Response, AnswersOnce, late' = late,
         NEW c \in Connections, NEW m \in Response, m.key[1] = c, Posted(c, m),
         \A f \in Response : Outstanding(f) => f.tok # m.tok
  PROVE  /\ WireType' /\ AnswersOnce'
         /\ \A f \in Response : Outstanding(f)' => Outstanding(f) \/ f = m
<1>0. m \in Frame /\ m.kind = "response"
  BY ResponseFields DEF Frame
<1>1. /\ WireType'
      /\ \A d \in Connections : d # c => wire'[d] = wire[d]
      /\ \A i \in DOMAIN wire[c] : i \in DOMAIN wire'[c] /\ wire'[c][i] = wire[c][i]
      /\ \A i \in DOMAIN wire'[c] :
           \/ i \in DOMAIN wire[c] /\ wire'[c][i] = wire[c][i]
           \/ i = Len(wire[c]) + 1 /\ wire'[c][i] = m
      /\ \A i \in DOMAIN wire[c] : i < Len(wire[c]) + 1
  BY <1>0, PostedPlaces
<1>2. \A f \in late : f.tok # m.tok
  BY DEF Outstanding
<1>3. \A d \in Connections : \A i \in DOMAIN wire[d] : wire[d][i].kind = "response" => wire[d][i].tok # m.tok
  BY WirePlaces, FrameKinds DEF Outstanding
<1>4. \A d \in Connections : \A i \in DOMAIN wire[d] :
        ~AnswerTo(m, wire[d][i].key, wire[d][i].tok) \/ wire[d][i].kind # "response"
  BY <1>3 DEF AnswerTo
<1>5. \A d \in Connections : \A i \in DOMAIN wire[d] : ~AnswerTo(wire[d][i], m.key, m.tok)
  BY <1>3 DEF AnswerTo
<1>6. ASSUME NEW d \in Connections, NEW i \in DOMAIN wire'[d], wire'[d][i].kind = "response"
      PROVE  /\ wire'[d][i].key[1] = d
             /\ \A j \in DOMAIN wire'[d] : i # j => ~AnswerTo(wire'[d][j], wire'[d][i].key, wire'[d][i].tok)
             /\ \A f \in late : ~AnswerTo(f, wire'[d][i].key, wire'[d][i].tok)
  <2>1. CASE d # c
    BY <1>1, <1>6, <2>1 DEF AnswersOnce
  <2>2. CASE d = c /\ i \in DOMAIN wire[c] /\ wire'[c][i] = wire[c][i]
    <3>1. /\ wire[c][i].key[1] = c
          /\ \A j \in DOMAIN wire[c] : i # j => ~AnswerTo(wire[c][j], wire[c][i].key, wire[c][i].tok)
          /\ \A f \in late : ~AnswerTo(f, wire[c][i].key, wire[c][i].tok)
      BY <1>6, <2>2 DEF AnswersOnce
    <3>2. \A j \in DOMAIN wire'[c] : wire'[c][j] = m \/ (j \in DOMAIN wire[c] /\ wire'[c][j] = wire[c][j])
      BY <1>1
    <3> QED
      BY <1>4, <1>6, <2>2, <3>1, <3>2
  <2>3. CASE d = c /\ i = Len(wire[c]) + 1 /\ wire'[c][i] = m
    <3>1. \A j \in DOMAIN wire'[c] : j # i => j \in DOMAIN wire[c] /\ wire'[c][j] = wire[c][j]
      BY <1>1, <2>3
    <3>2. \A j \in DOMAIN wire'[c] : j # i => ~AnswerTo(wire'[c][j], m.key, m.tok)
      BY <1>5, <3>1
    <3>3. \A f \in late : ~AnswerTo(f, m.key, m.tok)
      BY <1>2 DEF AnswerTo
    <3> QED
      BY <2>3, <3>2, <3>3
  <2> QED
    BY <1>1, <2>1, <2>2, <2>3
<1>7. AnswersOnce'
  BY <1>6 DEF AnswersOnce
<1>8. ASSUME NEW f \in Response, Outstanding(f)'
      PROVE  Outstanding(f) \/ f = m
  <2>1. CASE f \in late
    BY <2>1 DEF Outstanding
  <2>2. ASSUME NEW d \in Connections, NEW i \in DOMAIN wire'[d], wire'[d][i] = f
        PROVE  Outstanding(f) \/ f = m
    BY <1>1, <2>2 DEF Outstanding
  <2> QED
    BY <1>8, <2>1, <2>2 DEF Outstanding
<1> QED
  BY <1>1, <1>7, <1>8

\* Every open websocket is told that a thread is gone.
ToldGone(t) ==
  wire' = [c \in Connections |->
             IF px[c] = "open" THEN Append(wire[c], [kind |-> "gone", t |-> t]) ELSE wire[c]]

LEMMA ToldGonePlaces ==
  ASSUME WireType, NEW t \in AllThreads, ToldGone(t)
  PROVE  /\ WireType'
         /\ \A c \in Connections :
              /\ \A i \in DOMAIN wire[c] : i \in DOMAIN wire'[c] /\ wire'[c][i] = wire[c][i]
              /\ \A i \in DOMAIN wire'[c] :
                   \/ i \in DOMAIN wire[c] /\ wire'[c][i] = wire[c][i]
                   \/ wire'[c][i].kind # "response"
<1> DEFINE m == [kind |-> "gone", t |-> t]
<1>1. m \in Frame /\ m.kind # "response"
  BY DEF Frame, GoneFrame
<1> HIDE DEF m
<1>2. ASSUME NEW c \in Connections
      PROVE  /\ wire'[c] \in Seq(Frame)
             /\ \A i \in DOMAIN wire[c] : i \in DOMAIN wire'[c] /\ wire'[c][i] = wire[c][i]
             /\ \A i \in DOMAIN wire'[c] :
                  \/ i \in DOMAIN wire[c] /\ wire'[c][i] = wire[c][i]
                  \/ wire'[c][i].kind # "response"
  <2>1. wire[c] \in Seq(Frame)
    BY DEF WireType
  <2>2. CASE px[c] # "open"
    <3>1. wire'[c] = wire[c]
      BY <2>2 DEF ToldGone
    <3> QED
      BY <2>1, <3>1
  <2>3. CASE px[c] = "open"
    <3>1. wire'[c] = Append(wire[c], m)
      BY <2>3 DEF ToldGone, m
    <3>2. /\ Append(wire[c], m) \in Seq(Frame) /\ Len(Append(wire[c], m)) = Len(wire[c]) + 1
          /\ \A i \in 1..Len(wire[c]) : Append(wire[c], m)[i] = wire[c][i]
          /\ Append(wire[c], m)[Len(wire[c]) + 1] = m
      BY <1>1, <2>1, AppendProperties
    <3>3. Len(wire[c]) \in Nat /\ DOMAIN wire[c] = 1..Len(wire[c])
      BY <2>1, LenProperties
    <3>4. DOMAIN Append(wire[c], m) = 1..(Len(wire[c]) + 1)
      BY <3>2, LenProperties
    <3>5. \A i \in DOMAIN wire[c] : i \in DOMAIN wire'[c] /\ wire'[c][i] = wire[c][i]
      BY <3>1, <3>2, <3>3, <3>4
    <3>6. \A i \in DOMAIN wire'[c] : i \in DOMAIN wire[c] \/ i = Len(wire[c]) + 1
      BY <3>1, <3>3, <3>4
    <3> QED
      BY <1>1, <3>1, <3>2, <3>5, <3>6
  <2> QED
    BY <2>2, <2>3
<1>3. WireType'
  BY <1>2 DEF WireType, ToldGone
<1> QED
  BY <1>2, <1>3

\* Steps that put no answer anywhere.
LEMMA NoNewAnswers ==
  ASSUME WireType, WireType', late' = late, AnswersOnce,
         \A c \in Connections : \A i \in DOMAIN wire'[c] :
           \/ i \in DOMAIN wire[c] /\ wire'[c][i] = wire[c][i]
           \/ wire'[c][i].kind # "response"
  PROVE  /\ AnswersOnce'
         /\ \A f \in Response : Outstanding(f)' => Outstanding(f)
<1>1. ASSUME NEW d \in Connections, NEW i \in DOMAIN wire'[d], wire'[d][i].kind = "response"
      PROVE  /\ wire'[d][i].key[1] = d
             /\ \A j \in DOMAIN wire'[d] : i # j => ~AnswerTo(wire'[d][j], wire'[d][i].key, wire'[d][i].tok)
             /\ \A f \in late : ~AnswerTo(f, wire'[d][i].key, wire'[d][i].tok)
  <2>1. i \in DOMAIN wire[d] /\ wire'[d][i] = wire[d][i]
    BY <1>1
  <2>2. /\ wire[d][i].key[1] = d
        /\ \A j \in DOMAIN wire[d] : i # j => ~AnswerTo(wire[d][j], wire[d][i].key, wire[d][i].tok)
        /\ \A f \in late : ~AnswerTo(f, wire[d][i].key, wire[d][i].tok)
    BY <1>1, <2>1 DEF AnswersOnce
  <2>3. ASSUME NEW j \in DOMAIN wire'[d], i # j
        PROVE  ~AnswerTo(wire'[d][j], wire'[d][i].key, wire'[d][i].tok)
    <3>1. CASE j \in DOMAIN wire[d] /\ wire'[d][j] = wire[d][j]
      BY <2>1, <2>2, <2>3, <3>1
    <3>2. CASE wire'[d][j].kind # "response"
      BY <3>2 DEF AnswerTo
    <3> QED
      BY <3>1, <3>2
  <2> QED
    BY <2>1, <2>2, <2>3
<1>2. AnswersOnce'
  BY <1>1 DEF AnswersOnce
<1>3. ASSUME NEW f \in Response, Outstanding(f)'
      PROVE  Outstanding(f)
  <2>1. f.kind = "response"
    BY ResponseFields
  <2> QED
    BY <1>3, <2>1 DEF Outstanding
<1> QED
  BY <1>2, <1>3

\* A wire is cut.
LEMMA CutWires ==
  ASSUME WireType, NEW C, wire' = [c \in Connections |-> IF c \in C THEN <<>> ELSE wire[c]]
  PROVE  /\ WireType'
         /\ \A c \in Connections : c \notin C => wire'[c] = wire[c]
         /\ \A c \in Connections : \A i \in DOMAIN wire'[c] :
              i \in DOMAIN wire[c] /\ wire'[c][i] = wire[c][i]
<1>1. \A c \in Connections : wire'[c] = IF c \in C THEN <<>> ELSE wire[c]
  OBVIOUS
<1>2. <<>> \in Seq(Frame) /\ DOMAIN <<>> = {}
  OBVIOUS
<1>3. WireType'
  BY <1>2 DEF WireType
<1> QED
  BY <1>1, <1>2, <1>3

\* The tokens of staged discards are known to no answer but those there were.
LEMMA AnswersStillFit ==
  ASSUME AnswersFit, seq \in Nat, seq' \in Nat, seq <= seq', NEW Old,
         \A f \in Response : Outstanding(f)' => (Outstanding(f) /\ f \notin Old) \/
              (f.tok <= seq' /\ f.key \notin staged'),
         \A f \in Response : Outstanding(f) /\ f \notin Old /\ TokenMatches(f.key, f.tok)' /\ f.key \in staged'
              => TokenMatches(f.key, f.tok) /\ f.key \in staged
  PROVE  AnswersFit'
<1> SUFFICES ASSUME NEW f \in Response, Outstanding(f)'
             PROVE  /\ f.tok <= seq'
                    /\ TokenMatches(f.key, f.tok)' => f.key \notin staged'
  BY DEF AnswersFit
<1>1. CASE Outstanding(f) /\ f \notin Old
  <2>1. f.tok <= seq /\ (TokenMatches(f.key, f.tok) => f.key \notin staged)
    BY <1>1 DEF AnswersFit
  <2>2. f.tok \in Nat
    BY ResponseFields, BoundTypes DEF Tokens
  <2> QED
    BY <1>1, <2>1, <2>2
<1>2. CASE f.tok <= seq' /\ f.key \notin staged'
  BY <1>2
<1> QED
  BY <1>1, <1>2

-----------------------------------------------------------------------------
(* Websockets, subscriptions and answers, operation by operation.           *)

WorldKept == WorldInv' /\ AnswerInv'

PxTypes == [Connections -> {"idle", "open", "quarantined", "closed"}]

KnownThreads == Threads \cup made

LEMMA WorldStep ==
  ASSUME WorldInv, WireType', late' \subseteq Response, px' \in PxTypes,
         \A c \in Connections : px'[c] = "idle" => px[c] = "idle" /\ wire'[c] = wire[c],
         \A c \in live' : c \in live \/ px'[c] # "idle",
         live' \subseteq Connections, live \subseteq Connections,
         made \subseteq made', made' \subseteq NewThreads, gone' \in Nat,
         \A s \in sub' : s \in sub \/ (s \in Connections \X AllThreads
                                        /\ px'[s[1]] # "idle" /\ s[2] \in KnownThreads'),
         \A k \in Keys : IsRequest(k, "unsubscribe")' =>
            \/ IsRequest(k, "unsubscribe") /\ reqs'[k].t = reqs[k].t
            \/ reqs'[k].t \in KnownThreads',
         \A f \in late' : px'[f.key[1]] \in {"quarantined", "closed"}
  PROVE  WorldInv'
<1>1. sub \subseteq Connections \X AllThreads
  BY DEF WorldInv
<1>2. sub' \subseteq Connections \X AllThreads
  BY <1>1
<1>3. \A c \in live' : px'[c] # "idle"
  BY DEF WorldInv
<1>4. \A c \in Connections : px'[c] = "idle" => wire'[c] = <<>>
  BY DEF WorldInv
<1>5. \A s \in sub' : px'[s[1]] # "idle" /\ s[2] \in Threads \cup made'
  <2> SUFFICES ASSUME NEW s \in sub', s \in sub
               PROVE  px'[s[1]] # "idle" /\ s[2] \in Threads \cup made'
    BY DEF KnownThreads
  <2>1. s[1] \in Connections /\ px[s[1]] # "idle" /\ s[2] \in Threads \cup made
    BY <1>1 DEF WorldInv
  <2> QED
    BY <2>1
<1>6. \A k \in Keys : IsRequest(k, "unsubscribe")' => reqs'[k].t \in Threads \cup made'
  BY DEF WorldInv, KnownThreads
<1> QED
  BY <1>2, <1>3, <1>4, <1>5, <1>6 DEF WorldInv, PxTypes

\* No request of this step is a new unsubscribe.
NoNewUnsubscribe ==
  \A k \in Keys : IsRequest(k, "unsubscribe")' =>
    IsRequest(k, "unsubscribe") /\ reqs'[k].t = reqs[k].t

LEMMA DroppedRequests ==
  ASSUME RequestInv, NEW k \in Keys, reqs' = reqs \/ reqs' = Drop(k)
  PROVE  /\ NoNewUnsubscribe
         /\ \A j \in Keys : reqs'[j] = reqs[j] \/ (reqs'[j] = NoRequest /\ j = k)
  BY DEF NoNewUnsubscribe, Drop, IsRequest, RequestInv

LEMMA SameUnsubscribes ==
  ASSUME SameRequests
  PROVE  NoNewUnsubscribe
  BY DEF SameRequests, NoNewUnsubscribe, IsRequest

\* Steps of the registry that the proxies and the app-server do not see.
LEMMA WorldRests ==
  ASSUME WorldInv, UNCHANGED <<px, wire, sub, late, gone, made>>, NoNewUnsubscribe,
         live \subseteq Connections, live' \subseteq live
  PROVE  WorldInv'
<1>1. WireType' /\ late' \subseteq Response /\ px' \in PxTypes
  BY DEF WorldInv, WireType, PxTypes
<1>2. made' \subseteq NewThreads /\ gone' \in Nat
  BY DEF WorldInv
<1>3. \A f \in late' : px'[f.key[1]] \in {"quarantined", "closed"}
  BY DEF WorldInv
<1> QED
  BY <1>1, <1>2, <1>3, WorldStep DEF NoNewUnsubscribe

LEMMA AnswersRest ==
  ASSUME AnswerInv, UNCHANGED <<wire, late, seq>>, seq \in Nat,
         \A k \in Keys, n \in Tokens : TokenMatches(k, n)' /\ k \in staged' => TokenMatches(k, n) /\ k \in staged
  PROVE  AnswerInv'
<1>1. AnswersOnce'
  BY DEF AnswerInv, AnswersOnce
<1>2. \A f \in Response : Outstanding(f)' => Outstanding(f)
  BY DEF Outstanding
<1>3. \A f \in Response : f.key \in Keys /\ f.tok \in Tokens
  BY ResponseFields
<1>4. AnswersFit'
  BY <1>2, <1>3 DEF AnswerInv, AnswersFit
<1> QED
  BY <1>1, <1>4 DEF AnswerInv

LEMMA SeqNat ==
  RequestInv => seq \in Nat
  BY BoundTypes DEF RequestInv

LEMMA WorldUntouched ==
  ASSUME FcodexInd, UNCHANGED <<px, wire, sub, late, gone, made, reqs, seq, staged>>, live' \subseteq live
  PROVE  WorldKept
<1>1. WorldInv /\ AnswerInv /\ RequestInv /\ live \subseteq Connections
  BY DEF FcodexInd, EndpointInv
<1>2. WorldInv'
  BY <1>1, SameReqs, SameUnsubscribes, WorldRests
<1>3. AnswerInv'
  BY <1>1, SeqNat, AnswersRest DEF TokenMatches
<1> QED
  BY <1>2, <1>3 DEF WorldKept

LEMMA ConnectWorld ==
  ASSUME FcodexInd, NEW c \in Connections, Connect(c)
  PROVE  WorldKept
<1>1. WorldInv /\ AnswerInv /\ RequestInv /\ live \subseteq Connections
  BY DEF FcodexInd, EndpointInv
<1>2. /\ live' = live \cup {c} /\ px[c] = "idle"
      /\ px' = [px EXCEPT ![c] = "open"] \/ px' = [px EXCEPT ![c] = "closed"]
      /\ UNCHANGED <<wire, sub, late, gone, made, reqs, seq, staged>>
  BY DEF Connect, requests, sources
<1>3. px \in PxTypes
  BY <1>1 DEF WorldInv, PxTypes
<1>4. px' \in PxTypes /\ px'[c] \in {"open", "closed"} /\ \A d \in Connections : d # c => px'[d] = px[d]
  BY <1>2, <1>3 DEF PxTypes
<1>5. \A f \in late : f.key[1] \in Connections /\ f.key[1] # c
  BY <1>1, <1>2, ResponseFields, KeyParts DEF WorldInv
<1>6. WireType' /\ late' \subseteq Response /\ made' \subseteq NewThreads /\ gone' \in Nat
  BY <1>1, <1>2 DEF WorldInv, WireType
<1>7. \A f \in late' : px'[f.key[1]] \in {"quarantined", "closed"}
  BY <1>1, <1>2, <1>4, <1>5 DEF WorldInv
<1>8. NoNewUnsubscribe
  BY <1>2, SameReqs, SameUnsubscribes
<1>9. WorldInv'
  BY <1>1, <1>2, <1>4, <1>6, <1>7, <1>8, WorldStep DEF NoNewUnsubscribe
<1>10. AnswerInv'
  BY <1>1, <1>2, SeqNat, AnswersRest DEF TokenMatches
<1> QED
  BY <1>9, <1>10 DEF WorldKept

LEMMA LostRequestWorld ==
  ASSUME FcodexInd, NEW k \in Keys, LostRequest(k)
  PROVE  WorldKept
<1>1. WorldInv /\ AnswerInv /\ RequestInv /\ SourcesFit /\ JobInv /\ live \subseteq Connections
  BY DEF FcodexInd, EndpointInv
<1>2. UNCHANGED <<px, wire, sub, late, gone, made, seq, live>>
  BY DEF LostRequest, world
<1>3. (reqs' = reqs /\ staged' = staged) \/ (reqs' = Drop(k) /\ staged' = staged \ {k})
  BY <1>1, LostRequestShape DEF Ignored, ResumeKept, Settled
<1>4. NoNewUnsubscribe /\ \A j \in Keys : reqs'[j] = reqs[j] \/ (reqs'[j] = NoRequest /\ j = k)
  BY <1>1, <1>3, DroppedRequests
<1>5. WorldInv'
  BY <1>1, <1>2, <1>4, WorldRests
<1>6. ASSUME NEW j \in Keys, NEW n \in Tokens, TokenMatches(j, n)', j \in staged'
      PROVE  TokenMatches(j, n) /\ j \in staged
  <2>1. j \in staged
    BY <1>3, <1>6
  <2>2. n # 0
    BY BoundTypes DEF Tokens
  <2>3. reqs'[j] = reqs[j]
    BY <1>4, <1>6, <2>2 DEF TokenMatches, NoRequest
  <2> QED
    BY <1>6, <2>1, <2>3 DEF TokenMatches
<1>7. AnswerInv'
  BY <1>1, <1>2, <1>6, SeqNat, AnswersRest
<1> QED
  BY <1>5, <1>7 DEF WorldKept

LEMMA BackendDisconnectedWorld ==
  ASSUME FcodexInd, BackendDisconnected
  PROVE  WorldKept
<1>1. WorldInv /\ AnswerInv /\ RequestInv /\ live \subseteq Connections
  BY DEF FcodexInd, EndpointInv
<1>2. UNCHANGED <<px, wire, sub, late, gone, made, seq, live, staged>>
  BY DEF BackendDisconnected, world, endpoints, sources
<1>3. reqs' = [k \in Keys |-> IF reqs[k] # NoRequest /\ reqs[k].method = "start"
                              THEN [reqs[k] EXCEPT !.revoked = TRUE] ELSE reqs[k]]
  BY DEF BackendDisconnected
<1>4. ASSUME NEW k \in Keys
      PROVE  /\ reqs'[k].tok = reqs[k].tok
             /\ IsRequest(k, "unsubscribe")' => IsRequest(k, "unsubscribe") /\ reqs'[k].t = reqs[k].t
  <2>1. CASE reqs[k] # NoRequest /\ reqs[k].method = "start"
    <3>1. reqs'[k] = [reqs[k] EXCEPT !.revoked = TRUE]
      BY <1>3, <2>1
    <3>2. reqs[k] \in Request
      BY <1>1, <2>1, RequestFields
    <3>3. reqs'[k].tok = reqs[k].tok /\ reqs'[k].method = "start"
      BY <2>1, <3>1, <3>2 DEF Request
    <3> QED
      BY <3>3 DEF IsRequest
  <2>2. CASE ~(reqs[k] # NoRequest /\ reqs[k].method = "start")
    <3>1. reqs'[k] = reqs[k]
      BY <1>3, <2>2
    <3> QED
      BY <3>1 DEF IsRequest
  <2> QED
    BY <2>1, <2>2
<1>5. WorldInv'
  BY <1>1, <1>2, <1>4, WorldRests DEF NoNewUnsubscribe
<1>6. AnswerInv'
  BY <1>1, <1>2, <1>4, SeqNat, AnswersRest DEF TokenMatches
<1> QED
  BY <1>5, <1>6 DEF WorldKept

LEMMA BackendResetWorld ==
  ASSUME FcodexInd, BackendEpochCloses
  PROVE  WorldKept
<1>1. WorldInv /\ AnswerInv /\ RequestInv /\ live \subseteq Connections
  BY DEF FcodexInd, EndpointInv
<1>2. /\ live' = {} /\ sub' = {} /\ staged' = {} /\ reqs' = [k \in Keys |-> NoRequest]
      /\ px' = [c \in Connections |-> IF px[c] = "idle" THEN "idle" ELSE "closed"]
      /\ wire' = [c \in Connections |-> <<>>] /\ UNCHANGED <<late, gone, made, seq>>
  BY DEF BackendEpochCloses
<1>3. px' \in PxTypes /\ \A c \in Connections : px'[c] = IF px[c] = "idle" THEN "idle" ELSE "closed"
  BY <1>2 DEF PxTypes
<1>4. wire' = [c \in Connections |-> IF c \in Connections THEN <<>> ELSE wire[c]]
  BY <1>2
<1>5. /\ WireType'
      /\ \A c \in Connections : \A i \in DOMAIN wire'[c] : i \in DOMAIN wire[c] /\ wire'[c][i] = wire[c][i]
  BY <1>1, <1>4, CutWires DEF WorldInv
<1>6. \A c \in Connections : px'[c] = "idle" => px[c] = "idle" /\ wire'[c] = wire[c]
  BY <1>1, <1>2, <1>3 DEF WorldInv
<1>7. \A f \in late' : px'[f.key[1]] \in {"quarantined", "closed"}
  <2>1. \A f \in late : f.key[1] \in Connections /\ px[f.key[1]] # "idle"
    BY <1>1, ResponseFields, KeyParts DEF WorldInv
  <2> QED
    BY <1>2, <1>3, <2>1
<1>8. \A k \in Keys : ~IsRequest(k, "unsubscribe")'
  BY <1>2 DEF IsRequest
<1>9. late' \subseteq Response /\ made' \subseteq NewThreads /\ gone' \in Nat
  BY <1>1, <1>2 DEF WorldInv
<1>10. WorldInv'
  BY <1>1, <1>2, <1>3, <1>5, <1>6, <1>7, <1>8, <1>9, WorldStep
<1>11. AnswersOnce' /\ \A f \in Response : Outstanding(f)' => Outstanding(f)
  BY <1>1, <1>2, <1>5, NoNewAnswers DEF WorldInv, AnswerInv
<1>12. AnswersFit'
  BY <1>1, <1>2, <1>11 DEF AnswerInv, AnswersFit
<1> QED
  BY <1>10, <1>11, <1>12 DEF WorldKept, AnswerInv

LEMMA CloseProxyWorld ==
  ASSUME FcodexInd, NEW c \in Connections, CloseProxy(c)
  PROVE  WorldKept
<1>1. WorldInv /\ AnswerInv /\ RequestInv /\ live \subseteq Connections
  BY DEF FcodexInd, EndpointInv
<1>2. /\ px[c] \in {"open", "quarantined"} /\ px' = [px EXCEPT ![c] = "closed"]
      /\ wire' = [wire EXCEPT ![c] = <<>>] /\ sub' \subseteq sub
      /\ UNCHANGED <<late, gone, made, reqs, seq, staged>>
  BY DEF CloseProxy, requests
<1>3. live' \subseteq live
  BY DEF CloseProxy, ParticipantDisconnects, DropEndpoint, endpoints
<1>4. px' \in PxTypes /\ px'[c] = "closed" /\ \A d \in Connections : d # c => px'[d] = px[d]
  BY <1>1, <1>2 DEF WorldInv, PxTypes
<1>5. wire' = [d \in Connections |-> IF d \in {c} THEN <<>> ELSE wire[d]]
  BY <1>1, <1>2 DEF WorldInv, WireType
<1>6. /\ WireType'
      /\ \A d \in Connections : d \notin {c} => wire'[d] = wire[d]
      /\ \A d \in Connections : \A i \in DOMAIN wire'[d] : i \in DOMAIN wire[d] /\ wire'[d][i] = wire[d][i]
  BY <1>1, <1>5, CutWires DEF WorldInv
<1>7. \A f \in late' : px'[f.key[1]] \in {"quarantined", "closed"}
  <2>1. \A f \in late : f.key[1] \in Connections
    BY <1>1, ResponseFields, KeyParts DEF WorldInv
  <2> QED
    BY <1>1, <1>2, <1>4, <2>1 DEF WorldInv
<1>8. NoNewUnsubscribe
  BY <1>2, SameReqs, SameUnsubscribes
<1>9. late' \subseteq Response /\ made' \subseteq NewThreads /\ gone' \in Nat
  BY <1>1, <1>2 DEF WorldInv
<1>10. WorldInv'
  BY <1>1, <1>2, <1>3, <1>4, <1>6, <1>7, <1>8, <1>9, WorldStep DEF NoNewUnsubscribe
<1>11. AnswersOnce' /\ \A f \in Response : Outstanding(f)' => Outstanding(f)
  BY <1>1, <1>2, <1>6, NoNewAnswers DEF WorldInv, AnswerInv
<1>12. AnswersFit'
  BY <1>1, <1>2, <1>11 DEF AnswerInv, AnswersFit, TokenMatches
<1> QED
  BY <1>10, <1>11, <1>12 DEF WorldKept, AnswerInv

LEMMA ThreadGoneWorld ==
  ASSUME FcodexInd, NEW t \in AllThreads, ThreadGone(t)
  PROVE  WorldKept
<1>1. WorldInv /\ AnswerInv /\ RequestInv /\ live \subseteq Connections
  BY DEF FcodexInd, EndpointInv
<1>2. /\ ToldGone(t) /\ gone' = gone + 1 /\ sub' \subseteq sub
      /\ UNCHANGED <<live, px, late, made, reqs, seq, staged>>
  BY DEF ThreadGone, ToldGone, endpoints, requests, sources
<1>3. /\ WireType'
      /\ \A c \in Connections : \A i \in DOMAIN wire'[c] :
           \/ i \in DOMAIN wire[c] /\ wire'[c][i] = wire[c][i]
           \/ wire'[c][i].kind # "response"
  BY <1>1, <1>2, ToldGonePlaces DEF WorldInv
<1>4. \A c \in Connections : px'[c] = "idle" => px[c] = "idle" /\ wire'[c] = wire[c]
  BY <1>2 DEF ToldGone
<1>5. px' \in PxTypes /\ late' \subseteq Response /\ made' \subseteq NewThreads /\ gone' \in Nat
  BY <1>1, <1>2 DEF WorldInv, PxTypes
<1>6. \A f \in late' : px'[f.key[1]] \in {"quarantined", "closed"}
  BY <1>1, <1>2 DEF WorldInv
<1>8. NoNewUnsubscribe
  BY <1>2, SameReqs, SameUnsubscribes
<1>10. WorldInv'
  BY <1>1, <1>2, <1>3, <1>4, <1>5, <1>6, <1>8, WorldStep DEF NoNewUnsubscribe
<1>11. AnswersOnce' /\ \A f \in Response : Outstanding(f)' => Outstanding(f)
  BY <1>1, <1>2, <1>3, NoNewAnswers DEF WorldInv, AnswerInv
<1>12. AnswersFit'
  BY <1>1, <1>2, <1>11 DEF AnswerInv, AnswersFit, TokenMatches
<1> QED
  BY <1>10, <1>11, <1>12 DEF WorldKept, AnswerInv

LEMMA DeliverGoneWorld ==
  ASSUME FcodexInd, NEW c \in Connections, DeliverGone(c)
  PROVE  WorldKept
<1>1. WorldInv /\ AnswerInv /\ RequestInv /\ live \subseteq Connections
  BY DEF FcodexInd, EndpointInv
<1>2. /\ Taken(c) /\ px[c] = "open"
      /\ UNCHANGED <<live, px, late, sub, made, gone, reqs, seq, staged>>
  BY DEF DeliverGone, Taken, requests
<1>3. /\ WireType' /\ late' \subseteq Response /\ AnswersOnce'
      /\ \A f \in Response : Outstanding(f)' => Outstanding(f)
  BY <1>1, <1>2, TakenAnswers DEF WorldInv, AnswerInv
<1>4. \A d \in Connections : d # c => wire'[d] = wire[d]
  BY <1>1, <1>2, TakenPlaces DEF WorldInv
<1>5. px' \in PxTypes /\ made' \subseteq NewThreads /\ gone' \in Nat
  BY <1>1, <1>2 DEF WorldInv, PxTypes
<1>6. \A f \in late' : px'[f.key[1]] \in {"quarantined", "closed"}
  BY <1>1, <1>2 DEF WorldInv
<1>7. \A d \in Connections : px'[d] = "idle" => px[d] = "idle" /\ wire'[d] = wire[d]
  BY <1>2, <1>4
<1>8. NoNewUnsubscribe
  BY <1>2, SameReqs, SameUnsubscribes
<1>10. WorldInv'
  BY <1>1, <1>2, <1>3, <1>5, <1>6, <1>7, <1>8, WorldStep DEF NoNewUnsubscribe
<1>12. AnswersFit'
  BY <1>1, <1>2, <1>3 DEF AnswerInv, AnswersFit, TokenMatches
<1> QED
  BY <1>3, <1>10, <1>12 DEF WorldKept, AnswerInv

LEMMA TimesOutTaken ==
  ASSUME FcodexInd, NEW c \in Connections, DeliverTimesOut(c)
  PROVE  /\ Taken(c) /\ px[c] = "open" /\ Head(wire[c]) \in Response /\ Head(wire[c]).key[1] = c
         /\ Head(wire[c]).kind = "response"
         /\ late' = late \/ late' = late \cup {Head(wire[c])}
         /\ \A f \in late : f.key[1] # c
         /\ px' = [px EXCEPT ![c] = "quarantined"]
         /\ UNCHANGED <<endpoints, sources, machine, requests, job, sub, gone, made, loose>>
<1>1. WorldInv /\ AnswerInv
  BY DEF FcodexInd
<1>2. /\ Taken(c) /\ px[c] = "open" /\ Head(wire[c]).kind = "response" /\ wire[c] # <<>>
      /\ late' = late \/ late' = late \cup {Head(wire[c])}
      /\ px' = [px EXCEPT ![c] = "quarantined"]
      /\ UNCHANGED <<endpoints, sources, machine, requests, job, sub, gone, made, loose>>
  BY DEF DeliverTimesOut, Taken
<1>3. Head(wire[c]) \in Response /\ Head(wire[c]).key[1] = c
  BY <1>1, <1>2, HeadIsNotStaged
<1>4. \A f \in late : f.key[1] # c
  BY <1>1, <1>2 DEF WorldInv
<1> QED
  BY <1>2, <1>3, <1>4

LEMMA DeliverTimesOutWorld ==
  ASSUME FcodexInd, NEW c \in Connections, DeliverTimesOut(c)
  PROVE  WorldKept
<1> DEFINE h == Head(wire[c])
<1>1. WorldInv /\ AnswerInv /\ RequestInv /\ live \subseteq Connections
  BY DEF FcodexInd, EndpointInv
<1>2. /\ Taken(c) /\ px[c] = "open" /\ h \in Response /\ h.key[1] = c /\ h.kind = "response"
      /\ late' = late \/ late' = late \cup {h}
      /\ \A f \in late : f.key[1] # c
      /\ px' = [px EXCEPT ![c] = "quarantined"]
      /\ UNCHANGED <<live, sub, made, gone, reqs, seq, staged>>
  BY TimesOutTaken DEF endpoints, requests, sources
<1>3. /\ WireType' /\ late' \subseteq Response /\ AnswersOnce'
      /\ \A f \in Response : Outstanding(f)' => Outstanding(f)
  BY <1>1, <1>2, TakenAnswers DEF WorldInv, AnswerInv
<1>4. \A d \in Connections : d # c => wire'[d] = wire[d]
  BY <1>1, <1>2, TakenPlaces DEF WorldInv
<1> HIDE DEF h
<1>5. /\ px' \in PxTypes /\ px'[c] = "quarantined" /\ \A d \in Connections : d # c => px'[d] = px[d]
      /\ made' \subseteq NewThreads /\ gone' \in Nat
  BY <1>1, <1>2 DEF WorldInv, PxTypes
<1>6. \A f \in late' : px'[f.key[1]] \in {"quarantined", "closed"}
  <2>1. \A f \in late : f.key[1] \in Connections
    BY <1>1, ResponseFields, KeyParts DEF WorldInv
  <2> QED
    BY <1>1, <1>2, <1>5, <2>1 DEF WorldInv
<1>7. \A d \in Connections : px'[d] = "idle" => px[d] = "idle" /\ wire'[d] = wire[d]
  BY <1>4, <1>5
<1>8. NoNewUnsubscribe
  BY <1>2, SameReqs, SameUnsubscribes
<1>9. \A d \in live' : d \in live
  BY <1>2
<1>10. WorldInv'
  BY <1>1, <1>2, <1>3, <1>5, <1>6, <1>7, <1>8, <1>9, WorldStep DEF NoNewUnsubscribe
<1>12. AnswersFit'
  BY <1>1, <1>2, <1>3 DEF AnswerInv, AnswersFit, TokenMatches
<1> QED
  BY <1>3, <1>10, <1>12 DEF WorldKept, AnswerInv

\* An outcome settles or stages the request it answers; no other answer speaks
\* of that request.
LEMMA OutcomeAnswers ==
  ASSUME RequestInv, AnswersFit, NEW f \in Response,
         \/ Ignored
         \/ /\ TokenMatches(f.key, f.tok)
            /\ \/ Settled(f.key)
               \/ reqs' = reqs /\ staged' = staged \cup {f.key},
         \A g \in Response : Outstanding(g)' => Outstanding(g) /\ ~AnswerTo(g, f.key, f.tok),
         seq' = seq
  PROVE  AnswersFit'
<1> SUFFICES ASSUME NEW g \in Response, Outstanding(g)'
             PROVE  g.tok <= seq /\ (TokenMatches(g.key, g.tok)' => g.key \notin staged')
  BY DEF AnswersFit
<1>1. /\ Outstanding(g) /\ ~AnswerTo(g, f.key, f.tok)
      /\ g.tok <= seq /\ (TokenMatches(g.key, g.tok) => g.key \notin staged)
  BY DEF AnswersFit
<1>2. CASE Ignored
  BY <1>1, <1>2 DEF Ignored, TokenMatches
<1>3. CASE Settled(f.key)
  <2>1. g.key \in Keys /\ f.key \in Keys /\ g.tok # 0
    BY ResponseFields
  <2>2. reqs' = [reqs EXCEPT ![f.key] = NoRequest] /\ reqs \in [Keys -> Request \cup {NoRequest}]
    BY <1>3 DEF Settled, Drop, RequestInv
  <2>3. g.key # f.key => reqs'[g.key] = reqs[g.key]
    BY <2>1, <2>2
  <2> QED
    BY <1>1, <1>3, <2>3 DEF Settled, TokenMatches
<1>4. CASE TokenMatches(f.key, f.tok) /\ reqs' = reqs /\ staged' = staged \cup {f.key}
  <2>1. g.kind = "response"
    BY ResponseFields
  <2>2. TokenMatches(g.key, g.tok) => g.key # f.key
    BY <1>1, <1>4, <2>1 DEF TokenMatches, AnswerTo
  <2> QED
    BY <1>1, <1>4, <2>2 DEF TokenMatches
<1> QED
  BY <1>2, <1>3, <1>4

LEMMA ClientRequests ==
  ASSUME RequestInv, SourcesFit, NEW f \in Response, ClientResponse(f)
  PROVE  /\ NoNewUnsubscribe
         /\ \/ Ignored
            \/ /\ TokenMatches(f.key, f.tok)
               /\ \/ Settled(f.key)
                  \/ reqs' = reqs /\ staged' = staged \cup {f.key}
<1>1. f.key \in Keys
  BY ResponseFields
<1>2. \/ Ignored
      \/ /\ TokenMatches(f.key, f.tok)
         /\ \/ Settled(f.key)
            \/ reqs' = reqs /\ staged' = staged \cup {f.key}
  BY ClientResponseShape DEF ResumeKept, ResumeRefused, TakenBack, CreateConsumed
<1>3. reqs' = reqs \/ reqs' = Drop(f.key)
  BY <1>2 DEF Ignored, Settled
<1> QED
  BY <1>1, <1>2, <1>3, DroppedRequests

LEMMA DeliverResponseWorld ==
  ASSUME FcodexInd, NEW c \in Connections, DeliverResponse(c)
  PROVE  WorldKept
<1> DEFINE h == Head(wire[c])
<1>1. WorldInv /\ AnswerInv /\ RequestInv /\ SourcesFit /\ live \subseteq Connections
  BY DEF FcodexInd, EndpointInv
<1>2. /\ Taken(c) /\ px[c] = "open" /\ ClientResponse(h) /\ h.kind = "response" /\ wire[c] # <<>>
      /\ px' = [px EXCEPT ![c] = "open"] \/ px' = [px EXCEPT ![c] = "quarantined"]
      /\ UNCHANGED <<live, sub, made, gone, seq, late>>
  BY DEF DeliverResponse, Taken
<1>3. h \in Response
  BY <1>1, <1>2, HeadIsNotStaged
<1>4. /\ WireType' /\ late' \subseteq Response /\ AnswersOnce'
      /\ \A f \in Response : Outstanding(f)' => Outstanding(f) /\ ~AnswerTo(f, h.key, h.tok)
  BY <1>1, <1>2, TakenAnswers DEF WorldInv, AnswerInv
<1>5. \A d \in Connections : d # c => wire'[d] = wire[d]
  BY <1>1, <1>2, TakenPlaces DEF WorldInv
<1> HIDE DEF h
<1>6. /\ px' \in PxTypes /\ px'[c] \in {"open", "quarantined"}
      /\ \A d \in Connections : d # c => px'[d] = px[d]
      /\ made' \subseteq NewThreads /\ gone' \in Nat
  BY <1>1, <1>2 DEF WorldInv, PxTypes
<1>7. \A f \in late' : px'[f.key[1]] \in {"quarantined", "closed"}
  <2>1. \A f \in late : f.key[1] \in Connections
    BY <1>1, ResponseFields, KeyParts DEF WorldInv
  <2> QED
    BY <1>1, <1>2, <1>6, <2>1 DEF WorldInv
<1>8. \A d \in Connections : px'[d] = "idle" => px[d] = "idle" /\ wire'[d] = wire[d]
  BY <1>5, <1>6
<1>9. NoNewUnsubscribe
  BY <1>1, <1>2, <1>3, ClientRequests
<1>10. WorldInv'
  BY <1>1, <1>2, <1>4, <1>6, <1>7, <1>8, <1>9, WorldStep DEF NoNewUnsubscribe
<1>11. AnswersFit'
  BY <1>1, <1>2, <1>3, <1>4, ClientRequests, OutcomeAnswers DEF AnswerInv
<1> QED
  BY <1>4, <1>10, <1>11 DEF WorldKept, AnswerInv

LEMMA LateResponseWorld ==
  ASSUME FcodexInd, NEW h \in late, LateResponse(h)
  PROVE  WorldKept
<1>1. WorldInv /\ AnswerInv /\ RequestInv /\ SourcesFit /\ live \subseteq Connections
  BY DEF FcodexInd, EndpointInv
<1>2. /\ late' = late \ {h} /\ ClientResponse(h)
      /\ UNCHANGED <<live, sub, made, gone, seq, wire, px>>
  BY DEF LateResponse
<1>3. h \in Response
  BY <1>1 DEF WorldInv
<1>4. /\ WireType' /\ late' \subseteq Response /\ AnswersOnce'
      /\ \A f \in Response : Outstanding(f)' => Outstanding(f) /\ ~AnswerTo(f, h.key, h.tok)
  BY <1>1, <1>2, LateAnswers DEF WorldInv, AnswerInv
<1>6. px' \in PxTypes /\ made' \subseteq NewThreads /\ gone' \in Nat
  BY <1>1, <1>2 DEF WorldInv, PxTypes
<1>7. \A f \in late' : px'[f.key[1]] \in {"quarantined", "closed"}
  BY <1>1, <1>2 DEF WorldInv
<1>9. NoNewUnsubscribe
  BY <1>1, <1>2, <1>3, ClientRequests
<1>10. WorldInv'
  BY <1>1, <1>2, <1>4, <1>6, <1>7, <1>9, WorldStep DEF NoNewUnsubscribe
<1>11. AnswersFit'
  BY <1>1, <1>2, <1>3, <1>4, ClientRequests, OutcomeAnswers DEF AnswerInv
<1> QED
  BY <1>4, <1>10, <1>11 DEF WorldKept, AnswerInv

\* A new request of a connection, forwarded and answered or not.
LEMMA TrackedWorld ==
  ASSUME FcodexInd, NEW k \in Keys, NEW t \in AllThreads, NEW m \in Methods,
         Track(k, m, t), seq < MaxRequests, attempts' \subseteq attempts \cup {seq'}, backend' = backend,
         reqs[k] = NoRequest, px[k[1]] = "open",
         Answer(k, m, t) \/ NotForwarded,
         m = "unsubscribe" => <<k[1], t>> \in sub,
         m = "resume" => t \in KnownThreads,
         m = "start" => t \in NewThreads,
         UNCHANGED <<live, staged, px, late, gone>>
  PROVE  WorldKept
<1>1. WorldInv /\ AnswerInv /\ RequestInv /\ live \subseteq Connections /\ SourcesFit
  BY DEF FcodexInd, EndpointInv
<1>2. /\ RequestInv' /\ seq' = seq + 1 /\ seq' \in Tokens
      /\ reqs'[k] # NoRequest /\ reqs'[k].tok = seq' /\ reqs'[k].method = m /\ reqs'[k].t = t
      /\ \A j \in Keys : j # k => reqs'[j] = reqs[j]
  BY <1>1, TrackedRequest
<1>3. k[1] \in Connections /\ seq \in Nat
  BY <1>1, KeyParts, SeqNat
<1>4. px' \in PxTypes /\ gone' \in Nat /\ late' \subseteq Response
  BY <1>1 DEF WorldInv, PxTypes
<1>5. \A f \in late' : px'[f.key[1]] \in {"quarantined", "closed"}
  BY <1>1 DEF WorldInv
<1>6. made \subseteq made' /\ made' \subseteq NewThreads
  BY <1>1 DEF Answer, NotForwarded, WorldInv
<1>7. m = "unsubscribe" => t \in KnownThreads
  BY <1>1, <1>3 DEF WorldInv, KnownThreads
<1>8. \A s \in sub' : s \in sub \/ (s \in Connections \X AllThreads
                                     /\ px'[s[1]] # "idle" /\ s[2] \in KnownThreads')
  <2> SUFFICES ASSUME NEW s \in sub', s \notin sub
               PROVE  s \in Connections \X AllThreads /\ px'[s[1]] # "idle" /\ s[2] \in KnownThreads'
    OBVIOUS
  <2>1. s = <<k[1], t>> /\ m # "unsubscribe" /\ (m = "start" => t \in made')
    BY DEF Answer, NotForwarded
  <2>2. t \in KnownThreads'
    BY <1>6, <2>1 DEF KnownThreads, Methods
  <2> QED
    BY <1>3, <2>1, <2>2
<1>9. \A j \in Keys : IsRequest(j, "unsubscribe")' =>
            \/ IsRequest(j, "unsubscribe") /\ reqs'[j].t = reqs[j].t
            \/ reqs'[j].t \in KnownThreads'
  <2> SUFFICES ASSUME NEW j \in Keys, IsRequest(j, "unsubscribe")'
               PROVE  \/ IsRequest(j, "unsubscribe") /\ reqs'[j].t = reqs[j].t
                      \/ reqs'[j].t \in KnownThreads'
    OBVIOUS
  <2>1. CASE j = k
    BY <1>2, <1>6, <1>7, <2>1 DEF IsRequest, KnownThreads
  <2>2. CASE j # k
    BY <1>2, <2>2 DEF IsRequest
  <2> QED
    BY <2>1, <2>2
<1>10. \A f \in Response : Outstanding(f) => f.tok # seq' /\ f.tok <= seq'
  <2>1. \A f \in Response : Outstanding(f) => f.tok <= seq /\ f.tok \in Nat
    BY <1>1, ResponseFields, BoundTypes DEF AnswerInv, AnswersFit, Tokens
  <2> QED
    BY <1>2, <1>3, <2>1
<1>11. k \notin staged /\ \A j \in staged : j \in Keys
  BY <1>1, NoPending DEF IsRequest, FcodexInd, SourceTypes
<1>12. /\ WireType' /\ AnswersOnce'
       /\ \A f \in Response : Outstanding(f)' => Outstanding(f) \/ (f.tok <= seq' /\ f.key = k)
       /\ \A d \in Connections : d # k[1] => wire'[d] = wire[d]
  <2>1. CASE NotForwarded
    <3>1. wire' = wire
      BY <2>1 DEF NotForwarded
    <3>2. WireType' /\ AnswersOnce' /\ \A f \in Response : Outstanding(f)' => Outstanding(f)
      BY <1>1, <3>1 DEF WorldInv, WireType, AnswerInv, AnswersOnce, Outstanding
    <3> QED
      BY <3>1, <3>2
  <2>2. CASE Answer(k, m, t)
    <3>1. PICK o \in Outcomes :
            wire' = [wire EXCEPT ![k[1]] =
                      Append(@, [kind |-> "response", key |-> k, tok |-> seq', out |-> o, t |-> t])]
      BY <2>2 DEF Answer
    <3> DEFINE a == [kind |-> "response", key |-> k, tok |-> seq', out |-> o, t |-> t]
    <3>2. a \in Response /\ a.key = k /\ a.tok = seq'
      BY <1>2 DEF Response
    <3>3. Posted(k[1], a)
      BY <3>1 DEF Posted
    <3> HIDE DEF a
    <3>4. /\ WireType' /\ AnswersOnce'
          /\ \A f \in Response : Outstanding(f)' => Outstanding(f) \/ f = a
      BY <1>1, <1>3, <1>10, <3>2, <3>3, PostedAnswers DEF WorldInv, AnswerInv
    <3>5. \A d \in Connections : d # k[1] => wire'[d] = wire[d]
      BY <1>1, <1>3, <3>3 DEF Posted, WorldInv, WireType
    <3>6. a.tok <= seq'
      BY <1>2, <1>3, <3>2
    <3> QED
      BY <3>2, <3>4, <3>5, <3>6
  <2> QED
    BY <2>1, <2>2
<1>13. \A d \in Connections : px'[d] = "idle" => px[d] = "idle" /\ wire'[d] = wire[d]
  BY <1>12
<1>14. WorldInv'
  BY <1>1, <1>4, <1>5, <1>6, <1>8, <1>9, <1>12, <1>13, WorldStep
<1>15. ASSUME NEW f \in Response, Outstanding(f)'
       PROVE  f.tok <= seq' /\ (TokenMatches(f.key, f.tok)' => f.key \notin staged')
  <2>1. CASE f.key = k
    BY <1>10, <1>11, <1>12, <1>15, <2>1
  <2>2. CASE f.key # k
    <3>1. Outstanding(f) /\ f.key \in Keys
      BY <1>12, <1>15, <2>2, ResponseFields
    <3> QED
      BY <1>1, <1>2, <1>10, <2>2, <3>1 DEF AnswerInv, AnswersFit, TokenMatches
  <2> QED
    BY <2>1, <2>2
<1>16. AnswersFit'
  BY <1>15 DEF AnswersFit
<1> QED
  BY <1>12, <1>14, <1>16 DEF WorldKept, AnswerInv

LEMMA AdmitResumeWorld ==
  ASSUME FcodexInd, NEW k \in Keys, NEW t \in AllThreads, AdmitResume(k, t)
  PROVE  WorldKept
<1>1. /\ UNCHANGED <<live, staged, px, late, gone, attempts, backend>>
      /\ reqs[k] = NoRequest /\ seq < MaxRequests /\ px[k[1]] = "open" /\ t \in KnownThreads
  BY DEF AdmitResume, endpoints, KnownThreads
<1>2. CASE Track(k, "resume", t) /\ (Answer(k, "resume", t) \/ NotForwarded)
  BY <1>1, <1>2, TrackedWorld DEF Methods
<1>3. CASE UNCHANGED <<reqs, seq>> /\ NotForwarded
  BY <1>1, <1>3, WorldUntouched DEF NotForwarded
<1> QED
  BY <1>2, <1>3 DEF AdmitResume

LEMMA AdmitUnsubscribeWorld ==
  ASSUME FcodexInd, NEW k \in Keys, NEW t \in AllThreads, AdmitUnsubscribe(k, t)
  PROVE  WorldKept
<1>1. /\ UNCHANGED <<live, staged, px, late, gone, attempts, backend>>
      /\ reqs[k] = NoRequest /\ seq < MaxRequests /\ px[k[1]] = "open" /\ <<k[1], t>> \in sub
      /\ Track(k, "unsubscribe", t) /\ (Answer(k, "unsubscribe", t) \/ NotForwarded)
  BY DEF AdmitUnsubscribe, endpoints, sources
<1> QED
  BY <1>1, TrackedWorld DEF Methods

LEMMA AdmitStartWorld ==
  ASSUME FcodexInd, NEW k \in Keys, NEW t \in AllThreads, AdmitStart(k, t)
  PROVE  WorldKept
<1>1. /\ UNCHANGED <<live, staged, px, late, gone, backend>> /\ attempts' = attempts \cup {seq'}
      /\ reqs[k] = NoRequest /\ seq < MaxRequests /\ px[k[1]] = "open" /\ t \in NewThreads
      /\ Track(k, "start", t) /\ (Answer(k, "start", t) \/ NotForwarded)
  BY DEF AdmitStart, endpoints, sources
<1> QED
  BY <1>1, TrackedWorld DEF Methods

-----------------------------------------------------------------------------
(* Subscriptions and their sources.                                         *)

Cover(s) ==
  /\ s \notin loose => Sourced(s)
  /\ \A f \in late : Unsubscribes(f, s[1], s[2]) => WaitsFrom(s[1], s[2], 0)
  /\ \A i \in DOMAIN wire[s[1]] :
       Unsubscribes(wire[s[1]][i], s[1], s[2]) => WaitsFrom(s[1], s[2], i)

LEMMA CoverParts ==
  CoverInv <=> \A s \in sub : s[1] \in live => Cover(s)
  BY DEF CoverInv, Cover

CoverKept == \A s \in sub' : s[1] \in live' => Cover(s)'

LEMMA CoverKeeps ==
  CoverKept <=> CoverInv'
<1>1. CoverInv <=> \A s \in sub : s[1] \in live => Cover(s)
  BY CoverParts
<1>2. CoverInv' <=> (\A s \in sub : s[1] \in live => Cover(s))'
  BY <1>1, CoverParts, PTL
<1> QED
  BY <1>2 DEF CoverKept

\* The pending resumes of t on connection c.
WaitsFor(q, s) == q.key[1] = s[1] /\ q.t = s[2]

\* The frames of a wire come from d places further on, or say nothing of the
\* subscription s and of the resumes that are pending.
FramesFrom(s, d) ==
  \A i \in DOMAIN wire'[s[1]] :
    \/ i + d \in DOMAIN wire[s[1]] /\ wire'[s[1]][i] = wire[s[1]][i + d]
    \/ /\ ~Unsubscribes(wire[s[1]][i], s[1], s[2])'
       /\ \A q \in pending : ~AnswerTo(wire'[s[1]][i], q.key, q.tok)

LEMMA CoverStep ==
  ASSUME WireType, WireType', late \subseteq Response,
         NEW s \in Connections \X AllThreads, Cover(s), NEW d \in {0, 1}, FramesFrom(s, d),
         d = 1 => \A f \in late : f.key[1] # s[1],
         \A f \in late' : f.key[1] = s[1] => f \in late,
         \A f \in Response : Outstanding(f)' =>
           Outstanding(f) \/ \A q \in pending : ~AnswerTo(f, q.key, q.tok),
         \A f \in Response : Outstanding(f) /\ Unsubscribes(f, s[1], s[2])' => Unsubscribes(f, s[1], s[2]),
         \A q \in pending : WaitsFor(q, s) => q \in pending' \/ AnsweredBefore(q.key, q.tok, 1 + d),
         s \notin loose' => Sourced(s)'
  PROVE  Cover(s)'
<1> DEFINE c == s[1]
           t == s[2]
<1>0. c \in Connections
  OBVIOUS
<1>1. \A q \in pending : Refused(q.key, q.tok)' => Refused(q.key, q.tok)
  BY DEF Refused
<1>2. \A i \in DOMAIN wire[c] : i \in Nat /\ i >= 1 /\ wire[c][i] \in Frame
  BY <1>0, WirePlaces
<1>3. \A i \in DOMAIN wire'[c] : i \in Nat /\ i >= 1
  <2>1. wire'[c] \in Seq(Frame)
    BY <1>0 DEF WireType
  <2>2. Len(wire'[c]) \in Nat /\ DOMAIN wire'[c] = 1..Len(wire'[c])
    BY <2>1, LenProperties
  <2> QED
    BY <2>2
<1>4. ASSUME NEW q \in pending, WaitsFor(q, s), NEW i \in Nat, AnsweredBefore(q.key, q.tok, i)'
      PROVE  AnsweredBefore(q.key, q.tok, i + d)
  <2>1. q.key[1] = c
    BY <1>4 DEF WaitsFor
  <2>2. ASSUME NEW f \in late', AnswerTo(f, q.key, q.tok)
        PROVE  AnsweredBefore(q.key, q.tok, i + d)
    <3>1. f \in late
      BY <2>1, <2>2 DEF AnswerTo
    <3> QED
      BY <2>2, <3>1 DEF AnsweredBefore
  <2>3. ASSUME NEW j \in DOMAIN wire'[c], j < i, AnswerTo(wire'[c][j], q.key, q.tok)
        PROVE  AnsweredBefore(q.key, q.tok, i + d)
    <3>1. j + d \in DOMAIN wire[c] /\ wire'[c][j] = wire[c][j + d]
      BY <2>3 DEF FramesFrom
    <3>2. j + d < i + d
      BY <1>3, <2>3
    <3> QED
      BY <2>1, <2>3, <3>1, <3>2 DEF AnsweredBefore
  <2> QED
    BY <1>4, <2>1, <2>2, <2>3 DEF AnsweredBefore, AnswerTo
<1>5. ASSUME NEW i \in Nat, i >= 1, WaitsFrom(c, t, i + d)
      PROVE  WaitsFrom(c, t, i)'
  <2>1. PICK q \in pending : WaitsFor(q, s) /\ ~Refused(q.key, q.tok) /\ ~AnsweredBefore(q.key, q.tok, i + d)
    BY <1>5 DEF WaitsFrom, WaitsFor
  <2>2. ~AnsweredBefore(q.key, q.tok, 1 + d)
    <3>1. q.key[1] = c
      BY <2>1 DEF WaitsFor
    <3>2. \A j \in DOMAIN wire[c] : j < 1 + d => j < i + d
      BY <1>2, <1>5
    <3> QED
      BY <2>1, <3>1, <3>2 DEF AnsweredBefore
  <2>3. q \in pending' /\ ~Refused(q.key, q.tok)' /\ ~AnsweredBefore(q.key, q.tok, i)'
    BY <1>1, <1>4, <2>1, <2>2
  <2> QED
    BY <2>1, <2>3 DEF WaitsFrom, WaitsFor
<1>6. ASSUME d = 0, WaitsFrom(c, t, 0)
      PROVE  WaitsFrom(c, t, 0)'
  <2>1. PICK q \in pending : WaitsFor(q, s) /\ ~Refused(q.key, q.tok) /\ ~AnsweredBefore(q.key, q.tok, 0)
    BY <1>6 DEF WaitsFrom, WaitsFor
  <2>2. ~AnsweredBefore(q.key, q.tok, 1)
    <3>1. q.key[1] = c
      BY <2>1 DEF WaitsFor
    <3>2. \A j \in DOMAIN wire[c] : ~(j < 1)
      BY <1>2
    <3> QED
      BY <2>1, <3>1, <3>2 DEF AnsweredBefore
  <2>3. ~AnsweredBefore(q.key, q.tok, 0)'
    <3>1. AnsweredBefore(q.key, q.tok, 0)' => AnsweredBefore(q.key, q.tok, 0 + d)
      BY <1>4, <2>1
    <3> QED
      BY <1>6, <2>1, <3>1
  <2>4. q \in pending' /\ ~Refused(q.key, q.tok)'
    BY <1>1, <1>6, <2>1, <2>2
  <2> QED
    BY <2>1, <2>3, <2>4 DEF WaitsFrom, WaitsFor
<1>7. ASSUME NEW f \in late', Unsubscribes(f, c, t)'
      PROVE  WaitsFrom(c, t, 0)'
  <2>1. f.key[1] = c
    BY <1>7 DEF Unsubscribes
  <2>2. f \in late
    BY <2>1
  <2>3. Outstanding(f)
    BY <2>2 DEF Outstanding
  <2>4. WaitsFrom(c, t, 0)
    BY <1>7, <2>2, <2>3 DEF Cover
  <2>5. d = 0
    BY <2>1, <2>2
  <2> QED
    BY <1>6, <2>4, <2>5
<1>8. ASSUME NEW i \in DOMAIN wire'[c], Unsubscribes(wire[c][i], c, t)'
      PROVE  WaitsFrom(c, t, i)'
  <2>1. i + d \in DOMAIN wire[c] /\ wire'[c][i] = wire[c][i + d]
    BY <1>8 DEF FramesFrom
  <2>2. wire[c][i + d].kind = "response" /\ wire[c][i + d] \in Response
    BY <1>2, <1>8, <2>1, FrameKinds DEF Unsubscribes
  <2>3. PICK f \in Response : f = wire[c][i + d]
    BY <2>2
  <2>4. Outstanding(f)
    BY <1>0, <2>1, <2>3 DEF Outstanding
  <2>5. Unsubscribes(f, c, t)'
    BY <1>8, <2>1, <2>3 DEF Unsubscribes, TokenMatches, IsRequest
  <2>6. WaitsFrom(c, t, i + d)
    BY <2>1, <2>3, <2>4, <2>5 DEF Cover
  <2> QED
    BY <1>3, <1>5, <2>6
<1> QED
  BY <1>7, <1>8 DEF Cover

KeptUnsubscribes == \A k \in Keys : IsRequest(k, "unsubscribe")' => reqs'[k] = reqs[k]

LEMMA SameUnsubscribers ==
  ASSUME KeptUnsubscribes, NEW f \in Response, NEW c, NEW t, Unsubscribes(f, c, t)'
  PROVE  Unsubscribes(f, c, t)
<1>1. f.key \in Keys
  BY ResponseFields
<1>2. reqs'[f.key] = reqs[f.key]
  BY <1>1 DEF KeptUnsubscribes, Unsubscribes
<1> QED
  BY <1>2 DEF Unsubscribes, TokenMatches, IsRequest

SourceStays(s) ==
  /\ s \in connSrc => s \in connSrc'
  /\ <<Owner[s[1]], s[2]>> \in unkSrc => <<Owner[s[1]], s[2]>> \in unkSrc'
  /\ \A q \in pending : WaitsFor(q, s) => q \in pending'

LEMMA StillSourced ==
  ASSUME NEW s, Sourced(s), SourceStays(s),
         \A f \in Response : Outstanding(f)' =>
           Outstanding(f) \/ \A q \in pending : ~AnswerTo(f, q.key, q.tok)
  PROVE  Sourced(s)'
<1>1. \A q \in pending : Refused(q.key, q.tok)' => Refused(q.key, q.tok)
  BY DEF Refused
<1> QED
  BY <1>1 DEF Sourced, SourceStays, WaitsFor

\* Steps that put no answer anywhere and leave the sources of the connections
\* that stay live.
LEMMA CoverRests ==
  ASSUME FcodexInd, WireType', late' = late, KeptUnsubscribes,
         \A f \in Response : Outstanding(f)' => Outstanding(f),
         \A s \in sub' : s[1] \in live' =>
           /\ s \in sub /\ s[1] \in live
           /\ s \in loose => s \in loose'
           /\ SourceStays(s)
           /\ \A i \in DOMAIN wire'[s[1]] :
                \/ i \in DOMAIN wire[s[1]] /\ wire'[s[1]][i] = wire[s[1]][i]
                \/ wire'[s[1]][i].kind # "response"
  PROVE  CoverInv'
<1>1. WorldInv /\ CoverInv /\ WireType /\ late \subseteq Response /\ sub \subseteq Connections \X AllThreads
  BY DEF FcodexInd, WorldInv
<1>2. SUFFICES ASSUME NEW s \in sub', s[1] \in live'
               PROVE  Cover(s)'
  BY CoverKeeps DEF CoverKept
<1>3. /\ s \in sub /\ s[1] \in live /\ s \in Connections \X AllThreads
      /\ s \in loose => s \in loose'
      /\ SourceStays(s)
  BY <1>1, <1>2
<1>4. Cover(s)
  BY <1>1, <1>3, CoverParts
<1>5. FramesFrom(s, 0)
  <2>1. \A i \in DOMAIN wire[s[1]] : i + 0 = i
    BY <1>1, <1>3, WirePlaces
  <2>2. \A i \in DOMAIN wire'[s[1]] :
          \/ i \in DOMAIN wire[s[1]] /\ wire'[s[1]][i] = wire[s[1]][i]
          \/ wire'[s[1]][i].kind # "response"
    BY <1>2
  <2> QED
    BY <2>1, <2>2 DEF FramesFrom, Unsubscribes, AnswerTo
<1>6. s \notin loose' => Sourced(s)'
  BY <1>3, <1>4, StillSourced DEF Cover
<1>7. \A f \in Response : Outstanding(f) /\ Unsubscribes(f, s[1], s[2])' => Unsubscribes(f, s[1], s[2])
  BY SameUnsubscribers
<1>8. \A q \in pending : WaitsFor(q, s) => q \in pending'
  BY <1>3 DEF SourceStays
<1> QED
  BY <1>1, <1>3, <1>4, <1>5, <1>6, <1>7, <1>8, CoverStep

\* The same when the wires do not move.
LEMMA CoverUntouched ==
  ASSUME FcodexInd, UNCHANGED <<wire, late>>, KeptUnsubscribes,
         \A s \in sub' : s[1] \in live' =>
           /\ s \in sub /\ s[1] \in live
           /\ s \in loose => s \in loose'
           /\ SourceStays(s)
  PROVE  CoverInv'
<1>1. WireType'
  BY DEF FcodexInd, WorldInv, WireType
<1>2. \A f \in Response : Outstanding(f)' => Outstanding(f)
  BY DEF Outstanding
<1> QED
  BY <1>1, <1>2, CoverRests

LEMMA AllUnsubscribes ==
  ASSUME reqs' = reqs
  PROVE  KeptUnsubscribes
  BY DEF KeptUnsubscribes

LEMMA ConnectCover ==
  ASSUME FcodexInd, NEW c \in Connections, Connect(c)
  PROVE  CoverInv'
<1>1. /\ live' = live \cup {c} /\ px[c] = "idle"
      /\ UNCHANGED <<wire, late, sub, loose, connSrc, unkSrc, pending, reqs>>
  BY DEF Connect, requests, sources
<1>2. \A s \in sub : s[1] # c
  BY <1>1 DEF FcodexInd, WorldInv
<1> QED
  BY <1>1, <1>2, AllUnsubscribes, CoverUntouched DEF SourceStays

LEMMA RestingCover ==
  ASSUME FcodexInd, UNCHANGED <<live, wire, late, sub, loose, connSrc, unkSrc, pending, reqs>>
  PROVE  CoverInv'
  BY AllUnsubscribes, CoverUntouched DEF SourceStays

LEMMA DropEndpointCover ==
  ASSUME FcodexInd, NEW c \in live, NEW ts, DropEndpoint(c, ts), KeptUnsubscribes,
         UNCHANGED <<wire, late, sub, loose, unkSrc, pending>>
  PROVE  CoverInv'
<1>1. live' = live \ {c} /\ connSrc' = {s \in connSrc : s[1] # c}
  BY DEF DropEndpoint
<1>2. \A s \in sub' : s[1] \in live' => s \in sub /\ s[1] \in live /\ SourceStays(s)
  BY <1>1 DEF SourceStays
<1> QED
  BY <1>2, CoverUntouched

LEMMA ExpireConnectionCover ==
  ASSUME FcodexInd, NEW tm \in timers, ExpireConnection(tm)
  PROVE  CoverInv'
<1>1. UNCHANGED <<unkSrc, pending, requests, world>>
  BY DEF ExpireConnection
<1>2. CASE tm.who \in live /\ DropEndpoint(tm.who, timers \ {tm})
  BY <1>1, <1>2, AllUnsubscribes, DropEndpointCover DEF requests, world
<1>3. CASE UNCHANGED <<live, connSrc>>
  BY <1>1, <1>3, RestingCover DEF requests, world
<1> QED
  BY <1>2, <1>3 DEF ExpireConnection

LEMMA LostRequestCover ==
  ASSUME FcodexInd, NEW k \in Keys, LostRequest(k)
  PROVE  CoverInv'
<1>1. RequestInv /\ JobInv /\ SourcesFit
  BY DEF FcodexInd
<1>2. UNCHANGED <<live, wire, late, sub, loose>> /\ k \in job.todo
  BY DEF LostRequest, world
<1>3. \/ Ignored \/ ResumeKept(k)
      \/ ~IsRequest(k, "resume") /\ Settled(k) /\ UNCHANGED <<connSrc, unkSrc, pending>>
  BY <1>1, LostRequestShape
<1>4. reqs' = reqs \/ reqs' = Drop(k)
  BY <1>3 DEF Ignored, ResumeKept, Settled
<1>5. KeptUnsubscribes
  BY <1>1, <1>4, DroppedRequests DEF KeptUnsubscribes, IsRequest
<1>6. connSrc \subseteq connSrc' /\ unkSrc \subseteq unkSrc' /\ \A q \in pending : q.key # k => q \in pending'
  BY <1>3 DEF Ignored, ResumeKept, Settled, PendingOf
<1>7. k[1] \notin live
  BY <1>1, <1>2 DEF JobInv
<1>8. \A s \in sub' : s[1] \in live' => SourceStays(s)
  BY <1>2, <1>6, <1>7 DEF SourceStays, WaitsFor
<1> QED
  BY <1>2, <1>5, <1>8, CoverUntouched

LEMMA BackendDisconnectedCover ==
  ASSUME FcodexInd, BackendDisconnected
  PROVE  CoverInv'
<1>1. UNCHANGED <<endpoints, sources, world>>
      /\ reqs' = [k \in Keys |->
                  IF reqs[k] # NoRequest /\ reqs[k].method = "start"
                  THEN [reqs[k] EXCEPT !.revoked = TRUE] ELSE reqs[k]]
  BY DEF BackendDisconnected
<1>2. ASSUME NEW k \in Keys, IsRequest(k, "unsubscribe")'
      PROVE  reqs'[k] = reqs[k]
  <2>1. CASE reqs[k] # NoRequest /\ reqs[k].method = "start"
    <3>1. reqs'[k] = [reqs[k] EXCEPT !.revoked = TRUE]
      BY <1>1, <2>1
    <3>2. reqs[k] \in Request
      BY <2>1, RequestFields DEF FcodexInd
    <3>3. reqs'[k].method = "start"
      BY <2>1, <3>1, <3>2 DEF Request
    <3> QED
      BY <1>2, <3>3 DEF IsRequest
  <2>2. CASE ~(reqs[k] # NoRequest /\ reqs[k].method = "start")
    BY <1>1, <2>2
  <2> QED
    BY <2>1, <2>2
<1>3. \A s : SourceStays(s)
  BY <1>1 DEF sources, SourceStays
<1> QED
  BY <1>1, <1>2, <1>3, CoverUntouched DEF KeptUnsubscribes, endpoints, world

LEMMA BackendResetCover ==
  ASSUME BackendEpochCloses
  PROVE  CoverInv'
<1>1. sub' = {}
  BY DEF BackendEpochCloses
<1> QED
  BY <1>1, CoverKeeps DEF CoverKept

LEMMA CloseProxyCover ==
  ASSUME FcodexInd, NEW c \in Connections, CloseProxy(c)
  PROVE  CoverInv'
<1>1. WorldInv /\ AnswerInv
  BY DEF FcodexInd
<1>2. /\ wire' = [wire EXCEPT ![c] = <<>>] /\ sub' = {s \in sub : s[1] # c}
      /\ loose' = loose \cap sub' /\ UNCHANGED <<unkSrc, pending, requests, late>>
  BY DEF CloseProxy
<1>3. wire' = [d \in Connections |-> IF d \in {c} THEN <<>> ELSE wire[d]]
  BY <1>1, <1>2 DEF WorldInv, WireType
<1>4. WireType' /\ \A d \in Connections : \A i \in DOMAIN wire'[d] :
              i \in DOMAIN wire[d] /\ wire'[d][i] = wire[d][i]
  BY <1>1, <1>3, CutWires DEF WorldInv
<1>5. \A f \in Response : Outstanding(f)' => Outstanding(f)
  BY <1>1, <1>2, <1>4, NoNewAnswers DEF WorldInv, AnswerInv
<1>6. live' \subseteq live /\ \A s \in connSrc : s[1] # c => s \in connSrc'
  BY DEF CloseProxy, ParticipantDisconnects, DropEndpoint, endpoints
<1>7. \A s \in sub' : s[1] \in live' =>
        s \in sub /\ s[1] \in live /\ (s \in loose => s \in loose') /\ SourceStays(s) /\ s[1] \in Connections
  BY <1>1, <1>2, <1>6 DEF SourceStays, WorldInv
<1> QED
  BY <1>2, <1>4, <1>5, <1>7, AllUnsubscribes, CoverRests DEF requests

LEMMA ThreadGoneCover ==
  ASSUME FcodexInd, NEW t \in AllThreads, ThreadGone(t)
  PROVE  CoverInv'
<1>1. WorldInv /\ AnswerInv
  BY DEF FcodexInd
<1>2. /\ ToldGone(t) /\ sub' = {s \in sub : s[2] # t} /\ loose' = {s \in loose : s[2] # t}
      /\ UNCHANGED <<endpoints, sources, requests, late>>
  BY DEF ThreadGone, ToldGone
<1>3. WireType' /\ \A d \in Connections : \A i \in DOMAIN wire'[d] :
                   \/ i \in DOMAIN wire[d] /\ wire'[d][i] = wire[d][i]
                   \/ wire'[d][i].kind # "response"
  BY <1>1, <1>2, ToldGonePlaces DEF WorldInv
<1>4. \A f \in Response : Outstanding(f)' => Outstanding(f)
  BY <1>1, <1>2, <1>3, NoNewAnswers DEF WorldInv, AnswerInv
<1>5. \A s \in sub' : s[1] \in live' =>
        s \in sub /\ s[1] \in live /\ (s \in loose => s \in loose') /\ SourceStays(s) /\ s[1] \in Connections
  BY <1>1, <1>2 DEF SourceStays, WorldInv, sources, endpoints
<1> QED
  BY <1>2, <1>3, <1>4, <1>5, AllUnsubscribes, CoverRests DEF requests

\* Where the frames of a wire come from when the head of one is taken.
LEMMA TakenFrames ==
  ASSUME WireType, NEW c \in Connections, Taken(c), NEW s \in Connections \X AllThreads
  PROVE  FramesFrom(s, IF s[1] = c THEN 1 ELSE 0)
<1>1. CASE s[1] = c
  BY <1>1, TakenPlaces DEF FramesFrom
<1>2. CASE s[1] # c
  <2>1. wire'[s[1]] = wire[s[1]]
    BY <1>2, TakenPlaces
  <2>2. \A i \in DOMAIN wire[s[1]] : i + 0 = i
    BY WirePlaces
  <2> QED
    BY <1>2, <2>1, <2>2 DEF FramesFrom
<1> QED
  BY <1>1, <1>2

LEMMA DeliverGoneCover ==
  ASSUME FcodexInd, NEW c \in Connections, DeliverGone(c)
  PROVE  CoverInv'
<1> DEFINE t == Head(wire[c]).t
           n == SourcesAfterGone(t)
<1>1. WorldInv /\ AnswerInv /\ CoverInv /\ WireType /\ late \subseteq Response /\ sub \subseteq Connections \X AllThreads
  BY DEF FcodexInd, WorldInv
<1>2. /\ Taken(c) /\ px[c] = "open" /\ UNCHANGED <<late, live, sub, reqs>>
  BY DEF DeliverGone, Taken, requests
<1>3. pending' = pending /\ \A s \in sub : (s \in loose => s \in loose')
      /\ (s \in connSrc /\ s \notin connSrc' => s \in loose')
      /\ (<<Owner[s[1]], s[2]>> \in unkSrc /\ <<Owner[s[1]], s[2]>> \notin unkSrc' => s \in loose')
  <2>1. CASE UNCHANGED <<connSrc, unkSrc, pending, loose>>
    BY <2>1
  <2>2. CASE /\ connSrc' = n.cs /\ unkSrc' = n.us /\ pending' = n.pe
             /\ loose' = loose \cup {s \in sub : s[2] = t
                                         /\ (s \in connSrc \/ <<Owner[s[1]], t>> \in unkSrc)}
    BY <2>2 DEF SourcesAfterGone
  <2> QED
    BY <2>1, <2>2 DEF DeliverGone
<1>4. WireType' /\ \A f \in Response : Outstanding(f)' => Outstanding(f)
  BY <1>1, <1>2, TakenAnswers DEF AnswerInv
<1>5. \A f \in late : f.key[1] # c
  BY <1>1, <1>2 DEF WorldInv
<1>6. SUFFICES ASSUME NEW s \in sub', s[1] \in live'
               PROVE  Cover(s)'
  BY CoverKeeps DEF CoverKept
<1>7. s \in sub /\ s[1] \in live /\ s \in Connections \X AllThreads
  BY <1>1, <1>2, <1>6
<1>8. Cover(s)
  BY <1>1, <1>7, CoverParts
<1>9. s \notin loose' => Sourced(s)'
  <2> SUFFICES ASSUME s \notin loose'
               PROVE  Sourced(s)'
    OBVIOUS
  <2>1. Sourced(s) /\ SourceStays(s)
    BY <1>3, <1>7, <1>8 DEF SourceStays, Cover
  <2> QED
    BY <1>4, <2>1, StillSourced
<1>10. \A f \in Response : Outstanding(f) /\ Unsubscribes(f, s[1], s[2])' => Unsubscribes(f, s[1], s[2])
  BY <1>2, AllUnsubscribes, SameUnsubscribers
<1> DEFINE d == IF s[1] = c THEN 1 ELSE 0
<1>11. FramesFrom(s, d) /\ d \in {0, 1} /\ (d = 1 => s[1] = c)
  BY <1>1, <1>2, <1>7, TakenFrames
<1> HIDE DEF d
<1> QED
  BY <1>1, <1>2, <1>3, <1>4, <1>5, <1>7, <1>8, <1>9, <1>10, <1>11, CoverStep

LEMMA ClientUnsubscribes ==
  ASSUME RequestInv, SourcesFit, NEW h \in Response, ClientResponse(h)
  PROVE  KeptUnsubscribes
<1>1. reqs' = reqs \/ reqs' = Drop(h.key)
  BY ClientRequests DEF Ignored, Settled
<1> QED
  BY <1>1, ResponseFields, DroppedRequests DEF KeptUnsubscribes, IsRequest

\* What an outcome does to the sources of one subscription.
LEMMA OutcomeSources ==
  ASSUME RequestInv, SourcesFit, NEW h \in Response, ClientResponse(h), Outstanding(h),
         \A f \in Response : Outstanding(f)' => Outstanding(f),
         NEW s \in Connections \X AllThreads, Cover(s),
         Unsubscribes(h, s[1], s[2]) => \E i : WaitsFrom(s[1], s[2], i)
  PROVE  /\ s \notin loose' => Sourced(s)'
         /\ \A q \in pending : WaitsFor(q, s) => q \in pending' \/ AnswerTo(h, q.key, q.tok)
<1> DEFINE k == h.key
<1>1. k \in Keys /\ h.kind = "response"
  BY ResponseFields
<1>2. \/ Ignored
      \/ /\ TokenMatches(k, h.tok)
         /\ \/ ResumeKept(k) \/ (ResumeRefused(k) /\ h.out = "error")
            \/ TakenBack(k, h.out) \/ CreateConsumed(k, h.t)
  BY ClientResponseShape
<1>3. loose' = loose \ connSrc'
  BY DEF ClientResponse
<1>4. \A q \in pending : IsRequest(q.key, "resume") /\ reqs[q.key].tok = q.tok /\ reqs[q.key].t = q.t
  BY DEF SourcesFit
<1>5. \A q \in pending : q \in pending' \/ AnswerTo(h, q.key, q.tok)
  <2>1. \A q \in pending : q \in pending' \/ (q.key = k /\ TokenMatches(k, h.tok))
    BY <1>2 DEF Ignored, ResumeKept, ResumeRefused, TakenBack, CreateConsumed, Settled, PendingOf
  <2> QED
    BY <1>1, <1>4, <2>1 DEF TokenMatches, AnswerTo
<1>6. \A q \in pending : Refused(q.key, q.tok)' => Refused(q.key, q.tok)
  BY DEF Refused
<1> HIDE DEF k
<1>7. ASSUME s \notin loose'
      PROVE  Sourced(s)'
  <2>1. CASE s \in connSrc'
    BY <2>1 DEF Sourced
  <2>2. CASE s \notin connSrc'
    <3>1. s \notin loose
      BY <1>3, <1>7, <2>2
    <3>2. Sourced(s)
      BY <3>1 DEF Cover
    <3>3. CASE Ignored
      BY <1>6, <3>2, <3>3 DEF Ignored, Sourced
    <3>4. CASE ResumeKept(k)
      <4>1. connSrc \subseteq connSrc' /\ unkSrc \subseteq unkSrc' /\ pending' = pending \ PendingOf(k)
            /\ (<<k[1], reqs[k].t>> \in connSrc' \/ <<Owner[k[1]], reqs[k].t>> \in unkSrc')
        BY <3>4 DEF ResumeKept, Settled
      <4>2. CASE \E q \in pending : WaitsFor(q, s) /\ q.key = k
        <5>1. s[1] = k[1] /\ s[2] = reqs[k].t
          BY <1>4, <4>2 DEF WaitsFor
        <5>2. s = <<k[1], reqs[k].t>>
          BY <5>1
        <5> QED
          BY <4>1, <5>1, <5>2 DEF Sourced
      <4>3. CASE \A q \in pending : WaitsFor(q, s) => q.key # k
        <5>1. SourceStays(s)
          BY <4>1, <4>3 DEF SourceStays, PendingOf
        <5> QED
          BY <3>2, <5>1, StillSourced
      <4> QED
        BY <4>2, <4>3
    <3>5. CASE TokenMatches(k, h.tok) /\ ResumeRefused(k) /\ h.out = "error"
      <4>1. connSrc' = connSrc /\ unkSrc' = unkSrc /\ pending' = pending \ PendingOf(k)
        BY <3>5 DEF ResumeRefused, Settled
      <4>2. \A q \in pending : q.key = k => Refused(q.key, q.tok)
        BY <1>1, <1>4, <3>5 DEF Refused, AnswerTo, TokenMatches, k
      <4>3. \A q \in pending : ~Refused(q.key, q.tok) => q \in pending'
        BY <4>1, <4>2 DEF PendingOf
      <4> QED
        BY <1>6, <3>2, <4>1, <4>3 DEF Sourced
    <3>6. CASE TokenMatches(k, h.tok) /\ TakenBack(k, h.out)
      <4>1. unkSrc' = unkSrc /\ pending' = pending /\ IsRequest(k, "unsubscribe")
            /\ connSrc' = IF h.out = "success" THEN connSrc \ {<<k[1], reqs[k].t>>} ELSE connSrc
        BY <3>6 DEF TakenBack
      <4>2. CASE s \in connSrc
        <5>1. h.out = "success" /\ s = <<k[1], reqs[k].t>>
          BY <2>2, <4>1, <4>2
        <5>2. Unsubscribes(h, s[1], s[2])
          BY <1>1, <3>6, <4>1, <5>1 DEF Unsubscribes, k
        <5>3. PICK i : WaitsFrom(s[1], s[2], i)
          BY <5>2
        <5>4. PICK q \in pending : q.key[1] = s[1] /\ q.t = s[2] /\ ~Refused(q.key, q.tok)
          BY <5>3 DEF WaitsFrom
        <5> QED
          BY <1>6, <4>1, <5>4 DEF Sourced
      <4>3. CASE s \notin connSrc
        BY <1>6, <3>2, <4>1, <4>3 DEF Sourced
      <4> QED
        BY <4>2, <4>3
    <3>7. CASE CreateConsumed(k, h.t)
      BY <1>6, <3>2, <3>7 DEF CreateConsumed, Sourced
    <3> QED
      BY <1>2, <3>3, <3>4, <3>5, <3>6, <3>7
  <2> QED
    BY <2>1, <2>2
<1> QED
  BY <1>5, <1>7

LEMMA DeliverResponseCover ==
  ASSUME FcodexInd, NEW c \in Connections, DeliverResponse(c)
  PROVE  CoverInv'
<1> DEFINE h == Head(wire[c])
<1>1. WorldInv /\ AnswerInv /\ CoverInv /\ WireType /\ late \subseteq Response /\ sub \subseteq Connections \X AllThreads
      /\ RequestInv /\ SourcesFit
  BY DEF FcodexInd, WorldInv
<1>2. /\ Taken(c) /\ px[c] = "open" /\ ClientResponse(h) /\ h.kind = "response" /\ wire[c] # <<>>
      /\ UNCHANGED <<live, sub, late>>
  BY DEF DeliverResponse, Taken
<1>3. h \in Response /\ h.key[1] = c /\ 1 \in DOMAIN wire[c] /\ h = wire[c][1]
  BY <1>1, <1>2, HeadIsNotStaged, TakenPlaces
<1>4. WireType' /\ \A f \in Response : Outstanding(f)' => Outstanding(f)
  BY <1>1, <1>2, TakenAnswers DEF AnswerInv
<1>5. \A f \in late : f.key[1] # c
  BY <1>1, <1>2 DEF WorldInv
<1> HIDE DEF h
<1>6. SUFFICES ASSUME NEW s \in sub', s[1] \in live'
               PROVE  Cover(s)'
  BY CoverKeeps DEF CoverKept
<1>7. s \in sub /\ s[1] \in live /\ s \in Connections \X AllThreads
  BY <1>1, <1>2, <1>6
<1>8. Cover(s)
  BY <1>1, <1>7, CoverParts
<1>9. Unsubscribes(h, s[1], s[2]) => WaitsFrom(s[1], s[2], 1)
  BY <1>3, <1>8 DEF Cover, Unsubscribes
<1>10. Outstanding(h)
  BY <1>3 DEF Outstanding
<1>11. /\ s \notin loose' => Sourced(s)'
       /\ \A q \in pending : WaitsFor(q, s) => q \in pending' \/ AnswerTo(h, q.key, q.tok)
  BY <1>1, <1>2, <1>3, <1>4, <1>7, <1>8, <1>9, <1>10, OutcomeSources
<1>12. \A f \in Response : Outstanding(f) /\ Unsubscribes(f, s[1], s[2])' => Unsubscribes(f, s[1], s[2])
  BY <1>1, <1>2, <1>3, ClientUnsubscribes, SameUnsubscribers
<1> DEFINE d == IF s[1] = c THEN 1 ELSE 0
<1>13. FramesFrom(s, d) /\ d \in {0, 1} /\ (d = 1 <=> s[1] = c)
  BY <1>1, <1>2, <1>7, TakenFrames
<1> HIDE DEF d
<1>14. \A q \in pending : WaitsFor(q, s) => q \in pending' \/ AnsweredBefore(q.key, q.tok, 1 + d)
  <2> SUFFICES ASSUME NEW q \in pending, WaitsFor(q, s), q \notin pending'
               PROVE  AnsweredBefore(q.key, q.tok, 1 + d)
    OBVIOUS
  <2>1. AnswerTo(h, q.key, q.tok) /\ q.key[1] = c /\ d = 1
    BY <1>3, <1>11, <1>13 DEF AnswerTo, WaitsFor
  <2> QED
    BY <1>3, <2>1 DEF AnsweredBefore
<1> QED
  BY <1>1, <1>2, <1>4, <1>5, <1>7, <1>8, <1>11, <1>12, <1>13, <1>14, CoverStep

LEMMA LateResponseCover ==
  ASSUME FcodexInd, NEW h \in late, LateResponse(h)
  PROVE  CoverInv'
<1>1. WorldInv /\ AnswerInv /\ CoverInv /\ WireType /\ late \subseteq Response /\ sub \subseteq Connections \X AllThreads
      /\ RequestInv /\ SourcesFit
  BY DEF FcodexInd, WorldInv
<1>2. /\ ClientResponse(h) /\ late' = late \ {h} /\ UNCHANGED <<live, sub, wire>>
  BY DEF LateResponse
<1>3. h \in Response /\ Outstanding(h)
  BY <1>1 DEF Outstanding
<1>4. WireType' /\ \A f \in Response : Outstanding(f)' => Outstanding(f)
  BY <1>1, <1>2, LateAnswers DEF AnswerInv
<1>6. SUFFICES ASSUME NEW s \in sub', s[1] \in live'
               PROVE  Cover(s)'
  BY CoverKeeps DEF CoverKept
<1>7. s \in sub /\ s[1] \in live /\ s \in Connections \X AllThreads
  BY <1>1, <1>2, <1>6
<1>8. Cover(s)
  BY <1>1, <1>7, CoverParts
<1>9. Unsubscribes(h, s[1], s[2]) => WaitsFrom(s[1], s[2], 0)
  BY <1>8 DEF Cover
<1>11. /\ s \notin loose' => Sourced(s)'
       /\ \A q \in pending : WaitsFor(q, s) => q \in pending' \/ AnswerTo(h, q.key, q.tok)
  BY <1>1, <1>2, <1>3, <1>4, <1>7, <1>8, <1>9, OutcomeSources
<1>12. \A f \in Response : Outstanding(f) /\ Unsubscribes(f, s[1], s[2])' => Unsubscribes(f, s[1], s[2])
  BY <1>1, <1>2, <1>3, ClientUnsubscribes, SameUnsubscribers
<1>13. FramesFrom(s, 0)
  <2>1. \A i \in DOMAIN wire[s[1]] : i + 0 = i
    BY <1>1, <1>7, WirePlaces
  <2> QED
    BY <1>2, <2>1 DEF FramesFrom
<1>14. \A q \in pending : WaitsFor(q, s) => q \in pending' \/ AnsweredBefore(q.key, q.tok, 1 + 0)
  BY <1>11 DEF AnsweredBefore
<1> QED
  BY <1>1, <1>2, <1>4, <1>7, <1>8, <1>11, <1>12, <1>13, <1>14, CoverStep

\* The answer at the head of a wire becomes a late one.
LEMMA LateCover ==
  ASSUME WorldInv, SourcesFit, WireType', NEW c \in Connections, Taken(c),
         Head(wire[c]) \in Response, late' = late \cup {Head(wire[c])},
         \A f \in late : f.key[1] # c,
         \A f \in Response : Outstanding(f)' => Outstanding(f),
         UNCHANGED <<connSrc, unkSrc, pending, reqs, loose>>,
         NEW s \in Connections \X AllThreads, Cover(s), s[1] = c
  PROVE  Cover(s)'
<1> DEFINE h == Head(wire[c])
           t == s[2]
<1>1. /\ \A i \in DOMAIN wire'[c] : /\ i \in Nat /\ i >= 1 /\ i + 1 \in DOMAIN wire[c]
                                    /\ wire'[c][i] = wire[c][i + 1]
      /\ 1 \in DOMAIN wire[c] /\ h = wire[c][1]
  BY TakenPlaces DEF WorldInv
<1>2. \A f \in late' : f.key[1] = c => f = h
  OBVIOUS
<1> HIDE DEF h
<1>3. \A q \in pending : Refused(q.key, q.tok)' => Refused(q.key, q.tok)
  BY DEF Refused
<1>4. \A q \in pending : IsRequest(q.key, "resume")
  BY DEF SourcesFit
<1>5. s \notin loose' => Sourced(s)'
  BY StillSourced DEF Cover, SourceStays
<1>6. ASSUME NEW f \in late', Unsubscribes(f, c, t)'
      PROVE  WaitsFrom(c, t, 0)'
  <2>1. f = h /\ Unsubscribes(h, c, t)
    BY <1>2, <1>6 DEF Unsubscribes, TokenMatches, IsRequest
  <2>2. WaitsFrom(c, t, 1)
    BY <1>1, <2>1 DEF Cover
  <2>3. PICK q \in pending : q.key[1] = c /\ q.t = t /\ ~Refused(q.key, q.tok)
    BY <2>2 DEF WaitsFrom
  <2>4. ~AnsweredBefore(q.key, q.tok, 0)'
    <3>1. \A g \in late' : ~AnswerTo(g, q.key, q.tok)
      BY <1>2, <1>4, <2>1, <2>3 DEF AnswerTo, Unsubscribes, IsRequest
    <3>2. \A j \in DOMAIN wire'[c] : ~(j < 0)
      BY <1>1
    <3> QED
      BY <2>3, <3>1, <3>2 DEF AnsweredBefore, AnswerTo
  <2> QED
    BY <1>3, <2>3, <2>4 DEF WaitsFrom
<1>7. ASSUME NEW i \in DOMAIN wire'[c], Unsubscribes(wire[c][i], c, t)'
      PROVE  WaitsFrom(c, t, i)'
  <2>1. i \in Nat /\ i >= 1 /\ i + 1 \in DOMAIN wire[c] /\ wire'[c][i] = wire[c][i + 1]
    BY <1>1
  <2>2. Unsubscribes(wire[c][i + 1], c, t)
    BY <1>7, <2>1 DEF Unsubscribes, TokenMatches, IsRequest
  <2>3. WaitsFrom(c, t, i + 1)
    BY <2>1, <2>2 DEF Cover
  <2>4. PICK q \in pending : q.key[1] = c /\ q.t = t /\ ~Refused(q.key, q.tok)
                             /\ ~AnsweredBefore(q.key, q.tok, i + 1)
    BY <2>3 DEF WaitsFrom
  <2>5. ASSUME AnsweredBefore(q.key, q.tok, i)'
        PROVE  FALSE
    <3>1. ASSUME NEW f \in late', AnswerTo(f, q.key, q.tok)
          PROVE  FALSE
      <4>1. f = wire[c][1]
        BY <1>1, <1>2, <2>4, <3>1 DEF AnswerTo
      <4>2. 1 < i + 1
        BY <2>1
      <4> QED
        BY <1>1, <2>4, <3>1, <4>1, <4>2 DEF AnsweredBefore
    <3>2. ASSUME NEW j \in DOMAIN wire'[c], j < i, AnswerTo(wire'[c][j], q.key, q.tok)
          PROVE  FALSE
      <4>1. j \in Nat /\ j + 1 \in DOMAIN wire[c] /\ wire'[c][j] = wire[c][j + 1]
        BY <1>1
      <4>2. j + 1 < i + 1
        BY <2>1, <3>2, <4>1
      <4> QED
        BY <2>4, <3>2, <4>1, <4>2 DEF AnsweredBefore
    <3> QED
      BY <2>4, <2>5, <3>1, <3>2 DEF AnsweredBefore, AnswerTo
  <2> QED
    BY <1>3, <2>4, <2>5 DEF WaitsFrom
<1> QED
  BY <1>5, <1>6, <1>7 DEF Cover

LEMMA DeliverTimesOutCover ==
  ASSUME FcodexInd, NEW c \in Connections, DeliverTimesOut(c)
  PROVE  CoverInv'
<1> DEFINE h == Head(wire[c])
<1>1. WorldInv /\ AnswerInv /\ CoverInv /\ WireType /\ late \subseteq Response /\ sub \subseteq Connections \X AllThreads
      /\ SourcesFit
  BY DEF FcodexInd, WorldInv
<1>2. /\ Taken(c) /\ h \in Response /\ h.key[1] = c /\ h.kind = "response"
      /\ late' = late \/ late' = late \cup {h}
      /\ \A f \in late : f.key[1] # c
      /\ UNCHANGED <<live, sub, loose, connSrc, unkSrc, pending, reqs>>
  BY TimesOutTaken DEF endpoints, requests, sources
<1>3. WireType' /\ \A f \in Response : Outstanding(f)' => Outstanding(f)
  BY <1>1, <1>2, TakenAnswers DEF AnswerInv
<1>6. SUFFICES ASSUME NEW s \in sub', s[1] \in live'
               PROVE  Cover(s)'
  BY CoverKeeps DEF CoverKept
<1>7. s \in sub /\ s[1] \in live /\ s \in Connections \X AllThreads
  BY <1>1, <1>2, <1>6
<1>8. Cover(s)
  BY <1>1, <1>7, CoverParts
<1>9. CASE s[1] = c /\ late' = late \cup {h}
  BY <1>1, <1>2, <1>3, <1>7, <1>8, <1>9, LateCover
<1>10. CASE ~(s[1] = c /\ late' = late \cup {h})
  <2>1. s \notin loose' => Sourced(s)'
    BY <1>2, <1>3, <1>8, StillSourced DEF Cover, SourceStays
  <2>2. \A f \in Response : Outstanding(f) /\ Unsubscribes(f, s[1], s[2])' => Unsubscribes(f, s[1], s[2])
    BY <1>2, AllUnsubscribes, SameUnsubscribers
  <2>3. \A f \in late' : f.key[1] = s[1] => f \in late
    BY <1>2, <1>10
  <2> DEFINE d == IF s[1] = c THEN 1 ELSE 0
  <2>4. FramesFrom(s, d) /\ d \in {0, 1} /\ (d = 1 <=> s[1] = c)
    BY <1>1, <1>2, <1>7, TakenFrames
  <2> HIDE DEF d, h
  <2> QED
    BY <1>1, <1>2, <1>3, <1>7, <1>8, <2>1, <2>2, <2>3, <2>4, CoverStep
<1> QED
  BY <1>9, <1>10

\* A new request of a connection: the subscription it brings has the pending
\* request for its source, and no answer under way takes it back.
LEMMA TrackedCover ==
  ASSUME FcodexInd, WireType', NEW k \in Keys, NEW t \in AllThreads, NEW m \in Methods,
         Track(k, m, t), seq < MaxRequests, attempts' \subseteq attempts \cup {seq'}, backend' = backend,
         reqs[k] = NoRequest, px[k[1]] = "open",
         Answer(k, m, t) \/ NotForwarded,
         m = "start" => t \in NewThreads \ made,
         m # "resume" => pending' = pending,
         m = "resume" => pending' = pending \cup {[key |-> k, tok |-> seq', t |-> t]},
         UNCHANGED <<live, late, connSrc, unkSrc>>
  PROVE  CoverInv'
<1>1. WorldInv /\ AnswerInv /\ CoverInv /\ WireType /\ late \subseteq Response /\ sub \subseteq Connections \X AllThreads
      /\ RequestInv /\ SourcesFit
  BY DEF FcodexInd, WorldInv
<1>2. /\ seq' = seq + 1 /\ seq' \in Tokens
      /\ reqs'[k] # NoRequest /\ reqs'[k].tok = seq' /\ reqs'[k].method = m /\ reqs'[k].t = t
      /\ \A j \in Keys : j # k => reqs'[j] = reqs[j]
  BY <1>1, TrackedRequest
<1>3. k[1] \in Connections /\ seq \in Nat
  BY <1>1, KeyParts, SeqNat
<1>4. \A f \in Response : Outstanding(f) => f.tok # seq'
  <2>1. \A f \in Response : Outstanding(f) => f.tok <= seq /\ f.tok \in Nat
    BY <1>1, ResponseFields, BoundTypes DEF AnswerInv, AnswersFit, Tokens
  <2> QED
    BY <1>2, <1>3, <2>1
<1>5. \A q \in pending : q.key # k
  BY <1>1 DEF SourcesFit, IsRequest
<1>6. \A f \in late : f.key[1] # k[1]
  BY <1>1 DEF WorldInv
<1> DEFINE New(s) == s \in sub' /\ s \notin sub
           Posts(f) == f.key = k /\ f.tok = seq' /\ (m = "unsubscribe" /\ f.out = "success" => <<k[1], t>> \notin sub')
                       /\ (m = "resume" /\ f.out = "error" => sub' = sub)
<1>7. /\ \A d \in Connections : d # k[1] => wire'[d] = wire[d]
      /\ \A i \in DOMAIN wire'[k[1]] :
           \/ i \in DOMAIN wire[k[1]] /\ wire'[k[1]][i] = wire[k[1]][i]
           \/ i = Len(wire[k[1]]) + 1 /\ Posts(wire'[k[1]][i])
      /\ \A i \in DOMAIN wire[k[1]] : i < Len(wire[k[1]]) + 1
      /\ \A f \in Response : Outstanding(f)' => Outstanding(f) \/ Posts(f)
      /\ \A s \in sub' : s \in loose => s \in loose'
      /\ \A s \in sub' : s \in sub \/ (s = <<k[1], t>> /\ m \in {"resume", "start"} /\ (m = "start" => s \in loose'))
  <2>0. \A i \in DOMAIN wire[k[1]] : i < Len(wire[k[1]]) + 1
    BY <1>1, <1>3, WirePlaces
  <2>1. CASE NotForwarded
    <3>1. wire' = wire /\ sub' = sub /\ loose' = loose
      BY <2>1 DEF NotForwarded
    <3> HIDE DEF Posts
    <3> QED
      BY <2>0, <3>1 DEF Outstanding
  <2>2. CASE Answer(k, m, t)
    <3>1. PICK o \in Outcomes, effect \in BOOLEAN :
        /\ effect = (o = "success") \/ o = "unknown" \/ m = "start"
        /\ o = "success" => effect
        /\ sub' = IF ~effect THEN sub
                  ELSE IF m = "unsubscribe" THEN sub \ {<<k[1], t>>}
                  ELSE sub \cup {<<k[1], t>>}
        /\ loose' = IF m = "start" /\ effect THEN loose \cup {<<k[1], t>>} ELSE loose \cap sub'
        /\ wire' = [wire EXCEPT ![k[1]] =
                      Append(@, [kind |-> "response", key |-> k, tok |-> seq', out |-> o, t |-> t])]
      BY <2>2 DEF Answer
    <3> DEFINE a == [kind |-> "response", key |-> k, tok |-> seq', out |-> o, t |-> t]
    <3>2. a \in Response /\ a.key = k /\ a.tok = seq' /\ a.out = o
      BY <1>2 DEF Response
    <3>3. Posted(k[1], a)
      BY <3>1 DEF Posted
    <3> HIDE DEF a
    <3>4. /\ \A d \in Connections : d # k[1] => wire'[d] = wire[d]
          /\ \A i \in DOMAIN wire'[k[1]] :
              \/ i \in DOMAIN wire[k[1]] /\ wire'[k[1]][i] = wire[k[1]][i]
              \/ i = Len(wire[k[1]]) + 1 /\ wire'[k[1]][i] = a
          /\ \A f \in Response : Outstanding(f)' => Outstanding(f) \/ f = a
      BY <1>1, <1>3, <1>4, <3>2, <3>3, PostedPlaces, PostedAnswers DEF Frame, AnswerInv
    <3>5. Posts(a)
      BY <3>1, <3>2
    <3>6. /\ \A s \in sub' : s \in loose => s \in loose'
          /\ \A s \in sub' : s \in sub \/ (s = <<k[1], t>> /\ m \in {"resume", "start"} /\ (m = "start" => s \in loose'))
      BY <3>1 DEF Methods
    <3> HIDE DEF Posts
    <3> QED
      BY <2>0, <3>4, <3>5, <3>6
  <2> QED
    BY <2>1, <2>2
<1>8. \A q \in pending : ~(\E f : Posts(f) /\ AnswerTo(f, q.key, q.tok))
  BY <1>5 DEF AnswerTo
<1>9. \A q \in pending : q \in pending'
  OBVIOUS
<1>10. SUFFICES ASSUME NEW s \in sub', s[1] \in live'
                PROVE  Cover(s)'
  BY CoverKeeps DEF CoverKept
<1>11. \A f \in Response : Outstanding(f) /\ Unsubscribes(f, s[1], s[2])' => Unsubscribes(f, s[1], s[2])
  <2> SUFFICES ASSUME NEW f \in Response, Outstanding(f), Unsubscribes(f, s[1], s[2])'
               PROVE  Unsubscribes(f, s[1], s[2])
    OBVIOUS
  <2>1. f.key \in Keys /\ f.key # k
    BY <1>2, <1>4, ResponseFields DEF Unsubscribes, TokenMatches
  <2> QED
    BY <1>2, <2>1 DEF Unsubscribes, TokenMatches, IsRequest
<1>12. ASSUME NEW f, Posts(f), Unsubscribes(f, s[1], s[2])'
       PROVE  FALSE
  <2>1. m = "unsubscribe" /\ f.out = "success" /\ k[1] = s[1] /\ t = s[2]
    BY <1>2, <1>12 DEF Unsubscribes, IsRequest
  <2>2. s = <<k[1], t>>
    <3>1. s \in sub
      BY <1>7, <2>1
    <3>2. s = <<s[1], s[2]>>
      BY <1>1, <3>1
    <3> QED
      BY <2>1, <3>2
  <2> QED
    BY <1>12, <2>1, <2>2
<1>13. CASE s \in sub
  <2>1. s \in Connections \X AllThreads /\ Cover(s)
    BY <1>1, <1>10, <1>13, CoverParts
  <2>2. \A f \in Response : Outstanding(f)' => Outstanding(f) \/ \A q \in pending : ~AnswerTo(f, q.key, q.tok)
    <3> HIDE DEF Posts
    <3> QED
      BY <1>7, <1>8
  <2>3. s \notin loose' => Sourced(s)'
    <3>1. SourceStays(s)
      BY <1>9 DEF SourceStays
    <3>2. s \notin loose' => Sourced(s)
      BY <1>7, <1>10, <2>1 DEF Cover
    <3> QED
      BY <2>2, <3>1, <3>2, StillSourced
  <2>4. FramesFrom(s, 0)
    <3>1. \A i \in DOMAIN wire[s[1]] : i + 0 = i
      BY <1>1, <2>1, WirePlaces
    <3>2. CASE s[1] # k[1]
      BY <1>7, <2>1, <3>1, <3>2 DEF FramesFrom
    <3>3. CASE s[1] = k[1]
      <4> HIDE DEF Posts
      <4>1. SUFFICES ASSUME NEW i \in DOMAIN wire'[s[1]], Posts(wire'[s[1]][i])
                     PROVE  /\ ~Unsubscribes(wire[s[1]][i], s[1], s[2])'
                            /\ \A q \in pending : ~AnswerTo(wire'[s[1]][i], q.key, q.tok)
        BY <1>7, <3>1, <3>3 DEF FramesFrom
      <4>2. PICK f : f = wire'[s[1]][i]
        OBVIOUS
      <4>3. ~Unsubscribes(f, s[1], s[2])'
        BY <1>12, <4>1, <4>2
      <4>4. ~Unsubscribes(wire[s[1]][i], s[1], s[2])'
        BY <4>2, <4>3 DEF Unsubscribes, TokenMatches, IsRequest
      <4> QED
        BY <1>8, <4>1, <4>4
    <3> QED
      BY <3>2, <3>3
  <2> QED
    BY <1>1, <1>9, <1>11, <2>1, <2>2, <2>3, <2>4, CoverStep
<1>14. CASE s \notin sub
  <2>1. s = <<k[1], t>> /\ m \in {"resume", "start"} /\ (m = "start" => s \in loose') /\ sub' # sub
    BY <1>7, <1>10, <1>14
  <2>2. s[1] = k[1] /\ s[2] = t
    BY <2>1
  <2>3. ASSUME NEW f \in late', Unsubscribes(f, s[1], s[2])'
        PROVE  FALSE
    BY <1>6, <2>2, <2>3 DEF Unsubscribes
  <2>4. CASE m = "start"
    <3>1. ASSUME NEW i \in DOMAIN wire'[k[1]], Unsubscribes(wire[k[1]][i], k[1], t)'
          PROVE  FALSE
      <4>1. PICK f : f = wire'[k[1]][i]
        OBVIOUS
      <4>2. Unsubscribes(f, k[1], t)'
        BY <3>1, <4>1 DEF Unsubscribes, TokenMatches, IsRequest
      <4>3. ~Posts(f)
        BY <1>12, <2>2, <4>2
      <4>4. i \in DOMAIN wire[k[1]] /\ f = wire[k[1]][i]
        BY <1>7, <4>1, <4>3
      <4>5. f \in Response /\ Outstanding(f)
        <5>1. f \in Frame
          BY <1>1, <1>3, <4>4, WirePlaces
        <5>2. f.kind = "response"
          BY <4>2 DEF Unsubscribes
        <5> QED
          BY <1>3, <4>4, <5>1, <5>2, FrameKinds DEF Outstanding
      <4>6. Unsubscribes(f, k[1], t) /\ f.key \in Keys
        BY <1>11, <2>2, <4>2, <4>5, ResponseFields
      <4>7. t \in Threads \cup made
        BY <1>1, <4>6 DEF WorldInv, Unsubscribes
      <4> QED
        BY <2>4, <4>7, FreshAssumption
    <3> QED
      BY <2>1, <2>2, <2>3, <2>4, <3>1 DEF Cover
  <2>5. CASE m = "resume"
    <3>1. PICK q \in pending' : q.key = k /\ q.tok = seq' /\ q.t = t
      <4> DEFINE r == [key |-> k, tok |-> seq', t |-> t]
      <4>1. r \in pending'
        BY <2>5
      <4>2. r.key = k /\ r.tok = seq' /\ r.t = t
        OBVIOUS
      <4> HIDE DEF r
      <4> QED
        BY <4>1, <4>2
    <3>2. ~Refused(q.key, q.tok)'
      <4> SUFFICES ASSUME NEW f \in Response, Outstanding(f)', f.tok = seq', f.out = "error"
                   PROVE  FALSE
        BY <3>1 DEF Refused, AnswerTo
      <4>1. Posts(f)
        BY <1>4, <1>7
      <4> QED
        BY <2>1, <2>5, <4>1
    <3>3. Sourced(s)'
      BY <2>2, <3>1, <3>2 DEF Sourced
    <3>4. ASSUME NEW i \in DOMAIN wire'[k[1]], Unsubscribes(wire[k[1]][i], k[1], t)'
          PROVE  WaitsFrom(k[1], t, i)'
      <4>1. PICK f : f = wire'[k[1]][i]
        OBVIOUS
      <4>2. Unsubscribes(f, k[1], t)'
        BY <3>4, <4>1 DEF Unsubscribes, TokenMatches, IsRequest
      <4>3. ~Posts(f)
        BY <1>12, <2>2, <4>2
      <4>4. i \in DOMAIN wire[k[1]]
        BY <1>7, <4>1, <4>3
      <4>5. ASSUME AnsweredBefore(k, seq, i)'
            PROVE  FALSE
        <5>1. \A g \in late' : g.tok # seq'
          BY <1>1, <1>4 DEF Outstanding
        <5>2. PICK j \in DOMAIN wire'[k[1]] : j < i /\ AnswerTo(wire'[k[1]][j], k, seq')
          BY <4>5, <5>1 DEF AnsweredBefore, AnswerTo
        <5>3. CASE j \in DOMAIN wire[k[1]] /\ wire'[k[1]][j] = wire[k[1]][j]
          <6>1. wire[k[1]][j] \in Response
            BY <1>1, <1>3, <5>2, <5>3, WirePlaces, FrameKinds DEF AnswerTo
          <6> QED
            BY <1>3, <1>4, <5>2, <5>3, <6>1 DEF Outstanding, AnswerTo
        <5>4. CASE j = Len(wire[k[1]]) + 1
          <6>1. i < Len(wire[k[1]]) + 1 /\ i \in Nat /\ Len(wire[k[1]]) \in Nat
            BY <1>1, <1>3, <1>7, <4>4, WirePlaces
          <6> QED
            BY <5>2, <5>4, <6>1
        <5> QED
          BY <1>7, <5>2, <5>3, <5>4
      <4> QED
        BY <3>1, <3>2, <4>5 DEF WaitsFrom
    <3> QED
      BY <2>2, <2>3, <3>3, <3>4 DEF Cover
  <2> QED
    BY <2>1, <2>4, <2>5
<1> QED
  BY <1>13, <1>14

LEMMA AdmitResumeCover ==
  ASSUME FcodexInd, WireType', NEW k \in Keys, NEW t \in AllThreads, AdmitResume(k, t)
  PROVE  CoverInv'
<1>1. /\ UNCHANGED <<live, late, connSrc, unkSrc, attempts, backend>>
      /\ reqs[k] = NoRequest /\ seq < MaxRequests /\ px[k[1]] = "open"
  BY DEF AdmitResume, endpoints
<1>2. CASE /\ Track(k, "resume", t) /\ (Answer(k, "resume", t) \/ NotForwarded)
           /\ pending' = pending \cup {[key |-> k, tok |-> seq', t |-> t]}
  BY <1>1, <1>2, TrackedCover DEF Methods
<1>3. CASE UNCHANGED <<reqs, seq, pending>> /\ NotForwarded
  BY <1>1, <1>3, RestingCover DEF NotForwarded
<1> QED
  BY <1>2, <1>3 DEF AdmitResume

LEMMA AdmitUnsubscribeCover ==
  ASSUME FcodexInd, WireType', NEW k \in Keys, NEW t \in AllThreads, AdmitUnsubscribe(k, t)
  PROVE  CoverInv'
<1>1. /\ UNCHANGED <<live, late, connSrc, unkSrc, pending, attempts, backend>>
      /\ reqs[k] = NoRequest /\ seq < MaxRequests /\ px[k[1]] = "open"
      /\ Track(k, "unsubscribe", t) /\ (Answer(k, "unsubscribe", t) \/ NotForwarded)
  BY DEF AdmitUnsubscribe, endpoints, sources
<1> QED
  BY <1>1, TrackedCover DEF Methods

LEMMA AdmitStartCover ==
  ASSUME FcodexInd, WireType', NEW k \in Keys, NEW t \in AllThreads, AdmitStart(k, t)
  PROVE  CoverInv'
<1>1. /\ UNCHANGED <<live, late, connSrc, unkSrc, pending, backend>> /\ attempts' = attempts \cup {seq'}
      /\ reqs[k] = NoRequest /\ seq < MaxRequests /\ px[k[1]] = "open" /\ t \in NewThreads \ made
      /\ Track(k, "start", t) /\ (Answer(k, "start", t) \/ NotForwarded)
  BY DEF AdmitStart, endpoints, sources
<1> QED
  BY <1>1, TrackedCover DEF Methods

-----------------------------------------------------------------------------
(* The inductive invariant.                                                 *)

LEMMA Together ==
  ASSUME RegistryKept, EndpointInv', FitKept, WorldKept, CoverInv'
  PROVE  FcodexInd'
  BY DEF RegistryKept, FitKept, WorldKept, FcodexInd

LEMMA InitFcodexInd ==
  ASSUME FcodexInit
  PROVE  FcodexInd
<1>1. /\ pstate = [p \in Participants |-> "none"] /\ live = {} /\ lseq = 0 /\ timers = {}
      /\ cgen = [c \in Connections |-> 0] /\ pgen = [p \in Participants |-> 0]
      /\ connSrc = {} /\ unkSrc = {} /\ pending = {} /\ staged = {}
      /\ cleanup = [t \in AllThreads |-> {}]
      /\ pres = [w \in Pairs |-> "absent"] /\ store = {} /\ fails = MaxFailures
      /\ reqs = [k \in Keys |-> NoRequest] /\ seq = 0 /\ attempts = {} /\ backend = 0
      /\ job = [conn |-> NoConn, todo |-> {}]
      /\ px = [c \in Connections |-> "idle"] /\ wire = [c \in Connections |-> <<>>]
      /\ sub = {} /\ late = {} /\ gone = 0 /\ made = {} /\ loose = {}
  BY DEF FcodexInit
<1>2. EndpointInv
  BY <1>1 DEF EndpointInv
<1>3. SourceTypes
  BY <1>1 DEF SourceTypes
<1>4. MachineInv
  <2>1. MachineTypes
    BY <1>1, BoundTypes DEF MachineTypes
  <2>2. \A w \in Pairs : Honest(pres, store, w)
    BY <1>1 DEF Honest
  <2>3. SourcesAreHeld
    BY <1>1 DEF SourcesAreHeld, HasSource
  <2> QED
    BY <2>1, <2>2, <2>3 DEF MachineInv
<1>5. \A k \in Keys : reqs[k] = NoRequest
  BY <1>1
<1>6. RequestInv
  BY <1>1, <1>5, BoundTypes DEF RequestInv, IsRequest
<1>7. JobInv
  BY <1>1 DEF JobInv, Idle
<1>8. SourcesFit
  BY <1>1, <1>5 DEF SourcesFit, IsRequest
<1>9. RetiredIsEmpty
  BY <1>1 DEF RetiredIsEmpty, HasSource, Pairs
<1>10. /\ WireType /\ \A c \in Connections : wire[c] = <<>> /\ DOMAIN wire[c] = {}
  BY <1>1 DEF WireType
<1>11. WorldInv
  BY <1>1, <1>5, <1>10 DEF WorldInv, IsRequest
<1>12. \A f \in Response : ~Outstanding(f)
  BY <1>1, <1>10 DEF Outstanding
<1>13. AnswerInv
  BY <1>1, <1>10, <1>12 DEF AnswerInv, AnswersOnce, AnswersFit
<1>14. CoverInv
  BY <1>1 DEF CoverInv
<1> QED
  BY <1>2, <1>3, <1>4, <1>6, <1>7, <1>8, <1>9, <1>11, <1>13, <1>14 DEF FcodexInd

LEMMA RegistryUntouched ==
  ASSUME FcodexInd, UNCHANGED <<machine, connSrc, unkSrc, pending, pstate, live>>
  PROVE  RegistryKept
  BY RegistryRests DEF FcodexInd, EndpointInv, PStates

LEMMA EndpointsUntouched ==
  ASSUME FcodexInd, RegistryKept, UNCHANGED <<cgen, pgen, lseq, timers, live>>
  PROVE  EndpointInv'
  BY EndpointsRest DEF FcodexInd, RegistryKept

LEMMA ConnectInd ==
  ASSUME FcodexInd, NEW c \in Connections, Connect(c)
  PROVE  FcodexInd'
<1>1. RegistryKept
  BY ConnectRegistry
<1>2. EndpointInv'
  BY <1>1, ConnectEndpoint DEF FcodexInd, RegistryKept
<1>3. FitKept
  BY FitQuietSteps DEF Connect
<1> QED
  BY <1>1, <1>2, <1>3, ConnectWorld, ConnectCover, Together

LEMMA HeartbeatInd ==
  ASSUME FcodexInd, NEW c \in Connections, Heartbeat(c)
  PROVE  FcodexInd'
<1>0. UNCHANGED <<live, pgen, sources, requests, job, world>> /\ Idle
  BY DEF Heartbeat
<1>1. RegistryKept
  BY HeartbeatRegistry
<1>2. EndpointInv'
  BY <1>1, HeartbeatEndpoint DEF FcodexInd, RegistryKept
<1>3. FitKept
  BY <1>0, FitQuietSteps
<1>4. WorldKept /\ CoverInv'
  BY <1>0, WorldUntouched, RestingCover DEF sources, requests, world
<1> QED
  BY <1>1, <1>2, <1>3, <1>4, Together

LEMMA DeliverResponseInd ==
  ASSUME FcodexInd, NEW c \in Connections, DeliverResponse(c)
  PROVE  FcodexInd'
<1>1. RegistryKept
  BY DeliverResponseRegistry
<1>2. EndpointInv'
  BY <1>1, EndpointsUntouched DEF DeliverResponse
<1> QED
  BY <1>1, <1>2, DeliverResponseFit, DeliverResponseWorld, DeliverResponseCover, Together

LEMMA DeliverTimesOutInd ==
  ASSUME FcodexInd, NEW c \in Connections, DeliverTimesOut(c)
  PROVE  FcodexInd'
<1>0. UNCHANGED <<endpoints, sources, machine, requests, job>>
  BY DEF DeliverTimesOut
<1>1. RegistryKept
  BY <1>0, RegistryUntouched DEF endpoints, sources
<1>2. EndpointInv'
  BY <1>0, <1>1, EndpointsUntouched DEF endpoints
<1>3. FitKept
  BY <1>0, FitUntouched DEF endpoints
<1> QED
  BY <1>1, <1>2, <1>3, DeliverTimesOutWorld, DeliverTimesOutCover, Together

LEMMA DeliverGoneInd ==
  ASSUME FcodexInd, NEW c \in Connections, DeliverGone(c)
  PROVE  FcodexInd'
<1>1. RegistryKept
  BY DeliverGoneRegistry
<1>2. EndpointInv'
  BY <1>1, EndpointsUntouched DEF DeliverGone
<1> QED
  BY <1>1, <1>2, DeliverGoneFit, DeliverGoneWorld, DeliverGoneCover, Together

LEMMA CloseProxyInd ==
  ASSUME FcodexInd, NEW c \in Connections, CloseProxy(c)
  PROVE  FcodexInd'
<1>1. RegistryKept
  BY CloseProxyRegistry
<1>2. EndpointInv'
  BY <1>1, CloseProxyEndpoint DEF FcodexInd, RegistryKept
<1> QED
  BY <1>1, <1>2, CloseProxyFit, CloseProxyWorld, CloseProxyCover, Together

LEMMA ExpireConnectionInd ==
  ASSUME FcodexInd, NEW tm \in timers, ExpireConnection(tm)
  PROVE  FcodexInd'
<1>0. UNCHANGED <<unkSrc, pending, staged, cleanup, requests, world>> /\ live' \subseteq live
  BY DEF ExpireConnection, DropEndpoint
<1>1. RegistryKept
  BY ExpireConnectionRegistry
<1>2. EndpointInv'
  BY <1>1, ExpireConnectionEndpoint DEF FcodexInd, RegistryKept
<1>3. WorldKept
  BY <1>0, WorldUntouched DEF requests, world
<1> QED
  BY <1>1, <1>2, <1>3, ExpireConnectionFit, ExpireConnectionCover, Together

LEMMA ExpireParticipantInd ==
  ASSUME FcodexInd, NEW tm \in timers, ExpireParticipant(tm)
  PROVE  FcodexInd'
<1>0. UNCHANGED <<live, sources, requests, job, world>> /\ Idle
  BY DEF ExpireParticipant
<1>1. RegistryKept
  BY ExpireParticipantRegistry
<1>2. EndpointInv'
  BY <1>1, ExpireParticipantEndpoint DEF FcodexInd, RegistryKept
<1>3. FitKept
  BY <1>0, FitQuietSteps
<1>4. WorldKept /\ CoverInv'
  BY <1>0, WorldUntouched, RestingCover DEF sources, requests, world
<1> QED
  BY <1>1, <1>2, <1>3, <1>4, Together

LEMMA AdmitResumeInd ==
  ASSUME FcodexInd, NEW k \in Keys, NEW t \in AllThreads, AdmitResume(k, t)
  PROVE  FcodexInd'
<1>1. RegistryKept
  BY AdmitResumeRegistry
<1>2. EndpointInv'
  BY <1>1, EndpointsUntouched DEF AdmitResume, endpoints
<1>3. WorldKept
  BY AdmitResumeWorld
<1>4. CoverInv'
  BY <1>3, AdmitResumeCover DEF WorldKept, WorldInv
<1> QED
  BY <1>1, <1>2, <1>3, <1>4, AdmitResumeFit, Together

LEMMA AdmitUnsubscribeInd ==
  ASSUME FcodexInd, NEW k \in Keys, NEW t \in AllThreads, AdmitUnsubscribe(k, t)
  PROVE  FcodexInd'
<1>0. UNCHANGED <<endpoints, sources, machine>>
  BY DEF AdmitUnsubscribe
<1>1. RegistryKept
  BY <1>0, RegistryUntouched DEF endpoints, sources
<1>2. EndpointInv'
  BY <1>0, <1>1, EndpointsUntouched DEF endpoints
<1>3. WorldKept
  BY AdmitUnsubscribeWorld
<1>4. CoverInv'
  BY <1>3, AdmitUnsubscribeCover DEF WorldKept, WorldInv
<1> QED
  BY <1>1, <1>2, <1>3, <1>4, AdmitUnsubscribeFit, Together

LEMMA AdmitStartInd ==
  ASSUME FcodexInd, NEW k \in Keys, NEW t \in AllThreads, AdmitStart(k, t)
  PROVE  FcodexInd'
<1>0. UNCHANGED <<endpoints, sources, machine>>
  BY DEF AdmitStart
<1>1. RegistryKept
  BY <1>0, RegistryUntouched DEF endpoints, sources
<1>2. EndpointInv'
  BY <1>0, <1>1, EndpointsUntouched DEF endpoints
<1>3. WorldKept
  BY AdmitStartWorld
<1>4. CoverInv'
  BY <1>3, AdmitStartCover DEF WorldKept, WorldInv
<1> QED
  BY <1>1, <1>2, <1>3, <1>4, AdmitStartFit, Together

LEMMA LateResponseInd ==
  ASSUME FcodexInd, NEW f \in late, LateResponse(f)
  PROVE  FcodexInd'
<1>1. RegistryKept
  BY LateResponseRegistry
<1>2. EndpointInv'
  BY <1>1, EndpointsUntouched DEF LateResponse
<1> QED
  BY <1>1, <1>2, LateResponseFit, LateResponseWorld, LateResponseCover, Together

LEMMA LostRequestInd ==
  ASSUME FcodexInd, NEW k \in Keys, LostRequest(k)
  PROVE  FcodexInd'
<1>1. RegistryKept
  BY LostRequestRegistry
<1>2. EndpointInv'
  BY <1>1, EndpointsUntouched DEF LostRequest
<1> QED
  BY <1>1, <1>2, LostRequestFit, LostRequestWorld, LostRequestCover, Together

LEMMA FinishDisconnectInd ==
  ASSUME FcodexInd, FinishDisconnect
  PROVE  FcodexInd'
<1>0. UNCHANGED <<live, cgen, pgen, lseq, timers, sources, requests, world>>
  BY DEF FinishDisconnect
<1>1. RegistryKept
  BY FinishDisconnectRegistry
<1>2. EndpointInv'
  BY <1>0, <1>1, EndpointsUntouched
<1>3. WorldKept /\ CoverInv'
  BY <1>0, WorldUntouched, RestingCover DEF sources, requests, world
<1> QED
  BY <1>1, <1>2, <1>3, FinishDisconnectFit, Together

LEMMA ThreadGoneInd ==
  ASSUME FcodexInd, NEW t \in AllThreads, ThreadGone(t)
  PROVE  FcodexInd'
<1>0. UNCHANGED <<endpoints, sources, machine, requests, job>>
  BY DEF ThreadGone
<1>1. RegistryKept
  BY <1>0, RegistryUntouched DEF endpoints, sources
<1>2. EndpointInv'
  BY <1>0, <1>1, EndpointsUntouched DEF endpoints
<1>3. FitKept
  BY <1>0, FitUntouched DEF endpoints
<1> QED
  BY <1>1, <1>2, <1>3, ThreadGoneWorld, ThreadGoneCover, Together

LEMMA RetryCleanupsInd ==
  ASSUME FcodexInd, RetryCleanups
  PROVE  FcodexInd'
<1>0. UNCHANGED <<live, cgen, pgen, lseq, timers, connSrc, unkSrc, pending, staged, requests, world>>
  BY DEF RetryCleanups
<1>1. RegistryKept
  BY RetryCleanupsRegistry
<1>2. EndpointInv'
  BY <1>0, <1>1, EndpointsUntouched
<1>3. WorldKept /\ CoverInv'
  BY <1>0, WorldUntouched, RestingCover DEF requests, world
<1> QED
  BY <1>1, <1>2, <1>3, RetryCleanupsFit, Together

LEMMA BackendDisconnectedInd ==
  ASSUME FcodexInd, BackendDisconnected
  PROVE  FcodexInd'
<1>0. UNCHANGED <<endpoints, sources, machine>>
  BY DEF BackendDisconnected
<1>1. RegistryKept
  BY <1>0, RegistryUntouched DEF endpoints, sources
<1>2. EndpointInv'
  BY <1>0, <1>1, EndpointsUntouched DEF endpoints
<1> QED
  BY <1>1, <1>2, BackendDisconnectedFit, BackendDisconnectedWorld, BackendDisconnectedCover, Together

LEMMA BackendResetInd ==
  ASSUME FcodexInd, BackendEpochCloses
  PROVE  FcodexInd'
<1>1. RegistryKept
  BY BackendResetRegistry
<1>2. EndpointInv'
  BY <1>1, BackendResetEndpoint DEF FcodexInd, RegistryKept
<1> QED
  BY <1>1, <1>2, BackendResetFit, BackendResetWorld, BackendResetCover, Together

LEMMA StutterInd ==
  ASSUME FcodexInd, UNCHANGED fcodexVars
  PROVE  FcodexInd'
<1>0. UNCHANGED <<endpoints, sources, machine, requests, job, world>>
  BY DEF fcodexVars
<1>1. RegistryKept
  BY <1>0, RegistryUntouched DEF endpoints, sources
<1>2. EndpointInv'
  BY <1>0, <1>1, EndpointsUntouched DEF endpoints
<1>3. FitKept
  BY <1>0, FitUntouched DEF endpoints
<1>4. WorldKept /\ CoverInv'
  BY <1>0, WorldUntouched, RestingCover DEF sources, requests, world, endpoints
<1> QED
  BY <1>1, <1>2, <1>3, <1>4, Together

LEMMA FcodexIndStep ==
  ASSUME FcodexInd, [FcodexNext]_fcodexVars
  PROVE  FcodexInd'
<1>1. ASSUME NEW c \in Connections,
             Connect(c) \/ Heartbeat(c) \/ DeliverResponse(c) \/ DeliverTimesOut(c)
             \/ DeliverGone(c) \/ CloseProxy(c)
      PROVE  FcodexInd'
  BY <1>1, ConnectInd, HeartbeatInd, DeliverResponseInd, DeliverTimesOutInd, DeliverGoneInd, CloseProxyInd
<1>2. ASSUME NEW tm \in timers, ExpireConnection(tm) \/ ExpireParticipant(tm)
      PROVE  FcodexInd'
  BY <1>2, ExpireConnectionInd, ExpireParticipantInd
<1>3. ASSUME NEW k \in Keys, NEW t \in AllThreads,
             AdmitResume(k, t) \/ AdmitUnsubscribe(k, t) \/ AdmitStart(k, t)
      PROVE  FcodexInd'
  BY <1>3, AdmitResumeInd, AdmitUnsubscribeInd, AdmitStartInd
<1>4. ASSUME NEW f \in late, LateResponse(f)
      PROVE  FcodexInd'
  BY <1>4, LateResponseInd
<1>5. ASSUME NEW k \in Keys, LostRequest(k)
      PROVE  FcodexInd'
  BY <1>5, LostRequestInd
<1>6. ASSUME NEW t \in AllThreads, ThreadGone(t)
      PROVE  FcodexInd'
  BY <1>6, ThreadGoneInd
<1>7. CASE FinishDisconnect \/ RetryCleanups \/ BackendDisconnected \/ BackendEpochCloses
  BY <1>7, FinishDisconnectInd, RetryCleanupsInd, BackendDisconnectedInd, BackendResetInd
<1>8. CASE UNCHANGED fcodexVars
  BY <1>8, StutterInd
<1> QED
  BY <1>1, <1>2, <1>3, <1>4, <1>5, <1>6, <1>7, <1>8 DEF FcodexNext

LEMMA FcodexTypes ==
  ASSUME FcodexInd
  PROVE  FcodexTypeOK
<1>1. /\ EndpointInv /\ SourceTypes /\ MachineTypes /\ RequestInv /\ JobInv /\ WorldInv
  BY DEF FcodexInd, MachineInv
<1>2. \A k \in Keys : reqs[k] = NoRequest
                       \/ reqs[k] \in [tok : 1..MaxRequests, method : Methods, t : AllThreads,
                                       revoked : BOOLEAN, epoch : 0..MaxEpochs]
  BY <1>1 DEF RequestInv, Request, Tokens
<1>3. job.conn \in Connections \cup {NoConn} /\ job.todo \subseteq Keys
  BY <1>1 DEF JobInv
<1>4. /\ cgen \in [Connections -> Nat] /\ pgen \in [Participants -> Nat]
      /\ timers \subseteq [who : Connections \cup Participants, gen : Nat, stale : BOOLEAN]
  <2>1. /\ lseq \in Nat /\ cgen \in [Connections -> 0..lseq] /\ pgen \in [Participants -> 0..lseq]
        /\ timers \subseteq [who : Connections \cup Participants, gen : 1..lseq, stale : BOOLEAN]
    BY <1>1 DEF EndpointInv
  <2>2. 0..lseq \subseteq Nat /\ 1..lseq \subseteq Nat
    BY <2>1
  <2> QED
    BY <2>1, <2>2
<1>5. /\ pstate \in [Participants -> {"none", "connected", "grace", "orphaned"}]
      /\ live \subseteq Connections
      /\ lseq \in Nat
  BY <1>1 DEF EndpointInv
<1>6. /\ connSrc \subseteq Connections \X AllThreads
      /\ unkSrc \subseteq Pairs
      /\ pending \subseteq [key : Keys, tok : 1..MaxRequests, t : AllThreads]
      /\ staged \subseteq Keys
      /\ cleanup \in [AllThreads -> SUBSET Participants]
  BY <1>1 DEF SourceTypes, Tokens
<1>7. /\ pres \in [Pairs -> {"absent", "confirmed", "unknown"}]
      /\ store \subseteq Pairs /\ fails \in 0..MaxFailures
  BY <1>1 DEF MachineTypes
<1>8. /\ seq \in 0..MaxRequests /\ attempts \subseteq 1..MaxRequests
      /\ px \in [Connections -> {"idle", "open", "quarantined", "closed"}]
  BY <1>1 DEF RequestInv, Tokens, WorldInv
<1> QED
  BY <1>2, <1>3, <1>4, <1>5, <1>6, <1>7, <1>8 DEF FcodexTypeOK

LEMMA SubscriptionsHeld ==
  ASSUME FcodexInd
  PROVE  SubscriptionsAreCovered
<1>1. /\ CoverInv /\ SourcesAreHeld /\ SourcesFit /\ SourceTypes
      /\ sub \subseteq Connections \X AllThreads
  BY DEF FcodexInd, MachineInv, WorldInv
<1>2. SUFFICES ASSUME NEW s \in sub \ loose, s[1] \in live
               PROVE  <<Owner[s[1]], s[2]>> \in store
  BY DEF SubscriptionsAreCovered
<1>3. s[1] \in Connections /\ s[2] \in AllThreads /\ s = <<s[1], s[2]>>
  BY <1>1
<1> DEFINE w == <<Owner[s[1]], s[2]>>
<1>4. w \in Pairs /\ w[1] = Owner[s[1]] /\ w[2] = s[2]
  BY <1>3, OwnerAssumption DEF Pairs
<1>5. Sourced(s)
  BY <1>1, <1>2 DEF CoverInv
<1>6. \A q \in pending : q.key \in Keys
  BY <1>1 DEF SourceTypes
<1> HIDE DEF w
<1>7. HasSource(w, connSrc, unkSrc, pending)
  <2>1. CASE s \in connSrc
    BY <1>3, <1>4, <2>1 DEF HasSource
  <2>2. CASE <<Owner[s[1]], s[2]>> \in unkSrc
    BY <2>2 DEF HasSource, w
  <2>3. CASE \E q \in pending : q.key[1] = s[1] /\ q.t = s[2]
    BY <1>4, <2>3 DEF HasSource
  <2> QED
    BY <1>5, <2>1, <2>2, <2>3 DEF Sourced
<1> QED
  BY <1>1, <1>4, <1>7 DEF SourcesAreHeld, w

LEMMA ParticipantParts ==
  ASSUME FcodexInd
  PROVE  ParticipantInvariant
<1>1. FcodexTypeOK /\ SubscriptionsAreCovered
  BY FcodexTypes, SubscriptionsHeld
<1>2. SourcesAreHeld /\ RetiredIsEmpty
  BY DEF FcodexInd, MachineInv
<1>3. HoldersAreTracked
  BY DEF FcodexInd, MachineInv, MachineTypes, Honest, HoldersAreTracked
<1>4. PendingMatchesRequests
  <2>1. SourcesFit /\ \A s \in pending : s.key \in Keys
    BY DEF FcodexInd, SourceTypes
  <2>2. \A k \in staged : PendingOf(k) = {}
    BY <2>1 DEF SourcesFit
  <2>3. \A k \in Keys : reqs[k] # NoRequest /\ reqs[k].method = "resume" =>
          (PendingOf(k) # {}) # (k \in staged)
    BY <2>1, <2>2 DEF SourcesFit, IsRequest
  <2>4. \A s \in pending : reqs[s.key].tok = s.tok
    BY <2>1 DEF SourcesFit
  <2> QED
    BY <2>3, <2>4 DEF PendingMatchesRequests
<1> QED
  BY <1>1, <1>2, <1>3, <1>4 DEF ParticipantInvariant

LEMMA FcodexInvariant == FcodexSpec => []FcodexInd
<1>1. FcodexInit => FcodexInd
  BY InitFcodexInd
<1>2. FcodexInd /\ [FcodexNext]_fcodexVars => FcodexInd'
  BY FcodexIndStep
<1> QED
  BY <1>1, <1>2, PTL DEF FcodexSpec

\* However calls fail before or after their effect, whatever answers are late
\* or lost, and through disconnects, expiries and resets of the backend, every
\* reason to keep a thread live for an fcodex participant is backed by a
\* holder that the service still tracks (participant_runtime_registry.py).
THEOREM ParticipantSafety == FcodexSpec => []ParticipantInvariant
<1>1. FcodexInd => ParticipantInvariant
  BY ParticipantParts
<1> QED
  BY <1>1, FcodexInvariant, PTL

-----------------------------------------------------------------------------
(* What no step does.                                                       *)

StaleInert == \A tm \in timers : tm.stale /\ tm \notin timers' => live' = live /\ pstate' = pstate

CommitsInEpoch ==
  \A k \in DOMAIN reqs : reqs[k] # NoRequest /\ reqs[k].method = "start" /\ reqs'[k] = NoRequest
      /\ <<k[1], reqs[k].t>> \in connSrc' \ connSrc => reqs[k].epoch = backend

\* Timers that stay are not at issue.
LEMMA MarkedTimersStay ==
  ASSUME EndpointInv, NEW W, NEW tm \in timers, tm.stale
  PROVE  tm \in MarkStale(timers, W)
<1>1. tm \in [who : Connections \cup Participants, gen : 1..lseq, stale : BOOLEAN]
  BY DEF EndpointInv
<1>2. [tm EXCEPT !.stale = TRUE] = tm
  BY <1>1
<1> QED
  BY <1>2 DEF MarkStale

LEMMA StaleStep ==
  ASSUME FcodexInd, [FcodexNext]_fcodexVars
  PROVE  StaleInert
<1>1. EndpointInv /\ \A p \in Participants : p \notin Connections
  BY NamesAssumption DEF FcodexInd
<1>2. ASSUME NEW c \in Connections, Connect(c) \/ Heartbeat(c)
      PROVE  StaleInert
  <2>1. timers' = timers \/ \E n, W : Touch(c, n, W)
    BY <1>2 DEF Connect, Heartbeat
  <2> QED
    BY <1>1, <2>1, MarkedTimersStay DEF StaleInert, Touch
<1>3. ASSUME NEW c \in Connections, CloseProxy(c)
      PROVE  StaleInert
  BY <1>3 DEF CloseProxy, ParticipantDisconnects, DropEndpoint, endpoints, StaleInert
<1>4. ASSUME NEW tm \in timers, ExpireConnection(tm)
      PROVE  StaleInert
  <2>1. CASE tm.who \in live /\ cgen[tm.who] = tm.gen /\ DropEndpoint(tm.who, timers \ {tm})
    <3>1. timers \ {tm} \subseteq timers'
      BY <2>1 DEF DropEndpoint
    <3>2. ~tm.stale
      BY <1>1, <1>4, <2>1 DEF EndpointInv, ExpireConnection
    <3> QED
      BY <3>1, <3>2 DEF StaleInert
  <2>2. CASE UNCHANGED <<pstate, live>>
    BY <2>2 DEF StaleInert
  <2> QED
    BY <1>4, <2>1, <2>2 DEF ExpireConnection
<1>5. ASSUME NEW tm \in timers, ExpireParticipant(tm)
      PROVE  StaleInert
  <2>1. timers' = timers \ {tm} /\ live' = live /\ tm.who \in Participants
    BY <1>5 DEF ExpireParticipant
  <2>2. tm.stale => pstate' = pstate
    BY <1>1, <1>5 DEF ExpireParticipant, EndpointInv
  <2> QED
    BY <2>1, <2>2 DEF StaleInert
<1>6. ASSUME NEW c \in Connections, DeliverResponse(c) \/ DeliverTimesOut(c) \/ DeliverGone(c)
      PROVE  StaleInert
  BY <1>6 DEF DeliverResponse, DeliverTimesOut, DeliverGone, endpoints, StaleInert
<1>7. ASSUME NEW k \in Keys, NEW t \in AllThreads,
             AdmitResume(k, t) \/ AdmitUnsubscribe(k, t) \/ AdmitStart(k, t)
      PROVE  StaleInert
  BY <1>7 DEF AdmitResume, AdmitUnsubscribe, AdmitStart, endpoints, StaleInert
<1>8. CASE \/ \E f \in late : LateResponse(f)
           \/ \E k \in Keys : LostRequest(k)
           \/ \E t \in AllThreads : ThreadGone(t)
           \/ FinishDisconnect \/ RetryCleanups \/ BackendDisconnected \/ BackendEpochCloses
           \/ UNCHANGED fcodexVars
  <2>1. timers' = timers
    BY <1>8 DEF LateResponse, LostRequest, ThreadGone, FinishDisconnect, RetryCleanups,
                BackendDisconnected, BackendEpochCloses, endpoints, fcodexVars
  <2> QED
    BY <2>1 DEF StaleInert
<1> QED
  BY <1>2, <1>3, <1>4, <1>5, <1>6, <1>7, <1>8 DEF FcodexNext

LEMMA OutcomeCommits ==
  ASSUME RequestInv, NEW j \in Keys, NEW t, NEW out,
         \/ Ignored \/ ResumeKept(j) \/ ResumeRefused(j) \/ TakenBack(j, out) \/ CreateConsumed(j, t)
         \/ UNCHANGED connSrc
  PROVE  CommitsInEpoch
<1>1. SUFFICES ASSUME NEW k \in Keys, IsRequest(k, "start"), reqs'[k] = NoRequest,
                      <<k[1], reqs[k].t>> \in connSrc' \ connSrc
               PROVE  reqs[k].epoch = backend
  BY DEF CommitsInEpoch, IsRequest, RequestInv
<1>2. ResumeKept(j) \/ CreateConsumed(j, t)
  BY <1>1 DEF Ignored, ResumeRefused, TakenBack
<1>3. reqs' = [reqs EXCEPT ![j] = NoRequest]
  BY <1>2 DEF ResumeKept, CreateConsumed, Settled, Drop
<1>4. k = j
  BY <1>1, <1>3 DEF RequestInv, IsRequest
<1>5. CreateConsumed(k, t)
  BY <1>1, <1>2, <1>4 DEF ResumeKept, IsRequest
<1> QED
  BY <1>1, <1>5 DEF CreateConsumed, RequestInv

LEMMA CommitStep ==
  ASSUME FcodexInd, [FcodexNext]_fcodexVars
  PROVE  CommitsInEpoch
<1>1. WorldInv /\ AnswerInv /\ RequestInv /\ SourcesFit /\ JobInv
  BY DEF FcodexInd
<1>2. ASSUME NEW f \in Response, ClientResponse(f)
      PROVE  CommitsInEpoch
  BY <1>1, <1>2, ClientResponseShape, ResponseFields, OutcomeCommits
<1>3. ASSUME NEW c \in Connections, DeliverResponse(c)
      PROVE  CommitsInEpoch
  <2>1. ClientResponse(Head(wire[c])) /\ wire[c] # <<>> /\ Head(wire[c]).kind = "response"
    BY <1>3 DEF DeliverResponse
  <2> QED
    BY <1>1, <1>2, <2>1, HeadIsNotStaged
<1>4. ASSUME NEW f \in late, LateResponse(f)
      PROVE  CommitsInEpoch
  BY <1>1, <1>2, <1>4 DEF LateResponse, WorldInv
<1>5. ASSUME NEW k \in Keys, LostRequest(k)
      PROVE  CommitsInEpoch
  BY <1>1, <1>5, LostRequestShape, OutcomeCommits
<1>6. CASE connSrc' \subseteq connSrc
  BY <1>6 DEF CommitsInEpoch
<1>7. ASSUME NEW c \in Connections,
             Connect(c) \/ Heartbeat(c) \/ DeliverTimesOut(c) \/ DeliverGone(c) \/ CloseProxy(c)
      PROVE  connSrc' \subseteq connSrc
  BY <1>7 DEF Connect, Heartbeat, DeliverTimesOut, DeliverGone, SourcesAfterGone, CloseProxy,
              ParticipantDisconnects, DropEndpoint, sources
<1>8. ASSUME NEW tm \in timers, ExpireConnection(tm) \/ ExpireParticipant(tm)
      PROVE  connSrc' \subseteq connSrc
  BY <1>8 DEF ExpireConnection, ExpireParticipant, DropEndpoint, sources
<1>9. ASSUME NEW k \in Keys, NEW t \in AllThreads,
             AdmitResume(k, t) \/ AdmitUnsubscribe(k, t) \/ AdmitStart(k, t)
      PROVE  connSrc' \subseteq connSrc
  BY <1>9 DEF AdmitResume, AdmitUnsubscribe, AdmitStart, sources
<1>10. CASE \/ \E t \in AllThreads : ThreadGone(t)
            \/ FinishDisconnect \/ RetryCleanups \/ BackendDisconnected \/ BackendEpochCloses
            \/ UNCHANGED fcodexVars
  <2>1. connSrc' \subseteq connSrc
    BY <1>10 DEF ThreadGone, FinishDisconnect, RetryCleanups, BackendDisconnected, BackendEpochCloses,
                 sources, fcodexVars
  <2> QED
    BY <1>6, <2>1
<1> QED
  BY <1>3, <1>4, <1>5, <1>6, <1>7, <1>8, <1>9, <1>10 DEF FcodexNext

\* A liveness timer that is no longer current disconnects and orphans nobody,
\* and a create is committed only in the backend connection that issued its
\* capability (expire_connection, expire_participant, settle_client_response).
THEOREM ParticipantStepsAreSafe == FcodexSpec => ParticipantSteps
<1>1. FcodexInd /\ [FcodexNext]_fcodexVars => [StaleInert]_fcodexVars
  BY StaleStep
<1>2. FcodexInd /\ [FcodexNext]_fcodexVars => [CommitsInEpoch]_fcodexVars
  BY CommitStep
<1>3. FcodexSpec => [][StaleInert]_fcodexVars
  BY <1>1, FcodexInvariant, PTL DEF FcodexSpec
<1>4. FcodexSpec => [][CommitsInEpoch]_fcodexVars
  BY <1>2, FcodexInvariant, PTL DEF FcodexSpec
<1> QED
  BY <1>3, <1>4 DEF ParticipantSteps, StaleTimersAreInert, CreateCommitsInItsEpoch, StaleInert, CommitsInEpoch
=============================================================================
