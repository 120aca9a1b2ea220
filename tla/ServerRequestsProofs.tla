------------------------ MODULE ServerRequestsProofs ------------------------
(***************************************************************************)
(* Proofs about server requests, for every number of requests, proxies,    *)
(* connections and frames: RequestInvariant.                               *)
(*                                                                         *)
(* At most one answer is written for a request in a connection epoch       *)
(* because an answer is only admitted while nothing of that epoch was      *)
(* written or granted for it (Unanswered), and because an epoch, once      *)
(* retired, is never opened again: the loss of a connection is queued      *)
(* before everything its successor delivers (LossComesFirst), so that all  *)
(* that was done belongs to the open epoch or to a lost connection         *)
(* (HistoryIsPast).                                                        *)
(***************************************************************************)
EXTENDS ServerRequests, FiniteSetTheorems, SequenceTheorems, TLAPS

Item == [k : {"req", "resolved", "turn", "disc", "due"}, r : Req \cup {None}, g : Nat]

\* What is queued: timers name a request and a schedule, everything else a
\* connection the service has had.
QueueIsSane ==
  /\ queue \in Seq(Item)
  /\ \A k \in DOMAIN queue : /\ queue[k].k \in {"req", "resolved", "due"} => queue[k].r \in Req
                             /\ queue[k].k # "due" => queue[k].g \in 1..lastGen
  /\ lastGen \in Gen /\ conn \in {0, lastGen} /\ epoch \in 0..lastGen

\* Every timer generation was a frame before.
Requests(q) == {k \in DOMAIN q : q[k].k = "req"}
TimersAreFrames == Cardinality(Requests(queue)) + timerNo <= frameNo

LossComesFirst ==
  /\ epoch \notin {0, conn} => \E k \in DOMAIN queue : queue[k].k = "disc"
  /\ conn # 0 => \A k \in DOMAIN queue :
       queue[k].k = "disc" => /\ epoch # conn
                              /\ \A j \in 1..k : queue[j].k # "due" => queue[j].g # conn

\* Nothing was written for the request in epoch g, and no proxy may write.
Untouched(r, g) == wrote[<<r, g>>] = 0 /\ \A x \in grants : ~(x.r = r /\ x.g = g)

HistoryIsPast ==
  \A r \in Req, g \in Gen :
    ~Untouched(r, g) \/ <<r, g>> \in settled => g <= lastGen /\ (conn = g => epoch = g)

RegistryIsSane ==
  \A r \in Req :
    /\ pend[r] # 0 => r \notin resolved
    /\ pend[r] = 0 => phase[r] = "pending"
    /\ epoch # 0 /\ <<r, epoch>> \in settled => r \in resolved

Unanswered ==
  \A r \in Req : epoch # 0 /\ r \notin resolved /\ phase[r] = "pending" => Untouched(r, epoch)

LoopOwnsAnswer ==
  busy # None => /\ pend[busy.r] = busy.g /\ phase[busy.r] = "processing"
                 /\ Untouched(busy.r, busy.g)

OneGrant ==
  /\ \A x \in grants : x.sent = "no" => wrote[<<x.r, x.g>>] = 0
  /\ \A x, y \in grants : x.r = y.r /\ x.g = y.g => x = y

\* The registry, its answers and the records of the surfaces.
RegistryTypes ==
  /\ epoch \in 0..MaxGen /\ pend \in [Req -> 0..MaxGen]
  /\ phase \in [Req -> Status \cup {"processing"}]
  /\ revoked \subseteq Req /\ lost \subseteq Req /\ resolved \subseteq Req
  /\ timer \in [Req -> Nat] /\ timerNo \in 0..MaxFrame
  /\ web \in [Req -> {None} \cup WebRecords] /\ fc \in [Req -> {None} \cup FcRecords]
  /\ fs \in [Req -> {None} \cup FsRecords] /\ busy \in {None} \cup Responses
  /\ grants \subseteq [p : Proxy, r : Req, g : Gen, sent : {"no", "submitted", "unknown"}]
  /\ attached \subseteq Proxy /\ webLive \in BOOLEAN
  /\ wrote \in [Req \X Gen -> Nat] /\ settled \subseteq Req \X Gen

Answering ==
  /\ RegistryIsSane
  /\ Unanswered
  /\ LoopOwnsAnswer
  /\ OneGrant
  /\ OneAnswerPerEpoch
  /\ ProcessingHasOwner

Registry == RegistryTypes /\ Answering /\ RevokedStaysHidden /\ ProjectionsAreCurrent

\* The app-server, the connections and the queue.
ConnectionTypes ==
  /\ up \in [Req -> {"none", "pending", "gone"}]
  /\ frames \subseteq Proxy \X Req /\ answers \subseteq Req /\ news \subseteq Proxy \X Req
  /\ auth \subseteq Req \X Gen /\ frameNo \in 0..MaxFrame

Connections == ConnectionTypes /\ QueueIsSane /\ TimersAreFrames /\ LossComesFirst

RequestInd == Registry /\ Connections /\ HistoryIsPast

-----------------------------------------------------------------------------
(* The queue of the RuntimeLoop.                                            *)

LEMMA AppendedQueue ==
  ASSUME NEW q \in Seq(Item), NEW e \in Item
  PROVE  /\ Append(q, e) \in Seq(Item)
         /\ Len(q) \in Nat /\ DOMAIN q = 1..Len(q)
         /\ DOMAIN Append(q, e) = 1..(Len(q) + 1)
         /\ \A k \in 1..Len(q) : Append(q, e)[k] = q[k]
         /\ Append(q, e)[Len(q) + 1] = e
  OBVIOUS

LEMMA RestOfQueue ==
  ASSUME NEW q \in Seq(Item), q # <<>>
  PROVE  /\ Tail(q) \in Seq(Item) /\ Head(q) = q[1] /\ Head(q) \in Item
         /\ Len(q) \in Nat \ {0} /\ DOMAIN q = 1..Len(q)
         /\ DOMAIN Tail(q) = 1..(Len(q) - 1)
         /\ \A k \in 1..(Len(q) - 1) : Tail(q)[k] = q[k + 1]
  OBVIOUS

LEMMA RequestsFinite ==
  ASSUME NEW q \in Seq(Item)
  PROVE  IsFiniteSet(Requests(q)) /\ Cardinality(Requests(q)) \in Nat
<1>1. Requests(q) \subseteq 1..Len(q) BY DEF Requests
<1>2. IsFiniteSet(1..Len(q)) BY FS_Interval
<1> QED BY <1>1, <1>2, FS_Subset, FS_CardinalityType

\* One more frame is queued at most.
LEMMA RequestsAppended ==
  ASSUME NEW q \in Seq(Item), NEW e \in Item
  PROVE  Cardinality(Requests(Append(q, e)))
           <= Cardinality(Requests(q)) + (IF e.k = "req" THEN 1 ELSE 0)
<1>1. Requests(Append(q, e)) = Requests(q) \cup (IF e.k = "req" THEN {Len(q) + 1} ELSE {})
  BY AppendedQueue DEF Requests
<1>2. IsFiniteSet(Requests(q)) /\ Cardinality(Requests(q)) \in Nat BY RequestsFinite
<1>3. Cardinality(Requests(q) \cup {Len(q) + 1}) <= Cardinality(Requests(q)) + 1
  <2>1. \A x : Cardinality(Requests(q) \cup {x}) =
                 IF x \in Requests(q) THEN Cardinality(Requests(q)) ELSE Cardinality(Requests(q)) + 1
    BY <1>2, FS_AddElement
  <2>2. \/ Cardinality(Requests(q) \cup {Len(q) + 1}) = Cardinality(Requests(q))
        \/ Cardinality(Requests(q) \cup {Len(q) + 1}) = Cardinality(Requests(q)) + 1
    BY <2>1, Zenon
  <2> QED BY <1>2, <2>2
<1>4. CASE e.k = "req" BY <1>1, <1>3, <1>4
<1>5. CASE e.k # "req" BY <1>1, <1>2, <1>5
<1> QED BY <1>4, <1>5

\* A frame that is handled is queued no more.
LEMMA RequestsRest ==
  ASSUME NEW q \in Seq(Item), q # <<>>
  PROVE  Cardinality(Requests(Tail(q))) + (IF Head(q).k = "req" THEN 1 ELSE 0)
           <= Cardinality(Requests(q))
<1> DEFINE T == Requests(Tail(q))
           S == {k \in Requests(q) : k # 1}
           f == [k \in T |-> k + 1]
<1>1. /\ IsFiniteSet(T) /\ Cardinality(T) \in Nat
      /\ IsFiniteSet(Requests(q)) /\ Cardinality(Requests(q)) \in Nat
  BY RequestsFinite, RestOfQueue
<1>2. T \subseteq Nat BY RestOfQueue DEF Requests
<1>3. \A k \in T : k + 1 \in S BY RestOfQueue DEF Requests
<1>4. f \in Injection(T, S) BY <1>2, <1>3 DEF Injection, IsInjective
<1>5. IsFiniteSet(S) /\ Cardinality(S) \in Nat /\ S \subseteq Requests(q)
  BY <1>1, FS_Subset, FS_CardinalityType
<1>6. Cardinality(T) <= Cardinality(S) BY <1>1, <1>4, <1>5, FS_Injection
<1>7. CASE Head(q).k = "req"
  <2>1. 1 \in Requests(q) BY <1>7, RestOfQueue DEF Requests
  <2>2. S = Requests(q) \ {1} OBVIOUS
  <2>3. Cardinality(S) = Cardinality(Requests(q)) - 1 BY <1>1, <2>1, <2>2, FS_RemoveElement
  <2> QED BY <1>1, <1>5, <1>6, <1>7, <2>3
<1>8. CASE Head(q).k # "req"
  <2>1. Cardinality(S) <= Cardinality(Requests(q)) BY <1>1, <1>5, FS_Subset
  <2> QED BY <1>1, <1>5, <1>6, <1>8, <2>1
<1> QED BY <1>7, <1>8

\* An event of the live connection, its loss or a due timer is queued.
LEMMA EventQueued ==
  ASSUME QueueIsSane, LossComesFirst, NEW e \in Item,
         e.k \in {"req", "resolved", "due"} => e.r \in Req,
         e.k # "due" => conn # 0 /\ e.g = conn,
         queue' = Append(queue, e), epoch' = epoch, lastGen' = lastGen,
         conn' = IF e.k = "disc" THEN 0 ELSE conn
  PROVE  QueueIsSane' /\ LossComesFirst'
<1> USE ServerRequestsAssumption DEF Gen
<1>1. /\ queue' \in Seq(Item) /\ Len(queue) \in Nat /\ DOMAIN queue = 1..Len(queue)
      /\ DOMAIN queue' = 1..(Len(queue) + 1)
      /\ \A k \in 1..Len(queue) : queue'[k] = queue[k]
      /\ queue'[Len(queue) + 1] = e
  BY AppendedQueue DEF QueueIsSane
<1>2. lastGen \in Nat \ {0} /\ conn \in {0, lastGen} BY DEF QueueIsSane
<1>3. QueueIsSane'
  <2>1. \A k \in 1..Len(queue) + 1 : k \in 1..Len(queue) \/ k = Len(queue) + 1 BY <1>1
  <2>2. \A k \in DOMAIN queue' : /\ queue'[k].k \in {"req", "resolved", "due"} => queue'[k].r \in Req
                                 /\ queue'[k].k # "due" => queue'[k].g \in 1..lastGen
    <3> TAKE k \in DOMAIN queue'
    <3>1. CASE k \in 1..Len(queue) BY <1>1, <3>1 DEF QueueIsSane
    <3>2. CASE k = Len(queue) + 1 BY <1>1, <1>2, <3>2
    <3> QED BY <1>1, <2>1, <3>1, <3>2
  <2> QED BY <1>1, <1>2, <2>2 DEF QueueIsSane
<1>4. LossComesFirst'
  <2>1. epoch' \notin {0, conn'} => \E k \in DOMAIN queue' : queue'[k].k = "disc"
    <3>1. CASE e.k = "disc" BY <1>1, <3>1
    <3>2. CASE e.k # "disc"
      <4> SUFFICES ASSUME epoch \notin {0, conn} PROVE \E k \in DOMAIN queue' : queue'[k].k = "disc"
        BY <3>2
      <4>1. PICK k \in DOMAIN queue : queue[k].k = "disc" BY DEF LossComesFirst
      <4> QED BY <1>1, <4>1
    <3> QED BY <3>1, <3>2
  <2>2. ASSUME conn' # 0, NEW k \in DOMAIN queue', queue'[k].k = "disc"
        PROVE  epoch' # conn' /\ \A j \in 1..k : queue'[j].k # "due" => queue'[j].g # conn'
    <3>1. e.k # "disc" /\ conn' = conn BY <2>2
    <3>2. k \in 1..Len(queue) BY <1>1, <2>2, <3>1
    <3>3. \A j \in 1..k : j \in 1..Len(queue) BY <1>1, <3>2
    <3> QED BY <1>1, <2>2, <3>1, <3>2, <3>3 DEF LossComesFirst
  <2> QED BY <2>1, <2>2 DEF LossComesFirst
<1> QED BY <1>3, <1>4

\* An event of the live connection finds its epoch open, or none.
LEMMA LiveEvent ==
  ASSUME QueueIsSane, LossComesFirst, queue # <<>>,
         Head(queue).k \in {"req", "resolved", "turn"}, Head(queue).g = conn
  PROVE  conn # 0 /\ conn \in Gen /\ epoch \in {0, conn}
<1> USE ServerRequestsAssumption DEF Gen
<1>1. /\ Head(queue) = queue[1] /\ Len(queue) \in Nat \ {0} /\ DOMAIN queue = 1..Len(queue)
  BY RestOfQueue DEF QueueIsSane
<1>2. conn # 0 /\ conn \in Gen BY <1>1 DEF QueueIsSane
<1>3. \A k \in DOMAIN queue : queue[k].k # "disc" BY <1>1, <1>2 DEF LossComesFirst
<1> QED BY <1>2, <1>3 DEF LossComesFirst

\* The first event is handled: a loss closes the epoch, an event of the live
\* connection opens its epoch, any other leaves it.
LEMMA EventTaken ==
  ASSUME QueueIsSane, LossComesFirst, queue # <<>>, queue' = Tail(queue),
         conn' = conn, lastGen' = lastGen,
         \/ Head(queue).k = "disc" /\ epoch' = 0
         \/ Head(queue).k # "disc" /\ epoch' = epoch
         \/ Head(queue).k \in {"req", "resolved", "turn"} /\ Head(queue).g = conn /\ epoch' = conn
  PROVE  /\ QueueIsSane' /\ LossComesFirst'
         /\ Head(queue).k = "disc" => (conn # 0 => epoch # conn)
<1> USE ServerRequestsAssumption DEF Gen
<1>1. /\ queue' \in Seq(Item) /\ Head(queue) = queue[1]
      /\ Len(queue) \in Nat \ {0} /\ DOMAIN queue = 1..Len(queue)
      /\ DOMAIN queue' = 1..(Len(queue) - 1)
      /\ \A k \in 1..(Len(queue) - 1) : queue'[k] = queue[k + 1]
  BY RestOfQueue DEF QueueIsSane
<1>2. \A k \in 1..(Len(queue) - 1) : k + 1 \in 1..Len(queue) BY <1>1
<1>3. QueueIsSane'
  <2>1. epoch' \in 0..lastGen' BY DEF QueueIsSane
  <2> QED BY <1>1, <1>2, <2>1 DEF QueueIsSane
<1>4. epoch' \notin {0, conn'} => \E k \in DOMAIN queue' : queue'[k].k = "disc"
  <2> SUFFICES ASSUME epoch' \notin {0, conn'} PROVE \E k \in DOMAIN queue' : queue'[k].k = "disc"
    OBVIOUS
  <2>1. Head(queue).k # "disc" /\ epoch' = epoch OBVIOUS
  <2>2. PICK k \in DOMAIN queue : queue[k].k = "disc" BY <2>1 DEF LossComesFirst
  <2>3. k # 1 BY <1>1, <2>1, <2>2
  <2>4. k - 1 \in DOMAIN queue' /\ queue'[k - 1] = queue[k] BY <1>1, <2>2, <2>3
  <2> QED BY <2>2, <2>4
<1>5. ASSUME conn' # 0, NEW k \in DOMAIN queue', queue'[k].k = "disc"
      PROVE  epoch' # conn' /\ \A j \in 1..k : queue'[j].k # "due" => queue'[j].g # conn'
  <2>1. k + 1 \in DOMAIN queue /\ queue[k + 1].k = "disc" BY <1>1, <1>2, <1>5
  <2>2. epoch # conn /\ \A j \in 1..(k + 1) : queue[j].k # "due" => queue[j].g # conn
    BY <1>5, <2>1 DEF LossComesFirst
  <2>3. \A j \in 1..k : j + 1 \in 1..(k + 1) /\ queue'[j] = queue[j + 1] BY <1>1, <1>5
  <2>4. ~(Head(queue).k # "due" /\ Head(queue).g = conn) BY <1>1, <1>5, <2>2
  <2>5. epoch' # conn' BY <1>5, <2>2, <2>4
  <2> QED BY <2>2, <2>3, <2>5
<1>6. Head(queue).k = "disc" => (conn # 0 => epoch # conn) BY <1>1 DEF LossComesFirst
<1> QED BY <1>3, <1>4, <1>5, <1>6 DEF LossComesFirst

-----------------------------------------------------------------------------
(* History, and the answers of the registry.                                *)

\* What is done is done in the open epoch; what was done stays in the past.
LEMMA HistoryKept ==
  ASSUME HistoryIsPast, QueueIsSane, QueueIsSane',
         \A r \in Req, g \in Gen :
           ~Untouched(r, g)' \/ <<r, g>> \in settled' =>
             ~Untouched(r, g) \/ <<r, g>> \in settled \/ g = epoch',
         \/ lastGen' = lastGen /\ conn' \in {0, conn}
         \/ lastGen' = lastGen + 1 /\ conn' = lastGen',
         \/ epoch' = epoch
         \/ epoch' = 0 /\ conn' = conn /\ (conn # 0 => epoch # conn)
         \/ epoch' = conn' /\ conn' = conn
  PROVE  HistoryIsPast'
<1> USE ServerRequestsAssumption DEF Gen
<1> SUFFICES ASSUME NEW r \in Req, NEW g \in Gen, ~Untouched(r, g)' \/ <<r, g>> \in settled'
             PROVE  g <= lastGen' /\ (conn' = g => epoch' = g)
  BY DEF HistoryIsPast, Untouched
<1>1. CASE g = epoch' BY <1>1 DEF QueueIsSane
<1>2. CASE ~Untouched(r, g) \/ <<r, g>> \in settled
  <2>1. g <= lastGen /\ (conn = g => epoch = g) BY <1>2 DEF HistoryIsPast
  <2> QED BY <2>1 DEF QueueIsSane
<1> QED BY <1>1, <1>2

\* The epoch of the live connection, when it is opened or open.
LEMMA EpochFacts ==
  ASSUME Registry, HistoryIsPast, conn \in Gen, epoch \in {0, conn}
  PROVE  \A r \in Req :
           /\ r \notin resolved /\ phase[r] = "pending" => Untouched(r, conn)
           /\ <<r, conn>> \in settled => r \in resolved
           /\ pend[r] # 0 => epoch = conn /\ pend[r] = conn
<1> TAKE r \in Req
<1>1. conn # 0 BY ServerRequestsAssumption DEF Gen
<1>2. pend[r] # 0 => epoch = conn /\ pend[r] = conn
  BY <1>1 DEF Registry, ProjectionsAreCurrent
<1>3. CASE epoch = conn
  BY <1>1, <1>2, <1>3 DEF Registry, Answering, RegistryIsSane, Unanswered
<1>4. CASE epoch = 0
  BY <1>1, <1>2, <1>4 DEF HistoryIsPast
<1> QED BY <1>3, <1>4

\* Records of other requests than those being answered may change.
LEMMA AnsweringKept ==
  ASSUME RegistryTypes, Answering,
         UNCHANGED <<epoch, pend, phase, resolved, settled, grants, wrote, busy, attached>>,
         \A r \in Req : phase[r] = "processing" => fc'[r] = fc[r]
  PROVE  Answering'
<1>1. RegistryIsSane' BY DEF Answering, RegistryIsSane
<1>2. Unanswered' BY DEF Answering, Unanswered, Untouched
<1>3. LoopOwnsAnswer' BY DEF Answering, LoopOwnsAnswer, Untouched
<1>4. OneGrant' BY DEF Answering, OneGrant
<1>5. OneAnswerPerEpoch' BY DEF Answering, OneAnswerPerEpoch
<1>6. ProcessingHasOwner' BY DEF Answering, ProcessingHasOwner
<1> QED BY <1>1, <1>2, <1>3, <1>4, <1>5, <1>6 DEF Answering

\* An answer is admitted: nobody else has one under way, and nothing was
\* written in this epoch.
LEMMA AnswerBegins ==
  ASSUME Registry, Idle, NEW r \in Req, NEW g \in Gen, NEW revoke \in BOOLEAN,
         NEW surface \in {"web", "feishu", "fcodex"}, Admits(r, g),
         BeginResponse(r, g, surface, revoke),
         UNCHANGED <<epoch, pend, resolved, settled, grants, wrote, attached>>,
         \A q \in Req : phase[q] = "processing" => fc'[q] = fc[q]
  PROVE  Answering'
<1> USE DEF Registry, Answering
<1>1. /\ phase' = [phase EXCEPT ![r] = "processing"]
      /\ busy' = [r |-> r, g |-> g, by |-> surface, revoke |-> revoke]
      /\ phase[r] = "pending" /\ pend[r] = g /\ g # 0
  BY ServerRequestsAssumption DEF BeginResponse, Admits, Gen
<1>2. \A q \in Req : phase'[q] = IF q = r THEN "processing" ELSE phase[q]
  BY <1>1 DEF RegistryTypes
<1>3. epoch = g /\ r \notin resolved
  BY <1>1 DEF ProjectionsAreCurrent, RegistryIsSane
<1>4. Untouched(r, g) BY <1>1, <1>3 DEF Unanswered
<1>5. RegistryIsSane' BY <1>1, <1>2 DEF RegistryIsSane
<1>6. Unanswered' BY <1>2 DEF Unanswered, Untouched
<1>7. LoopOwnsAnswer' BY <1>1, <1>2, <1>4 DEF LoopOwnsAnswer, Untouched
<1>8. OneGrant' /\ OneAnswerPerEpoch' BY DEF OneGrant, OneAnswerPerEpoch
<1>9. ProcessingHasOwner'
  <2> SUFFICES ASSUME NEW q \in Req, phase'[q] = "processing"
               PROVE \/ busy' # None /\ busy'.r = q /\ busy'.g = pend'[q]
                     \/ fc'[q] # None /\ fc'[q].g = pend'[q] /\ fc'[q].sender \in attached'
    BY DEF ProcessingHasOwner
  <2>1. CASE q = r
    <3>1. busy' # None BY <1>1, NullAssumption DEF Responses
    <3> QED BY <1>1, <2>1, <3>1
  <2>2. CASE q # r
    <3>1. phase[q] = "processing" BY <1>2, <2>2
    <3> QED BY <3>1 DEF ProcessingHasOwner, Idle
  <2> QED BY <2>1, <2>2
<1> QED BY <1>5, <1>6, <1>7, <1>8, <1>9

\* A live frame is registered, unless it was settled before in its epoch.
LEMMA FrameRegistered ==
  ASSUME Registry, HistoryIsPast, Idle, conn \in Gen, epoch \in {0, conn}, NEW r \in Req,
         r \notin resolved, epoch' = conn, pend' = [pend EXCEPT ![r] = conn],
         \/ phase' = phase /\ busy' = busy
         \/ \E revoke \in BOOLEAN :
              phase[r] = "pending" /\ BeginResponse(r, conn, "feishu", revoke),
         UNCHANGED <<resolved, settled, grants, wrote, attached>>,
         \A q \in Req : phase[q] = "processing" => fc'[q] = fc[q]
  PROVE  Answering'
<1> USE DEF Registry, Answering
<1> DEFINE begins == phase' # phase \/ busy' # busy
<1>1. \A q \in Req :
        /\ q \notin resolved /\ phase[q] = "pending" => Untouched(q, conn)
        /\ <<q, conn>> \in settled => q \in resolved
        /\ pend[q] # 0 => epoch = conn /\ pend[q] = conn
  BY EpochFacts
<1>2. conn # 0 BY ServerRequestsAssumption DEF Gen
<1>3. \A q \in Req : pend'[q] = IF q = r THEN conn ELSE pend[q] BY DEF RegistryTypes
<1>4. \A q \in Req : phase[q] = "processing" => pend'[q] = pend[q] /\ pend[q] # 0
  BY <1>1, <1>3 DEF RegistryIsSane
<1>5. OneGrant' /\ OneAnswerPerEpoch' BY DEF OneGrant, OneAnswerPerEpoch
<1>6. CASE phase' = phase /\ busy' = busy
  <2>1. RegistryIsSane' BY <1>1, <1>2, <1>3, <1>6 DEF RegistryIsSane
  <2>2. Unanswered' BY <1>1, <1>6 DEF Unanswered, Untouched
  <2>3. LoopOwnsAnswer' BY <1>6 DEF LoopOwnsAnswer, Idle
  <2>4. ProcessingHasOwner' BY <1>4, <1>6 DEF ProcessingHasOwner, Idle
  <2> QED BY <1>5, <2>1, <2>2, <2>3, <2>4
<1>7. ASSUME NEW revoke \in BOOLEAN, phase[r] = "pending",
             BeginResponse(r, conn, "feishu", revoke)
      PROVE  Answering'
  <2>1. /\ phase' = [phase EXCEPT ![r] = "processing"]
        /\ busy' = [r |-> r, g |-> conn, by |-> "feishu", revoke |-> revoke]
    BY <1>7 DEF BeginResponse
  <2>2. \A q \in Req : phase'[q] = IF q = r THEN "processing" ELSE phase[q]
    BY <2>1 DEF RegistryTypes
  <2>3. busy' # None BY <2>1, NullAssumption DEF Responses
  <2>4. RegistryIsSane'
    <3> SUFFICES ASSUME NEW q \in Req
                 PROVE  /\ pend'[q] # 0 => q \notin resolved
                        /\ pend'[q] = 0 => phase'[q] = "pending"
                        /\ <<q, conn>> \in settled => q \in resolved
      BY DEF RegistryIsSane
    <3>1. CASE q = r BY <1>1, <1>2, <1>3, <3>1
    <3>2. CASE q # r BY <1>1, <1>3, <2>2, <3>2 DEF RegistryIsSane
    <3> QED BY <3>1, <3>2
  <2>5. Unanswered' BY <1>1, <2>2 DEF Unanswered, Untouched
  <2>6. LoopOwnsAnswer' BY <1>1, <1>3, <1>7, <2>1, <2>2 DEF LoopOwnsAnswer, Untouched
  <2>7. ProcessingHasOwner'
    <3> SUFFICES ASSUME NEW q \in Req, phase'[q] = "processing"
                 PROVE \/ busy' # None /\ busy'.r = q /\ busy'.g = pend'[q]
                       \/ fc'[q] # None /\ fc'[q].g = pend'[q] /\ fc'[q].sender \in attached'
      BY DEF ProcessingHasOwner
    <3>1. CASE q = r BY <1>3, <2>1, <2>3, <3>1
    <3>2. CASE q # r BY <1>4, <2>2, <3>2 DEF ProcessingHasOwner, Idle
    <3> QED BY <3>1, <3>2
  <2> QED BY <1>5, <2>4, <2>5, <2>6, <2>7
<1> QED BY <1>6, <1>7

\* The epoch of a live event is opened, and at most a record of a proxy goes.
LEMMA EpochOpened ==
  ASSUME Registry, HistoryIsPast, Idle, conn \in Gen, epoch \in {0, conn}, epoch' = conn,
         UNCHANGED <<pend, phase, revoked, resolved, settled, grants, wrote, busy, attached, web>>,
         \A q \in Req : fc'[q] = fc[q] \/ (fc'[q] = None /\ phase[q] = "pending")
  PROVE  Answering' /\ RevokedStaysHidden' /\ ProjectionsAreCurrent'
<1> USE DEF Registry, Answering
<1>1. \A q \in Req :
        /\ q \notin resolved /\ phase[q] = "pending" => Untouched(q, conn)
        /\ <<q, conn>> \in settled => q \in resolved
        /\ pend[q] # 0 => epoch = conn /\ pend[q] = conn
  BY EpochFacts
<1>2. RegistryIsSane' BY <1>1 DEF RegistryIsSane
<1>3. Unanswered' BY <1>1 DEF Unanswered, Untouched
<1>4. LoopOwnsAnswer' BY DEF LoopOwnsAnswer, Idle
<1>5. OneGrant' /\ OneAnswerPerEpoch' BY DEF OneGrant, OneAnswerPerEpoch
<1>6. ProcessingHasOwner' BY DEF ProcessingHasOwner
<1>7. RevokedStaysHidden' BY DEF RevokedStaysHidden
<1>8. ProjectionsAreCurrent' BY <1>1 DEF ProjectionsAreCurrent
<1> QED BY <1>2, <1>3, <1>4, <1>5, <1>6, <1>7, <1>8

\* Requests are settled in epoch g, which is open or being opened: they are
\* resolved, their projections go, and no answer of this epoch is admitted again.
LEMMA RequestsSettled ==
  ASSUME Registry, Idle, NEW S \in SUBSET Req, NEW g \in Gen, Settle(S, g), epoch' = g,
         \A q \in Req :
           /\ q \notin resolved /\ phase[q] = "pending" => Untouched(q, g)
           /\ <<q, g>> \in settled => q \in resolved
           /\ pend[q] # 0 => pend[q] = g,
         fc' \in [Req -> {None} \cup FcRecords],
         \A q \in Req : /\ q \in S => fc'[q] = None \/ fc'[q].g = 0
                        /\ q \notin S => fc'[q] = fc[q],
         UNCHANGED <<grants, wrote, busy, attached>>
  PROVE  Answering' /\ RevokedStaysHidden' /\ ProjectionsAreCurrent'
<1> USE DEF Registry, Answering
<1>1. /\ pend' = [q \in Req |-> IF q \in S THEN 0 ELSE pend[q]]
      /\ phase' = [q \in Req |-> IF q \in S THEN "pending" ELSE phase[q]]
      /\ revoked' = revoked \ S /\ resolved' = resolved \cup S
      /\ web' = DropOf(web, S)
      /\ settled' = settled \cup {<<q, g>> : q \in S}
  BY DEF Settle
<1>2. \A q \in Req : web'[q] = IF q \in S /\ web[q] # None /\ web[q].g = pend[q]
                               THEN None ELSE web[q]
  BY <1>1 DEF DropOf
<1>3. \A q \in Req : <<q, g>> \in settled' => q \in resolved' BY <1>1
<1>4. RegistryIsSane' BY <1>1, <1>3 DEF RegistryIsSane
<1>5. Unanswered' BY <1>1 DEF Unanswered, Untouched
<1>6. LoopOwnsAnswer' BY DEF LoopOwnsAnswer, Idle
<1>7. OneGrant' /\ OneAnswerPerEpoch' BY DEF OneGrant, OneAnswerPerEpoch
<1>8. ProcessingHasOwner' BY <1>1 DEF ProcessingHasOwner, Idle
<1>9. RevokedStaysHidden' BY <1>1, <1>2 DEF RevokedStaysHidden, RegistryTypes
<1>10. ProjectionsAreCurrent'
  <2> SUFFICES ASSUME NEW q \in Req
               PROVE  /\ web'[q] # None => web'[q].g = pend'[q]
                      /\ fc'[q] # None /\ fc'[q].g # 0 => fc'[q].g = pend'[q]
                      /\ pend'[q] # 0 => pend'[q] = epoch'
    BY DEF ProjectionsAreCurrent
  <2>1. CASE q \in S BY <1>1, <1>2, <2>1 DEF ProjectionsAreCurrent
  <2>2. CASE q \notin S BY <1>1, <1>2, <2>2 DEF ProjectionsAreCurrent
  <2> QED BY <2>1, <2>2
<1> QED BY <1>4, <1>5, <1>6, <1>7, <1>8, <1>9, <1>10

-----------------------------------------------------------------------------
(* The app-server, the connections and the timers queue; the loop rests.    *)

LEMMA LoopRests ==
  ASSUME Registry, UNCHANGED loopVars
  PROVE  Registry'
<1> USE DEF loopVars, regVars, timerVars, webVars, fcVars, histVars
<1>1. RegistryTypes' BY DEF Registry, RegistryTypes
<1>2. Answering' BY AnsweringKept DEF Registry
<1>3. RevokedStaysHidden' BY DEF Registry, RevokedStaysHidden
<1>4. ProjectionsAreCurrent' BY DEF Registry, ProjectionsAreCurrent
<1> QED BY <1>1, <1>2, <1>3, <1>4 DEF Registry

LEMMA HistoryRests ==
  ASSUME HistoryIsPast, QueueIsSane, QueueIsSane', UNCHANGED loopVars,
         \/ lastGen' = lastGen /\ conn' \in {0, conn}
         \/ lastGen' = lastGen + 1 /\ conn' = lastGen'
  PROVE  HistoryIsPast'
<1>1. UNCHANGED <<epoch, wrote, grants, settled>>
  BY DEF loopVars, regVars, fcVars, histVars
<1>2. \A r \in Req, g \in Gen : ~Untouched(r, g)' \/ <<r, g>> \in settled' =>
                                  ~Untouched(r, g) \/ <<r, g>> \in settled
  BY <1>1 DEF Untouched
<1> QED BY <1>1, <1>2, HistoryKept

\* Something is queued, a frame with a number of its own.
LEMMA Queued ==
  ASSUME RequestInd, NEW e \in Item,
         e.k \in {"req", "resolved", "due"} => e.r \in Req,
         e.k # "due" => conn # 0 /\ e.g = conn,
         queue' = Append(queue, e), lastGen' = lastGen,
         conn' = IF e.k = "disc" THEN 0 ELSE conn,
         frameNo' = IF e.k = "req" THEN frameNo + 1 ELSE frameNo,
         ConnectionTypes', UNCHANGED loopVars
  PROVE  RequestInd'
<1>1. UNCHANGED <<epoch, timerNo>> BY DEF loopVars, regVars, timerVars
<1>2. QueueIsSane' /\ LossComesFirst' BY <1>1, EventQueued DEF RequestInd, Connections
<1>3. TimersAreFrames'
  <2>1. queue \in Seq(Item) BY DEF RequestInd, Connections, QueueIsSane
  <2>2. /\ Cardinality(Requests(queue)) \in Nat
        /\ Cardinality(Requests(queue)) + timerNo <= frameNo
        /\ timerNo \in Nat /\ frameNo \in Nat
    BY <2>1, RequestsFinite, ServerRequestsAssumption
       DEF RequestInd, Connections, TimersAreFrames, ConnectionTypes, Registry, RegistryTypes
  <2>3. Append(queue, e) \in Seq(Item) BY <2>1, AppendedQueue
  <2>4. /\ Cardinality(Requests(queue')) <= Cardinality(Requests(queue)) + (IF e.k = "req" THEN 1 ELSE 0)
        /\ Cardinality(Requests(queue')) \in Nat
    BY <2>1, <2>3, RequestsAppended, RequestsFinite
  <2> QED BY <1>1, <2>2, <2>4 DEF TimersAreFrames
<1>4. HistoryIsPast' BY <1>2, HistoryRests DEF RequestInd, Connections
<1>5. Registry' BY LoopRests DEF RequestInd
<1> QED BY <1>2, <1>3, <1>4, <1>5 DEF RequestInd, Connections

\* Nothing is queued.
LEMMA NotQueued ==
  ASSUME RequestInd, UNCHANGED <<queue, lastGen, conn>>, frameNo' \in {frameNo, frameNo + 1},
         ConnectionTypes', UNCHANGED loopVars
  PROVE  RequestInd'
<1>1. UNCHANGED <<epoch, timerNo>> BY DEF loopVars, regVars, timerVars
<1>2. QueueIsSane' /\ LossComesFirst'
  BY <1>1 DEF RequestInd, Connections, QueueIsSane, LossComesFirst
<1>3. TimersAreFrames'
  <2>1. queue \in Seq(Item) BY DEF RequestInd, Connections, QueueIsSane
  <2>2. /\ Cardinality(Requests(queue)) \in Nat
        /\ Cardinality(Requests(queue)) + timerNo <= frameNo
        /\ timerNo \in Nat /\ frameNo \in Nat
    BY <2>1, RequestsFinite, ServerRequestsAssumption
       DEF RequestInd, Connections, TimersAreFrames, ConnectionTypes, Registry, RegistryTypes
  <2>3. Cardinality(Requests(queue'))= Cardinality(Requests(queue)) BY DEF Requests
  <2> QED BY <1>1, <2>2, <2>3 DEF TimersAreFrames
<1>4. HistoryIsPast' BY <1>2, HistoryRests DEF RequestInd, Connections
<1>5. Registry' BY LoopRests DEF RequestInd
<1> QED BY <1>2, <1>3, <1>4, <1>5 DEF RequestInd, Connections

LEMMA LiveConnection ==
  ASSUME RequestInd, conn # 0
  PROVE  /\ conn \in Gen /\ conn \in Nat
         /\ \A k \in {"req", "resolved", "turn", "disc"}, r \in Req \cup {None} :
              [k |-> k, r |-> r, g |-> conn] \in Item
<1>1. conn \in Gen /\ conn \in Nat
  BY ServerRequestsAssumption DEF RequestInd, Connections, QueueIsSane, Gen
<1> QED BY <1>1 DEF Item

LEMMA AskStep ==
  ASSUME RequestInd, NEW r \in Req, Ask(r)
  PROVE  RequestInd'
<1> DEFINE e == [k |-> "req", r |-> r, g |-> conn]
<1>1. ConnectionTypes'
  <2>1. conn # 0 => conn \in Gen BY LiveConnection
  <2> QED BY <2>1, ServerRequestsAssumption
       DEF Ask, ReadRequest, RequestInd, Connections, ConnectionTypes, Registry, RegistryTypes
<1>2. CASE conn # 0
  <2>1. queue' = Append(queue, e) /\ frameNo' = frameNo + 1 BY <1>2 DEF Ask, ReadRequest
  <2>2. e \in Item BY <1>2, LiveConnection
  <2>3. UNCHANGED <<conn, lastGen, loopVars>> BY DEF Ask
  <2> HIDE DEF e
  <2>4. e.k = "req" /\ e.r = r /\ e.g = conn BY DEF e
  <2> QED BY <1>1, <1>2, <2>1, <2>2, <2>3, <2>4, Queued
<1>3. CASE conn = 0
  <2>1. UNCHANGED <<queue, conn, lastGen, loopVars>> /\ frameNo' = frameNo + 1 BY <1>3 DEF Ask
  <2> QED BY <1>1, <2>1, NotQueued
<1> QED BY <1>2, <1>3

LEMMA ReplayStep ==
  ASSUME RequestInd, NEW r \in Req, Replay(r)
  PROVE  RequestInd'
<1> DEFINE e == [k |-> "req", r |-> r, g |-> conn]
<1>1. ConnectionTypes'
  <2>1. conn # 0 => conn \in Gen BY LiveConnection
  <2> QED BY <2>1, ServerRequestsAssumption
       DEF Replay, ReadRequest, RequestInd, Connections, ConnectionTypes, Registry, RegistryTypes
<1>2. CASE conn # 0 /\ ReadRequest(r)
  <2>1. queue' = Append(queue, e) /\ frameNo' = frameNo + 1 BY <1>2 DEF Replay, ReadRequest
  <2>2. e \in Item BY <1>2, LiveConnection
  <2>3. UNCHANGED <<conn, lastGen, loopVars>> BY DEF Replay
  <2> HIDE DEF e
  <2>4. e.k = "req" /\ e.r = r /\ e.g = conn BY DEF e
  <2> QED BY <1>1, <1>2, <2>1, <2>2, <2>3, <2>4, Queued
<1>3. CASE UNCHANGED queue
  <2>1. UNCHANGED <<queue, conn, lastGen, loopVars>> /\ frameNo' = frameNo + 1
    BY <1>3 DEF Replay
  <2> QED BY <1>1, <2>1, NotQueued
<1> QED BY <1>2, <1>3 DEF Replay

LEMMA TakeAnswerStep ==
  ASSUME RequestInd, NEW r \in Req, TakeAnswer(r)
  PROVE  RequestInd'
<1> DEFINE e == [k |-> "resolved", r |-> r, g |-> conn]
<1>1. ConnectionTypes'
  BY DEF TakeAnswer, RequestInd, Connections, ConnectionTypes, Registry, RegistryTypes
<1>2. UNCHANGED <<conn, lastGen, frameNo, loopVars>> BY DEF TakeAnswer
<1>3. CASE up[r] = "pending" /\ conn # 0
  <2>1. queue' = Append(queue, e) BY <1>3 DEF TakeAnswer
  <2>2. e \in Item BY <1>3, LiveConnection
  <2> HIDE DEF e
  <2>3. e.k = "resolved" /\ e.r = r /\ e.g = conn BY DEF e
  <2> QED BY <1>1, <1>2, <1>3, <2>1, <2>2, <2>3, Queued
<1>4. CASE ~(up[r] = "pending" /\ conn # 0)
  <2>1. UNCHANGED queue BY <1>4 DEF TakeAnswer
  <2> QED BY <1>1, <1>2, <2>1, NotQueued
<1> QED BY <1>3, <1>4

LEMMA TurnEndsStep ==
  ASSUME RequestInd, TurnEnds
  PROVE  RequestInd'
<1> DEFINE e == [k |-> "turn", r |-> None, g |-> conn]
<1>1. ConnectionTypes'
  BY DEF TurnEnds, RequestInd, Connections, ConnectionTypes
<1>2. UNCHANGED <<conn, lastGen, frameNo, loopVars>> BY DEF TurnEnds
<1>3. CASE conn # 0
  <2>1. queue' = Append(queue, e) BY <1>3 DEF TurnEnds
  <2>2. e \in Item BY <1>3, LiveConnection
  <2> HIDE DEF e
  <2>3. e.k = "turn" /\ e.g = conn BY DEF e
  <2> QED BY <1>1, <1>2, <1>3, <2>1, <2>2, <2>3, Queued
<1>4. CASE conn = 0
  <2>1. UNCHANGED queue BY <1>4 DEF TurnEnds
  <2> QED BY <1>1, <1>2, <2>1, NotQueued
<1> QED BY <1>3, <1>4

LEMMA DisconnectStep ==
  ASSUME RequestInd, Disconnect
  PROVE  RequestInd'
<1> DEFINE e == [k |-> "disc", r |-> None, g |-> conn]
<1>1. ConnectionTypes'
  BY DEF Disconnect, upVars, RequestInd, Connections, ConnectionTypes
<1>2. conn # 0 /\ conn' = 0 /\ UNCHANGED <<lastGen, frameNo, loopVars>> BY DEF Disconnect
<1>3. queue' = Append(queue, e) BY DEF Disconnect
<1>4. e \in Item BY <1>2, LiveConnection
<1> HIDE DEF e
<1>5. e.k = "disc" /\ e.g = conn BY DEF e
<1> QED BY <1>1, <1>2, <1>3, <1>4, <1>5, Queued

\* The generation of a new connection is nowhere queued nor in the history.
LEMMA ReconnectStep ==
  ASSUME RequestInd, Reconnect
  PROVE  RequestInd'
<1>1. /\ conn = 0 /\ lastGen < MaxGen /\ lastGen' = lastGen + 1 /\ conn' = lastGen + 1
      /\ UNCHANGED <<upVars, queue, frameNo, auth, loopVars>>
  BY DEF Reconnect
<1>2. UNCHANGED <<epoch, timerNo, up, frames, answers, news>>
  BY <1>1 DEF loopVars, regVars, timerVars, upVars
<1>3. lastGen \in Nat \ {0} /\ epoch \in 0..lastGen /\ DOMAIN queue = 1..Len(queue)
      /\ Len(queue) \in Nat
  BY ServerRequestsAssumption DEF RequestInd, Connections, QueueIsSane, Gen
<1>4. QueueIsSane'
  BY <1>1, <1>2, <1>3, ServerRequestsAssumption DEF RequestInd, Connections, QueueIsSane, Gen
<1>5. LossComesFirst'
  <2>1. epoch \notin {0, conn'} => \E k \in DOMAIN queue : queue[k].k = "disc"
    BY <1>1 DEF RequestInd, Connections, LossComesFirst
  <2>2. \A k \in DOMAIN queue : queue[k].k # "due" => queue[k].g # conn'
    BY <1>1, <1>3 DEF RequestInd, Connections, QueueIsSane
  <2>3. \A k \in DOMAIN queue : \A j \in 1..k : j \in DOMAIN queue BY <1>3
  <2>4. epoch # conn' BY <1>1, <1>3
  <2> QED BY <1>1, <1>2, <2>1, <2>2, <2>3, <2>4 DEF LossComesFirst
<1>6. TimersAreFrames'
  BY <1>1, <1>2 DEF RequestInd, Connections, TimersAreFrames, Requests
<1>7. ConnectionTypes' BY <1>1, <1>2 DEF RequestInd, Connections, ConnectionTypes
<1>8. HistoryIsPast' BY <1>1, <1>4, HistoryRests DEF RequestInd, Connections
<1>9. Registry' BY <1>1, LoopRests DEF RequestInd
<1> QED BY <1>4, <1>5, <1>6, <1>7, <1>8, <1>9 DEF RequestInd, Connections

LEMMA TimerFiresStep ==
  ASSUME RequestInd, NEW r \in Req, TimerFires(r)
  PROVE  RequestInd'
<1> DEFINE e == [k |-> "due", r |-> r, g |-> timer[r]]
<1>1. ConnectionTypes'
  BY DEF TimerFires, upVars, RequestInd, Connections, ConnectionTypes
<1>2. UNCHANGED <<conn, lastGen, frameNo, loopVars>> BY DEF TimerFires
<1>3. queue' = Append(queue, e) BY DEF TimerFires
<1>4. e \in Item BY DEF Item, RequestInd, Registry, RegistryTypes
<1> HIDE DEF e
<1>5. e.k = "due" /\ e.r = r BY DEF e
<1> QED BY <1>1, <1>2, <1>3, <1>4, <1>5, Queued

-----------------------------------------------------------------------------
(* The loop handles what is queued.                                         *)

\* The frames still queued and the timers issued.
LEMMA FramesLeft ==
  ASSUME RequestInd, queue # <<>>
  PROVE  /\ Cardinality(Requests(queue)) \in Nat /\ Cardinality(Requests(Tail(queue))) \in Nat
         /\ Cardinality(Requests(Tail(queue))) + (IF Head(queue).k = "req" THEN 1 ELSE 0)
              <= Cardinality(Requests(queue))
         /\ timerNo \in Nat /\ frameNo \in Nat /\ frameNo <= MaxFrame
         /\ Head(queue).k = "req" => timerNo < MaxFrame
<1>1. queue \in Seq(Item) /\ Tail(queue) \in Seq(Item)
  BY RestOfQueue DEF RequestInd, Connections, QueueIsSane
<1>2. /\ Cardinality(Requests(queue)) \in Nat /\ Cardinality(Requests(Tail(queue))) \in Nat
      /\ Cardinality(Requests(Tail(queue))) + (IF Head(queue).k = "req" THEN 1 ELSE 0)
           <= Cardinality(Requests(queue))
  BY <1>1, RequestsFinite, RequestsRest
<1>3. /\ timerNo \in Nat /\ frameNo \in Nat /\ frameNo <= MaxFrame /\ MaxFrame \in Nat
      /\ Cardinality(Requests(queue)) + timerNo <= frameNo
  BY ServerRequestsAssumption
     DEF RequestInd, Connections, TimersAreFrames, ConnectionTypes, Registry, RegistryTypes
<1> QED BY <1>2, <1>3

LEMMA Taken ==
  ASSUME RequestInd, queue # <<>>, queue' = Tail(queue),
         UNCHANGED <<upVars, conn, lastGen, frameNo, auth>>,
         \/ Head(queue).k = "disc" /\ epoch' = 0
         \/ Head(queue).k # "disc" /\ epoch' = epoch
         \/ Head(queue).k \in {"req", "resolved", "turn"} /\ Head(queue).g = conn /\ epoch' = conn,
         timerNo' = timerNo \/ (Head(queue).k = "req" /\ timerNo' = timerNo + 1),
         \A r \in Req, g \in Gen :
           ~Untouched(r, g)' \/ <<r, g>> \in settled' =>
             ~Untouched(r, g) \/ <<r, g>> \in settled \/ g = epoch',
         Registry'
  PROVE  RequestInd'
<1>1. QueueIsSane /\ LossComesFirst /\ HistoryIsPast BY DEF RequestInd, Connections
<1>2. /\ QueueIsSane' /\ LossComesFirst'
      /\ Head(queue).k = "disc" => (conn # 0 => epoch # conn)
  BY <1>1, EventTaken
<1>3. TimersAreFrames'
  <2>1. Cardinality(Requests(queue)) + timerNo <= frameNo
    BY DEF RequestInd, Connections, TimersAreFrames
  <2> QED BY <2>1, FramesLeft DEF TimersAreFrames
<1>4. HistoryIsPast' BY <1>1, <1>2, HistoryKept
<1>5. ConnectionTypes' BY DEF upVars, RequestInd, Connections, ConnectionTypes
<1> QED BY <1>2, <1>3, <1>4, <1>5 DEF RequestInd, Connections

\* What the dispatch of a frame does to the records.
LEMMA DispatchEffects ==
  ASSUME RegistryTypes, NEW r \in Req, NEW g \in Gen, timerNo < MaxFrame, Dispatch(r, g)
  PROVE  /\ timerNo' \in {timerNo, timerNo + 1} /\ timerNo' \in 0..MaxFrame
         /\ timer' \in [Req -> Nat] /\ lost' \subseteq Req
         /\ web' \in [Req -> {None} \cup WebRecords] /\ fc' \in [Req -> {None} \cup FcRecords]
         /\ fs' \in [Req -> {None} \cup FsRecords]
         /\ \A q \in Req : q # r => web'[q] = web[q] /\ fc'[q] = fc[q]
         /\ web'[r] = web[r] \/ web'[r].g = g
         /\ fc'[r] = fc[r] \/ fc'[r].g = g
         /\ \/ phase' = phase /\ busy' = busy
            \/ \E revoke \in BOOLEAN : BeginResponse(r, g, "feishu", revoke)
<1> DEFINE t == IF r \in Approval THEN 0 ELSE timerNo + 1
           asked == r \in Approval \/ (~FcodexClaims(r) /\ ~(webLive \/ WebConsumes(r)))
           conflict == asked /\ fs[r] # None /\ fs[r].g # g
<1>1. /\ timerNo' = IF r \in Approval THEN timerNo ELSE t
      /\ fc' = IF FcodexClaims(r) THEN [fc EXCEPT ![r] = FcodexRecord(r, g)] ELSE fc
      /\ web' = IF webLive /\ ~WebConsumes(r) THEN [web EXCEPT ![r] = WebRecord(g, t)] ELSE web
      /\ lost' = IF conflict THEN lost \cup {r} ELSE lost
      /\ IF asked /\ fs[r] = None THEN FeishuRoute(r, g, t) ELSE UNCHANGED <<fs, busy, phase>>
      /\ timer' = [timer EXCEPT ![r] =
                     IF ~conflict /\ (web'[r] # None \/ fs'[r] # None) THEN t ELSE 0]
  BY DEF Dispatch
<1>2. timerNo \in Nat /\ MaxFrame \in Nat BY ServerRequestsAssumption DEF RegistryTypes
<1>3. t \in Nat /\ t \in 0..MaxFrame BY <1>2
<1> HIDE DEF t, asked, conflict
<1>4. timerNo' \in {timerNo, timerNo + 1} /\ timerNo' \in 0..MaxFrame BY <1>1, <1>2 DEF t
<1>5. timer' \in [Req -> Nat] BY <1>1, <1>3 DEF RegistryTypes
<1>6. lost' \subseteq Req BY <1>1 DEF RegistryTypes
<1>7. WebRecord(g, t) \in WebRecords /\ WebRecord(g, t).g = g
  BY <1>3 DEF WebRecord, WebRecords, Status
<1>8. FcodexRecord(r, g) \in FcRecords /\ FcodexRecord(r, g).g = g
  <2>1. CASE fc[r] = None
    BY <2>1, ServerRequestsAssumption DEF FcodexRecord, FcRecords, Gen
  <2>2. CASE fc[r] # None
    <3>1. fc[r] \in FcRecords BY <2>2 DEF RegistryTypes
    <3>2. g \in 0..MaxGen BY ServerRequestsAssumption DEF Gen
    <3> QED BY <2>2, <3>1, <3>2 DEF FcodexRecord, FcRecords
  <2> QED BY <2>1, <2>2
<1>9. /\ web' \in [Req -> {None} \cup WebRecords]
      /\ \A q \in Req : q # r => web'[q] = web[q]
      /\ web'[r] = web[r] \/ web'[r].g = g
  BY <1>1, <1>7 DEF RegistryTypes
<1>10. /\ fc' \in [Req -> {None} \cup FcRecords]
       /\ \A q \in Req : q # r => fc'[q] = fc[q]
       /\ fc'[r] = fc[r] \/ fc'[r].g = g
  BY <1>1, <1>8 DEF RegistryTypes
<1>11. /\ fs' \in [Req -> {None} \cup FsRecords]
       /\ \/ phase' = phase /\ busy' = busy
          \/ \E revoke \in BOOLEAN : BeginResponse(r, g, "feishu", revoke)
  <2>1. CASE ~(asked /\ fs[r] = None) BY <1>1, <2>1 DEF RegistryTypes
  <2>2. CASE asked /\ fs[r] = None
    <3>1. FeishuRoute(r, g, t) BY <1>1, <2>2
    <3>2. \A x \in {0, t}, c, d \in BOOLEAN : FsRecord(g, x, c, d) \in FsRecords
      BY <1>2, <1>3 DEF FsRecord, FsRecords, Status
    <3>3. \A rec \in FsRecords :
            fs' = [fs EXCEPT ![r] = rec] => fs' \in [Req -> {None} \cup FsRecords]
      BY DEF RegistryTypes
    <3>4. CASE fs' = [fs EXCEPT ![r] = FsRecord(g, t, TRUE, FALSE)] /\ UNCHANGED <<busy, phase>>
      BY <3>2, <3>3, <3>4
    <3>5. CASE /\ \E x \in {0, t} : fs' = [fs EXCEPT ![r] = FsRecord(g, x, FALSE, r \in Approval)]
               /\ BeginResponse(r, g, "feishu", r \in Approval)
      <4>1. (r \in Approval) \in BOOLEAN OBVIOUS
      <4>2. PICK x \in {0, t} : fs' = [fs EXCEPT ![r] = FsRecord(g, x, FALSE, r \in Approval)]
        BY <3>5
      <4>3. FsRecord(g, x, FALSE, r \in Approval) \in FsRecords BY <3>2, <4>1
      <4>4. \E revoke \in BOOLEAN : BeginResponse(r, g, "feishu", revoke) BY <3>5, <4>1
      <4> QED BY <3>3, <4>2, <4>3, <4>4
    <3>6. CASE UNCHANGED <<fs, busy, phase>> BY <3>6 DEF RegistryTypes
    <3> QED BY <3>1, <3>4, <3>5, <3>6 DEF FeishuRoute
  <2> QED BY <2>1, <2>2
<1> QED BY <1>4, <1>5, <1>6, <1>9, <1>10, <1>11

\* A response is a record.
LEMMA ResponseTypes ==
  ASSUME RegistryTypes, NEW r \in Req, NEW g \in Gen, NEW revoke \in BOOLEAN,
         NEW surface \in {"web", "feishu", "fcodex"}, BeginResponse(r, g, surface, revoke)
  PROVE  /\ phase' \in [Req -> Status \cup {"processing"}]
         /\ busy' \in {None} \cup Responses
  BY DEF BeginResponse, RegistryTypes, Responses

\* What a live event knows: it is of the connection, whose epoch is open or not
\* opened yet.
LEMMA LiveHead ==
  ASSUME RequestInd, queue # <<>>, Head(queue).k \in {"req", "resolved", "turn"},
         Head(queue).g = conn
  PROVE  /\ conn \in Gen /\ conn \in 0..MaxGen /\ epoch \in {0, conn}
         /\ Head(queue).k \in {"req", "resolved"} => Head(queue).r \in Req
         /\ \A q \in Req :
              /\ q \notin resolved /\ phase[q] = "pending" => Untouched(q, conn)
              /\ <<q, conn>> \in settled => q \in resolved
              /\ pend[q] # 0 => epoch = conn /\ pend[q] = conn
<1>1. QueueIsSane /\ LossComesFirst /\ HistoryIsPast /\ Registry
  BY DEF RequestInd, Connections
<1>2. conn \in Gen /\ epoch \in {0, conn} BY <1>1, LiveEvent
<1>3. conn \in 0..MaxGen BY <1>2, ServerRequestsAssumption DEF Gen
<1>4. Head(queue).k \in {"req", "resolved"} => Head(queue).r \in Req
  <2>1. Head(queue) = queue[1] /\ 1 \in DOMAIN queue BY <1>1, RestOfQueue DEF QueueIsSane
  <2> QED BY <1>1, <2>1 DEF QueueIsSane
<1> QED BY <1>1, <1>2, <1>3, <1>4, EpochFacts

LEMMA HandleRequestStep ==
  ASSUME RequestInd, HandleRequest
  PROVE  RequestInd'
<1> DEFINE e == Head(queue)
           r == e.r
<1>1. /\ Idle /\ queue # <<>> /\ e.k = "req" /\ queue' = Tail(queue)
      /\ UNCHANGED <<upVars, conn, lastGen, frameNo, auth, revoked, resolved, webLive,
                     attached, grants, histVars>>
  BY DEF HandleRequest
<1>2. UNCHANGED <<wrote, settled>> BY <1>1 DEF histVars
<1>3. Registry /\ RegistryTypes /\ Answering /\ HistoryIsPast BY DEF RequestInd, Registry
<1>4. \A q \in Req, g \in Gen : Untouched(q, g)' = Untouched(q, g)
  BY <1>1, <1>2 DEF Untouched
<1>5. CASE e.g # conn
  <2>1. UNCHANGED <<epoch, pend, phase, lost, timerVars, web, fc, fs, busy>>
    BY <1>5 DEF HandleRequest
  <2>2. UNCHANGED loopVars
    BY <1>1, <2>1 DEF loopVars, regVars, webVars, fcVars
  <2>3. Registry' BY <1>3, <2>2, LoopRests
  <2>4. timerNo' = timerNo BY <2>1 DEF timerVars
  <2> QED BY <1>1, <1>2, <1>4, <2>1, <2>3, <2>4, Taken
<1>6. CASE e.g = conn
  <2>1. /\ conn \in Gen /\ conn \in 0..MaxGen /\ epoch \in {0, conn} /\ r \in Req
        /\ \A q \in Req : pend[q] # 0 => epoch = conn /\ pend[q] = conn
    BY <1>1, <1>6, LiveHead
  <2>2. epoch' = conn BY <1>6 DEF HandleRequest
  <2>3. CASE r \in resolved
    <3>1. UNCHANGED <<pend, phase, lost, timerVars, web, fc, fs, busy>>
      BY <1>6, <2>3 DEF HandleRequest
    <3>2. UNCHANGED <<timer, timerNo>> BY <3>1 DEF timerVars
    <3>3. RegistryTypes' BY <1>1, <1>2, <1>3, <2>1, <2>2, <3>1, <3>2 DEF RegistryTypes
    <3>4. Answering' /\ RevokedStaysHidden' /\ ProjectionsAreCurrent'
      BY <1>1, <1>2, <1>3, <2>1, <2>2, <3>1, EpochOpened
    <3>5. Registry' BY <3>3, <3>4 DEF Registry
    <3> QED BY <1>1, <1>2, <1>4, <1>6, <2>2, <3>2, <3>5, Taken
  <2>4. CASE r \notin resolved
    <3>1. pend' = [pend EXCEPT ![r] = conn] BY <1>6, <2>4 DEF HandleRequest
    <3>2. \A q \in Req : pend'[q] = IF q = r THEN conn ELSE pend[q]
      BY <1>3, <3>1 DEF RegistryTypes
    <3>3. timerNo < MaxFrame BY <1>1, FramesLeft
    <3> HIDE DEF e, r
    <3>4. /\ timerNo' \in {timerNo, timerNo + 1} /\ timerNo' \in 0..MaxFrame
          /\ timer' \in [Req -> Nat] /\ lost' \subseteq Req
          /\ web' \in [Req -> {None} \cup WebRecords] /\ fc' \in [Req -> {None} \cup FcRecords]
          /\ fs' \in [Req -> {None} \cup FsRecords]
          /\ \A q \in Req : q # r \/ q \in revoked => web'[q] = web[q]
          /\ \A q \in Req : q # r \/ phase[q] = "processing" => fc'[q] = fc[q]
          /\ web'[r] = web[r] \/ web'[r].g = conn
          /\ fc'[r] = fc[r] \/ fc'[r].g = conn
          /\ \/ phase' = phase /\ busy' = busy
             \/ \E revoke \in BOOLEAN : phase[r] = "pending" /\ BeginResponse(r, conn, "feishu", revoke)
      <4>1. CASE Offers(r)
        <5>1. Dispatch(r, conn) BY <1>6, <2>4, <4>1 DEF HandleRequest, e, r
        <5>2. r \notin revoked /\ phase[r] = "pending" BY <4>1 DEF Offers
        <5> QED BY <1>3, <2>1, <3>3, <5>1, <5>2, DispatchEffects
      <4>2. CASE ~Offers(r)
        <5>1. UNCHANGED <<phase, lost, timerVars, web, fc, fs, busy>>
          BY <1>6, <2>4, <4>2 DEF HandleRequest, e, r
        <5> QED BY <1>3, <5>1 DEF timerVars, RegistryTypes
      <4> QED BY <4>1, <4>2
    <3>5. RegistryTypes'
      <4>1. /\ phase' \in [Req -> Status \cup {"processing"}]
            /\ busy' \in {None} \cup Responses
        BY <1>3, <2>1, <3>4, ResponseTypes DEF RegistryTypes
      <4> QED BY <1>1, <1>2, <1>3, <2>1, <2>2, <3>1, <3>4, <4>1 DEF RegistryTypes
    <3>6. Answering'
      BY <1>1, <1>2, <1>3, <2>1, <2>2, <2>4, <3>1, <3>4, FrameRegistered
    <3>7. RevokedStaysHidden'
      BY <1>1, <1>3, <2>1, <3>2, <3>4, ServerRequestsAssumption
         DEF Registry, RevokedStaysHidden, RegistryTypes, Gen
    <3>8. ProjectionsAreCurrent'
      <4> SUFFICES ASSUME NEW q \in Req
                   PROVE  /\ web'[q] # None => web'[q].g = pend'[q]
                          /\ fc'[q] # None /\ fc'[q].g # 0 => fc'[q].g = pend'[q]
                          /\ pend'[q] # 0 => pend'[q] = epoch'
        BY DEF ProjectionsAreCurrent
      <4>1. /\ web[q] # None => web[q].g = pend[q] /\ pend[q] # 0
            /\ fc[q] # None /\ fc[q].g # 0 => fc[q].g = pend[q]
        <5>1. web[q] # None => web[q].g # 0
          BY <1>3, ServerRequestsAssumption DEF RegistryTypes, WebRecords, Gen
        <5> QED BY <1>3, <5>1 DEF Registry, ProjectionsAreCurrent
      <4> QED BY <2>1, <2>2, <3>2, <3>4, <4>1
    <3>9. Registry' BY <3>5, <3>6, <3>7, <3>8 DEF Registry
    <3> QED BY <1>1, <1>2, <1>4, <1>6, <2>2, <3>4, <3>9, Taken DEF e
  <2> QED BY <2>3, <2>4
<1> QED BY <1>5, <1>6

LEMMA SettleTypes ==
  ASSUME RegistryTypes, NEW S \in SUBSET Req, NEW g \in Gen, Settle(S, g)
  PROVE  /\ pend' \in [Req -> 0..MaxGen] /\ phase' \in [Req -> Status \cup {"processing"}]
         /\ revoked' \subseteq Req /\ lost' \subseteq Req /\ resolved' \subseteq Req
         /\ timer' \in [Req -> Nat]
         /\ web' \in [Req -> {None} \cup WebRecords] /\ fs' \in [Req -> {None} \cup FsRecords]
         /\ settled' \subseteq Req \X Gen
         /\ \A q \in Req, h \in Gen : <<q, h>> \in settled' => <<q, h>> \in settled \/ h = g
<1>1. 0 \in 0..MaxGen BY ServerRequestsAssumption
<1>2. pend' \in [Req -> 0..MaxGen] /\ timer' \in [Req -> Nat]
  BY <1>1 DEF Settle, RegistryTypes
<1>3. phase' \in [Req -> Status \cup {"processing"}] BY DEF Settle, RegistryTypes, Status
<1>4. /\ web' \in [Req -> {None} \cup WebRecords] /\ fs' \in [Req -> {None} \cup FsRecords]
  BY DEF Settle, DropOf, RegistryTypes
<1>5. revoked' \subseteq Req /\ lost' \subseteq Req /\ resolved' \subseteq Req
  BY DEF Settle, RegistryTypes
<1>6. settled' = settled \cup {<<q, g>> : q \in S} BY DEF Settle
<1>7. settled' \subseteq Req \X Gen BY <1>6 DEF RegistryTypes
<1>8. \A q \in Req, h \in Gen : <<q, h>> \in settled' => <<q, h>> \in settled \/ h = g
  BY <1>6
<1> QED BY <1>2, <1>3, <1>4, <1>5, <1>7, <1>8

\* A resolution is observed in epoch g.
LEMMA ResolutionObserved ==
  ASSUME Registry, HistoryIsPast, Idle, NEW r \in Req, NEW g \in 0..MaxGen,
         epoch' = g, g # 0 => (g = conn /\ epoch \in {0, conn}) \/ g = epoch,
         g = 0 => epoch = 0, ObserveResolution(r, g),
         UNCHANGED <<grants, wrote, busy, attached, timerNo, webLive>>
  PROVE  /\ Registry'
         /\ \A q \in Req, h \in Gen : <<q, h>> \in settled' => <<q, h>> \in settled \/ h = epoch'
<1>1. RegistryTypes /\ Answering BY DEF Registry
<1>2. fc' = [fc EXCEPT ![r] = None] /\ fc' \in [Req -> {None} \cup FcRecords]
  BY <1>1 DEF ObserveResolution, RegistryTypes
<1>3. \A q \in Req : fc'[q] = IF q = r THEN None ELSE fc[q] BY <1>1, <1>2 DEF RegistryTypes
<1>4. g # 0 => g \in Gen BY ServerRequestsAssumption DEF Gen
<1>5. \A q \in Req : pend[q] # 0 => pend[q] = epoch
  BY DEF Registry, ProjectionsAreCurrent
<1>6. g # 0 => \A q \in Req :
                 /\ q \notin resolved /\ phase[q] = "pending" => Untouched(q, g)
                 /\ <<q, g>> \in settled => q \in resolved
                 /\ pend[q] # 0 => epoch = g /\ pend[q] = g
  <2>1. CASE g # 0 /\ g = conn /\ epoch \in {0, conn} BY <1>4, <2>1, EpochFacts
  <2>2. CASE g # 0 /\ g = epoch
    BY <1>1, <1>5, <2>2 DEF Answering, RegistryIsSane, Unanswered
  <2> QED BY <2>1, <2>2
<1>7. CASE pend[r] # 0 \/ (fc[r] # None /\ g # 0 /\ r \notin resolved)
  <2>1. Settle({r}, g) BY <1>7 DEF ObserveResolution
  <2>2. g # 0 BY <1>5, <1>7 DEF Registry
  <2>3. RegistryTypes'
    <3>1. /\ pend' \in [Req -> 0..MaxGen] /\ phase' \in [Req -> Status \cup {"processing"}]
          /\ revoked' \subseteq Req /\ lost' \subseteq Req /\ resolved' \subseteq Req
          /\ timer' \in [Req -> Nat]
          /\ web' \in [Req -> {None} \cup WebRecords] /\ fs' \in [Req -> {None} \cup FsRecords]
          /\ settled' \subseteq Req \X Gen
      BY <1>1, <1>4, <2>1, <2>2, SettleTypes
    <3> QED BY <1>1, <1>2, <3>1 DEF RegistryTypes
  <2>4. Answering' /\ RevokedStaysHidden' /\ ProjectionsAreCurrent'
    BY <1>2, <1>3, <1>4, <1>6, <2>1, <2>2, RequestsSettled
  <2>5. \A q \in Req, h \in Gen : <<q, h>> \in settled' => <<q, h>> \in settled \/ h = g
    BY <1>1, <1>4, <2>1, <2>2, SettleTypes
  <2> QED BY <2>3, <2>4, <2>5 DEF Registry
<1>8. CASE ~(pend[r] # 0 \/ (fc[r] # None /\ g # 0 /\ r \notin resolved))
  <2>1. UNCHANGED <<pend, phase, revoked, lost, resolved, timer, web, fs, settled>>
    BY <1>8 DEF ObserveResolution
  <2>2. phase[r] = "pending" BY <1>1, <1>8 DEF Answering, RegistryIsSane
  <2>3. RegistryTypes' BY <1>1, <1>2, <2>1 DEF RegistryTypes
  <2>4. CASE g = epoch
    <3>1. Answering' BY <1>1, <1>3, <2>1, <2>2, <2>4, AnsweringKept
    <3>2. RevokedStaysHidden' BY <2>1 DEF Registry, RevokedStaysHidden
    <3>3. ProjectionsAreCurrent' BY <1>3, <2>1, <2>4 DEF Registry, ProjectionsAreCurrent
    <3> QED BY <2>1, <2>3, <3>1, <3>2, <3>3 DEF Registry
  <2>5. CASE g # epoch
    <3>1. g = conn /\ conn \in Gen /\ epoch \in {0, conn} BY <1>4, <2>5
    <3>2. Answering' /\ RevokedStaysHidden' /\ ProjectionsAreCurrent'
      BY <1>3, <2>1, <2>2, <3>1, EpochOpened
    <3> QED BY <2>1, <2>3, <3>2 DEF Registry
  <2> QED BY <2>4, <2>5
<1> QED BY <1>7, <1>8

LEMMA HandleResolvedStep ==
  ASSUME RequestInd, HandleResolved
  PROVE  RequestInd'
<1> DEFINE e == Head(queue)
<1>1. /\ Idle /\ queue # <<>> /\ e.k = "resolved" /\ queue' = Tail(queue)
      /\ UNCHANGED <<upVars, conn, lastGen, frameNo, auth, timerNo, webLive, attached, grants,
                     busy, wrote>>
  BY DEF HandleResolved
<1>2. Registry /\ HistoryIsPast BY DEF RequestInd
<1>3. \A q \in Req, g \in Gen : Untouched(q, g)' = Untouched(q, g) BY <1>1 DEF Untouched
<1>4. CASE e.g # conn
  <2>1. UNCHANGED <<regVars, timer, web, fc, fs, settled>> BY <1>4 DEF HandleResolved
  <2>2. UNCHANGED loopVars BY <1>1, <2>1 DEF loopVars, timerVars, webVars, fcVars, histVars
  <2>3. epoch' = epoch BY <2>1 DEF regVars
  <2>4. Registry' BY <1>2, <2>2, LoopRests
  <2> QED BY <1>1, <1>3, <2>1, <2>3, <2>4, Taken
<1>5. CASE e.g = conn
  <2>1. epoch' = conn /\ ObserveResolution(e.r, conn) BY <1>5 DEF HandleResolved
  <2>2. conn \in Gen /\ conn \in 0..MaxGen /\ epoch \in {0, conn} /\ e.r \in Req
    BY <1>1, <1>5, LiveHead
  <2>3. conn # 0 BY <2>2, ServerRequestsAssumption DEF Gen
  <2> HIDE DEF e
  <2>4. /\ Registry'
        /\ \A q \in Req, h \in Gen : <<q, h>> \in settled' => <<q, h>> \in settled \/ h = epoch'
    BY <1>1, <1>2, <2>1, <2>2, <2>3, ResolutionObserved
  <2> QED BY <1>1, <1>3, <1>5, <2>1, <2>4, Taken DEF e
<1> QED BY <1>4, <1>5

LEMMA HandleTurnEndStep ==
  ASSUME RequestInd, HandleTurnEnd
  PROVE  RequestInd'
<1> DEFINE e == Head(queue)
           S == {q \in Req : pend[q] # 0}
<1>1. /\ Idle /\ queue # <<>> /\ e.k = "turn" /\ queue' = Tail(queue)
      /\ UNCHANGED <<upVars, conn, lastGen, frameNo, auth, timerNo, webLive, attached, grants,
                     busy, wrote>>
  BY DEF HandleTurnEnd
<1>2. Registry /\ RegistryTypes /\ HistoryIsPast BY DEF RequestInd, Registry
<1>3. \A q \in Req, g \in Gen : Untouched(q, g)' = Untouched(q, g) BY <1>1 DEF Untouched
<1>4. CASE e.g # conn
  <2>1. UNCHANGED <<regVars, timer, web, fc, fs, settled>> BY <1>4 DEF HandleTurnEnd
  <2>2. UNCHANGED loopVars BY <1>1, <2>1 DEF loopVars, timerVars, webVars, fcVars, histVars
  <2>3. epoch' = epoch BY <2>1 DEF regVars
  <2>4. Registry' BY <1>2, <2>2, LoopRests
  <2> QED BY <1>1, <1>3, <2>1, <2>3, <2>4, Taken
<1>5. CASE e.g = conn
  <2>1. epoch' = conn /\ Settle(S, conn) /\ fc' = DropOf(fc, S) BY <1>5 DEF HandleTurnEnd
  <2>2. /\ conn \in Gen /\ conn \in 0..MaxGen /\ epoch \in {0, conn}
        /\ \A q \in Req :
             /\ q \notin resolved /\ phase[q] = "pending" => Untouched(q, conn)
             /\ <<q, conn>> \in settled => q \in resolved
             /\ pend[q] # 0 => epoch = conn /\ pend[q] = conn
    BY <1>1, <1>5, LiveHead
  <2>3. \A q \in Req : fc'[q] = IF q \in S /\ fc[q] # None /\ fc[q].g = pend[q]
                                THEN None ELSE fc[q]
    BY <2>1 DEF DropOf
  <2>4. fc' \in [Req -> {None} \cup FcRecords] BY <1>2, <2>1 DEF DropOf, RegistryTypes
  <2>5. \A q \in Req : /\ q \in S => fc'[q] = None \/ fc'[q].g = 0
                       /\ q \notin S => fc'[q] = fc[q]
    BY <1>2, <2>3 DEF Registry, ProjectionsAreCurrent
  <2>6. /\ pend' \in [Req -> 0..MaxGen] /\ phase' \in [Req -> Status \cup {"processing"}]
        /\ revoked' \subseteq Req /\ lost' \subseteq Req /\ resolved' \subseteq Req
        /\ timer' \in [Req -> Nat]
        /\ web' \in [Req -> {None} \cup WebRecords] /\ fs' \in [Req -> {None} \cup FsRecords]
        /\ settled' \subseteq Req \X Gen
        /\ \A q \in Req, h \in Gen : <<q, h>> \in settled' => <<q, h>> \in settled \/ h = conn
    BY <1>2, <2>1, <2>2, SettleTypes
  <2>7. RegistryTypes' BY <1>1, <1>2, <2>1, <2>2, <2>4, <2>6 DEF RegistryTypes
  <2>8. S \in SUBSET Req OBVIOUS
  <2> HIDE DEF S
  <2>9. Answering' /\ RevokedStaysHidden' /\ ProjectionsAreCurrent'
    BY <1>1, <1>2, <2>1, <2>2, <2>4, <2>5, <2>8, RequestsSettled
  <2>10. Registry' BY <2>7, <2>9 DEF Registry
  <2> QED BY <1>1, <1>3, <1>5, <2>1, <2>6, <2>10, Taken
<1> QED BY <1>4, <1>5

\* The loss of the connection forgets the epoch; the loop is not answering, and
\* grants of proxies belong to the past.
LEMMA HandleDisconnectStep ==
  ASSUME RequestInd, HandleDisconnect
  PROVE  RequestInd'
<1>1. /\ Idle /\ queue # <<>> /\ Head(queue).k = "disc" /\ queue' = Tail(queue)
      /\ epoch' = 0 /\ pend' = [r \in Req |-> 0] /\ phase' = [r \in Req |-> "pending"]
      /\ revoked' = {} /\ lost' = {} /\ resolved' = {} /\ timer' = [r \in Req |-> 0]
      /\ web' = Forgotten /\ fc' = Forgotten
      /\ fs' = [r \in Req |-> IF fs[r] = None \/ fs[r].st # "pending" THEN fs[r]
                              ELSE [fs[r] EXCEPT !.st = "unknown"]]
      /\ UNCHANGED <<upVars, conn, lastGen, frameNo, auth, timerNo, webLive, attached, grants,
                     busy, histVars>>
  BY DEF HandleDisconnect
<1>2. UNCHANGED <<wrote, settled>> BY <1>1 DEF histVars
<1>3. RegistryTypes /\ Answering BY DEF RequestInd, Registry
<1>4. \A q \in Req, g \in Gen : Untouched(q, g)' = Untouched(q, g)
  BY <1>1, <1>2 DEF Untouched
<1>5. fs' \in [Req -> {None} \cup FsRecords]
  <2> SUFFICES ASSUME NEW r \in Req, fs[r] # None
               PROVE  [fs[r] EXCEPT !.st = "unknown"] \in FsRecords
    BY <1>1, <1>3 DEF RegistryTypes
  <2>1. fs[r] \in FsRecords BY <1>3 DEF RegistryTypes
  <2> QED BY <2>1 DEF FsRecords, Status
<1>6. RegistryTypes'
  BY <1>1, <1>2, <1>3, <1>5, ServerRequestsAssumption DEF RegistryTypes, Forgotten, Status
<1>7. Answering'
  <2>1. RegistryIsSane' /\ Unanswered' BY <1>1 DEF RegistryIsSane, Unanswered
  <2>2. LoopOwnsAnswer' BY <1>1 DEF LoopOwnsAnswer, Idle
  <2>3. OneGrant' /\ OneAnswerPerEpoch'
    BY <1>1, <1>2, <1>3 DEF Answering, OneGrant, OneAnswerPerEpoch
  <2>4. ProcessingHasOwner' BY <1>1 DEF ProcessingHasOwner
  <2> QED BY <2>1, <2>2, <2>3, <2>4 DEF Answering
<1>8. RevokedStaysHidden' /\ ProjectionsAreCurrent'
  BY <1>1 DEF RevokedStaysHidden, ProjectionsAreCurrent, Forgotten
<1>9. Registry' BY <1>6, <1>7, <1>8 DEF Registry
<1> QED BY <1>1, <1>2, <1>4, <1>9, Taken

-----------------------------------------------------------------------------
(* The surfaces answer.                                                     *)

\* A handler of the loop that takes nothing from the queue.
LEMMA OnLoop ==
  ASSUME RequestInd, UNCHANGED <<queue, conn, lastGen, frameNo, epoch, timerNo>>,
         ConnectionTypes',
         \A r \in Req, g \in Gen :
           ~Untouched(r, g)' \/ <<r, g>> \in settled' =>
             ~Untouched(r, g) \/ <<r, g>> \in settled \/ g = epoch',
         Registry'
  PROVE  RequestInd'
<1>1. QueueIsSane' /\ LossComesFirst' /\ TimersAreFrames'
  BY DEF RequestInd, Connections, QueueIsSane, LossComesFirst, TimersAreFrames, Requests
<1>2. HistoryIsPast' BY <1>1, HistoryKept DEF RequestInd, Connections
<1> QED BY <1>1, <1>2 DEF RequestInd, Connections

\* The same, when no answer is written or granted and nothing settled.
LEMMA OnLoopQuietly ==
  ASSUME RequestInd, UNCHANGED <<connVars, epoch, timerNo, wrote, grants, settled>>,
         UNCHANGED <<up, answers>>, frames' \subseteq frames, news' \subseteq news, Registry'
  PROVE  RequestInd'
<1>1. UNCHANGED <<queue, conn, lastGen, frameNo, auth>> BY DEF connVars
<1>2. ConnectionTypes' BY <1>1 DEF RequestInd, Connections, ConnectionTypes
<1>3. \A r \in Req, g \in Gen : Untouched(r, g)' = Untouched(r, g) BY DEF Untouched
<1> QED BY <1>1, <1>2, <1>3, OnLoop

\* Web records that keep their identity and their hidden flag.
LEMMA WebRecordKept ==
  ASSUME RegistryTypes, NEW r \in Req, web[r] # None, NEW st \in Status,
         web' = [web EXCEPT ![r].st = st]
  PROVE  /\ web' \in [Req -> {None} \cup WebRecords]
         /\ \A q \in Req : /\ web'[q] = None <=> web[q] = None
                           /\ web[q] # None => web'[q].g = web[q].g /\ web'[q].hidden = web[q].hidden
<1>1. web[r] \in WebRecords BY DEF RegistryTypes
<1>2. /\ [web[r] EXCEPT !.st = st] \in WebRecords
      /\ [web[r] EXCEPT !.st = st].g = web[r].g
      /\ [web[r] EXCEPT !.st = st].hidden = web[r].hidden
  BY <1>1 DEF WebRecords
<1>3. [web[r] EXCEPT !.st = st] # None BY <1>2, NullAssumption
<1>4. \A q \in Req : web'[q] = IF q = r THEN [web[r] EXCEPT !.st = st] ELSE web[q]
  BY DEF RegistryTypes
<1>5. web' \in [Req -> {None} \cup WebRecords] BY <1>2 DEF RegistryTypes
<1> QED BY <1>2, <1>3, <1>4, <1>5

LEMMA FsRecordKept ==
  ASSUME RegistryTypes, NEW r \in Req, fs[r] # None, NEW st \in Status
  PROVE  [fs EXCEPT ![r].st = st] \in [Req -> {None} \cup FsRecords]
<1>1. fs[r] \in FsRecords BY DEF RegistryTypes
<1>2. [fs[r] EXCEPT !.st = st] \in FsRecords BY <1>1 DEF FsRecords
<1> QED BY <1>2 DEF RegistryTypes

LEMMA WebAnswers ==
  ASSUME Registry, Idle, NEW r \in Req, web[r] # None, AnswerWeb(r),
         UNCHANGED <<epoch, pend, revoked, resolved, settled, grants, wrote, attached, fc>>
  PROVE  /\ Answering' /\ RevokedStaysHidden' /\ ProjectionsAreCurrent'
         /\ phase' \in [Req -> Status \cup {"processing"}] /\ busy' \in {None} \cup Responses
         /\ web' \in [Req -> {None} \cup WebRecords]
<1>1. RegistryTypes BY DEF Registry
<1>2. web[r].g \in Gen BY <1>1 DEF RegistryTypes, WebRecords
<1>3. CASE Admits(r, web[r].g)
  <2>1. BeginResponse(r, web[r].g, "web", FALSE) /\ UNCHANGED web BY <1>3 DEF AnswerWeb
  <2>2. Answering' BY <1>2, <1>3, <2>1, AnswerBegins
  <2>3. phase' \in [Req -> Status \cup {"processing"}] /\ busy' \in {None} \cup Responses
    BY <1>1, <1>2, <2>1, ResponseTypes
  <2> QED BY <1>1, <2>1, <2>2, <2>3
       DEF Registry, RegistryTypes, RevokedStaysHidden, ProjectionsAreCurrent
<1>4. CASE ~Admits(r, web[r].g)
  <2>1. /\ UNCHANGED <<phase, busy>>
        /\ web' = [web EXCEPT ![r] = None] \/ web' = [web EXCEPT ![r].st = "unknown"]
    BY <1>4 DEF AnswerWeb
  <2>2. Answering' BY <1>1, <2>1, AnsweringKept DEF Registry
  <2>3. /\ web' \in [Req -> {None} \cup WebRecords]
        /\ \A q \in Req : web'[q] # None => /\ web[q] # None
                                            /\ web'[q].g = web[q].g /\ web'[q].hidden = web[q].hidden
    <3>1. CASE web' = [web EXCEPT ![r] = None] BY <1>1, <3>1 DEF RegistryTypes
    <3>2. CASE web' = [web EXCEPT ![r].st = "unknown"]
      BY <1>1, <3>2, WebRecordKept DEF Status
    <3> QED BY <2>1, <3>1, <3>2
  <2>4. RevokedStaysHidden' BY <1>1, <2>3 DEF Registry, RegistryTypes, RevokedStaysHidden
  <2>5. ProjectionsAreCurrent' BY <2>3 DEF Registry, ProjectionsAreCurrent
  <2> QED BY <1>1, <2>1, <2>2, <2>3, <2>4, <2>5 DEF RegistryTypes
<1> QED BY <1>3, <1>4

LEMMA FeishuAnswers ==
  ASSUME Registry, Idle, NEW r \in Req, NEW revoke \in BOOLEAN, fs[r] # None,
         AnswerFeishu(r, revoke),
         UNCHANGED <<epoch, pend, resolved, settled, grants, wrote, attached, fc>>
  PROVE  /\ Answering'
         /\ phase' \in [Req -> Status \cup {"processing"}] /\ busy' \in {None} \cup Responses
         /\ fs' \in [Req -> {None} \cup FsRecords]
<1>1. RegistryTypes BY DEF Registry
<1>2. fs[r].g \in Gen BY <1>1 DEF RegistryTypes, FsRecords
<1>3. CASE Admits(r, fs[r].g)
  <2>1. BeginResponse(r, fs[r].g, "feishu", revoke) /\ UNCHANGED fs BY <1>3 DEF AnswerFeishu
  <2>2. Answering' BY <1>2, <1>3, <2>1, AnswerBegins
  <2>3. phase' \in [Req -> Status \cup {"processing"}] /\ busy' \in {None} \cup Responses
    BY <1>1, <1>2, <2>1, ResponseTypes
  <2> QED BY <1>1, <2>1, <2>2, <2>3 DEF RegistryTypes
<1>4. CASE ~Admits(r, fs[r].g)
  <2>1. /\ UNCHANGED <<phase, busy>>
        /\ fs' = [fs EXCEPT ![r] = None] \/ fs' = [fs EXCEPT ![r].st = "unknown"]
    BY <1>4 DEF AnswerFeishu
  <2>2. Answering' BY <1>1, <2>1, AnsweringKept DEF Registry
  <2>3. fs' \in [Req -> {None} \cup FsRecords]
    <3>1. CASE fs' = [fs EXCEPT ![r] = None] BY <1>1, <3>1 DEF RegistryTypes
    <3>2. CASE fs' = [fs EXCEPT ![r].st = "unknown"] BY <1>1, <3>2, FsRecordKept DEF Status
    <3> QED BY <2>1, <3>1, <3>2
  <2> QED BY <1>1, <2>1, <2>2, <2>3 DEF RegistryTypes
<1> QED BY <1>3, <1>4

\* A due timer answers for the record it was issued to, like its surface.
LEMMA HandleDueStep ==
  ASSUME RequestInd, HandleDue
  PROVE  RequestInd'
<1> DEFINE e == Head(queue)
           r == e.r
<1>1. /\ Idle /\ queue # <<>> /\ e.k = "due" /\ queue' = Tail(queue)
      /\ UNCHANGED <<upVars, conn, lastGen, frameNo, auth, epoch, pend, revoked, lost, resolved,
                     timerNo, webLive, fcVars, histVars>>
  BY DEF HandleDue
<1>2. UNCHANGED <<fc, attached, grants, wrote, settled>> BY <1>1 DEF fcVars, histVars
<1>3. Registry /\ RegistryTypes BY DEF RequestInd, Registry
<1>4. \A q \in Req, g \in Gen : Untouched(q, g)' = Untouched(q, g) BY <1>2 DEF Untouched
<1>5. r \in Req
  <2>1. queue \in Seq(Item) BY DEF RequestInd, Connections, QueueIsSane
  <2>2. Head(queue) = queue[1] /\ 1 \in DOMAIN queue BY <1>1, <2>1, RestOfQueue
  <2> QED BY <1>1, <2>2 DEF RequestInd, Connections, QueueIsSane
<1>6. /\ timer' = timer \/ timer' = [timer EXCEPT ![r] = 0]
      /\ \/ web[r] # None /\ AnswerWeb(r) /\ UNCHANGED fs
         \/ fs[r] # None /\ AnswerFeishu(r, FALSE) /\ UNCHANGED web
         \/ UNCHANGED <<phase, busy, web, fs>>
  BY DEF HandleDue
<1> HIDE DEF r
<1>7. timer' \in [Req -> Nat] BY <1>3, <1>6 DEF RegistryTypes
<1>8. /\ Answering' /\ RevokedStaysHidden' /\ ProjectionsAreCurrent'
      /\ phase' \in [Req -> Status \cup {"processing"}] /\ busy' \in {None} \cup Responses
      /\ web' \in [Req -> {None} \cup WebRecords] /\ fs' \in [Req -> {None} \cup FsRecords]
  <2>1. CASE web[r] # None /\ AnswerWeb(r) /\ UNCHANGED fs
    BY <1>1, <1>2, <1>3, <1>5, <2>1, WebAnswers DEF RegistryTypes
  <2>2. CASE fs[r] # None /\ AnswerFeishu(r, FALSE) /\ UNCHANGED web
    <3>1. /\ Answering' /\ phase' \in [Req -> Status \cup {"processing"}]
          /\ busy' \in {None} \cup Responses /\ fs' \in [Req -> {None} \cup FsRecords]
      BY <1>1, <1>2, <1>3, <1>5, <2>2, FeishuAnswers
    <3> QED BY <1>1, <1>2, <1>3, <2>2, <3>1
         DEF Registry, RegistryTypes, RevokedStaysHidden, ProjectionsAreCurrent
  <2>3. CASE UNCHANGED <<phase, busy, web, fs>>
    <3>1. Answering' BY <1>1, <1>2, <1>3, <2>3, AnsweringKept DEF Registry
    <3> QED BY <1>1, <1>2, <1>3, <2>3, <3>1
         DEF Registry, RegistryTypes, RevokedStaysHidden, ProjectionsAreCurrent
  <2> QED BY <1>6, <2>1, <2>2, <2>3
<1>9. RegistryTypes' BY <1>1, <1>2, <1>3, <1>7, <1>8 DEF RegistryTypes
<1>10. Registry' BY <1>8, <1>9 DEF Registry
<1> QED BY <1>1, <1>2, <1>4, <1>10, Taken

LEMMA WebAnswerStep ==
  ASSUME RequestInd, NEW r \in Req, WebAnswer(r)
  PROVE  RequestInd'
<1>1. /\ Idle /\ web[r] # None /\ AnswerWeb(r)
      /\ UNCHANGED <<upVars, connVars, epoch, pend, revoked, lost, resolved, timerVars, webLive,
                     fcVars, fs, histVars>>
  BY DEF WebAnswer
<1>2. UNCHANGED <<up, frames, answers, news, timer, timerNo, fc, attached, grants, wrote, settled>>
  BY <1>1 DEF upVars, timerVars, fcVars, histVars
<1>3. Registry /\ RegistryTypes BY DEF RequestInd, Registry
<1>4. /\ Answering' /\ RevokedStaysHidden' /\ ProjectionsAreCurrent'
      /\ phase' \in [Req -> Status \cup {"processing"}] /\ busy' \in {None} \cup Responses
      /\ web' \in [Req -> {None} \cup WebRecords]
  BY <1>1, <1>2, <1>3, WebAnswers
<1>5. RegistryTypes' BY <1>1, <1>2, <1>3, <1>4 DEF RegistryTypes
<1>6. Registry' BY <1>4, <1>5 DEF Registry
<1> QED BY <1>1, <1>2, <1>6, OnLoopQuietly

LEMMA BrowserAttachStep ==
  ASSUME RequestInd, BrowserAttach
  PROVE  RequestInd'
<1>1. UNCHANGED <<upVars, connVars, regVars, timerVars, web, fcVars, fs, busy, histVars>>
      /\ webLive' = ~webLive
  BY DEF BrowserAttach
<1>2. UNCHANGED <<up, frames, answers, news, epoch, pend, phase, revoked, lost, resolved, timer,
                  timerNo, fc, attached, grants, wrote, settled>>
  BY <1>1 DEF upVars, regVars, timerVars, fcVars, histVars
<1>3. Registry /\ RegistryTypes BY DEF RequestInd, Registry
<1>4. webLive' \in BOOLEAN BY <1>1
<1>5. RegistryTypes' BY <1>1, <1>2, <1>3, <1>4 DEF RegistryTypes
<1>6. Answering' BY <1>1, <1>2, <1>3, AnsweringKept DEF Registry
<1>7. RevokedStaysHidden' /\ ProjectionsAreCurrent'
  BY <1>1, <1>2, <1>3 DEF Registry, RevokedStaysHidden, ProjectionsAreCurrent
<1>8. Registry' BY <1>5, <1>6, <1>7 DEF Registry
<1> QED BY <1>1, <1>2, <1>8, OnLoopQuietly

\* What the Feishu steps leave alone.
LEMMA FeishuStep ==
  ASSUME RequestInd, Answering',
         phase' \in [Req -> Status \cup {"processing"}], busy' \in {None} \cup Responses,
         fs' \in [Req -> {None} \cup FsRecords],
         UNCHANGED <<upVars, connVars, epoch, pend, revoked, lost, resolved, timerVars, webVars,
                     fcVars, histVars>>
  PROVE  RequestInd'
<1>1. UNCHANGED <<up, frames, answers, news, timer, timerNo, web, webLive, fc, attached, grants,
                  wrote, settled>>
  BY DEF upVars, timerVars, webVars, fcVars, histVars
<1>2. Registry /\ RegistryTypes BY DEF RequestInd, Registry
<1>3. RegistryTypes' BY <1>1, <1>2 DEF RegistryTypes
<1>4. RevokedStaysHidden' /\ ProjectionsAreCurrent'
  BY <1>1, <1>2 DEF Registry, RevokedStaysHidden, ProjectionsAreCurrent
<1>5. Registry' BY <1>3, <1>4 DEF Registry
<1> QED BY <1>1, <1>5, OnLoopQuietly

LEMMA FeishuAnswerStep ==
  ASSUME RequestInd, NEW r \in Req, FeishuAnswer(r)
  PROVE  RequestInd'
<1>1. /\ Idle /\ fs[r] # None /\ AnswerFeishu(r, FALSE)
      /\ UNCHANGED <<upVars, connVars, epoch, pend, revoked, lost, resolved, timerVars, webVars,
                     fcVars, histVars>>
  BY DEF FeishuAnswer
<1>2. UNCHANGED <<fc, attached, grants, wrote, settled>> BY <1>1 DEF fcVars, histVars
<1>3. Registry BY DEF RequestInd
<1>4. /\ Answering' /\ phase' \in [Req -> Status \cup {"processing"}]
      /\ busy' \in {None} \cup Responses /\ fs' \in [Req -> {None} \cup FsRecords]
  BY <1>1, <1>2, <1>3, FeishuAnswers
<1> QED BY <1>1, <1>4, FeishuStep

LEMMA FeishuChatClosedStep ==
  ASSUME RequestInd, NEW r \in Req, FeishuChatClosed(r)
  PROVE  RequestInd'
<1>1. /\ Idle /\ fs[r] # None
      /\ \/ fs' = [fs EXCEPT ![r] = None] /\ UNCHANGED <<phase, busy>>
         \/ AnswerFeishu(r, FALSE)
      /\ UNCHANGED <<upVars, connVars, epoch, pend, revoked, lost, resolved, timerVars, webVars,
                     fcVars, histVars>>
  BY DEF FeishuChatClosed
<1>2. UNCHANGED <<fc, attached, grants, wrote, settled>> BY <1>1 DEF fcVars, histVars
<1>3. Registry /\ RegistryTypes BY DEF RequestInd, Registry
<1>4. /\ Answering' /\ phase' \in [Req -> Status \cup {"processing"}]
      /\ busy' \in {None} \cup Responses /\ fs' \in [Req -> {None} \cup FsRecords]
  <2>1. CASE AnswerFeishu(r, FALSE) BY <1>1, <1>2, <1>3, <2>1, FeishuAnswers
  <2>2. CASE fs' = [fs EXCEPT ![r] = None] /\ UNCHANGED <<phase, busy>>
    <3>1. Answering' BY <1>1, <1>2, <1>3, <2>2, AnsweringKept DEF Registry
    <3> QED BY <1>3, <2>2, <3>1 DEF RegistryTypes
  <2> QED BY <1>1, <2>1, <2>2
<1> QED BY <1>1, <1>4, FeishuStep

\* The revoked request is registered, and its Web record hidden with it.
LEMMA FeishuGroupDeactivatedStep ==
  ASSUME RequestInd, NEW r \in Req, FeishuGroupDeactivated(r)
  PROVE  RequestInd'
<1> DEFINE f == [fs EXCEPT ![r].denied = TRUE]
           exact == r \in Approval /\ pend[r] = fs[r].g
<1>1. /\ Idle /\ fs[r] # None
      /\ UNCHANGED <<upVars, connVars, epoch, pend, lost, resolved, timerVars, webLive, fcVars,
                     histVars>>
  BY DEF FeishuGroupDeactivated
<1>2. UNCHANGED <<up, frames, answers, news, timer, timerNo, fc, attached, grants, wrote, settled>>
  BY <1>1 DEF upVars, timerVars, fcVars, histVars
<1>3. Registry /\ RegistryTypes BY DEF RequestInd, Registry
<1>4. fs[r] \in FsRecords /\ fs[r].g \in Gen /\ fs[r].g # 0
  BY <1>1, <1>3, ServerRequestsAssumption DEF RegistryTypes, FsRecords, Gen
<1>5. /\ f \in [Req -> {None} \cup FsRecords]
      /\ [f EXCEPT ![r].st = "unknown"] \in [Req -> {None} \cup FsRecords]
      /\ [fs EXCEPT ![r] = None] \in [Req -> {None} \cup FsRecords]
  <2>1. [fs[r] EXCEPT !.denied = TRUE] \in FsRecords BY <1>4 DEF FsRecords
  <2>2. [[fs[r] EXCEPT !.denied = TRUE] EXCEPT !.st = "unknown"] \in FsRecords
    BY <2>1 DEF FsRecords, Status
  <2>3. f[r] = [fs[r] EXCEPT !.denied = TRUE] BY <1>3 DEF RegistryTypes
  <2>4. f \in [Req -> {None} \cup FsRecords] BY <1>3, <2>1 DEF RegistryTypes
  <2> HIDE DEF f
  <2>5. [f EXCEPT ![r].st = "unknown"] \in [Req -> {None} \cup FsRecords] BY <2>2, <2>3, <2>4
  <2> QED BY <1>3, <2>4, <2>5 DEF RegistryTypes
<1>6. CASE /\ Admits(r, fs[r].g) /\ BeginResponse(r, fs[r].g, "feishu", exact)
           /\ fs' = f /\ UNCHANGED <<revoked, web>>
  <2>1. exact \in BOOLEAN OBVIOUS
  <2> HIDE DEF exact, f
  <2>2. Answering' BY <1>1, <1>2, <1>3, <1>4, <1>6, <2>1, AnswerBegins
  <2>3. phase' \in [Req -> Status \cup {"processing"}] /\ busy' \in {None} \cup Responses
    BY <1>3, <1>4, <1>6, <2>1, ResponseTypes
  <2>4. UNCHANGED webVars BY <1>1, <1>6 DEF webVars
  <2> QED BY <1>1, <1>5, <1>6, <2>2, <2>3, <2>4, FeishuStep
<1>7. CASE /\ IF exact THEN Revoke(r) ELSE UNCHANGED <<revoked, web>>
           /\ fs' \in {f, [fs EXCEPT ![r] = None], [f EXCEPT ![r].st = "unknown"]}
           /\ UNCHANGED <<phase, busy>>
  <2>1. fs' \in [Req -> {None} \cup FsRecords] BY <1>5, <1>7
  <2>2. Answering' BY <1>1, <1>2, <1>3, <1>7, AnsweringKept DEF Registry
  <2>3. CASE ~exact
    <3>1. UNCHANGED <<revoked, webVars>> BY <1>1, <1>7, <2>3 DEF webVars
    <3>2. phase' \in [Req -> Status \cup {"processing"}] /\ busy' \in {None} \cup Responses
      BY <1>3, <1>7 DEF RegistryTypes
    <3> QED BY <1>1, <2>1, <2>2, <3>1, <3>2, FeishuStep
  <2>4. CASE exact
    <3>1. /\ revoked' = revoked \cup {r}
          /\ web' = IF web[r] = None THEN web ELSE [web EXCEPT ![r].hidden = TRUE]
      BY <1>7, <2>4 DEF Revoke
    <3>2. /\ web' \in [Req -> {None} \cup WebRecords]
          /\ \A q \in Req : web'[q] # None =>
               /\ web[q] # None /\ web'[q].g = web[q].g
               /\ q = r \/ web[q].hidden => web'[q].hidden
      <4>1. CASE web[r] = None BY <1>3, <3>1, <4>1 DEF RegistryTypes
      <4>2. CASE web[r] # None
        <5>1. web[r] \in WebRecords BY <1>3, <4>2 DEF RegistryTypes
        <5>2. /\ [web[r] EXCEPT !.hidden = TRUE] \in WebRecords
              /\ [web[r] EXCEPT !.hidden = TRUE].g = web[r].g
              /\ [web[r] EXCEPT !.hidden = TRUE].hidden = TRUE
          BY <5>1 DEF WebRecords
        <5>3. web' = [web EXCEPT ![r] = [web[r] EXCEPT !.hidden = TRUE]] BY <3>1, <4>2
        <5> QED BY <1>3, <4>2, <5>2, <5>3 DEF RegistryTypes
      <4> QED BY <4>1, <4>2
    <3>3. pend[r] # 0 BY <1>4, <2>4
    <3>4. RegistryTypes'
      BY <1>1, <1>2, <1>3, <1>7, <2>1, <3>1, <3>2 DEF RegistryTypes
    <3>5. RevokedStaysHidden'
      BY <1>1, <1>3, <3>1, <3>2, <3>3 DEF Registry, RegistryTypes, RevokedStaysHidden
    <3>6. ProjectionsAreCurrent' BY <1>1, <1>2, <1>3, <3>2 DEF Registry, ProjectionsAreCurrent
    <3>7. Registry' BY <2>2, <3>4, <3>5, <3>6 DEF Registry
    <3> QED BY <1>1, <1>2, <3>7, OnLoopQuietly
  <2> QED BY <2>3, <2>4
<1> QED BY <1>6, <1>7 DEF FeishuGroupDeactivated

-----------------------------------------------------------------------------
(* The proxies.                                                             *)

\* Steps of proxies that change records only, none of one under way.
LEMMA ProxyRecords ==
  ASSUME RequestInd, UNCHANGED <<connVars, regVars, timerVars, webVars, attached, grants, fs,
                                 busy, histVars>>,
         UNCHANGED <<up, answers>>, frames' \subseteq frames, news' \subseteq news,
         fc' \in [Req -> {None} \cup FcRecords],
         \A q \in Req : \/ fc'[q] = fc[q]
                        \/ /\ phase[q] # "processing" \/ fc'[q].sender = fc[q].sender
                           /\ fc'[q] # None
                           /\ fc'[q].g = IF fc[q] = None THEN 0 ELSE fc[q].g
  PROVE  RequestInd'
<1>1. UNCHANGED <<epoch, pend, phase, revoked, lost, resolved, timer, timerNo, web, webLive,
                  wrote, settled>>
  BY DEF regVars, timerVars, webVars, histVars
<1>2. Registry /\ RegistryTypes /\ Answering BY DEF RequestInd, Registry
<1>3. RegistryTypes' BY <1>1, <1>2 DEF RegistryTypes
<1>4. Answering'
  <2>1. RegistryIsSane' /\ OneGrant' /\ OneAnswerPerEpoch'
    BY <1>1, <1>2 DEF Answering, RegistryIsSane, OneGrant, OneAnswerPerEpoch
  <2>2. Unanswered' /\ LoopOwnsAnswer'
    BY <1>1, <1>2 DEF Answering, Unanswered, LoopOwnsAnswer, Untouched
  <2>3. ProcessingHasOwner'
    BY <1>1, <1>2 DEF Answering, ProcessingHasOwner
  <2> QED BY <2>1, <2>2, <2>3 DEF Answering
<1>5. RevokedStaysHidden' /\ ProjectionsAreCurrent'
  BY <1>1, <1>2 DEF Registry, RevokedStaysHidden, ProjectionsAreCurrent
<1>6. Registry' BY <1>3, <1>4, <1>5 DEF Registry
<1> QED BY <1>1, <1>6, OnLoopQuietly

LEMMA ProxyRequestStep ==
  ASSUME RequestInd, NEW p \in Proxy, NEW r \in Req, ProxyRequest(p, r)
  PROVE  RequestInd'
<1> DEFINE new == [g |-> 0, st |-> "open", toks |-> {p}, sender |-> None]
<1>1. /\ frames' = frames \ {<<p, r>>}
      /\ UNCHANGED <<up, answers, news, connVars, regVars, timerVars, webVars, attached, grants,
                     fs, busy, histVars>>
      /\ \/ fc' = fc
         \/ fc[r] = None /\ fc' = [fc EXCEPT ![r] = new]
         \/ fc[r] # None /\ fc' = [fc EXCEPT ![r].toks = @ \cup {p}]
  BY DEF ProxyRequest
<1>2. RegistryTypes BY DEF RequestInd, Registry
<1>3. new \in FcRecords /\ new # None /\ new.g = 0
  <2>1. new \in FcRecords BY ServerRequestsAssumption DEF FcRecords
  <2> QED BY <2>1, NullAssumption
<1>4. CASE fc' = fc BY <1>1, <1>2, <1>4, ProxyRecords DEF RegistryTypes
<1>5. CASE fc[r] = None /\ fc' = [fc EXCEPT ![r] = new]
  <2> HIDE DEF new
  <2>1. fc' \in [Req -> {None} \cup FcRecords] BY <1>2, <1>3, <1>5 DEF RegistryTypes
  <2>2. \A q \in Req : fc'[q] = IF q = r THEN new ELSE fc[q] BY <1>2, <1>5 DEF RegistryTypes
  <2>4. phase[r] # "processing"
    <3>1. busy = None BY DEF ProxyRequest, Idle
    <3> QED BY <1>5, <3>1 DEF RequestInd, Registry, Answering, ProcessingHasOwner
  <2> QED BY <1>1, <1>3, <1>5, <2>1, <2>2, <2>4, ProxyRecords
<1>6. CASE fc[r] # None /\ fc' = [fc EXCEPT ![r].toks = @ \cup {p}]
  <2> DEFINE rec == [fc[r] EXCEPT !.toks = @ \cup {p}]
  <2>1. fc[r] \in FcRecords BY <1>2, <1>6 DEF RegistryTypes
  <2>2. rec \in FcRecords /\ rec.g = fc[r].g /\ rec.sender = fc[r].sender
    BY <2>1 DEF FcRecords
  <2>3. rec # None BY <2>2, NullAssumption
  <2>4. fc' = [fc EXCEPT ![r] = rec] BY <1>6
  <2> HIDE DEF rec
  <2>5. fc' \in [Req -> {None} \cup FcRecords] BY <1>2, <2>2, <2>4 DEF RegistryTypes
  <2>6. \A q \in Req : fc'[q] = IF q = r THEN rec ELSE fc[q] BY <1>2, <2>4 DEF RegistryTypes
  <2> QED BY <1>1, <1>6, <2>2, <2>3, <2>5, <2>6, ProxyRecords
<1> QED BY <1>1, <1>4, <1>5, <1>6

LEMMA ProxyInvalidStep ==
  ASSUME RequestInd, NEW p \in Proxy, NEW r \in Req, ProxyInvalid(p, r)
  PROVE  RequestInd'
<1> DEFINE rec == [fc[r] EXCEPT !.toks = @ \ {p}]
<1>1. /\ fc[r] # None /\ fc' = [fc EXCEPT ![r] = rec]
      /\ UNCHANGED <<upVars, connVars, regVars, timerVars, webVars, attached, grants, fs, busy,
                     histVars>>
  BY DEF ProxyInvalid, MayAnswer
<1>2. RegistryTypes BY DEF RequestInd, Registry
<1>3. fc[r] \in FcRecords BY <1>1, <1>2 DEF RegistryTypes
<1>4. rec \in FcRecords /\ rec.g = fc[r].g /\ rec.sender = fc[r].sender
  BY <1>3 DEF FcRecords
<1>5. rec # None BY <1>4, NullAssumption
<1> HIDE DEF rec
<1>6. fc' \in [Req -> {None} \cup FcRecords] BY <1>1, <1>2, <1>4 DEF RegistryTypes
<1>7. \A q \in Req : fc'[q] = IF q = r THEN rec ELSE fc[q] BY <1>1, <1>2 DEF RegistryTypes
<1>8. UNCHANGED <<up, frames, answers, news>> BY <1>1 DEF upVars
<1> QED BY <1>1, <1>4, <1>5, <1>6, <1>7, <1>8, ProxyRecords

\* A proxy is granted the one answer of this epoch.
LEMMA ProxyClaimStep ==
  ASSUME RequestInd, NEW p \in Proxy, NEW r \in Req, ProxyClaim(p, r)
  PROVE  RequestInd'
<1> DEFINE claims == epoch # 0 /\ r \notin resolved /\ (pend[r] = 0 \/ Admits(r, pend[r]))
           rec == [fc[r] EXCEPT !.g = epoch, !.st = "submitted", !.sender = p]
           x == [p |-> p, r |-> r, g |-> epoch, sent |-> "no"]
           lateRec == [fc[r] EXCEPT !.st = "superseded"]
<1>1. /\ Idle /\ p \in attached /\ fc[r] # None /\ fc[r].g = 0
      /\ IF claims
         THEN /\ pend' = [pend EXCEPT ![r] = epoch]
              /\ phase' = [phase EXCEPT ![r] = "processing"]
              /\ fc' = [fc EXCEPT ![r].g = epoch, ![r].st = "submitted", ![r].sender = p]
              /\ grants' = grants \cup {x}
         ELSE /\ fc' = fc \/ fc' = [fc EXCEPT ![r] = lateRec]
              /\ UNCHANGED <<pend, phase, grants>>
      /\ UNCHANGED <<upVars, connVars, epoch, revoked, lost, resolved, timerVars, webVars,
                     attached, fs, busy, histVars>>
  BY DEF ProxyClaim, MayAnswer
<1>2. UNCHANGED <<timer, timerNo, web, webLive, wrote, settled>>
  BY <1>1 DEF timerVars, webVars, histVars
<1>3. Registry /\ RegistryTypes /\ Answering BY DEF RequestInd, Registry
<1>4. fc[r] \in FcRecords BY <1>1, <1>3 DEF RegistryTypes
<1>5. CASE ~claims
  <2>1. lateRec \in FcRecords /\ lateRec.g = fc[r].g /\ lateRec.sender = fc[r].sender
    BY <1>4 DEF FcRecords
  <2>2. lateRec # None BY <2>1, NullAssumption
  <2>3. UNCHANGED regVars BY <1>1, <1>5 DEF regVars
  <2>4. UNCHANGED <<up, frames, answers, news>> BY <1>1 DEF upVars
  <2>5. CASE fc' = fc
    <3>1. fc' \in [Req -> {None} \cup FcRecords] BY <1>3, <2>5 DEF RegistryTypes
    <3> QED BY <1>1, <1>5, <2>3, <2>4, <2>5, <3>1, ProxyRecords
  <2>6. CASE fc' = [fc EXCEPT ![r] = lateRec]
    <3> HIDE DEF lateRec
    <3>1. fc' \in [Req -> {None} \cup FcRecords] BY <1>3, <2>1, <2>6 DEF RegistryTypes
    <3>2. \A q \in Req : fc'[q] = IF q = r THEN lateRec ELSE fc[q]
      BY <1>3, <2>6 DEF RegistryTypes
    <3> QED BY <1>1, <1>5, <2>1, <2>2, <2>3, <2>4, <3>1, <3>2, ProxyRecords
  <2> QED BY <1>1, <1>5, <2>5, <2>6
<1>6. CASE claims
  <2>1. /\ epoch # 0 /\ epoch \in Gen /\ epoch \in 0..MaxGen /\ r \notin resolved
        /\ phase[r] = "pending" /\ pend[r] \in {0, epoch}
    <3>1. epoch \in Gen /\ epoch \in 0..MaxGen
      BY <1>3, <1>6, ServerRequestsAssumption DEF RegistryTypes, Gen
    <3>2. phase[r] = "pending"
      BY <1>3, <1>6 DEF Answering, RegistryIsSane, Admits
    <3> QED BY <1>3, <1>6, <3>1, <3>2 DEF Registry, ProjectionsAreCurrent
  <2>2. Untouched(r, epoch) BY <1>3, <2>1 DEF Answering, Unanswered
  <2>3. fc' = [fc EXCEPT ![r] = rec]
    <3>1. fc' = [fc EXCEPT ![r].g = epoch, ![r].st = "submitted", ![r].sender = p]
      BY <1>1, <1>6
    <3>2. \A q \in Req : fc'[q] = IF q = r THEN rec ELSE fc[q]
      BY <1>3, <3>1 DEF RegistryTypes
    <3>3. fc' = [q \in Req |-> fc'[q]] BY <1>3, <3>1 DEF RegistryTypes
    <3>4. [fc EXCEPT ![r] = rec] = [q \in Req |-> IF q = r THEN rec ELSE fc[q]]
      BY <1>3 DEF RegistryTypes
    <3> QED BY <3>2, <3>3, <3>4
  <2>4. rec \in FcRecords /\ rec.g = epoch /\ rec.sender = p
    BY <1>4, <2>1 DEF FcRecords
  <2>5. rec # None BY <2>4, NullAssumption
  <2>6. /\ pend' = [pend EXCEPT ![r] = epoch]
        /\ phase' = [phase EXCEPT ![r] = "processing"]
        /\ grants' = grants \cup {x}
    BY <1>1, <1>6
  <2>7. x.p = p /\ x.r = r /\ x.g = epoch /\ x.sent = "no" OBVIOUS
  <2>8. x \in [p : Proxy, r : Req, g : Gen, sent : {"no", "submitted", "unknown"}] BY <2>1
  <2> HIDE DEF rec, x
  <2>9. /\ \A q \in Req : pend'[q] = IF q = r THEN epoch ELSE pend[q]
        /\ \A q \in Req : phase'[q] = IF q = r THEN "processing" ELSE phase[q]
        /\ \A q \in Req : fc'[q] = IF q = r THEN rec ELSE fc[q]
    BY <1>3, <2>3, <2>6 DEF RegistryTypes
  <2>10. RegistryTypes' BY <1>1, <1>2, <1>3, <2>1, <2>3, <2>4, <2>6, <2>8 DEF RegistryTypes
  <2>11. \A q \in Req, g \in Gen : Untouched(q, g) => Untouched(q, g)' \/ (q = r /\ g = epoch)
    BY <1>2, <2>6, <2>7 DEF Untouched
  <2>12. RegistryIsSane' BY <1>1, <1>2, <1>3, <2>1, <2>9 DEF Answering, RegistryIsSane
  <2>13. Unanswered' BY <1>1, <1>3, <2>1, <2>9, <2>11 DEF Answering, Unanswered
  <2>14. LoopOwnsAnswer' BY <1>1 DEF LoopOwnsAnswer, Idle
  <2>15. OneGrant'
    BY <1>2, <1>3, <2>2, <2>6, <2>7 DEF Answering, OneGrant, Untouched
  <2>16. OneAnswerPerEpoch' BY <1>2, <1>3 DEF Answering, OneAnswerPerEpoch
  <2>17. ProcessingHasOwner'
    BY <1>1, <1>3, <2>4, <2>5, <2>9 DEF Answering, ProcessingHasOwner, Idle
  <2>18. RevokedStaysHidden'
    BY <1>1, <1>2, <1>3, <2>1, <2>9 DEF Registry, RegistryTypes, RevokedStaysHidden
  <2>19. ProjectionsAreCurrent'
    <3>1. \A q \in Req : web[q] # None => web[q].g # 0
      BY <1>3, ServerRequestsAssumption DEF RegistryTypes, WebRecords, Gen
    <3> QED BY <1>1, <1>2, <1>3, <2>1, <2>4, <2>9, <3>1 DEF Registry, ProjectionsAreCurrent
  <2>20. Registry'
    BY <2>10, <2>12, <2>13, <2>14, <2>15, <2>16, <2>17, <2>18, <2>19 DEF Registry, Answering
  <2>21. UNCHANGED <<up, frames, answers, news, queue, conn, lastGen, frameNo, auth>>
    BY <1>1 DEF upVars, connVars
  <2>22. ConnectionTypes' BY <2>21 DEF RequestInd, Connections, ConnectionTypes
  <2>23. \A q \in Req, g \in Gen :
           ~Untouched(q, g)' \/ <<q, g>> \in settled' =>
             ~Untouched(q, g) \/ <<q, g>> \in settled \/ g = epoch'
    BY <1>1, <1>2, <2>11
  <2> QED BY <1>1, <1>2, <2>20, <2>21, <2>22, <2>23, OnLoop
<1> QED BY <1>5, <1>6

LEMMA ProxyAnswerStep ==
  ASSUME RequestInd, NEW p \in Proxy, NEW r \in Req, ProxyAnswer(p, r)
  PROVE  RequestInd'
<1>1. /\ Idle /\ fc[r] # None /\ fc[r].g # 0
      /\ UNCHANGED <<upVars, connVars, epoch, pend, revoked, lost, resolved, timerVars, webVars,
                     attached, grants, fs, histVars>>
  BY DEF ProxyAnswer, MayAnswer
<1>2. UNCHANGED <<up, frames, answers, news, timer, timerNo, web, webLive, wrote, settled>>
  BY <1>1 DEF upVars, timerVars, webVars, histVars
<1>3. Registry /\ RegistryTypes BY DEF RequestInd, Registry
<1>4. fc[r] \in FcRecords /\ fc[r].g \in Gen
  BY <1>1, <1>3, ServerRequestsAssumption DEF RegistryTypes, FcRecords, Gen
<1>5. CASE Admits(r, fc[r].g)
  <2>1. BeginResponse(r, fc[r].g, "fcodex", FALSE) /\ UNCHANGED fc BY <1>5 DEF ProxyAnswer
  <2>2. Answering' BY <1>1, <1>2, <1>3, <1>4, <1>5, <2>1, AnswerBegins
  <2>3. phase' \in [Req -> Status \cup {"processing"}] /\ busy' \in {None} \cup Responses
    BY <1>3, <1>4, <2>1, ResponseTypes
  <2>4. RegistryTypes' BY <1>1, <1>2, <1>3, <2>1, <2>3 DEF RegistryTypes
  <2>5. RevokedStaysHidden' /\ ProjectionsAreCurrent'
    BY <1>1, <1>2, <1>3, <2>1 DEF Registry, RevokedStaysHidden, ProjectionsAreCurrent
  <2>6. Registry' BY <2>2, <2>4, <2>5 DEF Registry
  <2> QED BY <1>1, <1>2, <2>6, OnLoopQuietly
<1>6. CASE ~Admits(r, fc[r].g)
  <2> DEFINE st == IF Superseded(r, fc[r].g) THEN "superseded" ELSE "unknown"
             rec == [fc[r] EXCEPT !.st = st]
  <2>1. fc' = [fc EXCEPT ![r] = rec] /\ UNCHANGED <<phase, busy>> BY <1>6 DEF ProxyAnswer
  <2>2. rec \in FcRecords /\ rec.g = fc[r].g /\ rec.sender = fc[r].sender
    BY <1>4 DEF FcRecords
  <2>3. rec # None BY <2>2, NullAssumption
  <2> HIDE DEF rec
  <2>4. fc' \in [Req -> {None} \cup FcRecords] BY <1>3, <2>1, <2>2 DEF RegistryTypes
  <2>5. \A q \in Req : fc'[q] = IF q = r THEN rec ELSE fc[q]
    BY <1>3, <2>1 DEF RegistryTypes
  <2>6. UNCHANGED regVars BY <1>1, <2>1 DEF regVars
  <2> QED BY <1>1, <1>2, <2>1, <2>2, <2>3, <2>4, <2>5, <2>6, ProxyRecords
<1> QED BY <1>5, <1>6

\* The granted write: the first one of its request in its epoch.
LEMMA ProxySendsStep ==
  ASSUME RequestInd, NEW x \in grants, ProxySends(x)
  PROVE  RequestInd'
<1>1. /\ x.sent = "no" /\ answers' \subseteq answers \cup {x.r}
      /\ wrote' = [wrote EXCEPT ![<<x.r, x.g>>] = @ + 1]
      /\ UNCHANGED <<up, frames, news, connVars, regVars, timerVars, webVars, fc, attached, fs,
                     busy, settled>>
  BY DEF ProxySends
<1>2. UNCHANGED <<epoch, pend, phase, revoked, lost, resolved, timer, timerNo, web, webLive,
                  conn, lastGen, auth, queue, frameNo>>
  BY <1>1 DEF connVars, regVars, timerVars, webVars
<1>3. PICK sent \in {"submitted", "unknown"} :
        grants' = (grants \ {x}) \cup {[x EXCEPT !.sent = sent]}
  BY DEF ProxySends
<1>4. Registry /\ RegistryTypes /\ Answering BY DEF RequestInd, Registry
<1>5. x \in [p : Proxy, r : Req, g : Gen, sent : {"no", "submitted", "unknown"}]
  BY <1>4 DEF RegistryTypes
<1> DEFINE y == [x EXCEPT !.sent = sent]
<1>6. /\ y \in [p : Proxy, r : Req, g : Gen, sent : {"no", "submitted", "unknown"}]
      /\ y.r = x.r /\ y.g = x.g /\ y.sent # "no"
  BY <1>3, <1>5
<1>7. grants' = (grants \ {x}) \cup {y} BY <1>3
<1> HIDE DEF y
<1>8. x.r \in Req /\ x.g \in Gen /\ <<x.r, x.g>> \in Req \X Gen BY <1>5
<1>9. wrote[<<x.r, x.g>>] = 0 BY <1>1, <1>4 DEF Answering, OneGrant
<1>10. \A z \in Req \X Gen : wrote'[z] = IF z = <<x.r, x.g>> THEN 1 ELSE wrote[z]
  BY <1>1, <1>4, <1>8, <1>9 DEF RegistryTypes
<1>11. wrote' \in [Req \X Gen -> Nat]
  BY <1>1, <1>4, <1>8, <1>9 DEF RegistryTypes
<1>12. \A q \in Req, g \in Gen : Untouched(q, g) => Untouched(q, g)'
  <2> SUFFICES ASSUME NEW q \in Req, NEW g \in Gen, Untouched(q, g)
               PROVE  Untouched(q, g)'
    OBVIOUS
  <2>1. ~(x.r = q /\ x.g = g) BY DEF Untouched
  <2>2. <<q, g>> # <<x.r, x.g>> /\ <<q, g>> \in Req \X Gen BY <2>1
  <2>3. wrote'[<<q, g>>] = wrote[<<q, g>>] BY <1>10, <2>2
  <2> QED BY <1>6, <1>7, <2>1, <2>3 DEF Untouched
<1>13. \A q \in Req, g \in Gen : Untouched(q, g)' => Untouched(q, g)
  <2> SUFFICES ASSUME NEW q \in Req, NEW g \in Gen, Untouched(q, g)'
               PROVE  Untouched(q, g)
    OBVIOUS
  <2>1. ~(y.r = q /\ y.g = g) BY <1>7 DEF Untouched
  <2>2. <<q, g>> # <<x.r, x.g>> /\ <<q, g>> \in Req \X Gen BY <1>6, <2>1
  <2>3. wrote'[<<q, g>>] = wrote[<<q, g>>] BY <1>10, <2>2
  <2> QED BY <1>6, <1>7, <2>1, <2>3 DEF Untouched
<1>14. RegistryTypes' BY <1>1, <1>2, <1>4, <1>6, <1>7, <1>11 DEF RegistryTypes
<1>15. RegistryIsSane' BY <1>1, <1>2, <1>4 DEF Answering, RegistryIsSane
<1>16. Unanswered'
  <2>1. epoch # 0 => epoch \in Gen BY <1>4 DEF RegistryTypes, Gen
  <2> QED BY <1>2, <1>4, <1>12, <2>1 DEF Answering, Unanswered
<1>17. LoopOwnsAnswer'
  <2>1. busy # None => busy.r \in Req /\ busy.g \in Gen BY <1>4 DEF RegistryTypes, Responses
  <2> QED BY <1>1, <1>2, <1>4, <1>12, <2>1 DEF Answering, LoopOwnsAnswer
<1>18. OneGrant'
  <2>1. ASSUME NEW z \in grants', z.sent = "no" PROVE wrote'[<<z.r, z.g>>] = 0
    <3>1. z \in grants /\ z # x BY <1>6, <1>7, <2>1
    <3>2. ~(z.r = x.r /\ z.g = x.g) BY <1>4, <3>1 DEF Answering, OneGrant
    <3>3. <<z.r, z.g>> \in Req \X Gen BY <1>4, <3>1 DEF RegistryTypes
    <3> QED BY <1>4, <1>10, <2>1, <3>1, <3>2, <3>3 DEF Answering, OneGrant
  <2>2. ASSUME NEW z \in grants', NEW w \in grants', z.r = w.r, z.g = w.g PROVE z = w
    BY <1>4, <1>6, <1>7, <2>2 DEF Answering, OneGrant
  <2> QED BY <2>1, <2>2 DEF OneGrant
<1>19. OneAnswerPerEpoch' BY <1>4, <1>10 DEF Answering, OneAnswerPerEpoch
<1>20. ProcessingHasOwner' BY <1>1, <1>2, <1>4 DEF Answering, ProcessingHasOwner
<1>21. RevokedStaysHidden' /\ ProjectionsAreCurrent'
  BY <1>1, <1>2, <1>4 DEF Registry, RevokedStaysHidden, ProjectionsAreCurrent
<1>22. Registry'
  BY <1>14, <1>15, <1>16, <1>17, <1>18, <1>19, <1>20, <1>21 DEF Registry, Answering
<1>23. ConnectionTypes'
  BY <1>1, <1>2, <1>8 DEF RequestInd, Connections, ConnectionTypes
<1>24. \A q \in Req, g \in Gen :
         ~Untouched(q, g)' \/ <<q, g>> \in settled' =>
           ~Untouched(q, g) \/ <<q, g>> \in settled \/ g = epoch'
  BY <1>1, <1>12
<1> QED BY <1>2, <1>22, <1>23, <1>24, OnLoop

\* Grants are consumed, and nothing of a request that is not processing changes.
LEMMA GrantsConsumed ==
  ASSUME RequestInd, Idle, attached' \subseteq attached, grants' \subseteq grants,
         frames' \subseteq frames, news' \subseteq news,
         UNCHANGED <<up, answers, connVars, epoch, pend, revoked, lost, resolved, timerVars,
                     webVars, fs, busy, histVars>>,
         fc' \in [Req -> {None} \cup FcRecords],
         phase' \in [Req -> Status \cup {"processing"}],
         \A q \in Req : /\ fc'[q] = fc[q] \/ (fc[q] # None /\ fc'[q] # None /\ fc'[q].g = fc[q].g)
                        /\ \/ phase'[q] = phase[q]
                           \/ phase[q] = "processing" /\ phase'[q] \in {"submitted", "unknown"}
                        /\ phase'[q] = "processing" /\ fc[q] # None /\ fc[q].g = pend[q] =>
                             fc'[q].sender = fc[q].sender
                             /\ (fc[q].sender \in attached => fc[q].sender \in attached')
  PROVE  RequestInd'
<1>1. UNCHANGED <<timer, timerNo, web, webLive, wrote, settled, conn, lastGen, auth, queue,
                  frameNo>>
  BY DEF connVars, timerVars, webVars, histVars
<1>2. Registry /\ RegistryTypes /\ Answering BY DEF RequestInd, Registry
<1>3. RegistryTypes' BY <1>1, <1>2 DEF RegistryTypes
<1>4. \A q \in Req, g \in Gen : Untouched(q, g) => Untouched(q, g)' BY <1>1 DEF Untouched
<1>5. \A q \in Req : phase'[q] \in {"pending", "processing"} => phase'[q] = phase[q] OBVIOUS
<1>6. RegistryIsSane'
  BY <1>1, <1>2 DEF Answering, RegistryIsSane
<1>7. Unanswered'
  <2>1. epoch # 0 => epoch \in Gen BY <1>2 DEF RegistryTypes, Gen
  <2> QED BY <1>2, <1>4, <1>5, <2>1 DEF Answering, Unanswered
<1>8. LoopOwnsAnswer' BY DEF LoopOwnsAnswer, Idle
<1>9. OneGrant' /\ OneAnswerPerEpoch'
  BY <1>1, <1>2 DEF Answering, OneGrant, OneAnswerPerEpoch
<1>10. ProcessingHasOwner'
  BY <1>2, <1>5 DEF Answering, ProcessingHasOwner, Idle
<1>11. RevokedStaysHidden' BY <1>1, <1>2 DEF Registry, RevokedStaysHidden
<1>12. ProjectionsAreCurrent' BY <1>1, <1>2 DEF Registry, ProjectionsAreCurrent
<1>13. Registry'
  BY <1>3, <1>6, <1>7, <1>8, <1>9, <1>10, <1>11, <1>12 DEF Registry, Answering
<1>14. ConnectionTypes' BY <1>1 DEF RequestInd, Connections, ConnectionTypes
<1>15. \A q \in Req, g \in Gen :
         ~Untouched(q, g)' \/ <<q, g>> \in settled' =>
           ~Untouched(q, g) \/ <<q, g>> \in settled \/ g = epoch'
  BY <1>1, <1>4
<1> QED BY <1>1, <1>13, <1>14, <1>15, OnLoop

LEMMA ProxyReportStep ==
  ASSUME RequestInd, NEW x \in grants, ProxyReport(x)
  PROVE  RequestInd'
<1>1. /\ Idle /\ x.sent # "no" /\ grants' = grants \ {x}
      /\ UNCHANGED <<upVars, connVars, epoch, pend, revoked, lost, resolved, timerVars, webVars,
                     attached, fs, busy, histVars>>
  BY DEF ProxyReport
<1>2. UNCHANGED <<up, frames, answers, news>> BY <1>1 DEF upVars
<1>3. RegistryTypes /\ Answering BY DEF RequestInd, Registry
<1>4. x.r \in Req /\ x.g \in Gen /\ x.sent \in {"submitted", "unknown"}
  BY <1>1, <1>3 DEF RegistryTypes
<1>5. CASE UNCHANGED <<phase, fc>>
  <2>1. /\ fc' \in [Req -> {None} \cup FcRecords]
        /\ phase' \in [Req -> Status \cup {"processing"}]
    BY <1>3, <1>5 DEF RegistryTypes
  <2> QED BY <1>1, <1>2, <1>5, <2>1, GrantsConsumed
<1>6. CASE fc[x.r] # None /\ FinishProxyResponse(x.r, x.sent)
  <2> DEFINE rec == [fc[x.r] EXCEPT !.sender = None, !.st = x.sent]
  <2>1. fc[x.r] \in FcRecords BY <1>3, <1>4, <1>6 DEF RegistryTypes
  <2>2. rec \in FcRecords /\ rec.g = fc[x.r].g BY <1>4, <2>1 DEF FcRecords
  <2>3. rec # None BY <2>2, NullAssumption
  <2>4. \A q \in Req : fc'[q] = IF q = x.r THEN rec ELSE fc[q]
    BY <1>3, <1>6 DEF FinishProxyResponse, RegistryTypes
  <2>5. fc' \in [Req -> {None} \cup FcRecords]
    <3>1. fc' = [q \in Req |-> fc'[q]] BY <1>3, <1>6 DEF FinishProxyResponse, RegistryTypes
    <3> HIDE DEF rec
    <3>2. \A q \in Req : fc'[q] \in {None} \cup FcRecords
      BY <1>3, <2>2, <2>4 DEF RegistryTypes
    <3> QED BY <3>1, <3>2
  <2> HIDE DEF rec
  <2>6. \A q \in Req : phase'[q] = IF q = x.r /\ pend[q] = fc[q].g /\ phase[q] = "processing"
                                   THEN x.sent ELSE phase[q]
    BY <1>3, <1>4, <1>6 DEF FinishProxyResponse, RegistryTypes
  <2>7. phase' \in [Req -> Status \cup {"processing"}]
    BY <1>3, <1>4, <1>6 DEF FinishProxyResponse, RegistryTypes, Status
  <2> QED BY <1>1, <1>2, <1>4, <1>6, <2>2, <2>3, <2>4, <2>5, <2>6, <2>7, GrantsConsumed
<1> QED BY <1>5, <1>6 DEF ProxyReport

LEMMA ProxyDisconnectStep ==
  ASSUME RequestInd, NEW p \in Proxy, ProxyDisconnect(p)
  PROVE  RequestInd'
<1> DEFINE mine == {q \in Req : fc[q] # None /\ fc[q].sender = p}
           rec(q) == [fc[q] EXCEPT !.toks = @ \ {p},
                                   !.sender = IF q \in mine THEN None ELSE @,
                                   !.st = IF q \in mine THEN "unknown" ELSE @]
<1>1. /\ Idle /\ attached' = attached \ {p}
      /\ frames' \subseteq frames /\ news' \subseteq news /\ grants' \subseteq grants
      /\ fc' = [q \in Req |-> IF fc[q] = None THEN None ELSE rec(q)]
      /\ phase' = [q \in Req |-> IF q \in mine /\ pend[q] = fc[q].g /\ phase[q] = "processing"
                                 THEN "unknown" ELSE phase[q]]
      /\ UNCHANGED <<up, answers, connVars, epoch, pend, revoked, lost, resolved, timerVars,
                     webVars, fs, busy, histVars>>
  BY DEF ProxyDisconnect
<1>2. RegistryTypes BY DEF RequestInd, Registry
<1>3. ASSUME NEW q \in Req, fc[q] # None
      PROVE  /\ rec(q) \in FcRecords /\ rec(q) # None /\ rec(q).g = fc[q].g
             /\ q \notin mine => rec(q).sender = fc[q].sender
  <2>1. fc[q] \in FcRecords BY <1>2, <1>3 DEF RegistryTypes
  <2>2. CASE q \in mine
    <3>1. rec(q) = [fc[q] EXCEPT !.toks = @ \ {p}, !.sender = None, !.st = "unknown"] BY <2>2
    <3>2. rec(q) \in FcRecords /\ rec(q).g = fc[q].g BY <2>1, <3>1 DEF FcRecords
    <3> QED BY <2>2, <3>2, NullAssumption
  <2>3. CASE q \notin mine
    <3>1. /\ rec(q).g = fc[q].g /\ rec(q).sender = fc[q].sender /\ rec(q).st = fc[q].st
          /\ rec(q).toks = fc[q].toks \ {p}
      BY <2>1, <2>3 DEF FcRecords
    <3>2. rec(q) \in FcRecords BY <2>1, <2>3 DEF FcRecords
    <3> QED BY <3>1, <3>2, NullAssumption
  <2> QED BY <2>2, <2>3
<1> HIDE DEF rec
<1>4. fc' \in [Req -> {None} \cup FcRecords] BY <1>1, <1>3
<1>5. phase' \in [Req -> Status \cup {"processing"}] BY <1>1, <1>2 DEF RegistryTypes, Status
<1>6. ASSUME NEW q \in Req
      PROVE  /\ fc'[q] = fc[q] \/ (fc[q] # None /\ fc'[q] # None /\ fc'[q].g = fc[q].g)
             /\ \/ phase'[q] = phase[q]
                \/ phase[q] = "processing" /\ phase'[q] \in {"submitted", "unknown"}
             /\ phase'[q] = "processing" /\ fc[q] # None /\ fc[q].g = pend[q] =>
                  fc'[q].sender = fc[q].sender
                  /\ (fc[q].sender \in attached => fc[q].sender \in attached')
  <2>1. fc'[q] = IF fc[q] = None THEN None ELSE rec(q) BY <1>1
  <2>2. phase'[q] = IF q \in mine /\ pend[q] = fc[q].g /\ phase[q] = "processing"
                    THEN "unknown" ELSE phase[q]
    BY <1>1
  <2>3. ASSUME phase'[q] = "processing", fc[q] # None, fc[q].g = pend[q]
        PROVE  q \notin mine /\ fc[q].sender # p
    BY <2>2, <2>3
  <2> QED BY <1>1, <1>3, <2>1, <2>2, <2>3
<1> HIDE DEF mine
<1> QED BY <1>1, <1>4, <1>5, <1>6, GrantsConsumed

LEMMA ProxyResolvedStep ==
  ASSUME RequestInd, NEW p \in Proxy, NEW r \in Req, ProxyResolved(p, r)
  PROVE  RequestInd'
<1>1. /\ Idle /\ news' = news \ {<<p, r>>}
      /\ UNCHANGED <<up, frames, answers, connVars, epoch, timerNo, webLive, attached, grants,
                     busy, wrote>>
  BY DEF ProxyResolved
<1>2. UNCHANGED <<conn, lastGen, auth, queue, frameNo>> BY <1>1 DEF connVars
<1>3. Registry /\ RegistryTypes /\ HistoryIsPast BY DEF RequestInd, Registry
<1>4. ConnectionTypes' BY <1>1, <1>2 DEF RequestInd, Connections, ConnectionTypes
<1>5. \A q \in Req, g \in Gen : Untouched(q, g)' = Untouched(q, g) BY <1>1 DEF Untouched
<1>6. /\ Registry'
      /\ \A q \in Req, h \in Gen : <<q, h>> \in settled' => <<q, h>> \in settled \/ h = epoch'
  <2>1. CASE ObserveResolution(r, epoch)
    <3>1. epoch \in 0..MaxGen BY <1>3 DEF RegistryTypes
    <3> QED BY <1>1, <1>3, <2>1, <3>1, ResolutionObserved
  <2>2. CASE UNCHANGED <<pend, phase, revoked, lost, resolved, timer, web, fc, fs, settled>>
    <3>1. UNCHANGED loopVars
      BY <1>1, <2>2 DEF loopVars, regVars, timerVars, webVars, fcVars, histVars
    <3> QED BY <1>3, <2>2, <3>1, LoopRests
  <2> QED BY <2>1, <2>2 DEF ProxyResolved
<1> QED BY <1>1, <1>2, <1>4, <1>5, <1>6, OnLoop

-----------------------------------------------------------------------------
(* The answer of the loop ends.                                             *)

\* The record of the surface that asked gets the outcome.
LEMMA SurfaceRecorded ==
  ASSUME NEW records, NEW Records, NEW name, NEW st, busy.r \in Req,
         records \in [Req -> {None} \cup Records],
         \A x \in Records : [x EXCEPT !.st = st] \in Records
  PROVE  Surface(records, name, st) \in [Req -> {None} \cup Records]
<1>1. CASE busy.by # name \/ records[busy.r] = None BY <1>1 DEF Surface
<1>2. CASE ~(busy.by # name \/ records[busy.r] = None)
  <2> DEFINE new == [records[busy.r] EXCEPT !.st = st]
  <2>1. new \in Records /\ Surface(records, name, st) = [records EXCEPT ![busy.r] = new]
    BY <1>2 DEF Surface
  <2> HIDE DEF new
  <2> QED BY <2>1
<1> QED BY <1>1, <1>2

LEMMA RespondEndsStep ==
  ASSUME RequestInd, NEW outcome \in {"not_sent", "submitted", "unknown"}, RespondEnds(outcome)
  PROVE  RequestInd'
<1> DEFINE r == busy.r
           b == busy.g
           st == FinishedPhase(outcome)
           w == Surface(web, "web", st)
<1>1. /\ busy # None /\ busy' = None
      /\ phase' = [phase EXCEPT ![r] = st]
      /\ fs' = Surface(fs, "feishu", st)
      /\ fc' = Surface(fc, "fcodex", IF st = "pending" THEN "open" ELSE st)
      /\ revoked' = IF busy.revoke THEN revoked \cup {r} ELSE revoked
      /\ web' = IF busy.revoke /\ w[r] # None THEN [w EXCEPT ![r].hidden = TRUE] ELSE w
      /\ UNCHANGED <<up, frames, news, conn, lastGen, queue, frameNo, epoch, pend, lost, resolved,
                     timerVars, webLive, attached, grants, settled>>
  BY DEF RespondEnds, Idle
<1>2. \/ outcome = "not_sent" /\ UNCHANGED <<answers, auth, wrote>>
      \/ /\ outcome # "not_sent" /\ answers' \subseteq answers \cup {r}
         /\ auth' \subseteq auth /\ wrote' = [wrote EXCEPT ![<<r, b>>] = @ + 1]
  BY DEF RespondEnds
<1>3. UNCHANGED <<timer, timerNo>> BY <1>1 DEF timerVars
<1>4. Registry /\ RegistryTypes /\ Answering BY DEF RequestInd, Registry
<1>5. /\ r \in Req /\ b \in Gen /\ b # 0 /\ <<r, b>> \in Req \X Gen
      /\ pend[r] = b /\ phase[r] = "processing" /\ Untouched(r, b) /\ epoch = b
  <2>1. r \in Req /\ b \in Gen BY <1>1, <1>4 DEF RegistryTypes, Responses
  <2>2. b # 0 BY <2>1, ServerRequestsAssumption DEF Gen
  <2>3. pend[r] = b /\ phase[r] = "processing" /\ Untouched(r, b)
    BY <1>1, <1>4 DEF Answering, LoopOwnsAnswer
  <2> QED BY <1>4, <2>1, <2>2, <2>3 DEF Registry, ProjectionsAreCurrent
<1>6. st \in Status /\ (outcome # "not_sent" => st # "pending") /\ st # "processing"
  BY DEF FinishedPhase, Status
<1> HIDE DEF st
<1>7. /\ \A q \in Req : phase'[q] = IF q = r THEN st ELSE phase[q]
      /\ phase' \in [Req -> Status \cup {"processing"}]
  BY <1>1, <1>4, <1>5, <1>6 DEF RegistryTypes
<1>8. /\ \A x \in Req \X Gen : wrote'[x] = IF x = <<r, b>> /\ outcome # "not_sent"
                                           THEN 1 ELSE wrote[x]
      /\ wrote' \in [Req \X Gen -> Nat]
  <2>1. wrote[<<r, b>>] = 0 BY <1>5 DEF Untouched
  <2> QED BY <1>2, <1>4, <1>5, <2>1 DEF RegistryTypes
<1>9. fs' \in [Req -> {None} \cup FsRecords]
  <2>1. \A x \in FsRecords : [x EXCEPT !.st = st] \in FsRecords BY <1>6 DEF FsRecords
  <2>2. fs \in [Req -> {None} \cup FsRecords] BY <1>4 DEF RegistryTypes
  <2> QED BY <1>1, <1>5, <2>1, <2>2, SurfaceRecorded
<1>10. /\ fc' \in [Req -> {None} \cup FcRecords]
       /\ \A q \in Req : \/ fc'[q] = fc[q]
                         \/ q = r /\ fc[q] # None /\ fc'[q].g = fc[q].g
  <2> DEFINE s == IF st = "pending" THEN "open" ELSE st
  <2>1. s \in {"open", "submitted", "unknown", "superseded"} BY <1>6 DEF Status
  <2> HIDE DEF s
  <2>2. /\ \A x \in FcRecords : [x EXCEPT !.st = s] \in FcRecords
        /\ \A x \in FcRecords : [x EXCEPT !.st = s].g = x.g
    BY <2>1 DEF FcRecords
  <2>3. fc \in [Req -> {None} \cup FcRecords] BY <1>4 DEF RegistryTypes
  <2>4. fc' = Surface(fc, "fcodex", s) BY <1>1 DEF s
  <2>5. fc' \in [Req -> {None} \cup FcRecords] BY <1>5, <2>2, <2>3, <2>4, SurfaceRecorded
  <2>6. \A q \in Req : \/ fc'[q] = fc[q]
                       \/ q = r /\ fc[q] # None /\ fc'[q] = [fc[q] EXCEPT !.st = s]
    <3> TAKE q \in Req
    <3>1. CASE busy.by # "fcodex" \/ fc[r] = None BY <2>4, <3>1 DEF Surface
    <3>2. CASE ~(busy.by # "fcodex" \/ fc[r] = None)
      <4>1. fc' = [fc EXCEPT ![r] = [fc[r] EXCEPT !.st = s]] BY <2>4, <3>2 DEF Surface
      <4> QED BY <2>3, <3>2, <4>1
    <3> QED BY <3>1, <3>2
  <2>7. \A q \in Req : fc[q] # None => fc[q] \in FcRecords BY <2>3
  <2> QED BY <2>2, <2>5, <2>6, <2>7
<1>11. /\ w \in [Req -> {None} \cup WebRecords]
       /\ \A q \in Req : w[q] # None => /\ web[q] # None /\ w[q].g = web[q].g
                                        /\ web[q].hidden => w[q].hidden
  <2>1. \A x \in WebRecords : [x EXCEPT !.st = st] \in WebRecords BY <1>6 DEF WebRecords
  <2>2. web \in [Req -> {None} \cup WebRecords] BY <1>4 DEF RegistryTypes
  <2>3. w \in [Req -> {None} \cup WebRecords] BY <1>5, <2>1, <2>2, SurfaceRecorded
  <2>5. \A q \in Req : \/ w[q] = web[q]
                       \/ q = r /\ web[q] # None /\ w[q] = [web[q] EXCEPT !.st = st]
    <3> TAKE q \in Req
    <3>1. CASE busy.by # "web" \/ web[r] = None BY <3>1 DEF Surface
    <3>2. CASE ~(busy.by # "web" \/ web[r] = None)
      <4>1. w = [web EXCEPT ![r] = [web[r] EXCEPT !.st = st]] BY <3>2 DEF Surface
      <4> QED BY <2>2, <3>2, <4>1
    <3> QED BY <3>1, <3>2
  <2>4. ASSUME NEW q \in Req, web[q] # None
        PROVE  /\ [web[q] EXCEPT !.st = st].g = web[q].g
               /\ [web[q] EXCEPT !.st = st].hidden = web[q].hidden
    <3>1. web[q] \in WebRecords BY <2>2, <2>4
    <3> QED BY <3>1 DEF WebRecords
  <2> QED BY <2>3, <2>4, <2>5
<1> HIDE DEF w
<1>12. /\ web' \in [Req -> {None} \cup WebRecords]
       /\ \A q \in Req : web'[q] # None => /\ web[q] # None /\ web'[q].g = web[q].g
                                           /\ web[q].hidden => web'[q].hidden
                                           /\ q = r /\ busy.revoke => web'[q].hidden
  <2>1. CASE busy.revoke /\ w[r] # None
    <3> DEFINE rec == [w[r] EXCEPT !.hidden = TRUE]
    <3>1. w[r] \in WebRecords BY <1>5, <1>11, <2>1
    <3>2. rec \in WebRecords /\ rec.g = w[r].g /\ rec.hidden = TRUE BY <3>1 DEF WebRecords
    <3>3. web' = [w EXCEPT ![r] = rec] BY <1>1, <2>1
    <3> HIDE DEF rec
    <3>4. web' \in [Req -> {None} \cup WebRecords] BY <1>11, <3>2, <3>3
    <3>5. \A q \in Req : web'[q] = IF q = r THEN rec ELSE w[q] BY <1>11, <3>3
    <3> QED BY <1>11, <2>1, <3>2, <3>4, <3>5
  <2>2. CASE ~(busy.revoke /\ w[r] # None)
    <3>1. web' = w BY <1>1, <2>2
    <3> QED BY <1>11, <2>2, <3>1
  <2> QED BY <2>1, <2>2
<1> HIDE DEF r, b
<1>13. RegistryTypes'
  <2>1. revoked' \subseteq Req BY <1>1, <1>4, <1>5 DEF RegistryTypes
  <2> QED BY <1>1, <1>3, <1>4, <1>7, <1>8, <1>9, <1>10, <1>12, <2>1 DEF RegistryTypes
<1>14. RegistryIsSane' BY <1>1, <1>4, <1>5, <1>7 DEF Answering, RegistryIsSane
<1>15. \A q \in Req, g \in Gen :
         Untouched(q, g) => Untouched(q, g)' \/ (q = r /\ g = b /\ outcome # "not_sent")
  <2> SUFFICES ASSUME NEW q \in Req, NEW g \in Gen, Untouched(q, g),
                      ~(q = r /\ g = b /\ outcome # "not_sent")
               PROVE  Untouched(q, g)'
    OBVIOUS
  <2>1. <<q, g>> \in Req \X Gen /\ (<<q, g>> = <<r, b>> => outcome = "not_sent") OBVIOUS
  <2>2. wrote'[<<q, g>>] = wrote[<<q, g>>] BY <1>8, <2>1
  <2> QED BY <1>1, <2>2 DEF Untouched
<1>16. Unanswered'
  <2> SUFFICES ASSUME NEW q \in Req, epoch # 0, q \notin resolved, phase'[q] = "pending"
               PROVE  Untouched(q, epoch)'
    BY <1>1 DEF Unanswered, Untouched
  <2>1. epoch \in Gen BY <1>5
  <2>2. Untouched(q, epoch)
    <3>1. CASE q = r BY <1>5, <3>1
    <3>2. CASE q # r BY <1>4, <1>7, <3>2 DEF Answering, Unanswered
    <3> QED BY <3>1, <3>2
  <2>3. ~(q = r /\ outcome # "not_sent") BY <1>6, <1>7
  <2>4. Untouched(q, epoch) => Untouched(q, epoch)' BY <1>1, <1>15, <2>1, <2>3 DEF Untouched
  <2> QED BY <2>2, <2>4
<1>17. LoopOwnsAnswer' BY <1>1 DEF LoopOwnsAnswer
<1>18. OneGrant'
  <2>1. ASSUME NEW x \in grants, x.sent = "no" PROVE wrote'[<<x.r, x.g>>] = 0
    <3>1. <<x.r, x.g>> \in Req \X Gen BY <1>4 DEF RegistryTypes
    <3>2. <<x.r, x.g>> # <<r, b>> BY <1>5, <3>1 DEF Untouched
    <3> QED BY <1>4, <1>8, <2>1, <3>1, <3>2 DEF Answering, OneGrant
  <2> QED BY <1>1, <1>4, <2>1 DEF Answering, OneGrant
<1>19. OneAnswerPerEpoch' BY <1>4, <1>8 DEF Answering, OneAnswerPerEpoch
<1>20. ProcessingHasOwner'
  <2> SUFFICES ASSUME NEW q \in Req, phase'[q] = "processing"
               PROVE  fc'[q] # None /\ fc'[q].g = pend'[q] /\ fc'[q].sender \in attached'
    BY DEF ProcessingHasOwner
  <2>1. q # r /\ phase[q] = "processing" BY <1>6, <1>7
  <2>2. fc'[q] = fc[q] BY <1>10, <2>1
  <2>3. fc[q] # None /\ fc[q].g = pend[q] /\ fc[q].sender \in attached
    BY <1>4, <2>1 DEF Answering, ProcessingHasOwner, r
  <2> QED BY <1>1, <2>2, <2>3
<1>21. RevokedStaysHidden'
  <2>1. \A q \in revoked' : q \in revoked \/ (q = r /\ busy.revoke)
    <3>1. CASE busy.revoke BY <1>1, <3>1
    <3>2. CASE ~busy.revoke BY <1>1, <3>2
    <3> QED BY <3>1, <3>2
  <2>2. \A q \in revoked' : q \in Req BY <1>13 DEF RegistryTypes
  <2> SUFFICES ASSUME NEW q \in revoked'
               PROVE  pend'[q] # 0 /\ (web'[q] # None => web'[q].hidden)
    BY DEF RevokedStaysHidden
  <2>3. CASE q \in revoked BY <1>1, <1>4, <1>12, <2>2, <2>3 DEF Registry, RevokedStaysHidden
  <2>4. CASE q = r /\ busy.revoke BY <1>1, <1>5, <1>12, <2>4
  <2> QED BY <2>1, <2>3, <2>4
<1>22. ProjectionsAreCurrent'
  BY <1>1, <1>4, <1>10, <1>12 DEF Registry, ProjectionsAreCurrent
<1>23. Registry'
  BY <1>13, <1>14, <1>16, <1>17, <1>18, <1>19, <1>20, <1>21, <1>22 DEF Registry, Answering
<1>24. ConnectionTypes'
  BY <1>1, <1>2, <1>5 DEF RequestInd, Connections, ConnectionTypes
<1>25. \A q \in Req, g \in Gen :
         ~Untouched(q, g)' \/ <<q, g>> \in settled' =>
           ~Untouched(q, g) \/ <<q, g>> \in settled \/ g = epoch'
  BY <1>1, <1>5, <1>15
<1> QED BY <1>1, <1>3, <1>23, <1>24, <1>25, OnLoop

-----------------------------------------------------------------------------
(* The invariant.                                                           *)

LEMMA InitStep == Init => RequestInd
<1> SUFFICES ASSUME Init PROVE RequestInd OBVIOUS
<1> USE ServerRequestsAssumption DEF Init, Gen
<1>1. RegistryTypes BY DEF RegistryTypes, Forgotten, Status
<1>2. Answering
  BY DEF Answering, RegistryIsSane, Unanswered, LoopOwnsAnswer, OneGrant, OneAnswerPerEpoch,
         ProcessingHasOwner
<1>3. RevokedStaysHidden /\ ProjectionsAreCurrent
  BY DEF RevokedStaysHidden, ProjectionsAreCurrent, Forgotten
<1>4. ConnectionTypes BY DEF ConnectionTypes
<1>5. QueueIsSane BY DEF QueueIsSane
<1>6. TimersAreFrames
  <2>1. Requests(queue) = {} BY DEF Requests
  <2>2. Cardinality({}) = 0 BY FS_EmptySet, Zenon
  <2>3. Cardinality(Requests(queue)) = 0 BY <2>1, <2>2, Zenon
  <2> QED BY <2>3 DEF TimersAreFrames
<1>7. LossComesFirst BY DEF LossComesFirst
<1>8. HistoryIsPast BY DEF HistoryIsPast, Untouched
<1> QED BY <1>1, <1>2, <1>3, <1>4, <1>5, <1>6, <1>7, <1>8 DEF RequestInd, Registry, Connections

LEMMA Inductive == RequestInd /\ [Next]_vars => RequestInd'
<1> SUFFICES ASSUME RequestInd, [Next]_vars PROVE RequestInd' OBVIOUS
<1>1. CASE UNCHANGED vars
  <2>1. /\ UNCHANGED <<queue, lastGen, conn, frameNo, loopVars>>
        /\ UNCHANGED <<up, frames, answers, news, auth>>
    BY <1>1 DEF vars, upVars, connVars
  <2>2. ConnectionTypes' BY <2>1 DEF RequestInd, Connections, ConnectionTypes
  <2> QED BY <2>1, <2>2, NotQueued
<1>2. ASSUME NEW r \in Req, Ask(r) \/ Replay(r) \/ TakeAnswer(r) PROVE RequestInd'
  BY <1>2, AskStep, ReplayStep, TakeAnswerStep
<1>3. CASE TurnEnds \/ Disconnect \/ Reconnect
  BY <1>3, TurnEndsStep, DisconnectStep, ReconnectStep
<1>4. CASE HandleRequest \/ HandleResolved \/ HandleTurnEnd \/ HandleDisconnect
  BY <1>4, HandleRequestStep, HandleResolvedStep, HandleTurnEndStep, HandleDisconnectStep
<1>5. ASSUME NEW r \in Req, TimerFires(r) PROVE RequestInd' BY <1>5, TimerFiresStep
<1>6. CASE HandleDue \/ BrowserAttach BY <1>6, HandleDueStep, BrowserAttachStep
<1>7. ASSUME NEW r \in Req,
             WebAnswer(r) \/ FeishuAnswer(r) \/ FeishuChatClosed(r) \/ FeishuGroupDeactivated(r)
      PROVE  RequestInd'
  BY <1>7, WebAnswerStep, FeishuAnswerStep, FeishuChatClosedStep, FeishuGroupDeactivatedStep
<1>8. ASSUME NEW p \in Proxy, NEW r \in Req,
             \/ ProxyRequest(p, r) \/ ProxyClaim(p, r) \/ ProxyAnswer(p, r)
             \/ ProxyInvalid(p, r) \/ ProxyResolved(p, r)
      PROVE  RequestInd'
  BY <1>8, ProxyRequestStep, ProxyClaimStep, ProxyAnswerStep, ProxyInvalidStep, ProxyResolvedStep
<1>9. ASSUME NEW x \in grants, ProxySends(x) \/ ProxyReport(x) PROVE RequestInd'
  BY <1>9, ProxySendsStep, ProxyReportStep
<1>10. ASSUME NEW p \in Proxy, ProxyDisconnect(p) PROVE RequestInd'
  BY <1>10, ProxyDisconnectStep
<1>11. ASSUME NEW outcome \in {"not_sent", "submitted", "unknown"}, RespondEnds(outcome)
       PROVE  RequestInd'
  BY <1>11, RespondEndsStep
<1> QED BY <1>1, <1>2, <1>3, <1>4, <1>5, <1>6, <1>7, <1>8, <1>9, <1>10, <1>11 DEF Next

LEMMA RequestIndImplies == RequestInd => RequestInvariant
<1> SUFFICES ASSUME RequestInd PROVE RequestInvariant OBVIOUS
<1> USE DEF RequestInd, Registry, Answering
<1>1. TypeOK
  <2>1. conn \in 0..MaxGen /\ lastGen \in Gen
    BY ServerRequestsAssumption DEF Connections, QueueIsSane, Gen
  <2>2. \A k \in DOMAIN queue : /\ queue[k].k \in {"req", "resolved", "turn", "disc", "due"}
                                /\ queue[k].g \in Nat /\ queue[k].r \in Req \cup {None}
    <3>1. queue \in Seq(Item) BY DEF Connections, QueueIsSane
    <3>2. \A k \in DOMAIN queue : queue[k] \in Item BY <3>1
    <3> QED BY <3>2 DEF Item
  <2> QED BY <2>1, <2>2 DEF TypeOK, RegistryTypes, Connections, ConnectionTypes
<1>2. NoResurrection
  BY DEF NoResurrection, RegistryIsSane, ProjectionsAreCurrent
<1> QED BY <1>1, <1>2 DEF RequestInvariant

\* A callback of the app-server is answered at most once in a connection epoch,
\* however the three surfaces, the timers, the proxies on sockets of their own
\* and the replays interleave; whoever has an answer under way is still there to
\* finish it; a revoked approval stays hidden, no projection outlives its
\* request, and what was settled in an epoch is not registered in it again
\* (server_request_registry.py, server_request_coordinator.py, the inboxes).
THEOREM RequestSafety == Spec => []RequestInvariant
<1>1. Spec => []RequestInd BY InitStep, Inductive, PTL DEF Spec
<1> QED BY <1>1, RequestIndImplies, PTL
=============================================================================
