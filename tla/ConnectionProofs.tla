-------------------------- MODULE ConnectionProofs --------------------------
(***************************************************************************)
(* Proofs about the two components that the adapter connection of the      *)
(* service goes through: the ingress gate, which admits what comes from it *)
(* (GateInvariant, GateSteps), and the websocket client under it           *)
(* (RpcInvariant).  The components share no state here; each has the       *)
(* theorems of its own specification.                                      *)
(***************************************************************************)
EXTENDS AdapterIngressGate, CodexRpcConnection, SequenceTheorems, TLAPS

-----------------------------------------------------------------------------
(***************************************************************************)
(* Proofs about the ingress gate, for every number of workers, generations,*)
(* resets, queued tasks and port failures: GateInvariant and GateSteps.    *)
(*                                                                         *)
(* The gate lock is released while a transaction drains the active writes, *)
(* so what a transaction relies on when it commits is not what it checked  *)
(* when it opened.  The inductive invariant says what the other threads    *)
(* cannot undo in between: no permit of the new epoch is issued, a fence   *)
(* that comes in names a generation at least as new as the one being       *)
(* accepted, and from the end of the reset fence on nothing is being sent. *)
(***************************************************************************)
(* The inductive invariant of the gate.                                     *)

\* A permit of the current epoch was issued after the last invalidation.
Permits ==
  \A w \in Worker : wpc[w] # "idle" =>
    permit[w] <= epoch /\ (permit[w] = epoch => issuedAt[w] = voids)

\* An invalidation under way has closed the gate and ended every permit's epoch.
Transaction ==
  loop.op \in {"accept", "observe", "begin"} =>
    cleanupRequired /\ \A w \in Worker : wpc[w] # "idle" => permit[w] < epoch

\* One start at a time, and only below the bound.
Starting ==
  \A w \in Worker : wpc[w] = "starting" =>
    conn < MaxGen /\ \A v \in Worker : wpc[v] = "starting" => v = w

\* What readers and queued tasks speak about has been connected ...
Tasks ==
  /\ \A g \in Gen : reader[g] # "none" => g <= conn
  /\ \A i \in 1..Len(queue) : queue[i].gen <= conn

\* ... and so has what the loop works for and the gate knows of.
Connections ==
  /\ loop.gen <= conn /\ latest <= conn
  /\ loop.op = "accept" => loop.gen \in Gen

\* A reset keeps the gate closed; once fenced, nothing is being sent.
Reset ==
  /\ loop.op \in ResetPhases \cup {"fence", "begin"} => blocked
  /\ loop.op \in ResetPhases \cup {"begin"} => Sending = {}
  /\ loop.op \in {"invalidated", "started"} => registry = 0

\* The admitted generations never overtake the gate's own facts.
Admitted ==
  /\ accepted.gen <= latest
  /\ discCleanup # 0 => accepted.gen <= discCleanup
  /\ loop.op = "accept" =>
       /\ accepted.gen <= loop.gen
       /\ discCleanup = 0 => loop.gen > lastDisc
       /\ discCleanup # 0 => loop.gen <= discCleanup

GateInd ==
  /\ TypeOK
  /\ Permits
  /\ Transaction
  /\ Starting
  /\ Tasks
  /\ Connections
  /\ Reset
  /\ Admitted
  /\ OpenFactsAreCurrent

-----------------------------------------------------------------------------
(* TypeOK in two halves: the flags and everything else.                     *)

Task == [kind : {"callback", "disconnect"}, gen : Gen]

GateFlags ==
  /\ blocked \in BOOLEAN /\ invalidated \in BOOLEAN /\ cleanupRequired \in BOOLEAN
  /\ factsLive \in BOOLEAN /\ held \in BOOLEAN

Numbers ==
  /\ latest \in 0..MaxGen /\ lastDisc \in 0..MaxGen /\ discCleanup \in 0..MaxGen
  /\ epoch \in Nat /\ registry \in 0..MaxGen
  /\ loop \in [op : {"idle"} \cup Draining \cup ResetPhases, gen : 0..MaxGen]
  /\ queue \in Seq(Task)
  /\ conn \in Gen /\ sock \in {"open", "dead", "none"}
  /\ reader \in [Gen -> {"none", "callback", "disconnect"}]
  /\ wpc \in [Worker -> {"idle", "permitted", "starting", "sending", "sent", "confirmed"}]
  /\ permit \in [Worker -> Nat] /\ issuedAt \in [Worker -> Nat]
  /\ resets \in Nat /\ failures \in Nat /\ voids \in Nat
  /\ accepted \in [gen : 0..MaxGen, live : BOOLEAN]

GateParts ==
  /\ GateFlags /\ Numbers /\ Permits /\ Transaction /\ Starting /\ Tasks /\ Connections
  /\ Reset /\ Admitted /\ OpenFactsAreCurrent

LEMMA Parts == GateInd <=> GateParts
BY DEF GateInd, GateParts, TypeOK, GateFlags, Numbers, Task

\* The oldest task, and what is left without it.
LEMMA HeadTask ==
  ASSUME Numbers, Tasks, queue # <<>>
  PROVE  /\ Head(queue) \in Task /\ Head(queue).gen <= conn
         /\ Tail(queue) \in Seq(Task)
         /\ \A i \in 1..Len(Tail(queue)) : Tail(queue)[i].gen <= conn
<1>1. Head(queue) = queue[1] /\ Len(queue) \in Nat /\ Len(queue) >= 1
  BY DEF Numbers
<1>2. Tail(queue) \in Seq(Task)
  BY DEF Numbers
<1>3. Len(Tail(queue)) = Len(queue) - 1
      /\ \A i \in 1..(Len(queue) - 1) : Tail(queue)[i] = queue[i + 1]
  BY DEF Numbers
<1>4. queue[1] \in Task
  BY <1>1 DEF Numbers
<1> QED BY <1>1, <1>2, <1>3, <1>4 DEF Tasks

LEMMA QueueTasks ==
  ASSUME Numbers, NEW i \in 1..Len(queue)
  PROVE  queue[i] \in Task
BY DEF Numbers

-----------------------------------------------------------------------------
LEMMA GateInitInd == Init => GateInd
<1> SUFFICES ASSUME Init PROVE GateParts
  BY Parts
<1> USE BoundsAssumption DEF Init, GateParts, Gen, Idle, ResetPhases
<1>1. GateFlags
  BY Zenon DEF GateFlags
<1>2. Numbers
  BY DEF Numbers
<1>3. Permits /\ Transaction /\ Starting /\ Tasks /\ Connections
  BY DEF Permits, Transaction, Starting, Tasks, Connections
<1>4. Reset /\ Admitted /\ OpenFactsAreCurrent
  BY DEF Reset, Admitted, OpenFactsAreCurrent
<1> QED BY <1>1, <1>2, <1>3, <1>4

-----------------------------------------------------------------------------
(* One lemma per action: first the parts it writes to, then the others.     *)

LEMMA IssueOutboundRequestInd ==
  ASSUME GateParts, NEW w \in Worker, IssueOutboundRequest(w)
  PROVE  GateParts'
<1> USE BoundsAssumption DEF GateParts, GateFlags, Numbers, Task, gateVars, physVars, workerVars, Idle, Gen,
           Draining, ResetPhases, Sending, GateFree, Closed
<1>1. Numbers'
  BY DEF IssueOutboundRequest, Numbers, Starting, Connections
<1>2. Permits'
  BY DEF IssueOutboundRequest, Permits, Transaction
<1>3. Transaction'
  BY DEF IssueOutboundRequest, Transaction, Permits
<1>4. Starting'
  BY DEF IssueOutboundRequest, Starting, Reset
<1>5. Reset'
  BY DEF IssueOutboundRequest, Reset
<1>6. GateFlags' /\ Tasks' /\ Connections' /\ Admitted' /\ OpenFactsAreCurrent'
  BY DEF IssueOutboundRequest, GateFlags, Tasks, Connections, Admitted, OpenFactsAreCurrent
<1> QED BY <1>1, <1>2, <1>3, <1>4, <1>5, <1>6

LEMMA GuardEnterInd ==
  ASSUME GateParts, NEW w \in Worker, GuardEnter(w)
  PROVE  GateParts'
<1> USE BoundsAssumption DEF GateParts, GateFlags, Numbers, Task, gateVars, physVars, workerVars, Idle, Gen,
           Draining, ResetPhases, Sending, GateFree, Closed
<1>1. Numbers'
  BY DEF GuardEnter, PermitCurrent, Numbers, Starting, Connections
<1>2. Permits'
  BY DEF GuardEnter, PermitCurrent, Permits, Transaction
<1>3. Transaction'
  BY DEF GuardEnter, PermitCurrent, Transaction, Permits
<1>4. Starting'
  BY DEF GuardEnter, PermitCurrent, Starting, Reset
<1>5. Reset'
  BY DEF GuardEnter, PermitCurrent, Reset
<1>6. GateFlags' /\ Tasks' /\ Connections' /\ Admitted' /\ OpenFactsAreCurrent'
  BY DEF GuardEnter, GateFlags, Tasks, Connections, Admitted, OpenFactsAreCurrent
<1> QED BY <1>1, <1>2, <1>3, <1>4, <1>5, <1>6

LEMMA GuardExitInd ==
  ASSUME GateParts, NEW w \in Worker, GuardExit(w)
  PROVE  GateParts'
<1> USE BoundsAssumption DEF GateParts, GateFlags, Numbers, Task, gateVars, physVars, workerVars, Idle, Gen,
           Draining, ResetPhases, Sending, GateFree, Closed
<1>1. Numbers'
  BY DEF GuardExit, Numbers, Starting, Connections
<1>2. Permits'
  BY DEF GuardExit, Permits, Transaction
<1>3. Transaction'
  BY DEF GuardExit, Transaction, Permits
<1>4. Starting'
  BY DEF GuardExit, Starting, Reset
<1>5. Reset'
  BY DEF GuardExit, Reset
<1>6. GateFlags' /\ Tasks' /\ Connections' /\ Admitted' /\ OpenFactsAreCurrent'
  BY DEF GuardExit, GateFlags, Tasks, Connections, Admitted, OpenFactsAreCurrent
<1> QED BY <1>1, <1>2, <1>3, <1>4, <1>5, <1>6

LEMMA ConfirmOutboundRequestInd ==
  ASSUME GateParts, NEW w \in Worker, ConfirmOutboundRequest(w)
  PROVE  GateParts'
<1> USE BoundsAssumption DEF GateParts, GateFlags, Numbers, Task, gateVars, physVars, workerVars, Idle, Gen,
           Draining, ResetPhases, Sending, GateFree, Closed
<1>1. Numbers'
  BY DEF ConfirmOutboundRequest, PermitCurrent, Numbers, Starting, Connections
<1>2. Permits'
  BY DEF ConfirmOutboundRequest, PermitCurrent, Permits, Transaction
<1>3. Transaction'
  BY DEF ConfirmOutboundRequest, PermitCurrent, Transaction, Permits
<1>4. Starting'
  BY DEF ConfirmOutboundRequest, PermitCurrent, Starting, Reset
<1>5. Reset'
  BY DEF ConfirmOutboundRequest, PermitCurrent, Reset
<1>6. GateFlags' /\ Tasks' /\ Connections' /\ Admitted' /\ OpenFactsAreCurrent'
  BY DEF ConfirmOutboundRequest, GateFlags, Tasks, Connections, Admitted, OpenFactsAreCurrent
<1> QED BY <1>1, <1>2, <1>3, <1>4, <1>5, <1>6

LEMMA RequestDoneInd ==
  ASSUME GateParts, NEW w \in Worker, RequestDone(w)
  PROVE  GateParts'
<1> USE BoundsAssumption DEF GateParts, GateFlags, Numbers, Task, gateVars, physVars, workerVars, Idle, Gen,
           Draining, ResetPhases, Sending, GateFree, Closed
<1>1. Numbers'
  BY DEF RequestDone, Numbers, Starting, Connections
<1>2. Permits'
  BY DEF RequestDone, Permits, Transaction
<1>3. Transaction'
  BY DEF RequestDone, Transaction, Permits
<1>4. Starting'
  BY DEF RequestDone, Starting, Reset
<1>5. Reset'
  BY DEF RequestDone, Reset
<1>6. GateFlags' /\ Tasks' /\ Connections' /\ Admitted' /\ OpenFactsAreCurrent'
  BY DEF RequestDone, GateFlags, Tasks, Connections, Admitted, OpenFactsAreCurrent
<1> QED BY <1>1, <1>2, <1>3, <1>4, <1>5, <1>6

LEMMA StartEnterInd ==
  ASSUME GateParts, NEW w \in Worker, StartEnter(w)
  PROVE  GateParts'
<1> USE BoundsAssumption DEF GateParts, GateFlags, Numbers, Task, gateVars, physVars, workerVars, Idle, Gen,
           Draining, ResetPhases, Sending, GateFree, Closed
<1>1. Numbers'
  BY DEF StartEnter, PermitCurrent, Numbers, Starting, Connections
<1>2. Permits'
  BY DEF StartEnter, PermitCurrent, Permits, Transaction
<1>3. Transaction'
  BY DEF StartEnter, PermitCurrent, Transaction, Permits
<1>4. Starting'
  BY DEF StartEnter, PermitCurrent, Starting, Reset
<1>5. Reset'
  BY DEF StartEnter, PermitCurrent, Reset
<1>6. GateFlags' /\ Tasks' /\ Connections' /\ Admitted' /\ OpenFactsAreCurrent'
  BY DEF StartEnter, GateFlags, Tasks, Connections, Admitted, OpenFactsAreCurrent
<1> QED BY <1>1, <1>2, <1>3, <1>4, <1>5, <1>6

LEMMA ConnectedInd ==
  ASSUME GateParts, NEW w \in Worker, Connected(w)
  PROVE  GateParts'
<1> USE BoundsAssumption DEF GateParts, GateFlags, Numbers, Task, gateVars, physVars, workerVars, Idle, Gen,
           Draining, ResetPhases, Sending, GateFree, Closed
<1>1. Numbers'
  BY DEF Connected, Numbers, Starting, Connections
<1>2. Permits'
  BY DEF Connected, Permits, Transaction
<1>3. Transaction'
  BY DEF Connected, Transaction, Permits
<1>4. Starting'
  BY DEF Connected, Starting, Reset
<1>5. Tasks'
  BY QueueTasks DEF Connected, Tasks
<1>6. Connections'
  BY DEF Connected, Connections
<1>7. Reset'
  BY DEF Connected, Reset
<1>8. GateFlags' /\ Admitted' /\ OpenFactsAreCurrent'
  BY DEF Connected, GateFlags, Admitted, OpenFactsAreCurrent
<1> QED BY <1>1, <1>2, <1>3, <1>4, <1>5, <1>6, <1>7, <1>8

LEMMA StartFailsInd ==
  ASSUME GateParts, NEW w \in Worker, StartFails(w)
  PROVE  GateParts'
<1> USE BoundsAssumption DEF GateParts, GateFlags, Numbers, Task, gateVars, physVars, workerVars, Idle, Gen,
           Draining, ResetPhases, Sending, GateFree, Closed
<1>1. Numbers'
  BY DEF StartFails, Numbers, Starting, Connections
<1>2. Permits'
  BY DEF StartFails, Permits, Transaction
<1>3. Transaction'
  BY DEF StartFails, Transaction, Permits
<1>4. Starting'
  BY DEF StartFails, Starting, Reset
<1>5. Reset'
  BY DEF StartFails, Reset
<1>6. GateFlags' /\ Tasks' /\ Connections' /\ Admitted' /\ OpenFactsAreCurrent'
  BY DEF StartFails, GateFlags, Tasks, Connections, Admitted, OpenFactsAreCurrent
<1> QED BY <1>1, <1>2, <1>3, <1>4, <1>5, <1>6

LEMMA SocketDiesInd ==
  ASSUME GateParts, SocketDies
  PROVE  GateParts'
<1> USE BoundsAssumption DEF GateParts, GateFlags, Numbers, Task, gateVars, physVars, workerVars, Idle, Gen,
           Draining, ResetPhases, Sending, GateFree, Closed
<1>1. Numbers'
  BY DEF SocketDies, Numbers, Starting, Connections
<1>2. GateFlags' /\ Permits' /\ Transaction' /\ Starting' /\ Tasks' /\ Connections' /\ Reset' /\ Admitted'
       /\ OpenFactsAreCurrent'
  BY DEF SocketDies, GateFlags, Permits, Transaction, Starting, Tasks, Connections, Reset, Admitted,
       OpenFactsAreCurrent
<1> QED BY <1>1, <1>2

LEMMA ReaderReceivesInd ==
  ASSUME GateParts, ReaderReceives
  PROVE  GateParts'
<1> USE BoundsAssumption DEF GateParts, GateFlags, Numbers, Task, gateVars, physVars, workerVars, Idle, Gen,
           Draining, ResetPhases, Sending, GateFree, Closed
<1>1. Numbers'
  BY DEF ReaderReceives, Numbers, Starting, Connections
<1>2. Tasks'
  <2>1. \A g \in Gen : reader'[g] # "none" => g <= conn
    BY DEF ReaderReceives, Tasks
  <2> QED BY <2>1 DEF ReaderReceives, Tasks
<1>3. GateFlags' /\ Permits' /\ Transaction' /\ Starting' /\ Connections' /\ Reset' /\ Admitted' /\
       OpenFactsAreCurrent'
  BY DEF ReaderReceives, GateFlags, Permits, Transaction, Starting, Connections, Reset, Admitted,
       OpenFactsAreCurrent
<1> QED BY <1>1, <1>2, <1>3

LEMMA ReaderSubmitsInd ==
  ASSUME GateParts, NEW g \in Gen, ReaderSubmits(g)
  PROVE  GateParts'
<1> USE BoundsAssumption DEF GateParts, GateFlags, Numbers, Task, gateVars, physVars, workerVars, Idle, Gen,
           Draining, ResetPhases, Sending, GateFree, Closed
<1>1. Numbers'
  BY DEF ReaderSubmits, Numbers, Starting, Connections
<1>2. Tasks'
  <2>1. \A k \in Gen : reader'[k] # "none" => k <= conn
    BY DEF ReaderSubmits, Tasks
  <2>2. g <= conn
    BY DEF ReaderSubmits, Tasks
  <2>3. \A i \in 1..Len(queue') : queue'[i].gen <= conn
    <3>1. Len(queue') = Len(queue) + 1 /\ queue'[Len(queue) + 1].gen = g
          /\ \A i \in 1..Len(queue) : queue'[i] = queue[i]
      BY DEF ReaderSubmits
    <3> SUFFICES ASSUME NEW i \in 1..(Len(queue) + 1) PROVE queue'[i].gen <= conn
      BY <3>1
    <3>2. CASE i = Len(queue) + 1
      BY <2>2, <3>1, <3>2
    <3>3. CASE i \in 1..Len(queue)
      BY <3>1, <3>3 DEF Tasks
    <3> QED BY <3>2, <3>3
  <2> QED BY <2>1, <2>3 DEF ReaderSubmits, Tasks
<1>3. GateFlags' /\ Permits' /\ Transaction' /\ Starting' /\ Connections' /\ Reset' /\ Admitted' /\
       OpenFactsAreCurrent'
  BY DEF ReaderSubmits, GateFlags, Permits, Transaction, Starting, Connections, Reset, Admitted,
       OpenFactsAreCurrent
<1> QED BY <1>1, <1>2, <1>3

LEMMA ReaderDisconnectsInd ==
  ASSUME GateParts, ReaderDisconnects
  PROVE  GateParts'
<1> USE BoundsAssumption DEF GateParts, GateFlags, Numbers, Task, gateVars, physVars, workerVars, Idle, Gen,
           Draining, ResetPhases, Sending, GateFree, Closed
<1>1. GateFlags'
  BY Zenon DEF ReaderDisconnects, FenceDisconnect, FenceAdmits, GateFlags
<1>2. Numbers'
  BY DEF ReaderDisconnects, FenceDisconnect, FenceAdmits, Numbers, Starting, Connections
<1>3. Permits'
  BY DEF ReaderDisconnects, FenceDisconnect, FenceAdmits, Permits, Transaction
<1>4. Transaction'
  BY DEF ReaderDisconnects, FenceDisconnect, FenceAdmits, Transaction, Permits
<1>5. Tasks'
  <2>1. \A k \in Gen : reader'[k] # "none" => k <= conn
    BY DEF ReaderDisconnects, Tasks
  <2> QED BY <2>1 DEF ReaderDisconnects, Tasks
<1>6. Connections'
  BY DEF ReaderDisconnects, FenceDisconnect, FenceAdmits, Connections
<1>7. Reset'
  BY DEF ReaderDisconnects, FenceDisconnect, FenceAdmits, Reset
<1>8. Admitted'
  BY DEF ReaderDisconnects, FenceDisconnect, FenceAdmits, Admitted, Connections
<1>9. OpenFactsAreCurrent'
  BY DEF ReaderDisconnects, FenceDisconnect, FenceAdmits, OpenFactsAreCurrent, Admitted, Reset,
       Transaction
<1>10. Starting'
  BY DEF ReaderDisconnects, FenceDisconnect, Starting
<1> QED BY <1>1, <1>2, <1>3, <1>4, <1>5, <1>6, <1>7, <1>8, <1>9, <1>10

LEMMA AcceptDroppedInd ==
  ASSUME GateParts, AcceptDropped
  PROVE  GateParts'
<1> USE BoundsAssumption DEF GateParts, GateFlags, Numbers, Task, gateVars, physVars, workerVars, Idle, Gen,
           Draining, ResetPhases, Sending, GateFree, Closed
<1>1. Head(queue) \in Task /\ Head(queue).gen <= conn /\ Tail(queue) \in Seq(Task)
      /\ \A i \in 1..Len(Tail(queue)) : Tail(queue)[i].gen <= conn
  BY HeadTask DEF NextTask, AcceptDropped
<1>2. Numbers'
  BY <1>1 DEF AcceptDropped, NextTask, TaskGen, Numbers, Starting, Connections
<1>3. Tasks'
  BY <1>1 DEF AcceptDropped, NextTask, TaskGen, Tasks
<1>4. GateFlags' /\ Permits' /\ Transaction' /\ Starting' /\ Connections' /\ Reset' /\ Admitted' /\
       OpenFactsAreCurrent'
  BY DEF AcceptDropped, GateFlags, Permits, Transaction, Starting, Connections, Reset, Admitted,
       OpenFactsAreCurrent
<1> QED BY <1>2, <1>3, <1>4

LEMMA AcceptLiveInd ==
  ASSUME GateParts, AcceptLive
  PROVE  GateParts'
<1> USE BoundsAssumption DEF GateParts, GateFlags, Numbers, Task, gateVars, physVars, workerVars, Idle, Gen,
           Draining, ResetPhases, Sending, GateFree, Closed
<1>1. Head(queue) \in Task /\ Head(queue).gen <= conn /\ Tail(queue) \in Seq(Task)
      /\ \A i \in 1..Len(Tail(queue)) : Tail(queue)[i].gen <= conn
  BY HeadTask DEF NextTask, AcceptLive
<1>2. GateFlags'
  BY Zenon DEF AcceptLive, Activates, ActivationFails, AcceptRefuses, NextTask, TaskGen, GateFlags
<1>3. Numbers'
  <2> DEFINE live == TaskGen > lastDisc /\ discCleanup = 0
  <2>1. live \in BOOLEAN
    OBVIOUS
  <2>2. TaskGen \in 0..MaxGen
    BY <1>1 DEF TaskGen
  <2>3. accepted' = accepted \/ accepted' = [gen |-> TaskGen, live |-> live]
    BY DEF AcceptLive, Activates, ActivationFails
  <2> HIDE DEF live
  <2>4. accepted' \in [gen : 0..MaxGen, live : BOOLEAN]
    BY <2>1, <2>2, <2>3
  <2>5. latest' \in 0..MaxGen /\ registry' \in 0..MaxGen
    BY <2>2 DEF AcceptLive, Activates, ActivationFails
  <2>6. failures' \in Nat /\ epoch' \in Nat /\ voids' \in Nat
    BY DEF AcceptLive, Activates, ActivationFails
  <2>7. loop' \in [op : {"idle"} \cup Draining \cup ResetPhases, gen : 0..MaxGen] /\ queue' \in
         Seq(Task)
    BY <1>1 DEF AcceptLive
  <2> QED BY <2>4, <2>5, <2>6, <2>7 DEF AcceptLive
<1>4. Permits'
  <2>1. epoch' >= epoch /\ voids' = voids /\ wpc' = wpc /\ permit' = permit /\ issuedAt' = issuedAt
    BY DEF AcceptLive, Activates, ActivationFails
  <2>2. epoch \in Nat /\ epoch' \in Nat /\ \A w \in Worker : permit[w] \in Nat
    BY <1>3
  <2> HIDE DEF Numbers, GateParts
  <2>3. Permits
    BY DEF GateParts
  <2> QED BY <2>1, <2>2, <2>3 DEF Permits
<1>5. Transaction'
  BY <1>1 DEF AcceptLive, Activates, ActivationFails, AcceptRefuses, NextTask, TaskGen, Transaction,
       Permits
<1>6. Tasks'
  BY <1>1 DEF AcceptLive, Activates, ActivationFails, AcceptRefuses, NextTask, TaskGen, Tasks
<1>7. Connections'
  BY <1>1 DEF AcceptLive, Activates, ActivationFails, AcceptRefuses, NextTask, TaskGen, Connections
<1>8. Reset'
  BY <1>1 DEF AcceptLive, Activates, ActivationFails, AcceptRefuses, NextTask, TaskGen, Reset
<1>9. Admitted'
  BY <1>1 DEF AcceptLive, Activates, ActivationFails, AcceptRefuses, NextTask, TaskGen, Admitted,
       Connections
<1>10. OpenFactsAreCurrent'
  BY <1>1 DEF AcceptLive, Activates, ActivationFails, AcceptRefuses, NextTask, TaskGen,
       OpenFactsAreCurrent, Admitted, Reset, Transaction
<1>11. Starting'
  BY DEF AcceptLive, Starting
<1> QED BY <1>2, <1>3, <1>4, <1>5, <1>6, <1>7, <1>8, <1>9, <1>10, <1>11

LEMMA AcceptSupersedesInd ==
  ASSUME GateParts, AcceptSupersedes
  PROVE  GateParts'
<1> USE BoundsAssumption DEF GateParts, GateFlags, Numbers, Task, gateVars, physVars, workerVars, Idle, Gen,
           Draining, ResetPhases, Sending, GateFree, Closed
<1>1. Head(queue) \in Task /\ Head(queue).gen <= conn /\ Tail(queue) \in Seq(Task)
      /\ \A i \in 1..Len(Tail(queue)) : Tail(queue)[i].gen <= conn
  BY HeadTask DEF NextTask, AcceptSupersedes
<1>2. GateFlags'
  BY Zenon DEF AcceptSupersedes, NextTask, TaskGen, AcceptRefuses, OpenInvalidation, GateFlags
<1>3. Numbers'
  BY <1>1 DEF AcceptSupersedes, NextTask, TaskGen, AcceptRefuses, OpenInvalidation, Numbers, Starting,
       Connections
<1>4. Permits'
  <2>1. epoch' > epoch /\ voids' = voids /\ wpc' = wpc /\ permit' = permit /\ issuedAt' = issuedAt
    BY DEF AcceptSupersedes, OpenInvalidation
  <2>2. epoch \in Nat /\ epoch' \in Nat /\ \A w \in Worker : permit[w] \in Nat
    BY <1>3
  <2> HIDE DEF Numbers, GateParts
  <2>3. Permits
    BY DEF GateParts
  <2> QED BY <2>1, <2>2, <2>3 DEF Permits
<1>5. Transaction'
  BY <1>1 DEF AcceptSupersedes, NextTask, TaskGen, AcceptRefuses, OpenInvalidation, Transaction, Permits
<1>6. Tasks'
  BY <1>1 DEF AcceptSupersedes, NextTask, TaskGen, AcceptRefuses, OpenInvalidation, Tasks
<1>7. Connections'
  BY <1>1 DEF AcceptSupersedes, NextTask, TaskGen, AcceptRefuses, OpenInvalidation, Connections
<1>8. Reset'
  BY <1>1 DEF AcceptSupersedes, NextTask, TaskGen, AcceptRefuses, OpenInvalidation, Reset
<1>9. Admitted'
  BY <1>1 DEF AcceptSupersedes, NextTask, TaskGen, AcceptRefuses, OpenInvalidation, Admitted,
       Connections
<1>10. OpenFactsAreCurrent'
  BY <1>1 DEF AcceptSupersedes, NextTask, TaskGen, AcceptRefuses, OpenInvalidation, OpenFactsAreCurrent,
       Admitted, Reset, Transaction
<1>11. Starting'
  BY DEF AcceptSupersedes, Starting
<1> QED BY <1>2, <1>3, <1>4, <1>5, <1>6, <1>7, <1>8, <1>9, <1>10, <1>11

LEMMA AcceptCompletesInd ==
  ASSUME GateParts, AcceptCompletes
  PROVE  GateParts'
<1> USE BoundsAssumption DEF GateParts, GateFlags, Numbers, Task, gateVars, physVars, workerVars, Idle, Gen,
           Draining, ResetPhases, Sending, GateFree, Closed
<1>1. GateFlags'
  BY Zenon DEF AcceptCompletes, Activates, ActivationFails, Drained, GateFlags
<1>2. Numbers'
  <2> DEFINE live == loop.gen > lastDisc /\ discCleanup = 0
  <2>1. live \in BOOLEAN
    OBVIOUS
  <2>2. loop.gen \in 0..MaxGen
    BY DEF AcceptCompletes
  <2>3. accepted' = accepted \/ accepted' = [gen |-> loop.gen, live |-> live]
    BY DEF AcceptCompletes, Activates, ActivationFails
  <2> HIDE DEF live
  <2>4. accepted' \in [gen : 0..MaxGen, live : BOOLEAN]
    BY <2>1, <2>2, <2>3
  <2>5. latest' \in 0..MaxGen /\ registry' \in 0..MaxGen
    BY <2>2 DEF AcceptCompletes, Activates, ActivationFails
  <2>6. failures' \in Nat /\ epoch' \in Nat /\ voids' \in Nat
    BY DEF AcceptCompletes, Activates, ActivationFails
  <2>7. loop' \in [op : {"idle"} \cup Draining \cup ResetPhases, gen : 0..MaxGen] /\ queue' \in
         Seq(Task)
    BY DEF AcceptCompletes, Activates, ActivationFails
  <2> QED BY <2>4, <2>5, <2>6, <2>7 DEF AcceptCompletes
<1>3. Permits'
  BY DEF AcceptCompletes, Activates, ActivationFails, Drained, Permits, Transaction
<1>4. Transaction'
  BY DEF AcceptCompletes, Activates, ActivationFails, Drained, Transaction, Permits
<1>5. Connections'
  BY DEF AcceptCompletes, Activates, ActivationFails, Drained, Connections
<1>6. Reset'
  BY DEF AcceptCompletes, Activates, ActivationFails, Drained, Reset
<1>7. Admitted'
  BY DEF AcceptCompletes, Activates, ActivationFails, Drained, Admitted, Connections
<1>8. OpenFactsAreCurrent'
  BY DEF AcceptCompletes, Activates, ActivationFails, Drained, OpenFactsAreCurrent, Admitted, Reset,
       Transaction
<1>9. Starting' /\ Tasks'
  BY DEF AcceptCompletes, Starting, Tasks
<1> QED BY <1>1, <1>2, <1>3, <1>4, <1>5, <1>6, <1>7, <1>8, <1>9

LEMMA AcceptPortFailsInd ==
  ASSUME GateParts, AcceptPortFails
  PROVE  GateParts'
<1> USE BoundsAssumption DEF GateParts, GateFlags, Numbers, Task, gateVars, physVars, workerVars, Idle, Gen,
           Draining, ResetPhases, Sending, GateFree, Closed
<1>1. GateFlags'
  BY Zenon DEF AcceptPortFails, PortFails, Drained, GateFlags
<1>2. Numbers'
  BY DEF AcceptPortFails, PortFails, Drained, Numbers, Starting, Connections
<1>3. Transaction'
  BY DEF AcceptPortFails, PortFails, Drained, Transaction, Permits
<1>4. Connections'
  BY DEF AcceptPortFails, PortFails, Drained, Connections
<1>5. Reset'
  BY DEF AcceptPortFails, PortFails, Drained, Reset
<1>6. Admitted'
  BY DEF AcceptPortFails, PortFails, Drained, Admitted, Connections
<1>7. OpenFactsAreCurrent'
  BY DEF AcceptPortFails, PortFails, Drained, OpenFactsAreCurrent, Admitted, Reset, Transaction
<1>8. Permits' /\ Starting' /\ Tasks'
  BY DEF AcceptPortFails, Permits, Starting, Tasks
<1> QED BY <1>1, <1>2, <1>3, <1>4, <1>5, <1>6, <1>7, <1>8

LEMMA ObserveDroppedInd ==
  ASSUME GateParts, ObserveDropped
  PROVE  GateParts'
<1> USE BoundsAssumption DEF GateParts, GateFlags, Numbers, Task, gateVars, physVars, workerVars, Idle, Gen,
           Draining, ResetPhases, Sending, GateFree, Closed
<1>1. Head(queue) \in Task /\ Head(queue).gen <= conn /\ Tail(queue) \in Seq(Task)
      /\ \A i \in 1..Len(Tail(queue)) : Tail(queue)[i].gen <= conn
  BY HeadTask DEF NextTask, ObserveDropped
<1>2. Numbers'
  BY <1>1 DEF ObserveDropped, NextTask, TaskGen, ObserveRefuses, FenceAdmits, Larger, Numbers, Starting,
       Connections
<1>3. Tasks'
  BY <1>1 DEF ObserveDropped, NextTask, TaskGen, ObserveRefuses, FenceAdmits, Larger, Tasks
<1>4. Admitted'
  BY <1>1 DEF ObserveDropped, NextTask, TaskGen, ObserveRefuses, FenceAdmits, Larger, Admitted,
       Connections
<1>5. OpenFactsAreCurrent'
  BY <1>1 DEF ObserveDropped, NextTask, TaskGen, ObserveRefuses, FenceAdmits, Larger,
       OpenFactsAreCurrent, Admitted, Reset, Transaction
<1>6. GateFlags' /\ Permits' /\ Transaction' /\ Starting' /\ Connections' /\ Reset'
  BY DEF ObserveDropped, GateFlags, Permits, Transaction, Starting, Connections, Reset
<1> QED BY <1>2, <1>3, <1>4, <1>5, <1>6

LEMMA ObserveDisconnectInd ==
  ASSUME GateParts, ObserveDisconnect
  PROVE  GateParts'
<1> USE BoundsAssumption DEF GateParts, GateFlags, Numbers, Task, gateVars, physVars, workerVars, Idle, Gen,
           Draining, ResetPhases, Sending, GateFree, Closed
<1>1. Head(queue) \in Task /\ Head(queue).gen <= conn /\ Tail(queue) \in Seq(Task)
      /\ \A i \in 1..Len(Tail(queue)) : Tail(queue)[i].gen <= conn
  BY HeadTask DEF NextTask, ObserveDisconnect
<1>2. GateFlags'
  BY Zenon DEF ObserveDisconnect, NextTask, TaskGen, ObserveRefuses, FenceAdmits, OpenInvalidation,
       GateFlags
<1>3. Numbers'
  BY <1>1 DEF ObserveDisconnect, NextTask, TaskGen, ObserveRefuses, FenceAdmits, OpenInvalidation,
       Numbers, Starting, Connections
<1>4. Permits'
  <2>1. epoch' > epoch /\ voids' = voids /\ wpc' = wpc /\ permit' = permit /\ issuedAt' = issuedAt
    BY DEF ObserveDisconnect, OpenInvalidation
  <2>2. epoch \in Nat /\ epoch' \in Nat /\ \A w \in Worker : permit[w] \in Nat
    BY <1>3
  <2> HIDE DEF Numbers, GateParts
  <2>3. Permits
    BY DEF GateParts
  <2> QED BY <2>1, <2>2, <2>3 DEF Permits
<1>5. Transaction'
  BY <1>1 DEF ObserveDisconnect, NextTask, TaskGen, ObserveRefuses, FenceAdmits, OpenInvalidation,
       Transaction, Permits
<1>6. Tasks'
  BY <1>1 DEF ObserveDisconnect, NextTask, TaskGen, ObserveRefuses, FenceAdmits, OpenInvalidation, Tasks
<1>7. Connections'
  BY <1>1 DEF ObserveDisconnect, NextTask, TaskGen, ObserveRefuses, FenceAdmits, OpenInvalidation,
       Connections
<1>8. Reset'
  BY <1>1 DEF ObserveDisconnect, NextTask, TaskGen, ObserveRefuses, FenceAdmits, OpenInvalidation, Reset
<1>9. Admitted'
  BY <1>1 DEF ObserveDisconnect, NextTask, TaskGen, ObserveRefuses, FenceAdmits, OpenInvalidation,
       Admitted, Connections
<1>10. OpenFactsAreCurrent'
  BY <1>1 DEF ObserveDisconnect, NextTask, TaskGen, ObserveRefuses, FenceAdmits, OpenInvalidation,
       OpenFactsAreCurrent, Admitted, Reset, Transaction
<1>11. Starting'
  BY DEF ObserveDisconnect, Starting
<1> QED BY <1>2, <1>3, <1>4, <1>5, <1>6, <1>7, <1>8, <1>9, <1>10, <1>11

LEMMA ObserveCompletesInd ==
  ASSUME GateParts, ObserveCompletes
  PROVE  GateParts'
<1> USE BoundsAssumption DEF GateParts, GateFlags, Numbers, Task, gateVars, physVars, workerVars, Idle, Gen,
           Draining, ResetPhases, Sending, GateFree, Closed
<1>1. GateFlags'
  BY Zenon DEF ObserveCompletes, FactsVoided, PortFails, Drained, GateFlags
<1>2. Numbers'
  <2>1. registry' \in 0..MaxGen /\ failures' \in Nat /\ voids' \in Nat /\ loop' = Idle /\ discCleanup' =
         0
    BY DEF ObserveCompletes, FactsVoided, PortFails
  <2> QED BY <2>1 DEF ObserveCompletes
<1>3. Permits'
  BY DEF ObserveCompletes, FactsVoided, PortFails, Drained, Permits, Transaction
<1>4. Transaction'
  BY DEF ObserveCompletes, FactsVoided, PortFails, Drained, Transaction, Permits
<1>5. Connections'
  BY DEF ObserveCompletes, FactsVoided, PortFails, Drained, Connections
<1>6. Reset'
  BY DEF ObserveCompletes, FactsVoided, PortFails, Drained, Reset
<1>7. Admitted'
  BY DEF ObserveCompletes, FactsVoided, PortFails, Drained, Admitted, Connections
<1>8. OpenFactsAreCurrent'
  BY DEF ObserveCompletes, FactsVoided, PortFails, Drained, OpenFactsAreCurrent, Admitted, Reset,
       Transaction
<1>9. Starting' /\ Tasks'
  BY DEF ObserveCompletes, Starting, Tasks
<1> QED BY <1>1, <1>2, <1>3, <1>4, <1>5, <1>6, <1>7, <1>8, <1>9

LEMMA DrainTimesOutInd ==
  ASSUME GateParts, DrainTimesOut
  PROVE  GateParts'
<1> USE BoundsAssumption DEF GateParts, GateFlags, Numbers, Task, gateVars, physVars, workerVars, Idle, Gen,
           Draining, ResetPhases, Sending, GateFree, Closed
<1>1. GateFlags'
  BY Zenon DEF DrainTimesOut, Drained, GateFlags
<1>2. Numbers'
  BY DEF DrainTimesOut, Drained, Numbers, Starting, Connections
<1>3. Transaction'
  BY DEF DrainTimesOut, Drained, Transaction, Permits
<1>4. Connections'
  BY DEF DrainTimesOut, Drained, Connections
<1>5. Reset'
  BY DEF DrainTimesOut, Drained, Reset
<1>6. Admitted'
  BY DEF DrainTimesOut, Drained, Admitted, Connections
<1>7. OpenFactsAreCurrent'
  BY DEF DrainTimesOut, Drained, OpenFactsAreCurrent, Admitted, Reset, Transaction
<1>8. Permits' /\ Starting' /\ Tasks'
  BY DEF DrainTimesOut, Permits, Starting, Tasks
<1> QED BY <1>1, <1>2, <1>3, <1>4, <1>5, <1>6, <1>7, <1>8

LEMMA FenceBackendResetInd ==
  ASSUME GateParts, NEW expected \in 0..MaxGen, FenceBackendReset(expected)
  PROVE  GateParts'
<1> USE BoundsAssumption DEF GateParts, GateFlags, Numbers, Task, gateVars, physVars, workerVars, Idle, Gen,
           Draining, ResetPhases, Sending, GateFree, Closed
<1>1. GateFlags'
  BY Zenon DEF FenceBackendReset, GateFlags
<1>2. Numbers'
  BY DEF FenceBackendReset, Numbers, Starting, Connections
<1>3. Permits'
  BY DEF FenceBackendReset, Permits, Transaction
<1>4. Transaction'
  BY DEF FenceBackendReset, Transaction, Permits
<1>5. Connections'
  BY DEF FenceBackendReset, Connections
<1>6. Reset'
  BY DEF FenceBackendReset, Reset
<1>7. Admitted'
  BY DEF FenceBackendReset, Admitted, Connections
<1>8. OpenFactsAreCurrent'
  BY DEF FenceBackendReset, OpenFactsAreCurrent, Admitted, Reset, Transaction
<1>9. Starting' /\ Tasks'
  BY DEF FenceBackendReset, Starting, Tasks
<1> QED BY <1>1, <1>2, <1>3, <1>4, <1>5, <1>6, <1>7, <1>8, <1>9

LEMMA FenceCompletesInd ==
  ASSUME GateParts, FenceCompletes
  PROVE  GateParts'
<1> USE BoundsAssumption DEF GateParts, GateFlags, Numbers, Task, gateVars, physVars, workerVars, Idle, Gen,
           Draining, ResetPhases, Sending, GateFree, Closed
<1>1. GateFlags'
  BY Zenon DEF FenceCompletes, Drained, GateFlags
<1>2. Numbers'
  BY DEF FenceCompletes, Drained, Numbers, Starting, Connections
<1>3. Transaction'
  BY DEF FenceCompletes, Drained, Transaction, Permits
<1>4. Connections'
  BY DEF FenceCompletes, Drained, Connections
<1>5. Reset'
  BY DEF FenceCompletes, Drained, Reset
<1>6. Admitted'
  BY DEF FenceCompletes, Drained, Admitted, Connections
<1>7. Permits' /\ Starting' /\ Tasks' /\ OpenFactsAreCurrent'
  BY DEF FenceCompletes, Permits, Starting, Tasks, OpenFactsAreCurrent
<1> QED BY <1>1, <1>2, <1>3, <1>4, <1>5, <1>6, <1>7

LEMMA StopBackendInd ==
  ASSUME GateParts, StopBackend
  PROVE  GateParts'
<1> USE BoundsAssumption DEF GateParts, GateFlags, Numbers, Task, gateVars, physVars, workerVars, Idle, Gen,
           Draining, ResetPhases, Sending, GateFree, Closed
<1>1. Numbers'
  BY DEF StopBackend, Numbers, Starting, Connections
<1>2. Transaction'
  BY DEF StopBackend, Transaction, Permits
<1>3. Connections'
  BY DEF StopBackend, Connections
<1>4. Reset'
  BY DEF StopBackend, Reset
<1>5. Admitted'
  BY DEF StopBackend, Admitted, Connections
<1>6. GateFlags' /\ Permits' /\ Starting' /\ Tasks' /\ OpenFactsAreCurrent'
  BY DEF StopBackend, GateFlags, Permits, Starting, Tasks, OpenFactsAreCurrent
<1> QED BY <1>1, <1>2, <1>3, <1>4, <1>5, <1>6

LEMMA BeginBackendResetInd ==
  ASSUME GateParts, BeginBackendReset
  PROVE  GateParts'
<1> USE BoundsAssumption DEF GateParts, GateFlags, Numbers, Task, gateVars, physVars, workerVars, Idle, Gen,
           Draining, ResetPhases, Sending, GateFree, Closed
<1>1. GateFlags'
  BY Zenon DEF BeginBackendReset, OpenInvalidation, GateFlags
<1>2. Numbers'
  BY DEF BeginBackendReset, OpenInvalidation, Numbers, Starting, Connections
<1>3. Permits'
  BY DEF BeginBackendReset, OpenInvalidation, Permits, Transaction
<1>4. Transaction'
  BY DEF BeginBackendReset, OpenInvalidation, Transaction, Permits
<1>5. Connections'
  BY DEF BeginBackendReset, OpenInvalidation, Connections
<1>6. Reset'
  BY DEF BeginBackendReset, OpenInvalidation, Reset
<1>7. Admitted'
  BY DEF BeginBackendReset, OpenInvalidation, Admitted, Connections
<1>8. OpenFactsAreCurrent'
  BY DEF BeginBackendReset, OpenInvalidation, OpenFactsAreCurrent, Admitted, Reset, Transaction
<1>9. Starting' /\ Tasks'
  BY DEF BeginBackendReset, Starting, Tasks
<1> QED BY <1>1, <1>2, <1>3, <1>4, <1>5, <1>6, <1>7, <1>8, <1>9

LEMMA BeginCompletesInd ==
  ASSUME GateParts, BeginCompletes
  PROVE  GateParts'
<1> USE BoundsAssumption DEF GateParts, GateFlags, Numbers, Task, gateVars, physVars, workerVars, Idle, Gen,
           Draining, ResetPhases, Sending, GateFree, Closed
<1>1. GateFlags'
  BY Zenon DEF BeginCompletes, FactsVoided, Drained, GateFlags
<1>2. Numbers'
  BY DEF BeginCompletes, FactsVoided, Drained, Numbers, Starting, Connections
<1>3. Permits'
  BY DEF BeginCompletes, FactsVoided, Drained, Permits, Transaction
<1>4. Transaction'
  BY DEF BeginCompletes, FactsVoided, Drained, Transaction, Permits
<1>5. Connections'
  BY DEF BeginCompletes, FactsVoided, Drained, Connections
<1>6. Reset'
  BY DEF BeginCompletes, FactsVoided, Drained, Reset
<1>7. Admitted'
  BY DEF BeginCompletes, FactsVoided, Drained, Admitted, Connections
<1>8. OpenFactsAreCurrent'
  BY DEF BeginCompletes, FactsVoided, Drained, OpenFactsAreCurrent, Admitted, Reset, Transaction
<1>9. Starting' /\ Tasks'
  BY DEF BeginCompletes, Starting, Tasks
<1> QED BY <1>1, <1>2, <1>3, <1>4, <1>5, <1>6, <1>7, <1>8, <1>9

LEMMA BeginPortFailsInd ==
  ASSUME GateParts, BeginPortFails
  PROVE  GateParts'
<1> USE BoundsAssumption DEF GateParts, GateFlags, Numbers, Task, gateVars, physVars, workerVars, Idle, Gen,
           Draining, ResetPhases, Sending, GateFree, Closed
<1>1. GateFlags'
  BY Zenon DEF BeginPortFails, PortFails, Drained, GateFlags
<1>2. Numbers'
  BY DEF BeginPortFails, PortFails, Drained, Numbers, Starting, Connections
<1>3. Transaction'
  BY DEF BeginPortFails, PortFails, Drained, Transaction, Permits
<1>4. Connections'
  BY DEF BeginPortFails, PortFails, Drained, Connections
<1>5. Reset'
  BY DEF BeginPortFails, PortFails, Drained, Reset
<1>6. Admitted'
  BY DEF BeginPortFails, PortFails, Drained, Admitted, Connections
<1>7. OpenFactsAreCurrent'
  BY DEF BeginPortFails, PortFails, Drained, OpenFactsAreCurrent, Admitted, Reset, Transaction
<1>8. Permits' /\ Starting' /\ Tasks'
  BY DEF BeginPortFails, Permits, Starting, Tasks
<1> QED BY <1>1, <1>2, <1>3, <1>4, <1>5, <1>6, <1>7, <1>8

LEMMA StartReplacementInd ==
  ASSUME GateParts, StartReplacement
  PROVE  GateParts'
<1> USE BoundsAssumption DEF GateParts, GateFlags, Numbers, Task, gateVars, physVars, workerVars, Idle, Gen,
           Draining, ResetPhases, Sending, GateFree, Closed
<1>1. Numbers'
  BY DEF StartReplacement, Numbers, Starting, Connections
<1>2. Transaction'
  BY DEF StartReplacement, Transaction, Permits
<1>3. Starting'
  BY DEF StartReplacement, Starting, Reset
<1>4. Tasks'
  BY QueueTasks DEF StartReplacement, Tasks
<1>5. Connections'
  BY DEF StartReplacement, Connections
<1>6. Reset'
  BY DEF StartReplacement, Reset
<1>7. Admitted'
  BY DEF StartReplacement, Admitted, Connections
<1>8. GateFlags' /\ Permits' /\ OpenFactsAreCurrent'
  BY DEF StartReplacement, GateFlags, Permits, OpenFactsAreCurrent
<1> QED BY <1>1, <1>2, <1>3, <1>4, <1>5, <1>6, <1>7, <1>8

LEMMA AdmitBackendReplacementInd ==
  ASSUME GateParts, AdmitBackendReplacement
  PROVE  GateParts'
<1> USE BoundsAssumption DEF GateParts, GateFlags, Numbers, Task, gateVars, physVars, workerVars, Idle, Gen,
           Draining, ResetPhases, Sending, GateFree, Closed
<1>1. GateFlags'
  BY Zenon DEF AdmitBackendReplacement, DisconnectedBefore, Larger, GateFlags
<1>2. Numbers'
  BY DEF AdmitBackendReplacement, DisconnectedBefore, Larger, Numbers, Starting, Connections
<1>3. Transaction'
  BY DEF AdmitBackendReplacement, DisconnectedBefore, Larger, Transaction, Permits
<1>4. Connections'
  BY DEF AdmitBackendReplacement, DisconnectedBefore, Larger, Connections
<1>5. Reset'
  BY DEF AdmitBackendReplacement, DisconnectedBefore, Larger, Reset
<1>6. Admitted'
  BY DEF AdmitBackendReplacement, DisconnectedBefore, Larger, Admitted, Connections
<1>7. OpenFactsAreCurrent'
  BY DEF AdmitBackendReplacement, DisconnectedBefore, Larger, OpenFactsAreCurrent, Admitted, Reset,
       Transaction
<1>8. Permits' /\ Starting' /\ Tasks'
  BY DEF AdmitBackendReplacement, Permits, Starting, Tasks
<1> QED BY <1>1, <1>2, <1>3, <1>4, <1>5, <1>6, <1>7, <1>8

LEMMA ResetFailsInd ==
  ASSUME GateParts, ResetFails
  PROVE  GateParts'
<1> USE BoundsAssumption DEF GateParts, GateFlags, Numbers, Task, gateVars, physVars, workerVars, Idle, Gen,
           Draining, ResetPhases, Sending, GateFree, Closed
<1>1. Numbers'
  BY DEF ResetFails, Numbers, Starting, Connections
<1>2. Transaction'
  BY DEF ResetFails, Transaction, Permits
<1>3. Connections'
  BY DEF ResetFails, Connections
<1>4. Reset'
  BY DEF ResetFails, Reset
<1>5. Admitted'
  BY DEF ResetFails, Admitted, Connections
<1>6. GateFlags' /\ Permits' /\ Starting' /\ Tasks' /\ OpenFactsAreCurrent'
  BY DEF ResetFails, GateFlags, Permits, Starting, Tasks, OpenFactsAreCurrent
<1> QED BY <1>1, <1>2, <1>3, <1>4, <1>5, <1>6

-----------------------------------------------------------------------------
LEMMA GateStutterInd ==
  ASSUME GateParts, UNCHANGED vars
  PROVE  GateParts'
BY DEF GateParts, GateFlags, Numbers, Permits, Transaction, Starting, Tasks, Connections, Reset, Admitted,
       OpenFactsAreCurrent, vars, gateVars, physVars, workerVars, Sending, Closed

LEMMA GateNextParts ==
  ASSUME GateParts, [Next]_vars
  PROVE  GateParts'
<1>1. ASSUME NEW w \in Worker, WorkerStep(w) PROVE GateParts'
  BY <1>1, IssueOutboundRequestInd, GuardEnterInd, GuardExitInd, ConfirmOutboundRequestInd, RequestDoneInd,
     StartEnterInd, ConnectedInd, StartFailsInd DEF WorkerStep
<1>2. CASE LoopStep
  BY <1>2, AcceptDroppedInd, AcceptLiveInd, AcceptSupersedesInd, AcceptCompletesInd, AcceptPortFailsInd,
     ObserveDroppedInd, ObserveDisconnectInd, ObserveCompletesInd, FenceCompletesInd, StopBackendInd,
     BeginBackendResetInd, BeginCompletesInd, BeginPortFailsInd, StartReplacementInd,
     AdmitBackendReplacementInd, DrainTimesOutInd DEF LoopStep
<1>3. CASE ReaderStep \/ SocketDies \/ ReaderReceives \/ ReaderDisconnects
  BY <1>3, ReaderSubmitsInd, SocketDiesInd, ReaderReceivesInd, ReaderDisconnectsInd DEF ReaderStep
<1>4. ASSUME NEW expected \in 0..MaxGen, FenceBackendReset(expected) PROVE GateParts'
  BY <1>4, FenceBackendResetInd
<1>5. CASE ResetFails
  BY <1>5, ResetFailsInd
<1>6. CASE UNCHANGED vars
  BY <1>6, GateStutterInd
<1> QED BY <1>1, <1>2, <1>3, <1>4, <1>5, <1>6 DEF Next

LEMMA GateNextInd == GateInd /\ [Next]_vars => GateInd'
BY Parts, GateNextParts, PTL

LEMMA GateAlwaysInd == Spec => []GateInd
BY GateInitInd, GateNextInd, PTL DEF Spec

LEMMA GateIndImplies == GateInd => GateInvariant
<1> SUFFICES ASSUME GateInd PROVE ConfirmedInItsEpoch
  BY DEF GateInd, GateInvariant
<1> QED BY DEF GateInd, Permits, ConfirmedInItsEpoch

\* However requests, fences, invalidations and resets interleave, an open gate
\* shows only the facts of its current connection epoch: live facts belong to
\* the newest generation not reported as disconnected, and a response that
\* confirm_outbound_request lets through was asked for in that same epoch.
THEOREM GateSafety == Spec => []GateInvariant
BY GateAlwaysInd, GateIndImplies, PTL

-----------------------------------------------------------------------------
(* What no step of the gate does.                                           *)

LEMMA VoidsOnlyDrained ==
  ASSUME GateInd, [Next]_vars
  PROVE  voids' # voids => Sending = {}
<1> USE DEF vars
<1>1. ASSUME NEW w \in Worker, WorkerStep(w) PROVE voids' = voids
  BY <1>1 DEF WorkerStep, IssueOutboundRequest, GuardEnter, GuardExit, ConfirmOutboundRequest, RequestDone,
     StartEnter, Connected, StartFails
<1>2. CASE AcceptCompletes \/ ObserveCompletes \/ BeginCompletes
  BY <1>2 DEF AcceptCompletes, ObserveCompletes, BeginCompletes, Drained
<1>3. CASE AcceptDropped \/ AcceptLive \/ AcceptSupersedes \/ AcceptPortFails \/ ObserveDropped
           \/ ObserveDisconnect \/ FenceCompletes \/ StopBackend \/ BeginBackendReset
           \/ BeginPortFails \/ StartReplacement \/ AdmitBackendReplacement \/ DrainTimesOut
  BY <1>3 DEF AcceptDropped, AcceptLive, AcceptSupersedes, AcceptPortFails, ObserveDropped,
     ObserveDisconnect, FenceCompletes, StopBackend, BeginBackendReset, BeginPortFails,
     StartReplacement, AdmitBackendReplacement, DrainTimesOut
<1>4. CASE ReaderStep \/ SocketDies \/ ReaderReceives \/ ReaderDisconnects \/ ResetFails
  BY <1>4 DEF ReaderStep, ReaderSubmits, SocketDies, ReaderReceives, ReaderDisconnects, ResetFails
<1>5. ASSUME NEW expected \in 0..MaxGen, FenceBackendReset(expected) PROVE voids' = voids
  BY <1>5 DEF FenceBackendReset
<1> QED BY <1>1, <1>2, <1>3, <1>4, <1>5 DEF Next, LoopStep

LEMMA AcceptedAdvances ==
  ASSUME GateInd, [Next]_vars
  PROVE  accepted'.gen >= accepted.gen
<1>0. accepted.gen \in 0..MaxGen
  BY DEF GateInd, TypeOK
<1>1. CASE accepted' = accepted
  BY <1>0, <1>1, BoundsAssumption
<1>2. CASE AcceptLive
  <2>1. Head(queue) \in Task
    BY <1>2, Parts, HeadTask DEF AcceptLive, NextTask, GateParts
  <2>2. TaskGen \in Gen /\ TaskGen >= latest
    BY <1>2, <2>1 DEF AcceptLive, AcceptRefuses, TaskGen, Task, GateInd, TypeOK, Gen
  <2>3. accepted' = accepted \/ accepted'.gen = TaskGen
    BY <1>2 DEF AcceptLive, Activates, ActivationFails
  <2>4. accepted.gen <= latest /\ latest \in 0..MaxGen
    BY DEF GateInd, Admitted, TypeOK
  <2> QED BY <1>0, <1>1, <2>2, <2>3, <2>4, BoundsAssumption DEF Gen
<1>3. CASE AcceptCompletes
  <2>1. accepted' = accepted \/ accepted'.gen = loop.gen
    BY <1>3 DEF AcceptCompletes, Activates, ActivationFails
  <2>2. accepted.gen <= loop.gen /\ loop.gen \in 0..MaxGen
    BY <1>3 DEF AcceptCompletes, GateInd, Admitted, TypeOK
  <2> QED BY <1>0, <1>1, <2>1, <2>2, BoundsAssumption
<1> USE DEF vars
<1>4. ASSUME NEW w \in Worker, WorkerStep(w) PROVE accepted' = accepted
  BY <1>4 DEF WorkerStep, IssueOutboundRequest, GuardEnter, GuardExit, ConfirmOutboundRequest, RequestDone,
     StartEnter, Connected, StartFails
<1>5. CASE AcceptDropped \/ AcceptSupersedes \/ AcceptPortFails \/ ObserveDropped \/ ObserveDisconnect
           \/ ObserveCompletes \/ FenceCompletes \/ StopBackend \/ BeginBackendReset \/ BeginCompletes
           \/ BeginPortFails \/ StartReplacement \/ AdmitBackendReplacement \/ DrainTimesOut
  BY <1>1, <1>5 DEF AcceptDropped, AcceptSupersedes, AcceptPortFails, ObserveDropped,
     ObserveDisconnect, ObserveCompletes, FenceCompletes, StopBackend, BeginBackendReset, BeginCompletes,
     BeginPortFails, StartReplacement, AdmitBackendReplacement, DrainTimesOut
<1>6. CASE ReaderStep \/ SocketDies \/ ReaderReceives \/ ReaderDisconnects \/ ResetFails
  BY <1>1, <1>6 DEF ReaderStep, ReaderSubmits, SocketDies, ReaderReceives, ReaderDisconnects, ResetFails
<1>7. ASSUME NEW expected \in 0..MaxGen, FenceBackendReset(expected) PROVE accepted' = accepted
  BY <1>7 DEF FenceBackendReset
<1>8. CASE UNCHANGED vars
  BY <1>1, <1>8
<1> QED BY <1>1, <1>2, <1>3, <1>4, <1>5, <1>6, <1>7, <1>8 DEF Next, LoopStep

LEMMA ReplacementReopens ==
  ASSUME GateInd, [Next]_vars, blocked, ~blocked'
  PROVE  /\ registry = 0 /\ ~cleanupRequired /\ Sending = {}
         /\ latest' > latest /\ latest' > lastDisc
<1> USE DEF vars, gateVars
<1>1. ASSUME NEW w \in Worker, WorkerStep(w) PROVE FALSE
  BY <1>1 DEF WorkerStep, IssueOutboundRequest, GuardEnter, GuardExit, ConfirmOutboundRequest, RequestDone,
     StartEnter, Connected, StartFails
<1>2. CASE AdmitBackendReplacement
  <2>1. registry = 0 /\ Sending = {}
    BY <1>2 DEF AdmitBackendReplacement, GateInd, Reset, ResetPhases
  <2>2. latest' > latest /\ latest' > lastDisc
    BY <1>2, BoundsAssumption DEF AdmitBackendReplacement, Larger, GateInd, TypeOK
  <2> QED BY <1>2, <2>1, <2>2 DEF AdmitBackendReplacement
<1>3. CASE AcceptDropped \/ AcceptLive \/ AcceptSupersedes \/ AcceptPortFails \/ AcceptCompletes
           \/ ObserveDropped \/ ObserveDisconnect \/ ObserveCompletes
  BY <1>3 DEF AcceptDropped, AcceptLive, AcceptSupersedes, AcceptPortFails, AcceptCompletes, Activates,
     ActivationFails, PortFails, ObserveDropped, ObserveDisconnect, ObserveCompletes
<1>4. CASE FenceCompletes \/ StopBackend \/ BeginBackendReset \/ BeginCompletes
           \/ BeginPortFails \/ StartReplacement \/ DrainTimesOut
  BY <1>4 DEF FenceCompletes, StopBackend, BeginBackendReset, BeginCompletes,
     BeginPortFails, PortFails, StartReplacement, DrainTimesOut
<1>5. CASE ReaderStep \/ SocketDies \/ ReaderReceives \/ ReaderDisconnects \/ ResetFails
  BY <1>5 DEF ReaderStep, ReaderSubmits, SocketDies, ReaderReceives, ReaderDisconnects, FenceDisconnect,
     ResetFails
<1>6. ASSUME NEW expected \in 0..MaxGen, FenceBackendReset(expected) PROVE FALSE
  BY <1>6 DEF FenceBackendReset
<1> QED BY <1>1, <1>2, <1>3, <1>4, <1>5, <1>6 DEF Next, LoopStep

\* Facts are never invalidated while a write that the gate let in is still
\* being sent, a superseded generation never has another callback admitted,
\* and once closed by a failure or a reset the gate is only reopened by the
\* replacement of a drained, invalidated epoch, for a newer generation.
THEOREM GateStepsAreSafe == Spec => GateSteps
<1>1. GateInd /\ [Next]_vars => [voids' # voids => Sending = {}]_vars
  BY VoidsOnlyDrained
<1>2. GateInd /\ [Next]_vars => [accepted'.gen >= accepted.gen]_vars
  BY AcceptedAdvances
<1>3. GateInd /\ [Next]_vars =>
        [(blocked /\ ~blocked') => /\ registry = 0 /\ ~cleanupRequired /\ Sending = {}
                                   /\ latest' > latest /\ latest' > lastDisc]_vars
  BY ReplacementReopens
<1> QED BY <1>1, <1>2, <1>3, GateAlwaysInd, PTL
        DEF Spec, GateSteps, NoWriteAcrossInvalidation, AdmittedGenerationsAdvance, OnlyReplacementReopens

-----------------------------------------------------------------------------
(***************************************************************************)
(* Proofs about the websocket client of the app-server, for every set of   *)
(* client threads and every bound: a handshake stays with the starter that *)
(* opened it until that starter has unwound, nothing is started over a     *)
(* stop that is not proved down, and no request is written on, or failed   *)
(* for, another socket than the one it was pinned to.                      *)
(***************************************************************************)
(* The inductive invariant of the websocket client.                         *)

Unwinding == {"handshake", "cleanup"}

\* The only starter that still has to unwind is the owner of the handshake,
\* and the attempt and socket it remembers are the current ones.
StarterOwnsHandshake ==
  \A c \in Client : pc[c] \in Unwinding => owner = c /\ OwnsHandshake(c)

\* A request is pinned to a socket that was opened, has nothing written and no
\* result before it is sent, and is sent on its own socket.
Sane(q) ==
  /\ q.pin <= gen
  /\ q.st = "new" => q.pin = 0
  /\ q.st \in {"new", "pinned", "registered"} => q.wrote = 0
  /\ q.st # "done" => q.out = "none"
  /\ q.wrote \in {0, q.pin}
  /\ q.out = "presend" => q.wrote = 0
  /\ q.out = "transport" /\ q.by # 0 => q.by >= q.pin

RequestsAreSane == \A r \in Req : Sane(req[r])

\* What waits for an answer has been pinned, and what the reader of a lost
\* socket took was pinned to that socket or to an older one.
WaitingIsPinned ==
  /\ \A r \in pending : req[r].st # "new"
  /\ \A g \in Gens : \A r \in taken[g] : req[r].st # "new" /\ req[r].pin <= g

RpcInd ==
  /\ RpcTypeOK
  /\ StarterOwnsHandshake
  /\ HandshakeHasOwner
  /\ NoStartOverRetained
  /\ RequestsAreSane
  /\ WaitingIsPinned

-----------------------------------------------------------------------------
(* TypeOK by the parts of the state an action touches together.             *)

Sockets ==
  /\ state \in {"disconnected", "handshaking", "ready"}
  /\ state = "handshaking" <=> owner # NoClient
  /\ ws \in {0, gen, Raw} /\ gen \in 0..MaxSocket /\ hsGen \in 0..MaxSocket
  /\ owner \in Client \cup {NoClient} /\ draining \in Client \cup {NoClient}
  /\ attempt \in 0..MaxAttempt /\ lastFailed \in 0..MaxAttempt
  /\ proc \in {"none", "running", "exited"}
  /\ fails \in 0..MaxFail /\ stops \in 0..MaxStop

Flags == ingressFailed \in BOOLEAN /\ closing \in BOOLEAN /\ requested \in BOOLEAN

Retention == res \in Retained \cup {NoRes}

Threads ==
  /\ pc \in [Client -> {"idle", "start", "waiting", "handshake", "cleanup", "flush",
                        "stop", "joining", "draining"}]
  /\ at \in [Client -> 0..MaxAttempt] /\ atGen \in [Client -> 0..MaxSocket]
  /\ rstate \in [Gens -> {"none", "loop", "dispatch", "disconnected", "dead"}]

Notes ==
  /\ buffer \in Seq(0..MaxNote) /\ flush \in [Client -> Seq(0..MaxNote)]
  /\ note \in [Gens -> 0..MaxNote]
  /\ noteNo \in 0..MaxNote /\ delivered \in Seq(0..MaxNote)

Requests ==
  /\ taken \in [Gens -> SUBSET Req] /\ pending \subseteq Req
  /\ req \in [Req -> Request]

LEMMA TypeParts ==
  RpcTypeOK <=> Sockets /\ Flags /\ Retention /\ Threads /\ Notes /\ Requests
BY DEF RpcTypeOK, Sockets, Flags, Retention, Threads, Notes, Requests

-----------------------------------------------------------------------------
(* Types, part by part.                                                     *)

\* Sockets, processes, attempts and the owners of the handshake and of the stop.
LEMMA SocketsStep ==
  ASSUME ConnectionAssumption, Sockets, StarterOwnsHandshake, [RpcNext]_rpcVars
  PROVE  Sockets'
<1> USE DEF Sockets, ConnectionAssumption, Raw, hsVars, sockVars, stopVars, clientVars,
       readerVars, noteVars, bounds, rpcVars
<1>1. ASSUME NEW c \in Client, CallStart(c) \/ CallStop(c) \/ StartElsewhere(c)
         \/ HandshakeOver(c) \/ StopGivesUp(c) \/ HandshakeFails(c)
      PROVE  Sockets'
  BY <1>1 DEF CallStart, CallStop, StartElsewhere, HandshakeOver, StopGivesUp, HandshakeFails,
       MayFail
<1>2. ASSUME NEW c \in Client, Connect(c)
      PROVE  Sockets'
  BY <1>2 DEF Connect, MayFail
<1>3. ASSUME NEW c \in Client, PublishReady(c)
      PROVE  Sockets'
  BY <1>3 DEF PublishReady
<1>4. ASSUME NEW c \in Client, Flush(c)
      PROVE  Sockets'
  BY <1>4 DEF Flush, Dispatch
<1>5. ASSUME NEW c \in Client, JoinActiveStop(c)
      PROVE  Sockets'
  BY <1>5 DEF JoinActiveStop, SettleHandshakeStop, MayStop, StarterOwnsHandshake, OwnsHandshake,
       Unwinding
<1>6. ASSUME NEW c \in Client, BeginStop(c)
      PROVE  Sockets'
  BY <1>6 DEF BeginStop
<1>7. ASSUME NEW c \in Client, StopDrained(c) \/ StopDrainTimesOut(c) \/ JoinEnds(c)
      PROVE  Sockets'
  BY <1>7 DEF StopDrained, StopDrainTimesOut, JoinEnds, MayFail
<1>8. ASSUME NEW g \in Gens, ReceiveNotification(g) \/ ReaderReturns(g) \/ DisconnectCleanup(g)
      PROVE  Sockets'
  BY <1>8 DEF ReceiveNotification, ReaderReturns, DisconnectCleanup
<1>9. ASSUME NEW g \in Gens, DispatchNotification(g)
      PROVE  Sockets'
  BY <1>9 DEF DispatchNotification, Dispatch
<1>10. ASSUME NEW g \in Gens, Disconnect(g)
      PROVE  Sockets'
  BY <1>10 DEF Disconnect
<1>11. ASSUME NEW g \in Gens, NEW r \in Req, ReceiveResponse(g, r)
      PROVE  Sockets'
  BY <1>11 DEF ReceiveResponse
<1>12. ASSUME NEW r \in Req, PinRequest(r) \/ RegisterRequest(r) \/ SendRequest(r)
         \/ TimeOutRequest(r)
      PROVE  Sockets'
  BY <1>12 DEF PinRequest, RegisterRequest, SendRequest, TimeOutRequest, ReqStep
<1>13. ASSUME ProcessExits \/ UNCHANGED rpcVars
      PROVE  Sockets'
  BY <1>13 DEF ProcessExits
<1> QED BY <1>1, <1>2, <1>3, <1>4, <1>5, <1>6, <1>7, <1>8, <1>9, <1>10, <1>11, <1>12,
       <1>13 DEF RpcNext, ClientStep, ReaderEnds

LEMMA FlagsStep ==
  ASSUME Flags, [RpcNext]_rpcVars
  PROVE  Flags'
<1> USE DEF Flags, hsVars, sockVars, stopVars, clientVars, readerVars, noteVars, bounds, rpcVars
<1>1. ASSUME NEW c \in Client, CallStart(c) \/ CallStop(c) \/ StartElsewhere(c)
         \/ HandshakeOver(c) \/ StopGivesUp(c) \/ HandshakeFails(c)
      PROVE  Flags'
  BY <1>1, Zenon DEF CallStart, CallStop, StartElsewhere, HandshakeOver, StopGivesUp,
       HandshakeFails, MayFail
<1>2. ASSUME NEW c \in Client, Connect(c)
      PROVE  Flags'
  BY <1>2, Zenon DEF Connect, MayFail
<1>3. ASSUME NEW c \in Client, PublishReady(c) \/ JoinActiveStop(c)
      PROVE  Flags'
  BY <1>3, Zenon DEF PublishReady, JoinActiveStop
<1>4. ASSUME NEW c \in Client, Flush(c)
      PROVE  Flags'
  BY <1>4, Zenon DEF Flush, Dispatch
<1>5. ASSUME NEW c \in Client, BeginStop(c)
      PROVE  Flags'
  BY <1>5, Zenon DEF BeginStop
<1>6. ASSUME NEW c \in Client, StopDrained(c) \/ StopDrainTimesOut(c) \/ JoinEnds(c)
      PROVE  Flags'
  BY <1>6, Zenon DEF StopDrained, StopDrainTimesOut, JoinEnds, MayFail
<1>7. ASSUME NEW g \in Gens, ReceiveNotification(g) \/ ReaderReturns(g) \/ DisconnectCleanup(g)
      PROVE  Flags'
  BY <1>7, Zenon DEF ReceiveNotification, ReaderReturns, DisconnectCleanup
<1>8. ASSUME NEW g \in Gens, DispatchNotification(g)
      PROVE  Flags'
  BY <1>8, Zenon DEF DispatchNotification, Dispatch
<1>9. ASSUME NEW g \in Gens, Disconnect(g)
      PROVE  Flags'
  BY <1>9, Zenon DEF Disconnect
<1>10. ASSUME NEW g \in Gens, NEW r \in Req, ReceiveResponse(g, r)
      PROVE  Flags'
  BY <1>10, Zenon DEF ReceiveResponse
<1>11. ASSUME NEW r \in Req, PinRequest(r) \/ RegisterRequest(r) \/ SendRequest(r)
         \/ TimeOutRequest(r)
      PROVE  Flags'
  BY <1>11, Zenon DEF PinRequest, RegisterRequest, SendRequest, TimeOutRequest, ReqStep
<1>12. ASSUME ProcessExits \/ UNCHANGED rpcVars
      PROVE  Flags'
  BY <1>12, Zenon DEF ProcessExits
<1> QED BY <1>1, <1>2, <1>3, <1>4, <1>5, <1>6, <1>7, <1>8, <1>9, <1>10, <1>11, <1>12 DEF RpcNext,
       ClientStep, ReaderEnds

LEMMA ThreadsStep ==
  ASSUME ConnectionAssumption, Sockets, Threads, [RpcNext]_rpcVars
  PROVE  Threads'
<1> USE DEF Threads, Sockets, ConnectionAssumption, Gens, hsVars, sockVars, stopVars, clientVars,
       readerVars, noteVars, bounds, rpcVars
<1>1. ASSUME NEW c \in Client, CallStart(c) \/ CallStop(c) \/ StartElsewhere(c)
         \/ HandshakeOver(c) \/ StopGivesUp(c) \/ HandshakeFails(c)
      PROVE  Threads'
  BY <1>1 DEF CallStart, CallStop, StartElsewhere, HandshakeOver, StopGivesUp, HandshakeFails,
       MayFail, Goto
<1>2. ASSUME NEW c \in Client, Connect(c)
      PROVE  Threads'
  <2>1. gen' \in 0..MaxSocket /\ hsGen' \in 0..MaxSocket /\ attempt + 1 \in 0..MaxAttempt
    BY <1>2 DEF Connect, MayFail, Goto
  <2>2. at' = [at EXCEPT ![c] = attempt + 1] /\ (atGen' = [atGen EXCEPT ![c] = gen']
          \/ atGen' = [atGen EXCEPT ![c] = hsGen'])
    BY <1>2 DEF Connect
  <2> HIDE DEF hsVars, sockVars
  <2>3. pc' = [pc EXCEPT ![c] = "handshake"] \/ pc' = [pc EXCEPT ![c] = "cleanup"]
    BY <1>2 DEF Connect, Goto
  <2>4. rstate' = [rstate EXCEPT ![gen + 1] = "loop"] \/ rstate' = rstate
    BY <1>2 DEF Connect
  <2> QED BY <2>1, <2>2, <2>3, <2>4
<1>3. ASSUME NEW c \in Client, PublishReady(c) \/ JoinActiveStop(c)
      PROVE  Threads'
  BY <1>3 DEF PublishReady, JoinActiveStop, Goto
<1>4. ASSUME NEW c \in Client, Flush(c)
      PROVE  Threads'
  BY <1>4 DEF Flush, Dispatch, Goto
<1>5. ASSUME NEW c \in Client, BeginStop(c)
      PROVE  Threads'
  BY <1>5 DEF BeginStop, Goto
<1>6. ASSUME NEW c \in Client, StopDrained(c) \/ StopDrainTimesOut(c) \/ JoinEnds(c)
      PROVE  Threads'
  BY <1>6 DEF StopDrained, StopDrainTimesOut, JoinEnds, MayFail, Goto
<1>7. ASSUME NEW g \in Gens, ReceiveNotification(g) \/ ReaderReturns(g) \/ DisconnectCleanup(g)
      PROVE  Threads'
  BY <1>7 DEF ReceiveNotification, ReaderReturns, DisconnectCleanup
<1>8. ASSUME NEW g \in Gens, DispatchNotification(g)
      PROVE  Threads'
  BY <1>8 DEF DispatchNotification, Dispatch
<1>9. ASSUME NEW g \in Gens, Disconnect(g)
      PROVE  Threads'
  BY <1>9 DEF Disconnect
<1>10. ASSUME NEW g \in Gens, NEW r \in Req, ReceiveResponse(g, r)
      PROVE  Threads'
  BY <1>10 DEF ReceiveResponse
<1>11. ASSUME NEW r \in Req, PinRequest(r) \/ RegisterRequest(r) \/ SendRequest(r)
         \/ TimeOutRequest(r)
      PROVE  Threads'
  BY <1>11 DEF PinRequest, RegisterRequest, SendRequest, TimeOutRequest, ReqStep
<1>12. ASSUME ProcessExits \/ UNCHANGED rpcVars
      PROVE  Threads'
  BY <1>12 DEF ProcessExits
<1> QED BY <1>1, <1>2, <1>3, <1>4, <1>5, <1>6, <1>7, <1>8, <1>9, <1>10, <1>11, <1>12 DEF RpcNext,
       ClientStep, ReaderEnds

LEMMA DispatchedNotes ==
  ASSUME Notes, NEW n \in 0..MaxNote, NEW g \in 0..MaxSocket, Dispatch(n, g)
  PROVE  buffer' \in Seq(0..MaxNote) /\ delivered' \in Seq(0..MaxNote)
<1> DEFINE Number == 0..MaxNote
<1>1. n \in Number /\ buffer \in Seq(Number) /\ delivered \in Seq(Number)
  BY DEF Notes
<1>2. buffer' \in {buffer, Append(buffer, n)} /\ delivered' \in {delivered, Append(delivered, n)}
  BY DEF Dispatch
<1> HIDE DEF Number
<1>3. Append(buffer, n) \in Seq(Number) /\ Append(delivered, n) \in Seq(Number)
  BY <1>1, AppendProperties
<1>4. buffer' \in Seq(Number) /\ delivered' \in Seq(Number)
  BY <1>1, <1>2, <1>3
<1> QED BY <1>4 DEF Number

LEMMA NotesStep ==
  ASSUME ConnectionAssumption, Sockets, Threads, Notes, [RpcNext]_rpcVars
  PROVE  Notes'
<1> DEFINE Quiet == UNCHANGED <<buffer, flush, note, noteNo, delivered>>
<1> USE DEF hsVars, sockVars, stopVars, clientVars, readerVars, noteVars, bounds, rpcVars
<1>1. ASSUME Quiet PROVE Notes'
  BY <1>1 DEF Notes
<1>2. ASSUME NEW c \in Client, CallStart(c) \/ CallStop(c) \/ StartElsewhere(c)
         \/ HandshakeOver(c) \/ StopGivesUp(c) \/ HandshakeFails(c)
      PROVE  Quiet
  BY <1>2 DEF CallStart, CallStop, StartElsewhere, HandshakeOver, StopGivesUp, HandshakeFails
<1>3. ASSUME NEW c \in Client, JoinActiveStop(c) \/ StopDrained(c) \/ StopDrainTimesOut(c) \/ JoinEnds(c)
      PROVE  Quiet
  BY <1>3 DEF JoinActiveStop, StopDrained, StopDrainTimesOut, JoinEnds
<1>4. ASSUME NEW g \in Gens, ReaderReturns(g) \/ DisconnectCleanup(g) \/ Disconnect(g)
      PROVE  Quiet
  BY <1>4 DEF ReaderReturns, DisconnectCleanup, Disconnect
<1>5. ASSUME NEW g \in Gens, NEW r \in Req, ReceiveResponse(g, r)
      PROVE  Quiet
  BY <1>5 DEF ReceiveResponse
<1>6. ASSUME NEW r \in Req, PinRequest(r) \/ RegisterRequest(r) \/ SendRequest(r)
         \/ TimeOutRequest(r)
      PROVE  Quiet
  BY <1>6 DEF PinRequest, RegisterRequest, SendRequest, TimeOutRequest, ReqStep
<1>7. ASSUME ProcessExits \/ UNCHANGED rpcVars
      PROVE  Quiet
  BY <1>7 DEF ProcessExits
<1>8. ASSUME NEW c \in Client, Connect(c) \/ BeginStop(c)
      PROVE  Notes'
  <2>1. buffer' = <<>> /\ UNCHANGED <<flush, note, noteNo, delivered>>
    BY <1>8 DEF Connect, BeginStop
  <2> QED BY <2>1 DEF Notes
<1>9. ASSUME NEW c \in Client, PublishReady(c)
      PROVE  Notes'
  <2>1. UNCHANGED <<note, noteNo, delivered>> /\ flush' = [flush EXCEPT ![c] = buffer] /\ buffer' = <<>>
    BY <1>9 DEF PublishReady
  <2>2. buffer' \in Seq(0..MaxNote)
    BY <2>1
  <2>3. flush' \in [Client -> Seq(0..MaxNote)]
    BY <2>1 DEF Notes
  <2> QED BY <2>1, <2>2, <2>3 DEF Notes
<1>10. ASSUME NEW c \in Client, Flush(c)
       PROVE  Notes'
  <2>1. UNCHANGED <<note, noteNo>>
    BY <1>10 DEF Flush
  <2>2. CASE flush[c] = <<>> /\ UNCHANGED <<flush, buffer, delivered>>
    BY <2>1, <2>2 DEF Notes
  <2>3. CASE flush[c] # <<>> /\ Dispatch(Head(flush[c]), atGen[c])
             /\ flush' = [flush EXCEPT ![c] = Tail(@)]
    <3>1. flush[c] \in Seq(0..MaxNote) /\ atGen[c] \in 0..MaxSocket
      BY DEF Notes, Threads
    <3>2. Head(flush[c]) \in 0..MaxNote /\ Tail(flush[c]) \in Seq(0..MaxNote)
      BY <2>3, <3>1, HeadTailProperties
    <3>3. buffer' \in Seq(0..MaxNote) /\ delivered' \in Seq(0..MaxNote)
      BY <2>3, <3>1, <3>2, DispatchedNotes
    <3>4. flush' \in [Client -> Seq(0..MaxNote)]
      BY <2>3, <3>2 DEF Notes
    <3> QED BY <2>1, <3>3, <3>4 DEF Notes
  <2> QED BY <1>10, <2>2, <2>3 DEF Flush
<1>11. ASSUME NEW g \in Gens, ReceiveNotification(g)
       PROVE  Notes'
  <2>1. noteNo + 1 \in 0..MaxNote
    BY <1>11 DEF ReceiveNotification, Notes, ConnectionAssumption
  <2>2. UNCHANGED <<buffer, flush, delivered>> /\ noteNo' = noteNo + 1
        /\ note' = [note EXCEPT ![g] = noteNo + 1]
    BY <1>11 DEF ReceiveNotification
  <2> QED BY <2>1, <2>2 DEF Notes
<1>12. ASSUME NEW g \in Gens, DispatchNotification(g)
       PROVE  Notes'
  <2>1. UNCHANGED <<flush, note, noteNo>> /\ Dispatch(note[g], g)
    BY <1>12 DEF DispatchNotification
  <2>2. note[g] \in 0..MaxNote /\ g \in 0..MaxSocket
    BY DEF Notes, Gens, ConnectionAssumption
  <2>3. buffer' \in Seq(0..MaxNote) /\ delivered' \in Seq(0..MaxNote)
    BY <2>1, <2>2, DispatchedNotes
  <2> QED BY <2>1, <2>3 DEF Notes
<1> HIDE DEF Quiet
<1> QED BY <1>1, <1>2, <1>3, <1>4, <1>5, <1>6, <1>7, <1>8, <1>9, <1>10, <1>11, <1>12 DEF RpcNext,
       ClientStep, ReaderEnds

LEMMA RetentionStep ==
  ASSUME ConnectionAssumption, Sockets, Retention, [RpcNext]_rpcVars
  PROVE  Retention'
<1> USE DEF hsVars, sockVars, stopVars, clientVars, readerVars, noteVars, bounds, rpcVars
<1>1. ASSUME NEW c \in Client, BeginStop(c)
      PROVE  Retention'
  <2>1. CASE res # NoRes
    BY <1>1, <2>1 DEF BeginStop, Retention
  <2>2. CASE res = NoRes
    <3> DEFINE Running == proc # "none"
               Readers == {g \in Gens : rstate[g] \in {"loop", "dispatch", "disconnected"}}
    <3>1. ws \in 0..Raw /\ Running \in BOOLEAN /\ Readers \in SUBSET Gens
      BY DEF Sockets, Raw, ConnectionAssumption
    <3>2. res' = [ws |-> ws, proc |-> Running, readers |-> Readers]
      BY <1>1, <2>2 DEF BeginStop
    <3> HIDE DEF Running, Readers
    <3> QED BY <3>1, <3>2 DEF Retention, Retained
  <2> QED BY <2>1, <2>2
<1>2. ASSUME NEW c \in Client, CallStart(c) \/ CallStop(c) \/ ClientStep(c), ~BeginStop(c)
      PROVE  Retention'
  BY <1>2 DEF CallStart, CallStop, ClientStep, StartElsewhere, HandshakeOver, StopGivesUp,
       HandshakeFails, Connect, PublishReady, Flush, JoinActiveStop, StopDrained, StopDrainTimesOut,
       JoinEnds, Retention
<1>3. ASSUME NEW g \in Gens, ReceiveNotification(g) \/ Disconnect(g) \/ ReaderEnds(g)
      PROVE  Retention'
  BY <1>3 DEF ReceiveNotification, Disconnect, ReaderEnds, ReaderReturns, DispatchNotification,
       DisconnectCleanup, Retention
<1>4. ASSUME NEW g \in Gens, NEW r \in Req, ReceiveResponse(g, r)
      PROVE  Retention'
  BY <1>4 DEF ReceiveResponse, Retention
<1>5. ASSUME NEW r \in Req, PinRequest(r) \/ RegisterRequest(r) \/ SendRequest(r)
         \/ TimeOutRequest(r)
      PROVE  Retention'
  BY <1>5 DEF PinRequest, RegisterRequest, SendRequest, TimeOutRequest, ReqStep, Retention
<1>6. ASSUME ProcessExits \/ UNCHANGED rpcVars
      PROVE  Retention'
  BY <1>6 DEF ProcessExits, Retention
<1> QED BY <1>1, <1>2, <1>3, <1>4, <1>5, <1>6 DEF RpcNext

-----------------------------------------------------------------------------
(* Starters and stops.                                                      *)

\* Only Connect opens a handshake, and only its owner's unwinding, or a change
\* of state that finds none, ends one.
LEMMA StartersStep ==
  ASSUME ConnectionAssumption, Sockets, Threads, StarterOwnsHandshake, HandshakeHasOwner,
         [RpcNext]_rpcVars
  PROVE  StarterOwnsHandshake' /\ HandshakeHasOwner'
<1> DEFINE Kept == UNCHANGED <<state, owner, hsGen, attempt, at, atGen, pc>>
           Goal == StarterOwnsHandshake' /\ HandshakeHasOwner'
<1> USE DEF hsVars, sockVars, stopVars, clientVars, readerVars, noteVars, bounds, rpcVars,
            StarterOwnsHandshake, HandshakeHasOwner, OwnsHandshake, Unwinding, Goto
<1>1. ASSUME Kept PROVE Goal
  BY <1>1
<1>2. ASSUME NEW c \in Client, CallStart(c) \/ CallStop(c) \/ StartElsewhere(c)
         \/ HandshakeOver(c)
      PROVE  Goal
  BY <1>2 DEF CallStart, CallStop, StartElsewhere, HandshakeOver, Sockets, Threads
<1>3. ASSUME NEW c \in Client, StopGivesUp(c) \/ HandshakeFails(c)
      PROVE  Goal
  BY <1>3 DEF StopGivesUp, HandshakeFails, Sockets, Threads
<1>4. ASSUME NEW c \in Client, StopDrained(c) \/ StopDrainTimesOut(c) \/ JoinEnds(c)
      PROVE  Goal
  BY <1>4 DEF StopDrained, StopDrainTimesOut, JoinEnds, Sockets, Threads
<1>5. ASSUME NEW c \in Client, Connect(c)
      PROVE  Goal
  <2>1. \A d \in Client : pc[d] \notin Unwinding
    BY <1>5 DEF Connect
  <2>2. /\ owner' = c /\ state' = "handshaking" /\ attempt' = attempt + 1
        /\ at' = [at EXCEPT ![c] = attempt + 1] /\ atGen' = [atGen EXCEPT ![c] = hsGen']
        /\ pc' \in {[pc EXCEPT ![c] = "handshake"], [pc EXCEPT ![c] = "cleanup"]}
    BY <1>5 DEF Connect
  <2> QED BY <2>1, <2>2 DEF Threads
<1>6. ASSUME NEW c \in Client, PublishReady(c)
      PROVE  Goal
  BY <1>6 DEF PublishReady, Sockets, Threads
<1>7. ASSUME NEW c \in Client, Flush(c)
      PROVE  Goal
  BY <1>7 DEF Flush, Dispatch, Sockets, Threads
<1>8. ASSUME NEW c \in Client, JoinActiveStop(c)
      PROVE  Goal
  BY <1>8 DEF JoinActiveStop, MayStop, SettleHandshakeStop, Sockets, Threads
<1>9. ASSUME NEW c \in Client, BeginStop(c)
      PROVE  Goal
  BY <1>9 DEF BeginStop, MayStop, Sockets, Threads
<1>10. ASSUME NEW g \in Gens, ReceiveNotification(g) \/ ReaderEnds(g)
       PROVE  Kept
  BY <1>10 DEF ReceiveNotification, ReaderEnds, ReaderReturns, DispatchNotification, Dispatch,
       DisconnectCleanup
<1>11. ASSUME NEW g \in Gens, Disconnect(g)
       PROVE  Goal
  BY <1>11 DEF Disconnect, Sockets, Threads
<1>12. ASSUME NEW g \in Gens, NEW r \in Req, ReceiveResponse(g, r)
       PROVE  Kept
  BY <1>12 DEF ReceiveResponse
<1>13. ASSUME NEW r \in Req, PinRequest(r) \/ RegisterRequest(r) \/ SendRequest(r)
          \/ TimeOutRequest(r)
       PROVE  Kept
  BY <1>13 DEF PinRequest, RegisterRequest, SendRequest, TimeOutRequest, ReqStep
<1>14. ASSUME ProcessExits \/ UNCHANGED rpcVars
       PROVE  Kept
  BY <1>14 DEF ProcessExits
<1> HIDE DEF Kept, StarterOwnsHandshake, HandshakeHasOwner
<1> QED BY <1>1, <1>2, <1>3, <1>4, <1>5, <1>6, <1>7, <1>8, <1>9, <1>10, <1>11, <1>12, <1>13,
       <1>14 DEF RpcNext, ClientStep

\* While the barrier retains resources the handshake is not published and no
\* socket or process is created.
LEMMA RetainedStep ==
  ASSUME ConnectionAssumption, Sockets, Retention, NoStartOverRetained, [RpcNext]_rpcVars
  PROVE  NoStartOverRetained'
<1> USE DEF hsVars, sockVars, stopVars, clientVars, readerVars, noteVars, bounds, rpcVars,
            NoStartOverRetained
<1>1. ASSUME NEW c \in Client, CallStart(c) \/ CallStop(c) \/ StartElsewhere(c)
         \/ HandshakeOver(c) \/ StopGivesUp(c) \/ HandshakeFails(c) \/ JoinEnds(c)
      PROVE  NoStartOverRetained'
  BY <1>1 DEF CallStart, CallStop, StartElsewhere, HandshakeOver, StopGivesUp, HandshakeFails,
       JoinEnds
<1>2. ASSUME NEW c \in Client, Connect(c)
      PROVE  NoStartOverRetained'
  BY <1>2 DEF Connect, Startable
<1>3. ASSUME NEW c \in Client, PublishReady(c) \/ Flush(c)
      PROVE  NoStartOverRetained'
  BY <1>3 DEF PublishReady, HandshakeCurrent, IsConnected, Flush, Dispatch
<1>4. ASSUME NEW c \in Client, JoinActiveStop(c)
      PROVE  NoStartOverRetained'
  BY <1>4 DEF JoinActiveStop, SettleHandshakeStop
<1>5. ASSUME NEW c \in Client, BeginStop(c)
      PROVE  NoStartOverRetained'
  <2>1. ws' = 0 \/ (res # NoRes /\ ws' = ws)
    BY <1>5 DEF BeginStop
  <2>2. state' # "ready" /\ proc' = proc
    BY <1>5 DEF BeginStop
  <2>3. res # NoRes => res' = res
    BY <1>5 DEF BeginStop
  <2>4. res = NoRes => res'.proc = (proc # "none")
    BY <1>5 DEF BeginStop
  <2> QED BY <2>1, <2>2, <2>3, <2>4
<1>6. ASSUME NEW c \in Client, StopDrained(c) \/ StopDrainTimesOut(c)
      PROVE  NoStartOverRetained'
  BY <1>6 DEF StopDrained, StopDrainTimesOut
<1>7. ASSUME NEW g \in Gens, ReceiveNotification(g) \/ ReaderEnds(g) \/ Disconnect(g)
      PROVE  NoStartOverRetained'
  BY <1>7 DEF ReceiveNotification, ReaderEnds, ReaderReturns, DispatchNotification, Dispatch,
       DisconnectCleanup, Disconnect
<1>8. ASSUME NEW g \in Gens, NEW r \in Req, ReceiveResponse(g, r)
      PROVE  NoStartOverRetained'
  BY <1>8 DEF ReceiveResponse
<1>9. ASSUME NEW r \in Req, PinRequest(r) \/ RegisterRequest(r) \/ SendRequest(r)
         \/ TimeOutRequest(r)
      PROVE  NoStartOverRetained'
  BY <1>9 DEF PinRequest, RegisterRequest, SendRequest, TimeOutRequest, ReqStep
<1>10. ASSUME ProcessExits \/ UNCHANGED rpcVars
       PROVE  NoStartOverRetained'
  BY <1>10 DEF ProcessExits
<1> HIDE DEF NoStartOverRetained
<1> QED BY <1>1, <1>2, <1>3, <1>4, <1>5, <1>6, <1>7, <1>8, <1>9, <1>10 DEF RpcNext, ClientStep

-----------------------------------------------------------------------------
(* Requests.                                                                *)

RequestFacts == Requests /\ RequestsAreSane /\ WaitingIsPinned

\* Every request stays sane, and once pinned it stays pinned to its socket.
Proceed ==
  /\ req' \in [Req -> Request]
  /\ \A r \in Req : /\ Sane(req[r])'
                    /\ req[r].st # "new" => req'[r].st # "new" /\ req'[r].pin = req[r].pin

LEMMA ProceedKeepsFacts ==
  ASSUME ConnectionAssumption, RequestFacts, Proceed,
         pending' \subseteq Req, \A r \in pending' : req'[r].st # "new",
         taken' \in [Gens -> SUBSET Req],
         \A g \in Gens : \A r \in taken'[g] : r \in taken[g] \/ (r \in pending /\ gen = g)
  PROVE  RequestFacts'
<1>1. Requests' /\ RequestsAreSane'
  BY DEF Proceed, Requests, RequestsAreSane
<1>2. ASSUME NEW g \in Gens, NEW r \in taken'[g]
      PROVE  req'[r].st # "new" /\ req'[r].pin <= g
  <2>1. r \in Req /\ req[r].st # "new"
    BY <1>2 DEF RequestFacts, WaitingIsPinned, Requests
  <2>2. req[r].pin <= g
    BY <1>2, <2>1 DEF RequestFacts, WaitingIsPinned, RequestsAreSane, Sane
  <2> QED BY <2>1, <2>2 DEF Proceed
<1> QED BY <1>1, <1>2 DEF RequestFacts, WaitingIsPinned

\* The requests stand still.
LEMMA IdleRequests ==
  ASSUME ConnectionAssumption, Sockets, RequestFacts, UNCHANGED <<req, pending, taken>>,
         gen' \in {gen, gen + 1}
  PROVE  RequestFacts'
<1>1. Proceed
  <2>1. req' \in [Req -> Request]
    BY DEF RequestFacts, Requests
  <2>2. ASSUME NEW r \in Req PROVE Sane(req[r])'
    <3>1. req[r] \in Request /\ Sane(req[r]) /\ req'[r] = req[r]
      BY DEF RequestFacts, Requests, RequestsAreSane
    <3>2. req[r].pin \in Nat /\ gen \in Nat
      BY <3>1 DEF Request, Sockets, ConnectionAssumption
    <3> QED BY <3>1, <3>2 DEF Sane
  <2> QED BY <2>1, <2>2 DEF Proceed
<1> QED BY <1>1, ProceedKeepsFacts DEF RequestFacts, Requests, WaitingIsPinned

\* Requests that wait are failed or answered; for a lost socket none of them
\* may be pinned to a later one.
LEMMA FailedProceed ==
  ASSUME ConnectionAssumption, Sockets, Requests, RequestsAreSane, gen' = gen,
         NEW S, NEW out \in {"result", "protocol", "transport"}, NEW by \in 0..Raw,
         \A r \in S \cap Req : out = "transport" => by = 0 \/ req[r].pin <= by,
         req' = Failed(S, out, by)
  PROVE  Proceed
<1> DEFINE hit(r) == r \in S /\ req[r].st = "sent"
           new(r) == [req[r] EXCEPT !.st = "done", !.out = out, !.by = by]
<1>1. req' = [r \in Req |-> IF hit(r) THEN new(r) ELSE req[r]]
  BY DEF Failed
<1>2. ASSUME NEW r \in Req
      PROVE  /\ new(r) \in Request /\ req[r] \in Request /\ Sane(req[r])
             /\ new(r).st = "done" /\ new(r).out = out /\ new(r).by = by
             /\ new(r).pin = req[r].pin /\ new(r).wrote = req[r].wrote
  BY DEF Requests, Request, RequestsAreSane
<1> HIDE DEF new
<1>3. ASSUME NEW r \in Req PROVE Sane(req[r])'
  <2>1. CASE ~hit(r)
    BY <1>1, <1>2, <2>1 DEF Sane
  <2>2. CASE hit(r)
    BY <1>1, <1>2, <2>2 DEF Sane
  <2> QED BY <2>1, <2>2
<1>4. req' \in [Req -> Request]
  BY <1>1, <1>2
<1>5. \A r \in Req : req[r].st # "new" => req'[r].st # "new" /\ req'[r].pin = req[r].pin
  BY <1>1, <1>2
<1> QED BY <1>3, <1>4, <1>5 DEF Proceed

\* One request takes a step of its own.
LEMMA OwnProceed ==
  ASSUME ConnectionAssumption, Requests, RequestsAreSane, gen' = gen,
         NEW r \in Req, NEW new \in Request, ReqStep(r, new),
         Sane(new), new.st # "new",
         req[r].st # "new" => new.pin = req[r].pin
  PROVE  Proceed
<1>1. req' = [req EXCEPT ![r] = new]
  BY DEF ReqStep
<1>2. req'[r] = new /\ \A k \in Req : k # r => req'[k] = req[k]
  BY <1>1 DEF Requests
<1>3. req' \in [Req -> Request]
  BY <1>1 DEF Requests
<1>4. \A k \in Req : Sane(req[k])'
  BY <1>2 DEF Sane, RequestsAreSane
<1> QED BY <1>2, <1>3, <1>4 DEF Proceed

LEMMA DispatchKeepsRequests ==
  ASSUME ConnectionAssumption, Sockets, RequestFacts, NEW n, NEW g \in 0..MaxSocket,
         Dispatch(n, g), UNCHANGED <<gen, taken>>
  PROVE  RequestFacts'
<1>1. CASE UNCHANGED <<pending, req>>
  BY <1>1, IdleRequests
<1>2. CASE req' = Failed(pending, "protocol", g) /\ pending' = {}
  <2>1. g \in 0..Raw
    BY DEF Raw, ConnectionAssumption
  <2>2. Proceed
    BY <1>2, <2>1, FailedProceed DEF RequestFacts
  <2> QED BY <1>2, <2>2, ProceedKeepsFacts DEF RequestFacts, Requests
<1> QED BY <1>1, <1>2 DEF Dispatch

LEMMA SendKeepsRequests ==
  ASSUME ConnectionAssumption, Sockets, RequestFacts, NEW r \in Req, SendRequest(r)
  PROVE  RequestFacts'
<1> DEFINE q == req[r]
<1>1. /\ q \in Request /\ Sane(q) /\ q.st = "registered" /\ q.wrote = 0 /\ q.out = "none"
      /\ q.pin <= gen
  BY DEF SendRequest, RequestFacts, Requests, RequestsAreSane, Sane
<1>2. gen \in 0..MaxSocket /\ gen \in 0..Raw /\ q.pin \in 0..MaxSocket /\ q.pin \in 0..Raw
  BY <1>1 DEF Sockets, Request, Raw, ConnectionAssumption
<1> HIDE DEF q
<1>3. ASSUME NEW new \in Request, ReqStep(r, new), Sane(new), new.st # "new", new.pin = q.pin,
             pending' \subseteq pending
      PROVE  RequestFacts'
  <2>1. gen' = gen /\ taken' = taken
    BY <1>3 DEF ReqStep, sockVars, readerVars
  <2>2. Proceed
    BY <1>3, <2>1, OwnProceed DEF RequestFacts, q
  <2>3. \A k \in pending' : req'[k].st # "new"
    BY <1>3, <2>2 DEF RequestFacts, WaitingIsPinned, Requests, Proceed
  <2> QED BY <1>3, <2>1, <2>2, <2>3, ProceedKeepsFacts DEF RequestFacts, Requests
<1>4. CASE pending' = pending \ {r} /\ ReqStep(r, [q EXCEPT !.st = "done", !.out = "presend"])
  <2> DEFINE new == [q EXCEPT !.st = "done", !.out = "presend"]
  <2>1. /\ new \in Request /\ new.st = "done" /\ new.out = "presend"
        /\ new.pin = q.pin /\ new.wrote = q.wrote
    BY <1>1 DEF Request
  <2> HIDE DEF new
  <2>2. Sane(new)
    BY <1>1, <2>1 DEF Sane
  <2> QED BY <1>3, <1>4, <2>1, <2>2 DEF new
<1>5. CASE MaySend(r) /\ pending' = pending
           /\ ReqStep(r, [q EXCEPT !.st = "sent", !.wrote = gen])
  <2> DEFINE new == [q EXCEPT !.st = "sent", !.wrote = gen]
  <2>1. /\ new \in Request /\ new.st = "sent" /\ new.wrote = gen
        /\ new.pin = q.pin /\ new.out = q.out
    BY <1>1, <1>2 DEF Request
  <2> HIDE DEF new
  <2>2. Sane(new)
    BY <1>1, <1>5, <2>1 DEF Sane, MaySend, q
  <2> QED BY <1>3, <1>5, <2>1, <2>2 DEF new
<1>6. ASSUME NEW by \in {gen, q.pin}, MaySend(r), pending' \subseteq pending,
             ReqStep(r, [q EXCEPT !.st = "done", !.wrote = gen, !.out = "transport", !.by = by])
      PROVE  RequestFacts'
  <2> DEFINE new == [q EXCEPT !.st = "done", !.wrote = gen, !.out = "transport", !.by = by]
  <2>1. /\ new \in Request /\ new.st = "done" /\ new.wrote = gen /\ new.by = by
        /\ new.pin = q.pin /\ new.out = "transport"
    BY <1>1, <1>2, <1>6 DEF Request
  <2> HIDE DEF new
  <2>2. Sane(new)
    BY <1>1, <1>2, <1>6, <2>1 DEF Sane, MaySend, q
  <2> QED BY <1>3, <1>6, <2>1, <2>2 DEF new
<1> QED BY <1>4, <1>5, <1>6 DEF SendRequest, FailedWrite, q

LEMMA RequestsStep ==
  ASSUME ConnectionAssumption, Sockets, Sockets', Threads, RequestFacts, [RpcNext]_rpcVars
  PROVE  RequestFacts'
<1> DEFINE Resting == UNCHANGED <<req, pending, taken>> /\ gen' \in {gen, gen + 1}
<1> USE DEF hsVars, sockVars, stopVars, clientVars, readerVars, noteVars, bounds, rpcVars
<1>1. ASSUME Resting PROVE RequestFacts'
  BY <1>1, IdleRequests
<1>2. ASSUME NEW c \in Client, CallStart(c) \/ CallStop(c) \/ StartElsewhere(c)
         \/ HandshakeOver(c) \/ StopGivesUp(c) \/ HandshakeFails(c) \/ JoinEnds(c)
      PROVE  Resting
  BY <1>2 DEF CallStart, CallStop, StartElsewhere, HandshakeOver, StopGivesUp, HandshakeFails,
       JoinEnds
<1>3. ASSUME NEW c \in Client, Connect(c) \/ PublishReady(c) \/ JoinActiveStop(c)
         \/ StopDrained(c) \/ StopDrainTimesOut(c)
      PROVE  Resting
  BY <1>3 DEF Connect, PublishReady, JoinActiveStop, StopDrained, StopDrainTimesOut
<1>4. ASSUME NEW g \in Gens, ReceiveNotification(g) \/ ReaderReturns(g)
      PROVE  Resting
  BY <1>4 DEF ReceiveNotification, ReaderReturns
<1>5. ASSUME ProcessExits \/ UNCHANGED rpcVars
      PROVE  Resting
  BY <1>5 DEF ProcessExits
<1>6. ASSUME NEW c \in Client, Flush(c)
      PROVE  RequestFacts'
  <2>1. CASE flush[c] = <<>>
    BY <1>1, <1>6, <2>1 DEF Flush
  <2>2. CASE flush[c] # <<>>
    <3>1. atGen[c] \in 0..MaxSocket
      BY DEF Threads
    <3>2. Dispatch(Head(flush[c]), atGen[c]) /\ UNCHANGED <<gen, taken>>
      BY <1>6, <2>2 DEF Flush
    <3> QED BY <3>1, <3>2, DispatchKeepsRequests
  <2> QED BY <2>1, <2>2
<1>7. ASSUME NEW g \in Gens, DispatchNotification(g)
      PROVE  RequestFacts'
  <2>1. g \in 0..MaxSocket
    BY DEF Gens, ConnectionAssumption
  <2>2. Dispatch(note[g], g) /\ UNCHANGED <<gen, taken>>
    BY <1>7 DEF DispatchNotification
  <2> QED BY <2>1, <2>2, DispatchKeepsRequests
<1>8. ASSUME NEW c \in Client, BeginStop(c)
      PROVE  RequestFacts'
  <2>1. req' = Failed(pending, "transport", ws) /\ pending' = {} /\ UNCHANGED <<gen, taken>>
    BY <1>8 DEF BeginStop
  <2>2. ws \in 0..Raw /\ (ws = 0 \/ gen <= ws)
    BY DEF Sockets, Raw, ConnectionAssumption
  <2>3. \A r \in pending \cap Req : ws = 0 \/ req[r].pin <= ws
    BY <2>2 DEF RequestFacts, Requests, RequestsAreSane, Sane, Request, Sockets
  <2>4. Proceed
    BY <2>1, <2>2, <2>3, FailedProceed DEF RequestFacts
  <2> QED BY <2>1, <2>4, ProceedKeepsFacts DEF RequestFacts, Requests
<1>9. ASSUME NEW g \in Gens, Disconnect(g)
      PROVE  RequestFacts'
  <2>1. /\ gen = g /\ UNCHANGED <<req, gen>> /\ pending' = {}
        /\ taken' = [taken EXCEPT ![g] = pending]
    BY <1>9 DEF Disconnect, ReaderMayGoOn
  <2>2. Proceed
    BY <2>1 DEF Proceed, RequestFacts, Requests, RequestsAreSane, Sane
  <2>3. taken' \in [Gens -> SUBSET Req]
    BY <2>1 DEF RequestFacts, Requests
  <2>4. \A k \in Gens : \A r \in taken'[k] : r \in taken[k] \/ (r \in pending /\ gen = k)
    BY <2>1 DEF RequestFacts, Requests
  <2> QED BY <2>1, <2>2, <2>3, <2>4, ProceedKeepsFacts
<1>10. ASSUME NEW g \in Gens, DisconnectCleanup(g)
       PROVE  RequestFacts'
  <2>1. /\ req' = Failed(taken[g], "transport", g) /\ UNCHANGED <<gen, pending>>
        /\ taken' = [taken EXCEPT ![g] = {}]
    BY <1>10 DEF DisconnectCleanup
  <2>2. g \in 0..Raw
    BY DEF Gens, Raw, ConnectionAssumption
  <2>3. \A r \in taken[g] \cap Req : req[r].pin <= g
    BY DEF RequestFacts, WaitingIsPinned
  <2>4. Proceed
    BY <2>1, <2>2, <2>3, FailedProceed DEF RequestFacts
  <2>5. taken' \in [Gens -> SUBSET Req] /\ \A k \in Gens : taken'[k] \subseteq taken[k]
    BY <2>1 DEF RequestFacts, Requests
  <2>6. pending' \subseteq Req /\ \A r \in pending' : req'[r].st # "new"
    BY <2>1, <2>4 DEF Proceed, RequestFacts, Requests, WaitingIsPinned
  <2> QED BY <2>4, <2>5, <2>6, ProceedKeepsFacts
<1>11. ASSUME NEW g \in Gens, NEW r \in Req, ReceiveResponse(g, r)
       PROVE  RequestFacts'
  <2>1. /\ req' = Failed({r}, "result", g) /\ pending' = pending \ {r}
        /\ UNCHANGED <<gen, taken>>
    BY <1>11 DEF ReceiveResponse
  <2>2. g \in 0..Raw
    BY DEF Gens, Raw, ConnectionAssumption
  <2>3. Proceed
    BY <2>1, <2>2, FailedProceed DEF RequestFacts
  <2>4. pending' \subseteq Req /\ \A k \in pending' : req'[k].st # "new"
    BY <2>1, <2>3 DEF Proceed, RequestFacts, Requests, WaitingIsPinned
  <2> QED BY <2>1, <2>3, <2>4, ProceedKeepsFacts DEF RequestFacts, Requests
<1>12. ASSUME NEW r \in Req, NEW new \in Request, ReqStep(r, new), Sane(new), new.st # "new",
              req[r].st # "new" => new.pin = req[r].pin, pending' \subseteq pending \cup {r}
       PROVE  RequestFacts'
  <2>1. gen' = gen /\ taken' = taken
    BY <1>12 DEF ReqStep
  <2>2. Proceed
    BY <1>12, <2>1, OwnProceed DEF RequestFacts
  <2>3. req'[r] = new
    BY <1>12 DEF ReqStep, RequestFacts, Requests
  <2>4. pending' \subseteq Req /\ \A k \in pending' : req'[k].st # "new"
    BY <1>12, <2>2, <2>3 DEF Proceed, RequestFacts, Requests, WaitingIsPinned
  <2> QED BY <2>1, <2>2, <2>4, ProceedKeepsFacts DEF RequestFacts, Requests
<1>13. ASSUME NEW r \in Req PROVE req[r] \in Request /\ Sane(req[r])
  BY DEF RequestFacts, Requests, RequestsAreSane
<1>14. ASSUME NEW r \in Req, PinRequest(r)
       PROVE  RequestFacts'
  <2> DEFINE new == [req[r] EXCEPT !.st = "pinned", !.pin = gen]
  <2>1. ReqStep(r, new) /\ pending' = pending /\ req[r].st = "new"
    BY <1>14 DEF PinRequest
  <2>2. /\ new \in Request /\ new.st = "pinned" /\ new.pin = gen
        /\ new.wrote = req[r].wrote /\ new.out = req[r].out
    BY <1>13 DEF Request, Sockets
  <2> HIDE DEF new
  <2>3. Sane(new)
    BY <1>13, <2>1, <2>2 DEF Sane, Sockets
  <2> QED BY <1>12, <2>1, <2>2, <2>3
<1>15. ASSUME NEW r \in Req, RegisterRequest(r)
       PROVE  RequestFacts'
  <2> DEFINE new == [req[r] EXCEPT !.st = "registered"]
  <2>1. ReqStep(r, new) /\ pending' = pending \cup {r} /\ req[r].st = "pinned"
    BY <1>15 DEF RegisterRequest
  <2>2. /\ new \in Request /\ new.st = "registered" /\ new.pin = req[r].pin
        /\ new.wrote = req[r].wrote /\ new.out = req[r].out
    BY <1>13 DEF Request
  <2> HIDE DEF new
  <2>3. Sane(new)
    BY <1>13, <2>1, <2>2 DEF Sane
  <2> QED BY <1>12, <2>1, <2>2, <2>3
<1>16. ASSUME NEW r \in Req, TimeOutRequest(r)
       PROVE  RequestFacts'
  <2> DEFINE new == [req[r] EXCEPT !.st = "done", !.out = "timeout"]
  <2>1. ReqStep(r, new) /\ pending' \subseteq pending /\ req[r].st = "sent"
    BY <1>16 DEF TimeOutRequest
  <2>2. /\ new \in Request /\ new.st = "done" /\ new.pin = req[r].pin
        /\ new.wrote = req[r].wrote /\ new.out = "timeout"
    BY <1>13 DEF Request
  <2> HIDE DEF new
  <2>3. Sane(new)
    BY <1>13, <2>1, <2>2 DEF Sane
  <2> QED BY <1>12, <2>1, <2>2, <2>3
<1>17. ASSUME NEW r \in Req, SendRequest(r)
       PROVE  RequestFacts'
  BY <1>17, SendKeepsRequests
<1> HIDE DEF Resting, rpcVars
<1> QED BY <1>1, <1>2, <1>3, <1>4, <1>5, <1>6, <1>7, <1>8, <1>9, <1>10, <1>11, <1>14, <1>15,
       <1>16, <1>17 DEF RpcNext, ClientStep, ReaderEnds

-----------------------------------------------------------------------------
LEMMA RpcInitInd ==
  ASSUME ConnectionAssumption, RpcInit
  PROVE  RpcInd
<1> USE DEF RpcInit, ConnectionAssumption
<1>1. Sockets
  BY DEF Sockets
<1>2. Flags
  BY Zenon DEF Flags
<1>3. Retention /\ Threads
  BY DEF Retention, Threads
<1>4. Notes
  BY DEF Notes
<1>5. NewReq \in Request
  BY DEF NewReq, Request, Raw
<1>6. Requests
  BY <1>5 DEF Requests
<1>7. \A r \in Req : Sane(req[r])
  BY DEF Sane, NewReq
<1>8. StarterOwnsHandshake /\ HandshakeHasOwner /\ NoStartOverRetained /\ WaitingIsPinned
  BY DEF StarterOwnsHandshake, Unwinding, HandshakeHasOwner, NoStartOverRetained, WaitingIsPinned
<1> QED BY <1>1, <1>2, <1>3, <1>4, <1>6, <1>7, <1>8, TypeParts DEF RpcInd, RequestsAreSane

LEMMA RpcNextInd ==
  ASSUME ConnectionAssumption, RpcInd, [RpcNext]_rpcVars
  PROVE  RpcInd'
<1> DEFINE Typed == Sockets /\ Flags /\ Retention /\ Threads /\ Notes /\ Requests
<1>1. Typed /\ StarterOwnsHandshake /\ HandshakeHasOwner /\ NoStartOverRetained
      /\ RequestsAreSane /\ WaitingIsPinned
  BY TypeParts DEF RpcInd
<1>2. Sockets' /\ Flags' /\ Retention' /\ Threads' /\ Notes'
  BY <1>1, SocketsStep, FlagsStep, RetentionStep, ThreadsStep, NotesStep
<1>3. StarterOwnsHandshake' /\ HandshakeHasOwner' /\ NoStartOverRetained'
  BY <1>1, StartersStep, RetainedStep
<1>4. RequestFacts'
  BY <1>1, <1>2, RequestsStep DEF RequestFacts
<1>5. RpcTypeOK' <=> Typed'
  BY TypeParts, PTL
<1> QED BY <1>2, <1>3, <1>4, <1>5 DEF RpcInd, RequestFacts

\* The connection keeps its promises: requests are pinned and their failures
\* honest, no late cleanup closes a successor, nothing starts over a stop that
\* is not proved down, and no handshake is left without an owner.
THEOREM RpcSafety ==
  ASSUME ConnectionAssumption
  PROVE  RpcSpec => []RpcInvariant
<1>1. RpcInit => RpcInd
  BY RpcInitInd
<1>2. RpcInd /\ [RpcNext]_rpcVars => RpcInd'
  BY RpcNextInd
<1>3. RpcInd => RpcInvariant
  <2> SUFFICES ASSUME RpcInd PROVE RpcInvariant
    OBVIOUS
  <2>1. PinnedAndHonest /\ NotFailedByOlderSocket
    BY DEF RpcInd, RequestsAreSane, Sane, PinnedAndHonest, NotFailedByOlderSocket
  <2>2. OwnedUntilUnwound
    BY DEF RpcInd, StarterOwnsHandshake, Unwinding, OwnedUntilUnwound
  <2> QED BY <2>1, <2>2 DEF RpcInd, RpcInvariant
<1> QED BY <1>1, <1>2, <1>3, PTL DEF RpcSpec
=============================================================================
