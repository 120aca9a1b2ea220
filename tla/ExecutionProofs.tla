--------------------------- MODULE ExecutionProofs --------------------------
(***************************************************************************)
(* Proofs about the execution of a Feishu binding and its watchdog, for    *)
(* any number of workers, turns, executions, pages, lost notifications,    *)
(* failed reads and connections, whether first pages are rejected or not   *)
(* (ExecutionInvariant), about the order of its shutdown                   *)
(* (NothingBehindTheBarrier), and about what an execution shows in its     *)
(* chat (OutputInvariant), in the second half.                             *)
(*                                                                         *)
(* Nothing is retired early because nothing that ends an execution can     *)
(* become untrue: turns run one after the other (TurnsInOrder), a          *)
(* notification speaks of a turn that has begun and is not older than the  *)
(* execution's (WireIsHonest), and the session a worker reads for names a  *)
(* turn that has begun, so that a turn found over stays over               *)
(* (SessionBound).  An execution that has a page and no turn waits for its *)
(* turn (ExecBound): nothing but a disconnect ends it.                     *)
(*                                                                         *)
(* A result is presented once because a retirement clears the page, and    *)
(* only the one that did may present it: the handler at once, the          *)
(* reconcile worker or one watchdog worker (EndedOnce, Tickets).           *)
(*                                                                         *)
(* A plain execution is watched by its ticket, which every event renews,   *)
(* or by a worker that found no ticket when it looked and will rearm       *)
(* (Watched): the registration fact it compares is then still true.        *)
(***************************************************************************)
EXTENDS ExecutionRecovery, ExecutionOutput, SequenceTheorems, FiniteSetTheorems, TLAPS

-----------------------------------------------------------------------------
(* The inductive invariant.                                                 *)

InFlight == {"run", "over"}
WorkerType ==
  [pc : Pc, own : BOOLEAN, fresh : BOOLEAN, conn : Nat,
   sess : (0..MaxExecs) \X (0..MaxTurns) \X (0..MaxPages) \X {"none", "prompt", "compact"},
   armed : BOOLEAN, over : BOOLEAN]

UpType ==
  [turn : [Turn -> {"none", "sent", "run", "over"}], work : [Turn -> Nat], net : Seq(Note)]

ExecType ==
  [inc : 0..MaxExecs, running : BOOLEAN, await : BOOLEAN, turn : 0..MaxTurns,
   page : 0..MaxPages, kind : {"none", "prompt", "compact"},
   chan : {"live", "degraded"}, for : 0..MaxTurns]
RegType == [inc : 0..MaxExecs, turn : 0..MaxTurns, page : 0..MaxPages, fired : BOOLEAN]

\* The types of the state, the records of workers and transport included.
Typed ==
  /\ exec \in ExecType /\ reg \in RegType
  /\ left.lost \in 0..MaxLost /\ left.faults \in 0..MaxFaults
  /\ stop \in {"no", "requested", "joined", "cancelled"} /\ recon \subseteq Exec
  /\ w \in [Workers -> WorkerType]
  /\ up \in UpType
  /\ conn \in [gen : 1..MaxConns, live : BOOLEAN]
  /\ left \in [lost : Nat, faults : Nat]
  /\ ends \in [Exec -> Nat] /\ shown \in [Exec -> Nat]

\* Turns run one after the other.
TurnsInOrder == \A s, t \in Turn : s < t /\ up.turn[t] # "none" => up.turn[s] = "over"

\* An execution that has a page, has its turn, or waits for it.
Ongoing == exec.page > 0 \/ exec.turn > 0 \/ exec.await

\* An execution with a page is bound to its own turn or waits for it.
ExecBound ==
  /\ exec.turn > 0 => exec.for = exec.turn /\ up.turn[exec.turn] \in InFlight
  /\ exec.page > 0 /\ exec.turn = 0 => exec.await
  /\ Ongoing => exec.running
  /\ Ongoing \/ exec.for > 0 => exec.inc > 0

\* What may be retired, unless only the connection is gone.
MayEnd == exec.for = 0 \/ up.turn[exec.for] = "over" \/ ~Anchored(exec)

Terminal == {"completed", "idle", "error", "closed"}

\* Notifications arrive in order and speak of turns that have begun.
Honest(n) ==
  /\ up.turn[n.t] \in InFlight /\ exec.turn <= n.t
  /\ n.k \in Terminal => up.turn[n.t] = "over"
WireIsHonest ==
  \A i \in 1..Len(up.net) :
    /\ Honest(up.net[i])
    /\ \A j \in 1..Len(up.net) : i < j => up.net[i].t <= up.net[j].t

\* What a worker reads for, and what it has found out, stays true.
Reads == {"prepare", "read", "settle", "missing", "degrade", "finalize"}
FoundOver(v) == v.pc \in {"missing", "finalize"} \/ (v.pc = "settle" /\ v.over)
SessionFits(v) ==
  /\ v.sess[2] > 0 => up.turn[v.sess[2]] \in InFlight
  /\ v.pc \in Reads /\ v.sess[2] = 0 => v.sess[3] = 0
  /\ v.sess[2] > 0 /\ FoundOver(v) => up.turn[v.sess[2]] = "over"
SessionBound == \A x \in Workers : SessionFits(w[x])

\* An execution that has ended has nothing left to end.
EndedOnce ==
  \A i \in Exec :
    /\ ends[i] <= 1 /\ (i > exec.inc => ends[i] = 0)
    /\ i = exec.inc /\ Ongoing => ends[i] = 0

\* Who may still present the result of an execution.
Holds(x, i) == w[x].pc = "present" /\ w[x].sess[1] = i /\ w[x].sess[3] > 0
Tickets ==
  \A i \in Exec :
    /\ i \in recon => ends[i] = 1 /\ shown[i] = 0
    /\ \A x \in Workers : Holds(x, i) =>
         /\ ends[i] = 1 /\ shown[i] = 0 /\ i \notin recon
         /\ \A y \in Workers : Holds(y, i) => y = x
    /\ shown[i] <= ends[i]

\* A plain execution has its ticket, or a worker that found none and rearms.
Watching == Reads \cup {"rearm"}
Watches(x) == w[x].pc \in Watching /\ Same(x) /\ ~w[x].armed
TicketFits == reg.inc = exec.inc /\ reg.turn = exec.turn /\ reg.page = exec.page
Watched ==
  /\ reg.fired => \E x \in Workers : w[x].pc = "consume" /\ w[x].own
  /\ exec.page = 1 /\ exec.kind # "compact" /\ ~Stopped =>
       (reg # NoTicket /\ TicketFits) \/ (reg = NoTicket /\ \E x \in Workers : Watches(x))

RecoveryInd ==
  /\ Typed
  /\ NeverRetiredEarly
  /\ TurnsInOrder
  /\ ExecBound
  /\ WireIsHonest
  /\ SessionBound
  /\ EndedOnce
  /\ Tickets
  /\ Watched

-----------------------------------------------------------------------------
(* Types.                                                                   *)

LEMMA Bounds ==
  /\ MaxTurns \in Nat /\ MaxExecs \in Nat /\ MaxPages \in Nat \ {0} /\ MaxConns \in Nat \ {0}
  /\ MaxWork \in Nat /\ MaxLost \in Nat /\ MaxFaults \in Nat
BY BoundsAssumption

LEMMA ArmedType == ASSUME NEW e \in ExecType PROVE Armed(e) \in RegType /\ ~Armed(e).fired
BY Bounds DEF Armed, ExecType, RegType, NoTicket

LEMMA RetiredType ==
  ASSUME NEW e \in ExecType
  PROVE  /\ Retired(e) \in ExecType /\ Retired(e).inc = e.inc /\ Retired(e).page = 0
         /\ Retired(e).turn = 0 /\ Retired(e).for = 0 /\ ~Retired(e).await /\ ~Retired(e).running
<1>1. NoExec \in ExecType
  BY Bounds DEF NoExec, ExecType
<1>2. /\ NoExec.page = 0 /\ NoExec.turn = 0 /\ NoExec.for = 0
      /\ NoExec.await = FALSE /\ NoExec.running = FALSE
  BY DEF NoExec
<1>3. Retired(e) = [NoExec EXCEPT !.inc = e.inc]
  BY DEF Retired
<1> QED
  BY <1>1, <1>2, <1>3, Bounds DEF ExecType

LEMMA FenceType ==
  ASSUME NEW e \in ExecType
  PROVE  Fence(e) \in (0..MaxExecs) \X (0..MaxTurns) \X (0..MaxPages) \X {"none", "prompt", "compact"}
BY DEF Fence, ExecType

\* An event, or a change of ticket, leaves every worker where it is.
Quiet(v, u) ==
  /\ u \in WorkerType /\ u.pc = v.pc /\ u.sess = v.sess /\ u.armed = v.armed /\ u.over = v.over
  /\ u.conn = v.conn

LEMMA ReplacedQuiet ==
  ASSUME w \in [Workers -> WorkerType]
  PROVE  /\ Replaced \in [Workers -> WorkerType]
         /\ \A x \in Workers : Quiet(w[x], Replaced[x])
BY DEF Replaced, WorkerType, Quiet

LEMMA StaleQuiet ==
  ASSUME NEW ws \in [Workers -> WorkerType]
  PROVE  /\ Stale(ws) \in [Workers -> WorkerType]
         /\ \A x \in Workers : Quiet(ws[x], Stale(ws)[x]) /\ Stale(ws)[x].own = ws[x].own
BY DEF Stale, WorkerType, Quiet

Kind == {"active", "started", "work", "item", "completed", "idle", "error", "closed"}

LEMMA SentNet ==
  ASSUME NEW u \in UpType, NEW n \in Nat, NEW ks \in [1..n -> Kind], NEW t \in Turn, ks \in Seq(Kind)
  PROVE  /\ Sent(u, ks, t) \in UpType
         /\ Sent(u, ks, t).turn = u.turn
         /\ \A i \in 1..Len(Sent(u, ks, t).net) :
              \/ i <= Len(u.net) /\ Sent(u, ks, t).net[i] = u.net[i]
              \/ /\ i > Len(u.net) /\ Sent(u, ks, t).net[i].t = t
                 /\ \E j \in 1..n : Sent(u, ks, t).net[i].k = ks[j]
<1> DEFINE e == [i \in 1..Len(ks) |-> [k |-> ks[i], t |-> t]]
           nn == u.net \o e
<1>1. Len(ks) = n
  OBVIOUS
<1>2. e \in Seq(Note) /\ Len(e) = n
  BY <1>1 DEF Note, Kind
<1>3. u.net \in Seq(Note)
  BY DEF UpType
<1>4. nn \in Seq(Note) /\ Len(nn) = Len(u.net) + n
  BY <1>2, <1>3
<1>5. \A i \in 1..Len(nn) : nn[i] = IF i <= Len(u.net) THEN u.net[i] ELSE e[i - Len(u.net)]
  BY <1>2, <1>3
<1>6. \A i \in 1..Len(nn) : i > Len(u.net) => i - Len(u.net) \in 1..n
  BY <1>4, <1>3
<1>7. \A i \in 1..n : e[i].t = t /\ e[i].k = ks[i]
  BY <1>1
<1>8. CASE conn.live
  <2>1. Sent(u, ks, t) = [u EXCEPT !.net = nn]
    BY <1>8 DEF Sent
  <2> HIDE DEF nn, e
  <2>2. Sent(u, ks, t).net = nn /\ Sent(u, ks, t).turn = u.turn /\ Sent(u, ks, t) \in UpType
    BY <2>1, <1>4 DEF UpType
  <2> QED
    <3> SUFFICES ASSUME NEW i \in 1..Len(nn)
                 PROVE  \/ i <= Len(u.net) /\ nn[i] = u.net[i]
                        \/ /\ i > Len(u.net) /\ nn[i].t = t
                           /\ \E j \in 1..n : nn[i].k = ks[j]
      BY <2>2
    <3>1. CASE i <= Len(u.net)
      BY <3>1, <1>5
    <3>2. CASE i > Len(u.net)
      BY <3>2, <1>5, <1>6, <1>7
    <3> QED
      BY <3>1, <3>2, <1>3
<1>9. CASE ~conn.live
  BY <1>9, <1>3 DEF Sent
<1> QED
  BY <1>8, <1>9

-----------------------------------------------------------------------------
(* The app-server.                                                          *)

\* Turns only go on.
Advance ==
  /\ up' \in UpType
  /\ \A t \in Turn : /\ up.turn[t] \in InFlight => up'.turn[t] \in InFlight
                     /\ up.turn[t] = "over" => up'.turn[t] = "over"

LEMMA AdvanceKeeps ==
  ASSUME Typed, Advance, UNCHANGED exec, ExecBound, SessionBound, UNCHANGED w
  PROVE  ExecBound' /\ SessionBound'
<1>1. ExecBound'
  BY Bounds DEF ExecBound, Ongoing, Advance, Typed, ExecType, Turn
<1>2. SessionBound'
  <2> SUFFICES ASSUME NEW x \in Workers PROVE SessionFits(w[x])'
    BY DEF SessionBound
  <2>1. w[x] \in WorkerType /\ w'[x] = w[x] /\ SessionFits(w[x])
    BY DEF Typed, SessionBound
  <2>2. w[x].sess[2] > 0 => w[x].sess[2] \in Turn
    BY <2>1, Bounds DEF WorkerType, Turn
  <2> QED
    BY <2>1, <2>2 DEF SessionFits, FoundOver, Advance
<1> QED
  BY <1>1, <1>2

\* What is added to the wire is about a turn that has begun and is the last.
LEMMA AppendedIsHonest ==
  ASSUME Typed, Advance, UNCHANGED exec, ExecBound, WireIsHonest, NEW t \in Turn,
         \A s \in Turn : s > t => up.turn[s] = "none",
         up'.turn[t] \in InFlight,
         \A i \in 1..Len(up'.net) :
           \/ i <= Len(up.net) /\ up'.net[i] = up.net[i]
           \/ /\ i > Len(up.net) /\ up'.net[i].t = t
              /\ up'.net[i].k \in Terminal => up'.turn[t] = "over"
  PROVE  WireIsHonest'
<1>0. /\ up.net \in Seq(Note) /\ up'.net \in Seq(Note)
      /\ Len(up.net) \in Nat /\ Len(up'.net) \in Nat
      /\ \A i \in 1..Len(up.net) : up.net[i] \in Note
  BY DEF Typed, Advance, UpType
<1>1. \A s \in Turn : up.turn[s] \in InFlight => s <= t
  BY Bounds DEF Turn, InFlight
<1>2. exec.turn \in Nat /\ exec.turn <= t
  BY <1>1, Bounds DEF ExecBound, Turn, Typed, ExecType
<1>3. \A i \in 1..Len(up.net) : up.net[i].t \in Turn /\ up.net[i].t <= t
  BY <1>0, <1>1 DEF WireIsHonest, Honest, Note
<1>4. ASSUME NEW i \in 1..Len(up'.net), NEW j \in 1..Len(up'.net), i < j
      PROVE  up'.net[i].t <= up'.net[j].t
  <2>1. CASE j <= Len(up.net)
    <3>1. i \in 1..Len(up.net) /\ j \in 1..Len(up.net)
      BY <2>1, <1>0, <1>4
    <3>2. up'.net[i] = up.net[i] /\ up'.net[j] = up.net[j]
      BY <3>1, <1>0
    <3> QED
      BY <3>1, <3>2, <1>4 DEF WireIsHonest
  <2>2. CASE j > Len(up.net) /\ i <= Len(up.net)
    BY <2>2, <1>3, <1>0
  <2>3. CASE j > Len(up.net) /\ i > Len(up.net)
    BY <2>3, <1>0, Bounds DEF Turn
  <2> QED
    BY <2>1, <2>2, <2>3, <1>0
<1>5. ASSUME NEW i \in 1..Len(up'.net) PROVE Honest(up.net[i])'
  <2>1. CASE i <= Len(up.net)
    <3>1. i \in 1..Len(up.net) /\ up'.net[i] = up.net[i]
      BY <2>1, <1>0
    <3>2. Honest(up.net[i])
      BY <3>1 DEF WireIsHonest
    <3> QED
      BY <3>1, <3>2, <1>3 DEF Honest, Advance
  <2>2. CASE i > Len(up.net)
    BY <2>2, <1>0, <1>2 DEF Honest
  <2> QED
    BY <2>1, <2>2, <1>0
<1> QED
  BY <1>4, <1>5 DEF WireIsHonest

LEMMA TurnsAfter ==
  ASSUME TurnsInOrder, NEW t \in Turn, up.turn[t] # "over"
  PROVE  \A s \in Turn : s > t => up.turn[s] = "none"
BY Bounds DEF TurnsInOrder, Turn

\* What no step of the app-server touches.
Kept == UNCHANGED <<exec, reg, w, conn, left, stop, recon, ends, shown, early>>

LEMMA KeptParts ==
  ASSUME RecoveryInd, UNCHANGED <<exec, reg, w, conn, stop, recon, ends, shown, early>>
  PROVE  NeverRetiredEarly' /\ EndedOnce' /\ Tickets' /\ Watched'
<1>1. NeverRetiredEarly' /\ EndedOnce' /\ Tickets'
  BY DEF RecoveryInd, NeverRetiredEarly, EndedOnce, Ongoing, Tickets, Holds
<1>2. Watched'
  BY DEF RecoveryInd, Watched, Watches, Same, Fence, TicketFits, Stopped
<1> QED
  BY <1>1, <1>2

LEMMA KeptTypes ==
  ASSUME RecoveryInd, UNCHANGED <<exec, reg, w, conn, stop, recon, ends, shown, early>>,
         up' \in UpType, left' = left
  PROVE  Typed'
BY DEF RecoveryInd, Typed, UpType

LEMMA ServerKeeps ==
  ASSUME RecoveryInd, Kept, Advance, TurnsInOrder', WireIsHonest'
  PROVE  RecoveryInd'
BY KeptParts, KeptTypes, AdvanceKeeps DEF Kept, Advance, RecoveryInd

LEMMA Announced ==
  ASSUME RecoveryInd, Kept, NEW t \in Turn, NEW u \in UpType, NEW n \in Nat, NEW ks \in [1..n -> Kind],
         ks \in Seq(Kind), up' = Sent(u, ks, t),
         u.net = up.net, u.turn[t] \in InFlight, up.turn[t] \in {"sent", "run"},
         \A s \in Turn \ {t} : u.turn[s] = up.turn[s],
         \A j \in 1..n : ks[j] \in Terminal => u.turn[t] = "over"
  PROVE  RecoveryInd'
<1>1. /\ up' \in UpType /\ up'.turn = u.turn
      /\ \A i \in 1..Len(up'.net) :
           \/ i <= Len(up.net) /\ up'.net[i] = up.net[i]
           \/ /\ i > Len(up.net) /\ up'.net[i].t = t
              /\ \E j \in 1..n : up'.net[i].k = ks[j]
  BY SentNet
<1>2. Advance
  BY <1>1 DEF Advance, InFlight
<1>3. TurnsInOrder'
  BY <1>1, TurnsAfter, Bounds DEF RecoveryInd, TurnsInOrder, InFlight, Turn
<1>4. WireIsHonest'
  BY <1>1, <1>2, TurnsAfter, AppendedIsHonest DEF RecoveryInd, Kept, InFlight
<1> QED
  BY <1>2, <1>3, <1>4, ServerKeeps

LEMMA BeginStep == ASSUME RecoveryInd, NEW t \in Turn, Begin(t) PROVE RecoveryInd'
<1> DEFINE u == [up EXCEPT !.turn[t] = "run"]
<1>1. u \in UpType /\ u.net = up.net /\ u.turn[t] = "run" /\ \A s \in Turn \ {t} : u.turn[s] = up.turn[s]
  BY DEF RecoveryInd, Typed, UpType
<1> HIDE DEF u
<1>2. Kept /\ up.turn[t] = "sent"
  BY DEF Begin, Kept
<1>3. CASE exec.kind = "compact" /\ exec.for = t
  <2> DEFINE ks == <<"active", "item">>
  <2>1. up' = Sent(u, ks, t)
    BY <1>3 DEF Begin, u
  <2>2. ks \in Seq(Kind) /\ ks \in [1..2 -> Kind] /\ \A j \in 1..2 : ks[j] \in {"active", "item"}
    BY DEF Kind
  <2> HIDE DEF ks
  <2> QED
    BY <1>1, <1>2, <2>1, <2>2, Announced DEF InFlight, Terminal
<1>4. CASE ~(exec.kind = "compact" /\ exec.for = t)
  <2> DEFINE ks == <<"active", "started">>
  <2>1. up' = Sent(u, ks, t)
    BY <1>4 DEF Begin, u
  <2>2. ks \in Seq(Kind) /\ ks \in [1..2 -> Kind] /\ \A j \in 1..2 : ks[j] \in {"active", "started"}
    BY DEF Kind
  <2> HIDE DEF ks
  <2> QED
    BY <1>1, <1>2, <2>1, <2>2, Announced DEF InFlight, Terminal
<1> QED
  BY <1>3, <1>4

LEMMA WorkStep == ASSUME RecoveryInd, NEW t \in Turn, Work(t) PROVE RecoveryInd'
<1> DEFINE u == [up EXCEPT !.work[t] = @ - 1]
           ks == <<"work">>
<1>1. u \in UpType /\ u.net = up.net /\ u.turn = up.turn
  <2>1. up \in UpType /\ up.work[t] \in Nat /\ up.work[t] > 0
    BY DEF RecoveryInd, Typed, UpType, Work
  <2>2. up.work[t] - 1 \in Nat
    BY <2>1
  <2> QED
    BY <2>1, <2>2 DEF UpType
<1>2. Kept /\ up.turn[t] = "run" /\ up' = Sent(u, ks, t)
  BY DEF Work, Kept
<1>3. ks \in Seq(Kind) /\ ks \in [1..1 -> Kind] /\ \A j \in 1..1 : ks[j] = "work"
  BY DEF Kind
<1> HIDE DEF u, ks
<1> QED
  BY <1>1, <1>2, <1>3, Announced DEF InFlight, Terminal

LEMMA EndStep == ASSUME RecoveryInd, NEW t \in Turn, End(t) PROVE RecoveryInd'
<1> DEFINE u == [up EXCEPT !.turn[t] = "over"]
<1>1. u \in UpType /\ u.net = up.net /\ u.turn[t] = "over" /\ \A s \in Turn \ {t} : u.turn[s] = up.turn[s]
  BY DEF RecoveryInd, Typed, UpType
<1> HIDE DEF u
<1>2. PICK k \in Finals : up' = Sent(u, IF k = "closed" THEN <<"closed">> ELSE <<"completed", k>>, t)
  BY DEF End, u
<1>3. Kept /\ up.turn[t] = "run" /\ k \in {"idle", "error", "closed"}
  BY KindsAssumption DEF End, Kept
<1>4. CASE k = "closed"
  <2> DEFINE ks == <<"closed">>
  <2>1. ks \in Seq(Kind) /\ ks \in [1..1 -> Kind] /\ up' = Sent(u, ks, t)
    BY <1>2, <1>4 DEF Kind
  <2> HIDE DEF ks
  <2> QED
    BY <1>1, <1>3, <2>1, Announced DEF InFlight
<1>5. CASE k # "closed"
  <2> DEFINE ks == <<"completed", k>>
  <2>1. ks \in Seq(Kind) /\ ks \in [1..2 -> Kind]
    BY <1>3 DEF Kind
  <2>2. up' = Sent(u, ks, t)
    BY <1>2, <1>5
  <2> HIDE DEF ks
  <2> QED
    BY <1>1, <1>3, <2>1, <2>2, Announced DEF InFlight
<1> QED
  BY <1>4, <1>5

LEMMA StartElsewhereStep == ASSUME RecoveryInd, NEW t \in Turn, StartElsewhere(t) PROVE RecoveryInd'
<1>1. /\ up' \in UpType /\ up'.net = up.net /\ up'.turn = [up.turn EXCEPT ![t] = "sent"]
      /\ up.turn[t] = "none" /\ up.turn \in [Turn -> {"none", "sent", "run", "over"}]
  BY DEF RecoveryInd, Typed, UpType, StartElsewhere
<1>2. Advance
  BY <1>1 DEF Advance, InFlight
<1>3. TurnsInOrder'
  BY <1>1, TurnsAfter, Bounds DEF RecoveryInd, TurnsInOrder, StartElsewhere, Turn
<1>4. Kept
  BY DEF StartElsewhere, Kept
<1>5. WireIsHonest'
  <2>1. \A i \in 1..Len(up.net) : up.net[i].t \in Turn
    <3>1. up.net \in Seq(Note)
      BY DEF RecoveryInd, Typed, UpType
    <3>2. \A i \in 1..Len(up.net) : up.net[i] \in Note
      BY <3>1
    <3> QED
      BY <3>2 DEF Note
  <2> QED
    BY <1>1, <1>2, <1>4, <2>1 DEF RecoveryInd, WireIsHonest, Honest, Advance, Kept
<1> QED
  BY <1>2, <1>3, <1>4, <1>5, ServerKeeps

\* A notification leaves the wire, heard or not.
LEMMA TailIsHonest ==
  ASSUME Typed, up.net # <<>>, up' = [up EXCEPT !.net = Tail(@)], WireIsHonest
  PROVE  /\ up' \in UpType /\ up'.turn = up.turn /\ Advance
         /\ Head(up.net) \in Note /\ up.turn[Head(up.net).t] \in InFlight
         /\ Head(up.net).k \in Terminal => up.turn[Head(up.net).t] = "over"
         /\ exec.turn <= Head(up.net).t
         /\ \A i \in 1..Len(up'.net) :
              /\ Head(up.net).t <= up'.net[i].t
              /\ Honest(up'.net[i])
              /\ \A j \in 1..Len(up'.net) : i < j => up'.net[i].t <= up'.net[j].t
<1>1. up.net \in Seq(Note) /\ Len(up.net) \in Nat /\ Len(up.net) > 0 /\ 1 \in 1..Len(up.net)
  BY DEF Typed, UpType
<1>2. /\ Tail(up.net) \in Seq(Note) /\ Len(Tail(up.net)) = Len(up.net) - 1
      /\ \A i \in 1..Len(Tail(up.net)) : Tail(up.net)[i] = up.net[i + 1] /\ i + 1 \in 1..Len(up.net)
      /\ Head(up.net) = up.net[1]
  BY <1>1
<1>3. up' \in UpType /\ up'.turn = up.turn /\ up'.net = Tail(up.net)
  BY <1>2 DEF Typed, UpType
<1>4. Advance
  BY <1>3 DEF Advance
<1>5. Head(up.net) \in Note /\ Honest(Head(up.net))
  BY <1>1, <1>2 DEF WireIsHonest
<1>6. ASSUME NEW i \in 1..Len(up'.net)
      PROVE  /\ up.net[1].t <= up'.net[i].t
             /\ Honest(up'.net[i])
             /\ \A j \in 1..Len(up'.net) : i < j => up'.net[i].t <= up'.net[j].t
  <2>1. up'.net[i] = up.net[i + 1] /\ i + 1 \in 1..Len(up.net) /\ 1 < i + 1
    BY <1>2, <1>3
  <2>2. \A j \in 1..Len(up'.net) : up'.net[j] = up.net[j + 1] /\ j + 1 \in 1..Len(up.net)
    BY <1>2, <1>3
  <2>3. \A j \in 1..Len(up'.net) : i < j => i + 1 < j + 1
    OBVIOUS
  <2> QED
    BY <1>1, <2>1, <2>2, <2>3 DEF WireIsHonest
<1> QED
  BY <1>2, <1>3, <1>4, <1>5, <1>6 DEF Honest

LEMMA LoseStep == ASSUME RecoveryInd, Lose PROVE RecoveryInd'
<1>1. /\ up' \in UpType /\ up'.turn = up.turn /\ Advance
      /\ \A i \in 1..Len(up'.net) :
              /\ Honest(up'.net[i])
              /\ \A j \in 1..Len(up'.net) : i < j => up'.net[i].t <= up'.net[j].t
  BY TailIsHonest DEF RecoveryInd, Lose
<1>2. UNCHANGED <<exec, reg, w, conn, stop, recon, ends, shown, early>>
  BY DEF Lose
<1>3. WireIsHonest'
  BY <1>1, <1>2 DEF WireIsHonest, Honest
<1>4. TurnsInOrder'
  BY <1>1 DEF RecoveryInd, TurnsInOrder
<1>5. Typed'
  <2>1. left' \in [lost : Nat, faults : Nat] /\ left'.lost \in 0..MaxLost /\ left'.faults = left.faults
    <3>1. /\ left \in [lost : Nat, faults : Nat] /\ left.lost > 0 /\ left.lost \in 0..MaxLost
          /\ left' = [left EXCEPT !.lost = left.lost - 1]
      BY DEF RecoveryInd, Typed, Lose
    <3>2. left.lost - 1 \in Nat /\ left.lost - 1 \in 0..MaxLost
      BY <3>1, Bounds
    <3> QED
      BY <3>1, <3>2
  <2> QED
    BY <1>1, <1>2, <2>1 DEF RecoveryInd, Typed, UpType
<1> QED
  BY <1>1, <1>2, <1>3, <1>4, <1>5, KeptParts, AdvanceKeeps DEF RecoveryInd

-----------------------------------------------------------------------------
(* What handlers and workers have in common.                                *)

LEMMA TypesOf ==
  ASSUME Typed
  PROVE  /\ exec \in ExecType /\ reg \in RegType /\ w \in [Workers -> WorkerType] /\ up \in UpType
         /\ conn \in [gen : 1..MaxConns, live : BOOLEAN] /\ left \in [lost : 0..MaxLost, faults : 0..MaxFaults]
         /\ ends \in [Exec -> Nat] /\ shown \in [Exec -> Nat]
         /\ stop \in {"no", "requested", "joined", "cancelled"} /\ recon \subseteq Exec
<1>1. exec \in ExecType /\ reg \in RegType
  BY DEF Typed
<1>2. left \in [lost : 0..MaxLost, faults : 0..MaxFaults]
  BY DEF Typed
<1> QED
  BY <1>1, <1>2 DEF Typed

LEMMA TypedFrom ==
  ASSUME exec \in ExecType, reg \in RegType, w \in [Workers -> WorkerType], up \in UpType,
         conn \in [gen : 1..MaxConns, live : BOOLEAN],
         left \in [lost : 0..MaxLost, faults : 0..MaxFaults],
         ends \in [Exec -> Nat], shown \in [Exec -> Nat],
         stop \in {"no", "requested", "joined", "cancelled"}, recon \subseteq Exec
  PROVE  Typed
BY Bounds DEF Typed

QuietWorkers == w' \in [Workers -> WorkerType] /\ \A x \in Workers : Quiet(w[x], w'[x])

LEMMA QuietWays ==
  ASSUME Typed, w' \in {w, Replaced, Stale(w), Stale(Replaced)}
  PROVE  QuietWorkers
<1>1. CASE w' = w
  BY <1>1 DEF QuietWorkers, Quiet, Typed
<1>2. CASE w' = Replaced
  BY <1>2, ReplacedQuiet DEF QuietWorkers, Typed
<1>3. CASE w' = Stale(w)
  BY <1>3, StaleQuiet DEF QuietWorkers, Typed
<1>4. CASE w' = Stale(Replaced)
  BY <1>4, StaleQuiet, ReplacedQuiet DEF QuietWorkers, Quiet, Typed
<1> QED
  BY <1>1, <1>2, <1>3, <1>4

LEMMA QuietSessions ==
  ASSUME Typed, SessionBound, QuietWorkers, Advance
  PROVE  SessionBound'
<1> SUFFICES ASSUME NEW x \in Workers PROVE SessionFits(w[x])'
  BY DEF SessionBound
<1>1. w[x] \in WorkerType /\ Quiet(w[x], w'[x]) /\ SessionFits(w[x])
  BY DEF Typed, SessionBound, QuietWorkers
<1>2. w[x].sess[2] > 0 => w[x].sess[2] \in Turn
  BY <1>1, Bounds DEF WorkerType, Turn
<1> QED
  BY <1>1, <1>2 DEF SessionFits, FoundOver, Advance, Quiet

\* An execution that goes on.
LEMMA GoesOn ==
  ASSUME Typed, EndedOnce, Tickets, exec'.inc = exec.inc, Ongoing' => Ongoing, QuietWorkers,
         UNCHANGED <<recon, ends, shown>>
  PROVE  EndedOnce' /\ Tickets'
<1>1. EndedOnce'
  BY DEF EndedOnce
<1>2. \A x \in Workers, i \in Exec : Holds(x, i)' <=> Holds(x, i)
  BY DEF Holds, QuietWorkers, Quiet
<1>3. Tickets'
  BY <1>2 DEF Tickets
<1> QED
  BY <1>1, <1>3

\* A new execution.
LEMMA Opens ==
  ASSUME Typed, EndedOnce, Tickets, exec'.inc = exec.inc + 1, QuietWorkers,
         UNCHANGED <<recon, ends, shown>>
  PROVE  EndedOnce' /\ Tickets'
<1>0. exec.inc \in Nat
  BY DEF Typed, ExecType
<1>1. EndedOnce'
  BY <1>0, Bounds DEF EndedOnce, Ongoing, Exec
<1>2. \A x \in Workers, i \in Exec : Holds(x, i)' <=> Holds(x, i)
  BY DEF Holds, QuietWorkers, Quiet
<1>3. Tickets'
  BY <1>2 DEF Tickets
<1> QED
  BY <1>1, <1>3

\* With its ticket a running execution is watched.
LEMMA ArmedIsWatched ==
  ASSUME exec' \in ExecType, NEW e \in ExecType, reg' = Armed(e),
         exec'.page > 0 => exec'.running /\ e.running /\ e.inc > 0 /\ e.inc = exec'.inc /\ e.page = exec'.page,
         exec'.page > 0 /\ exec'.kind # "compact" => e.turn = exec'.turn
  PROVE  Watched' /\ reg' \in RegType
<1>1. reg' \in RegType /\ ~reg'.fired
  BY ArmedType
<1>2. ASSUME exec'.page = 1, exec'.kind # "compact" PROVE reg' # NoTicket /\ TicketFits'
  <2>1. reg' = [inc |-> e.inc, turn |-> e.turn, page |-> e.page, fired |-> FALSE] /\ e.inc > 0
    BY <1>2 DEF Armed
  <2>2. reg'.inc = e.inc /\ reg'.turn = e.turn /\ reg'.page = e.page
    BY <2>1
  <2>3. NoTicket.inc = 0
    BY DEF NoTicket
  <2> QED
    BY <1>2, <2>1, <2>2, <2>3 DEF TicketFits
<1> QED
  BY <1>1, <1>2 DEF Watched

LEMMA NoPageIsWatched ==
  ASSUME exec'.page = 0, reg' = NoTicket
  PROVE  Watched' /\ reg' \in RegType
BY Bounds DEF Watched, NoTicket, RegType

\* Only what is ongoing is active, and it has not ended.
LEMMA ActiveIsOngoing ==
  ASSUME RecoveryInd
  PROVE  /\ HasActive(exec) <=> Ongoing
         /\ Ongoing => exec.inc \in Exec /\ ends[exec.inc] = 0
<1>1. exec \in ExecType
  BY TypesOf DEF RecoveryInd
<1>2. HasActive(exec) <=> Ongoing
  BY <1>1 DEF HasActive, RecoveryInd, ExecBound, Ongoing, ExecType
<1>3. Ongoing => exec.inc \in Exec
  BY <1>1, Bounds DEF RecoveryInd, ExecBound, ExecType, Exec
<1> QED
  BY <1>2, <1>3 DEF RecoveryInd, EndedOnce

LEMMA NotEarly ==
  ASSUME NeverRetiredEarly, MayEnd, early' = EarlyIf(exec)
  PROVE  NeverRetiredEarly'
<1> SUFFICES ASSUME NEW i \in Exec PROVE <<i, TRUE>> \notin EarlyIf(exec)
  BY DEF NeverRetiredEarly
<1>1. <<i, TRUE>> \notin early
  BY DEF NeverRetiredEarly
<1>2. CASE exec.for = 0 \/ up.turn[exec.for] = "over"
  BY <1>1, <1>2 DEF EarlyIf
<1>3. CASE Anchored(exec) = FALSE
  BY <1>1, <1>3 DEF EarlyIf
<1> QED
  BY <1>2, <1>3 DEF MayEnd, Anchored

\* Retirement: the execution's account is closed, and nobody else holds its
\* result.
LEMMA Retires ==
  ASSUME RecoveryInd, NEW over \in BOOLEAN, Finalized(exec, over), over => MayEnd
  PROVE  /\ exec' \in ExecType /\ ExecBound' /\ NeverRetiredEarly' /\ EndedOnce'
         /\ ends' \in [Exec -> Nat]
         /\ exec'.turn = 0 /\ exec'.page = 0 /\ Watched' /\ reg' \in RegType
         /\ \A i \in Exec : ends[i] = 1 => ends'[i] = 1
         /\ exec.page > 0 =>
              /\ exec.inc \in Exec /\ ends[exec.inc] = 0 /\ ends'[exec.inc] = 1
              /\ shown[exec.inc] = 0 /\ exec.inc \notin recon
              /\ \A x \in Workers : ~Holds(x, exec.inc)
<1>1. exec \in ExecType /\ ends \in [Exec -> Nat] /\ shown \in [Exec -> Nat]
  BY TypesOf DEF RecoveryInd
<1>2. /\ exec' \in ExecType /\ exec'.inc = exec.inc /\ exec'.page = 0 /\ exec'.turn = 0
      /\ exec'.for = 0 /\ ~exec'.await /\ reg' = NoTicket
  BY <1>1, RetiredType DEF Finalized
<1>3. ExecBound' /\ ~Ongoing'
  BY <1>2 DEF ExecBound, Ongoing
<1>4. NeverRetiredEarly'
  <2>1. CASE over
    BY <2>1, NotEarly DEF Finalized, RecoveryInd
  <2>2. CASE ~over
    BY <2>2 DEF Finalized, NeverRetiredEarly, RecoveryInd
  <2> QED
    BY <2>1, <2>2
<1>5. Ongoing =>
        /\ exec.inc \in Exec /\ ends[exec.inc] = 0 /\ shown[exec.inc] = 0 /\ exec.inc \notin recon
        /\ \A x \in Workers : ~Holds(x, exec.inc)
  BY <1>1, ActiveIsOngoing DEF RecoveryInd, Tickets
<1>6. /\ ends' \in [Exec -> Nat]
      /\ Ongoing => ends'[exec.inc] = 1
      /\ \A i \in Exec : i # exec.inc \/ ~Ongoing => ends'[i] = ends[i]
  <2>1. ends' = IF Ongoing THEN [ends EXCEPT ![exec.inc] = @ + 1] ELSE ends
    BY ActiveIsOngoing DEF Finalized
  <2> QED
    BY <1>1, <1>5, <2>1
<1>7. EndedOnce'
  <2>1. \A i \in Exec : ends'[i] <= 1
    BY <1>1, <1>6 DEF RecoveryInd, EndedOnce
  <2>2. \A i \in Exec : i > exec'.inc => ends'[i] = 0
    BY <1>1, <1>2, <1>6, Bounds DEF RecoveryInd, EndedOnce, ExecType, Exec
  <2> QED
    BY <1>3, <2>1, <2>2 DEF EndedOnce
<1>8. Watched' /\ reg' \in RegType
  BY <1>2, NoPageIsWatched
<1>9. \A i \in Exec : ends[i] = 1 => ends'[i] = 1
  BY <1>1, <1>5, <1>6
<1>10. exec.page > 0 => Ongoing
  BY DEF Ongoing
<1> QED
  BY <1>2, <1>3, <1>4, <1>5, <1>6, <1>7, <1>8, <1>9, <1>10

\* Nobody presents it, or a reconcile worker will.
LEMMA RetiresTickets ==
  ASSUME RecoveryInd, NEW over \in BOOLEAN, Finalized(exec, over),
         over => MayEnd,
         QuietWorkers, UNCHANGED shown,
         recon' = recon \/ (recon' = recon \cup {exec.inc} /\ exec.page > 0)
  PROVE  Tickets' /\ recon' \subseteq Exec
<1>1. /\ \A i \in Exec : ends[i] = 1 => ends'[i] = 1
      /\ exec.page > 0 => /\ exec.inc \in Exec /\ ends[exec.inc] = 0 /\ ends'[exec.inc] = 1
                          /\ shown[exec.inc] = 0 /\ exec.inc \notin recon
                          /\ \A x \in Workers : ~Holds(x, exec.inc)
      /\ ends' \in [Exec -> Nat]
  BY Retires
<1>2. \A x \in Workers, i \in Exec : Holds(x, i)' <=> Holds(x, i)
  BY DEF Holds, QuietWorkers, Quiet
<1>3. /\ ends \in [Exec -> Nat] /\ shown \in [Exec -> Nat] /\ recon \subseteq Exec
      /\ \A i \in Exec : ends[i] <= 1 /\ shown[i] <= ends[i]
  BY TypesOf DEF RecoveryInd, EndedOnce, Tickets
<1>4. \A i \in Exec : shown'[i] <= ends'[i]
  BY <1>1, <1>3
<1>5. \A i \in Exec : i \in recon' => ends'[i] = 1 /\ shown'[i] = 0
  BY <1>1 DEF RecoveryInd, Tickets
<1>6. \A i \in Exec, x \in Workers : Holds(x, i)' =>
         /\ ends'[i] = 1 /\ shown'[i] = 0 /\ i \notin recon'
         /\ \A y \in Workers : Holds(y, i)' => y = x
  BY <1>1, <1>2 DEF RecoveryInd, Tickets
<1> QED
  BY <1>1, <1>3, <1>4, <1>5, <1>6 DEF Tickets

-----------------------------------------------------------------------------
(* Handlers of notifications.                                               *)

\* A handler takes the first notification off the wire.
Takes ==
  /\ up.net # <<>> /\ up' = [up EXCEPT !.net = Tail(@)]
  /\ UNCHANGED <<conn, left, stop, shown>>

LEMMA HandlerKeeps ==
  ASSUME RecoveryInd, Takes, exec' \in ExecType, QuietWorkers, reg' \in RegType,
         exec'.turn \in {0, exec.turn, Head(up.net).t},
         ExecBound', NeverRetiredEarly', EndedOnce', Tickets', Watched',
         ends' \in [Exec -> Nat], recon' \subseteq Exec
  PROVE  RecoveryInd'
<1>1. /\ up' \in UpType /\ up'.turn = up.turn /\ Advance
      /\ exec.turn <= Head(up.net).t /\ Head(up.net) \in Note
      /\ \A i \in 1..Len(up'.net) :
              /\ Head(up.net).t <= up'.net[i].t
              /\ Honest(up'.net[i])
              /\ \A j \in 1..Len(up'.net) : i < j => up'.net[i].t <= up'.net[j].t
  BY TailIsHonest DEF RecoveryInd, Takes
<1>2. TurnsInOrder'
  BY <1>1 DEF RecoveryInd, TurnsInOrder
<1>3. SessionBound'
  BY <1>1, QuietSessions DEF RecoveryInd
<1>4. WireIsHonest'
  <2>0. /\ up'.net \in Seq(Note)
        /\ \A i \in 1..Len(up'.net) : up'.net[i] \in Note
    BY <1>1 DEF UpType
  <2>1. ASSUME NEW i \in 1..Len(up'.net) PROVE exec'.turn <= up'.net[i].t
    <3>1. up'.net[i].t \in Turn /\ Head(up.net).t \in Turn /\ exec.turn \in Nat
      <4>1. exec.turn \in Nat
        BY Bounds, TypesOf DEF RecoveryInd, ExecType
      <4>2. up'.net[i] \in Note
        BY <2>0
      <4> QED
        BY <1>1, <4>1, <4>2 DEF Note
    <3> QED
      BY <1>1, <3>1, Bounds DEF Turn
  <2> QED
    BY <1>1, <2>1 DEF WireIsHonest, Honest
<1>5. Typed'
  <2>1. /\ w' \in [Workers -> WorkerType] /\ conn' = conn /\ left' = left /\ stop' = stop /\ shown' = shown
    BY DEF QuietWorkers, Takes
  <2>2. /\ conn \in [gen : 1..MaxConns, live : BOOLEAN] /\ left \in [lost : 0..MaxLost, faults : 0..MaxFaults]
        /\ shown \in [Exec -> Nat] /\ stop \in {"no", "requested", "joined", "cancelled"}
    BY TypesOf DEF RecoveryInd
  <2>3. (exec \in ExecType /\ reg \in RegType /\ w \in [Workers -> WorkerType] /\ up \in UpType
         /\ conn \in [gen : 1..MaxConns, live : BOOLEAN]
         /\ left \in [lost : 0..MaxLost, faults : 0..MaxFaults]
         /\ ends \in [Exec -> Nat] /\ shown \in [Exec -> Nat]
         /\ stop \in {"no", "requested", "joined", "cancelled"} /\ recon \subseteq Exec => Typed)'
    BY TypedFrom, PTL
  <2> QED
    BY <1>1, <2>1, <2>2, <2>3
<1> QED
  BY <1>1, <1>2, <1>3, <1>4, <1>5 DEF RecoveryInd

\* A notification that says nothing of this execution.
LEMMA IgnoredStep ==
  ASSUME RecoveryInd, Takes, Ignored
  PROVE  RecoveryInd'
<1>1. /\ exec \in ExecType /\ reg \in RegType /\ w \in [Workers -> WorkerType]
      /\ ends \in [Exec -> Nat] /\ recon \subseteq Exec
  BY TypesOf DEF RecoveryInd
<1>2. QuietWorkers
  BY QuietWays DEF RecoveryInd, Ignored
<1>3. up'.turn = up.turn
  BY <1>1, TailIsHonest DEF RecoveryInd, Takes
<1>4. ExecBound' /\ NeverRetiredEarly'
  BY <1>3 DEF RecoveryInd, ExecBound, Ongoing, NeverRetiredEarly, Ignored
<1>5. EndedOnce' /\ Tickets'
  BY <1>2, GoesOn DEF RecoveryInd, Ignored, Takes, Ongoing
<1>6. Watched'
  BY DEF RecoveryInd, Watched, Watches, Same, Fence, TicketFits, Stopped, Ignored, Takes
<1> QED
  BY <1>1, <1>2, <1>4, <1>5, <1>6, HandlerKeeps DEF Ignored

LEMMA HeardType ==
  ASSUME exec \in ExecType
  PROVE  /\ Heard \in ExecType /\ Heard.inc = exec.inc /\ Heard.turn = exec.turn /\ Heard.page = exec.page
         /\ Heard.kind = exec.kind /\ Heard.for = exec.for /\ Heard.await = exec.await
         /\ Heard.running = exec.running
BY DEF Heard, ExecType

\* The running execution is given its turn, or keeps it.
Bound(e, t) ==
  /\ e \in ExecType /\ e.inc = exec.inc /\ e.page = exec.page /\ e.kind = exec.kind
  /\ e.running = TRUE /\ e.await = FALSE /\ e.turn = t /\ e.for = t

LEMMA HeardBound ==
  ASSUME exec \in ExecType, NEW t \in Turn,
         exec' = [Heard EXCEPT !.turn = t, !.running = TRUE, !.await = FALSE, !.for = t]
  PROVE  Bound(exec', t)
<1>1. t \in 0..MaxTurns
  BY Bounds DEF Turn
<1>2. /\ Heard \in ExecType /\ Heard.inc = exec.inc /\ Heard.page = exec.page
      /\ Heard.kind = exec.kind
  BY HeardType
<1> HIDE DEF Heard
<1>3. exec' \in ExecType
  BY <1>1, <1>2 DEF ExecType
<1> QED
  BY <1>1, <1>2, <1>3 DEF Bound, ExecType

LEMMA BoundStep ==
  ASSUME RecoveryInd, Takes, Ongoing, exec.turn \in {0, Head(up.net).t},
         Bound(exec', Head(up.net).t),
         \/ reg' = Armed(exec')
         \/ exec.kind = "compact" /\ reg' = Armed(Heard),
         w' = Stale(Replaced), UNCHANGED <<ends, early, recon>>
  PROVE  RecoveryInd'
<1>0. /\ exec \in ExecType /\ ends \in [Exec -> Nat] /\ recon \subseteq Exec
  BY TypesOf DEF RecoveryInd
<1>1. /\ up'.turn = up.turn /\ Head(up.net) \in Note /\ up.turn[Head(up.net).t] \in InFlight
  BY TailIsHonest DEF RecoveryInd, Takes
<1>2. QuietWorkers
  BY QuietWays DEF RecoveryInd
<1>3. ExecBound' /\ NeverRetiredEarly'
  <2>1. Head(up.net).t \in Turn
    BY <1>1 DEF Note
  <2>2. exec'.turn = Head(up.net).t /\ exec'.for = Head(up.net).t /\ exec'.running /\ exec'.inc > 0
    BY DEF Bound, RecoveryInd, ExecBound
  <2>3. ExecBound'
    BY <2>1, <2>2, <1>1, Bounds DEF ExecBound, Turn
  <2> QED
    BY <2>3 DEF RecoveryInd, NeverRetiredEarly
<1>4. EndedOnce' /\ Tickets'
  BY <1>2, GoesOn DEF RecoveryInd, Takes, Bound
<1>5. Watched' /\ reg' \in RegType
  <2>1. exec.inc > 0 /\ exec.running
    BY DEF RecoveryInd, ExecBound
  <2>2. CASE reg' = Armed(exec')
    BY <2>1, <2>2, ArmedIsWatched DEF Bound
  <2>3. CASE exec.kind = "compact" /\ reg' = Armed(Heard)
    BY <1>0, <2>1, <2>3, HeardType, ArmedIsWatched DEF Bound
  <2> QED
    BY <2>2, <2>3
<1>6. exec' \in ExecType /\ exec'.turn = Head(up.net).t
  BY DEF Bound
<1> QED
  BY <1>0, <1>2, <1>3, <1>4, <1>5, <1>6, HandlerKeeps

\* The execution is only heard of.
LEMMA HeardStep ==
  ASSUME RecoveryInd, Takes, exec' \in ExecType, exec'.inc = exec.inc, exec'.page = exec.page,
         exec'.turn = exec.turn, exec'.kind = exec.kind, exec'.for = exec.for,
         exec'.running = exec.running \/ exec'.running = TRUE,
         exec'.await = exec.await \/ (exec'.await = FALSE /\ ~AwaitingStarted(exec)),
         reg' = Armed(exec) \/ reg' = Armed(exec') \/ reg' = Armed(Heard),
         w' = Stale(Replaced) \/ w' = Replaced, UNCHANGED <<ends, early, recon>>
  PROVE  RecoveryInd'
<1>0. /\ exec \in ExecType /\ ends \in [Exec -> Nat] /\ recon \subseteq Exec
  BY TypesOf DEF RecoveryInd
<1>1. up'.turn = up.turn
  BY TailIsHonest DEF RecoveryInd, Takes
<1>2. QuietWorkers
  BY QuietWays DEF RecoveryInd
<1>3. ExecBound' /\ NeverRetiredEarly'
  BY <1>0, <1>1 DEF RecoveryInd, ExecBound, Ongoing, NeverRetiredEarly, AwaitingStarted, ExecType
<1>4. EndedOnce' /\ Tickets'
  <2>1. Ongoing' => Ongoing
    BY <1>0 DEF Ongoing, ExecType
  <2> QED
    BY <1>2, <2>1, GoesOn DEF RecoveryInd, Takes
<1>5. Watched' /\ reg' \in RegType
  <2>1. exec.page > 0 => exec.inc > 0 /\ exec.running /\ exec'.running
    BY DEF RecoveryInd, ExecBound, Ongoing
  <2>2. CASE reg' = Armed(exec')
    BY <2>1, <2>2, ArmedIsWatched
  <2>3. CASE reg' = Armed(Heard)
    BY <1>0, <2>1, <2>3, HeardType, ArmedIsWatched
  <2>4. CASE reg' = Armed(exec)
    BY <1>0, <2>1, <2>4, ArmedIsWatched
  <2> QED
    BY <2>2, <2>3, <2>4
<1> QED
  BY <1>0, <1>2, <1>3, <1>4, <1>5, HandlerKeeps

\* A turn of another surface opens an execution.
LEMMA OpenedStep ==
  ASSUME RecoveryInd, Takes, exec' \in ExecType, exec'.inc = exec.inc + 1,
         exec'.turn = Head(up.net).t, exec'.for = Head(up.net).t, exec'.running = TRUE,
         reg' = Armed(exec'), w' = Stale(Replaced), UNCHANGED <<ends, early, recon>>
  PROVE  RecoveryInd'
<1>0. /\ exec \in ExecType /\ ends \in [Exec -> Nat] /\ recon \subseteq Exec /\ exec.inc \in Nat
  BY TypesOf DEF RecoveryInd, ExecType
<1>1. /\ up'.turn = up.turn /\ Head(up.net) \in Note /\ up.turn[Head(up.net).t] \in InFlight
  BY TailIsHonest DEF RecoveryInd, Takes
<1>2. QuietWorkers
  BY QuietWays DEF RecoveryInd
<1>3. ExecBound' /\ NeverRetiredEarly'
  <2>1. Head(up.net).t \in Turn
    BY <1>1 DEF Note
  <2>2. ExecBound'
    BY <2>1, <1>0, <1>1, Bounds DEF ExecBound, Turn
  <2> QED
    BY <2>2 DEF RecoveryInd, NeverRetiredEarly
<1>4. EndedOnce' /\ Tickets'
  BY <1>2, Opens DEF RecoveryInd, Takes
<1>5. Watched' /\ reg' \in RegType
  BY <1>0, ArmedIsWatched
<1> QED
  BY <1>0, <1>2, <1>3, <1>4, <1>5, HandlerKeeps

LEMMA RetiredStep ==
  ASSUME RecoveryInd, Takes, Finalized(exec, TRUE), MayEnd,
         w' = Stale(Replaced) \/ w' = Replaced,
         recon' = recon \/ (recon' = recon \cup {exec.inc} /\ exec.page > 0)
  PROVE  RecoveryInd'
<1>1. QuietWorkers
  BY QuietWays DEF RecoveryInd
<1>2. Tickets' /\ recon' \subseteq Exec
  BY <1>1, RetiresTickets DEF Takes
<1>3. /\ exec' \in ExecType /\ ExecBound' /\ NeverRetiredEarly' /\ EndedOnce'
      /\ ends' \in [Exec -> Nat] /\ exec'.turn = 0 /\ Watched' /\ reg' \in RegType
  BY Retires
<1> QED
  BY <1>1, <1>2, <1>3, HandlerKeeps

LEMMA StartedStep ==
  ASSUME RecoveryInd, OnStarted
  PROVE  RecoveryInd'
<1> DEFINE t == Head(up.net).t
<1>1. Takes
  BY DEF OnStarted, Received, Takes
<1>2. exec \in ExecType /\ t \in Turn
  BY <1>1, TypesOf, TailIsHonest DEF RecoveryInd, Takes, Note
<1>3. CASE exec.turn \notin {0, t}
  BY <1>1, <1>3, IgnoredStep DEF OnStarted
<1>4. CASE exec.turn \in {0, t}
  <2>1. HasActive(exec) <=> Ongoing
    BY ActiveIsOngoing
  <2>2. reg' = Armed(exec') /\ w' = Stale(Replaced) /\ UNCHANGED <<ends, early, recon>>
    BY <1>4 DEF OnStarted
  <2>3. CASE exec' = [Heard EXCEPT !.turn = t, !.running = TRUE, !.await = FALSE, !.for = t]
             /\ HasActive(exec)
    <3>1. Bound(exec', t)
      BY <1>2, <2>3, HeardBound
    <3> QED
      BY <1>1, <1>4, <2>1, <2>2, <2>3, <3>1, BoundStep
  <2>4. ASSUME ~HasActive(exec), exec.inc < MaxExecs, NEW page \in {0, 1},
               exec' = [Heard EXCEPT !.inc = @ + 1, !.turn = t, !.running = TRUE,
                                     !.await = FALSE, !.page = page, !.for = t]
        PROVE  RecoveryInd'
    <3>1. exec.inc + 1 \in 0..MaxExecs
      BY <1>2, <2>4, Bounds DEF ExecType
    <3>2. /\ exec' \in ExecType /\ exec'.inc = exec.inc + 1
          /\ exec'.turn = t /\ exec'.for = t /\ exec'.running = TRUE
      <4> HIDE DEF t
      <4>1. Heard \in ExecType /\ Heard.inc = exec.inc /\ t \in 0..MaxTurns /\ page \in 0..MaxPages
        BY <1>2, HeardType, Bounds DEF Turn
      <4>2. exec' = [Heard EXCEPT !.inc = exec.inc + 1, !.turn = t, !.running = TRUE,
                                  !.await = FALSE, !.page = page, !.for = t]
        BY <2>4, <4>1
      <4> HIDE DEF Heard
      <4> QED
        BY <3>1, <4>1, <4>2 DEF ExecType
    <3> QED
      BY <1>1, <2>2, <3>1, <3>2, OpenedStep
  <2>5. \/ /\ HasActive(exec)
           /\ exec' = [Heard EXCEPT !.turn = t, !.running = TRUE, !.await = FALSE, !.for = t]
        \/ /\ ~HasActive(exec) /\ exec.inc < MaxExecs
           /\ \E page \in {0, 1} :
                exec' = [Heard EXCEPT !.inc = @ + 1, !.turn = t, !.running = TRUE,
                                      !.await = FALSE, !.page = page, !.for = t]
    BY <1>4 DEF OnStarted
  <2> QED
    BY <2>3, <2>4, <2>5
<1> QED
  BY <1>3, <1>4

LEMMA WorkedStep == ASSUME RecoveryInd, OnWork PROVE RecoveryInd'
<1>1. Takes
  BY DEF OnWork, Received, Takes
<1>2. exec \in ExecType
  BY TypesOf DEF RecoveryInd
<1>3. CASE exec.turn # Head(up.net).t
  BY <1>1, <1>3, IgnoredStep DEF OnWork
<1>4. CASE exec.turn = Head(up.net).t
  BY <1>1, <1>2, <1>4, HeardType, HeardStep DEF OnWork
<1> QED
  BY <1>3, <1>4

LEMMA ItemStep == ASSUME RecoveryInd, OnItem PROVE RecoveryInd'
<1> DEFINE t == Head(up.net).t
           unbound == AwaitingStarted(exec) /\ exec.kind = "compact"
<1>1. Takes
  BY DEF OnItem, Received, Takes
<1>2. exec \in ExecType /\ t \in Turn
  BY <1>1, TypesOf, TailIsHonest DEF RecoveryInd, Takes, Note
<1>3. CASE exec.turn # t /\ ~unbound
  BY <1>1, <1>3, IgnoredStep DEF OnItem
<1>4. CASE unbound
  <2>1. exec' = [Heard EXCEPT !.turn = t, !.running = TRUE, !.await = FALSE, !.for = t]
    BY <1>4 DEF OnItem
  <2>2. Bound(exec', t)
    BY <1>2, <2>1, HeardBound
  <2>3. Ongoing /\ exec.turn = 0 /\ exec.kind = "compact"
    BY <1>4 DEF AwaitingStarted, Ongoing
  <2> QED
    BY <1>1, <1>4, <2>2, <2>3, BoundStep DEF OnItem
<1>5. CASE exec.turn = t /\ ~unbound
  BY <1>1, <1>2, <1>5, HeardType, HeardStep DEF OnItem
<1> QED
  BY <1>3, <1>4, <1>5

\* A terminal notification has waited for its turn, and for the turns before.
LEMMA TerminalIsOver ==
  ASSUME RecoveryInd, Takes, Head(up.net).k \in Terminal, ~AwaitingStarted(exec)
  PROVE  MayEnd
<1>1. /\ Head(up.net) \in Note /\ exec.turn <= Head(up.net).t
      /\ up.turn[Head(up.net).t] = "over"
  BY TailIsHonest DEF RecoveryInd, Takes
<1>2. Head(up.net).t \in Turn /\ exec \in ExecType
  BY <1>1, TypesOf DEF RecoveryInd, Note
<1>3. CASE exec.turn > 0
  <2>1. exec.for = exec.turn /\ exec.turn \in Turn
    BY <1>2, <1>3, Bounds DEF RecoveryInd, ExecBound, ExecType, Turn
  <2>2. CASE exec.turn = Head(up.net).t
    BY <1>1, <2>1, <2>2 DEF MayEnd
  <2>3. CASE exec.turn # Head(up.net).t
    <3>1. exec.turn < Head(up.net).t
      BY <1>1, <1>2, <2>1, <2>3, Bounds DEF Turn
    <3> QED
      BY <1>1, <1>2, <2>1, <3>1 DEF RecoveryInd, TurnsInOrder, MayEnd
  <2> QED
    BY <2>2, <2>3
<1>4. CASE exec.turn = 0
  BY <1>2, <1>4 DEF RecoveryInd, ExecBound, AwaitingStarted, Anchored, MayEnd, ExecType
<1> QED
  BY <1>2, <1>3, <1>4 DEF ExecType

LEMMA CompletedStep == ASSUME RecoveryInd, OnCompleted PROVE RecoveryInd'
<1>1. Takes /\ Head(up.net).k \in Terminal
  BY DEF OnCompleted, Received, Takes, Terminal
<1>2. CASE exec.turn # Head(up.net).t
  BY <1>1, <1>2, IgnoredStep DEF OnCompleted
<1>3. CASE exec.turn = Head(up.net).t
  <2>1. exec.turn > 0
    BY <1>1, <1>3, TailIsHonest, Bounds DEF RecoveryInd, Takes, Note, Turn
  <2>2. MayEnd
    BY <1>1, <2>1, TerminalIsOver DEF AwaitingStarted
  <2> QED
    BY <1>1, <1>3, <2>2, RetiredStep DEF OnCompleted, Reconciles
<1> QED
  BY <1>2, <1>3

\* The thread is not active: the execution waits, is finalized, or has nothing
\* to wait for.
LEMMA HeartbeatStep ==
  ASSUME RecoveryInd, Takes, w' = Stale(Replaced), Heartbeat
  PROVE  RecoveryInd'
<1>1. exec \in ExecType
  BY TypesOf DEF RecoveryInd
<1>2. exec' = Heard /\ reg' = Armed(exec') /\ UNCHANGED <<ends, early, recon>>
  BY DEF Heartbeat
<1> QED
  BY <1>1, <1>2, HeardType, HeardStep

LEMMA TerminalSignalStep ==
  ASSUME RecoveryInd, Takes, w' = Stale(Replaced), Head(up.net).k \in Terminal,
         ~AwaitingStarted(exec), TerminalSignal
  PROVE  RecoveryInd'
<1>1. MayEnd
  BY TerminalIsOver
<1>2. /\ Finalized(exec, TRUE)
      /\ recon' = recon \/ (recon' = recon \cup {exec.inc} /\ exec.page > 0)
  BY DEF TerminalSignal, Reconciles
<1> QED
  BY <1>1, <1>2, RetiredStep

LEMMA UnanchoredStep ==
  ASSUME RecoveryInd, Takes, w' = Stale(Replaced), ~Anchored(exec), exec' \in ExecType,
         exec'.inc = exec.inc, exec'.turn = exec.turn, exec'.page = exec.page,
         exec'.for = exec.for, ~exec'.await, reg' = NoTicket,
         early' \in {early, EarlyIf(exec)}, UNCHANGED <<ends, recon>>
  PROVE  RecoveryInd'
<1>0. /\ exec \in ExecType /\ ends \in [Exec -> Nat] /\ recon \subseteq Exec
  BY TypesOf DEF RecoveryInd
<1>1. exec'.turn = 0 /\ exec'.page = 0 /\ ~Ongoing'
  BY <1>0 DEF Anchored, Ongoing, ExecType
<1>2. NeverRetiredEarly'
  BY NotEarly DEF RecoveryInd, NeverRetiredEarly, MayEnd
<1>3. ExecBound'
  BY <1>1 DEF ExecBound, RecoveryInd, Ongoing
<1>4. QuietWorkers
  BY QuietWays DEF RecoveryInd
<1>5. EndedOnce' /\ Tickets'
  BY <1>1, <1>4, GoesOn DEF RecoveryInd, Takes
<1>6. Watched' /\ reg' \in RegType
  BY <1>1, NoPageIsWatched
<1> QED
  BY <1>0, <1>1, <1>2, <1>3, <1>4, <1>5, <1>6, HandlerKeeps

LEMMA SettledIdleStep ==
  ASSUME RecoveryInd, Takes, w' = Stale(Replaced), ~Anchored(exec), SettledIdle
  PROVE  RecoveryInd'
<1>1. exec \in ExecType
  BY TypesOf DEF RecoveryInd
<1>2. /\ exec' = [Heard EXCEPT !.running = FALSE, !.await = FALSE] /\ reg' = NoTicket
      /\ early' = EarlyIf(exec) /\ UNCHANGED <<ends, recon>>
  BY DEF SettledIdle
<1>3. /\ exec' \in ExecType /\ exec'.turn = exec.turn /\ exec'.page = exec.page
      /\ exec'.for = exec.for /\ exec'.inc = exec.inc /\ ~exec'.await
  BY <1>1, <1>2, HeardType DEF ExecType
<1> QED
  BY <1>2, <1>3, UnanchoredStep

LEMMA IdleStep == ASSUME RecoveryInd, OnIdle PROVE RecoveryInd'
<1>1. Takes /\ Head(up.net).k \in Terminal /\ w' = Stale(Replaced)
  BY DEF OnIdle, Received, Takes, Terminal
<1> QED
  BY <1>1, HeartbeatStep, TerminalSignalStep, SettledIdleStep DEF OnIdle

LEMMA ErrorStep == ASSUME RecoveryInd, OnError PROVE RecoveryInd'
<1>1. Takes /\ w' = Stale(Replaced)
  BY DEF OnError, Received, Takes
<1> QED
  BY <1>1, HeartbeatStep, SettledIdleStep DEF OnError

LEMMA ClosedStep == ASSUME RecoveryInd, OnClosed PROVE RecoveryInd'
<1>1. Takes /\ Head(up.net).k \in Terminal /\ w' = Stale(Replaced)
  BY DEF OnClosed, Received, Takes, Terminal
<1>2. CASE /\ ~exec.running /\ ~Anchored(exec)
           /\ exec' = Heard /\ reg' = NoTicket /\ UNCHANGED <<ends, early, recon>>
  <2>1. exec \in ExecType /\ ~exec.await
    BY <1>2, TypesOf DEF RecoveryInd, ExecBound, Ongoing
  <2> QED
    BY <1>1, <1>2, <2>1, HeardType, UnanchoredStep
<1> QED
  BY <1>1, <1>2, HeartbeatStep, TerminalSignalStep DEF OnClosed

LEMMA ActiveStep == ASSUME RecoveryInd, OnActive PROVE RecoveryInd'
<1>1. Takes /\ w' = Stale(Replaced) /\ reg' = Armed(exec) /\ UNCHANGED <<ends, early, recon>>
  BY DEF OnActive, Received, Takes
<1>2. exec \in ExecType
  BY TypesOf DEF RecoveryInd
<1>3. CASE AwaitingStarted(exec)
  BY <1>1, <1>2, <1>3, HeardType, HeardStep DEF OnActive
<1>4. CASE ~AwaitingStarted(exec)
  <2>1. exec' = [Heard EXCEPT !.running = TRUE, !.await = FALSE]
    BY <1>4 DEF OnActive
  <2>2. /\ exec' \in ExecType /\ exec'.inc = exec.inc /\ exec'.page = exec.page
        /\ exec'.turn = exec.turn /\ exec'.kind = exec.kind /\ exec'.for = exec.for
        /\ exec'.running = TRUE /\ exec'.await = FALSE
    BY <1>2, <2>1, HeardType DEF ExecType
  <2> QED
    BY <1>1, <1>4, <2>2, HeardStep
<1> QED
  BY <1>3, <1>4

LEMMA HandlerStep ==
  ASSUME RecoveryInd, Handler
  PROVE  RecoveryInd'
BY StartedStep, WorkedStep, ItemStep, CompletedStep, IdleStep, ErrorStep, ClosedStep, ActiveStep
   DEF Handler

-----------------------------------------------------------------------------
(* Prompts, disconnects and shutdown.                                       *)

LEMMA Closes ==
  ASSUME RecoveryInd, exec' \in ExecType, reg' \in RegType, w' \in [Workers -> WorkerType],
         up' \in UpType, conn' \in [gen : 1..MaxConns, live : BOOLEAN],
         left' \in [lost : 0..MaxLost, faults : 0..MaxFaults],
         ends' \in [Exec -> Nat], shown' \in [Exec -> Nat],
         stop' \in {"no", "requested", "joined", "cancelled"}, recon' \subseteq Exec,
         NeverRetiredEarly', TurnsInOrder', ExecBound', WireIsHonest', SessionBound', EndedOnce',
         Tickets', Watched'
  PROVE  RecoveryInd'
<1>1. (exec \in ExecType /\ reg \in RegType /\ w \in [Workers -> WorkerType] /\ up \in UpType
         /\ conn \in [gen : 1..MaxConns, live : BOOLEAN]
         /\ left \in [lost : 0..MaxLost, faults : 0..MaxFaults]
         /\ ends \in [Exec -> Nat] /\ shown \in [Exec -> Nat]
         /\ stop \in {"no", "requested", "joined", "cancelled"} /\ recon \subseteq Exec => Typed)'
  BY TypedFrom, PTL
<1> QED
  BY <1>1 DEF RecoveryInd

\* The app-server rests.
LEMMA UpRests ==
  ASSUME RecoveryInd, UNCHANGED up, exec' \in ExecType, exec'.turn \in {0, exec.turn}
  PROVE  TurnsInOrder' /\ WireIsHonest' /\ Advance /\ up' \in UpType
<1>1. up \in UpType /\ exec \in ExecType
  BY TypesOf DEF RecoveryInd
<1>2. TurnsInOrder'
  BY DEF RecoveryInd, TurnsInOrder
<1>3. Advance
  BY <1>1 DEF Advance
<1>4. WireIsHonest'
  <2>1. ASSUME NEW i \in 1..Len(up.net) PROVE exec'.turn <= up.net[i].t
    <3>1. up.net[i] \in Note
      BY <1>1 DEF UpType
    <3>2. up.net[i].t \in Turn /\ exec.turn <= up.net[i].t
      BY <3>1 DEF RecoveryInd, WireIsHonest, Honest, Note
    <3> QED
      <4>1. up.net[i].t \in Nat /\ exec.turn \in Nat
        BY <1>1, <3>2, Bounds DEF Turn, ExecType
      <4> QED
        BY <3>2, <4>1
  <2> QED
    BY <2>1 DEF RecoveryInd, WireIsHonest, Honest
<1> QED
  BY <1>1, <1>2, <1>3, <1>4

LEMMA StartStep ==
  ASSUME RecoveryInd, NEW t \in Turn, NEW k \in Kinds, NEW page \in {0, 1},
         Start(t, k, page)
  PROVE  RecoveryInd'
<1>0. /\ exec \in ExecType /\ up \in UpType /\ conn \in [gen : 1..MaxConns, live : BOOLEAN]
      /\ left \in [lost : 0..MaxLost, faults : 0..MaxFaults] /\ ends \in [Exec -> Nat]
      /\ shown \in [Exec -> Nat] /\ stop \in {"no", "requested", "joined", "cancelled"} /\ recon \subseteq Exec
  BY TypesOf DEF RecoveryInd
<1>1. /\ exec.inc < MaxExecs /\ ~HasActive(exec) /\ up.turn[t] = "none"
      /\ \A s \in Turn : s < t => up.turn[s] = "over"
      /\ exec' = [inc |-> exec.inc + 1, running |-> TRUE, await |-> TRUE, turn |-> 0, page |-> page,
                  kind |-> k, chan |-> "live", for |-> t]
      /\ up' = [up EXCEPT !.turn[t] = "sent"]
      /\ reg' = Armed(exec') /\ w' = Stale(Replaced)
      /\ UNCHANGED <<left, stop, recon, ends, shown, early>>
  BY DEF Start
<1>2. /\ exec' \in ExecType /\ exec'.inc = exec.inc + 1 /\ exec'.inc > 0 /\ exec'.turn = 0
      /\ exec'.await = TRUE /\ exec'.running = TRUE
  <2>1. exec.inc + 1 \in 0..MaxExecs /\ page \in 0..MaxPages /\ 0 \in 0..MaxTurns /\ t \in 0..MaxTurns
        /\ k \in {"none", "prompt", "compact"} /\ exec.inc + 1 > 0
    BY <1>0, <1>1, Bounds, KindsAssumption DEF ExecType, Turn
  <2> QED
    BY <1>1, <2>1 DEF ExecType
<1>3. /\ up' \in UpType /\ up'.net = up.net /\ up'.turn = [up.turn EXCEPT ![t] = "sent"]
      /\ up.turn \in [Turn -> {"none", "sent", "run", "over"}]
  BY <1>0, <1>1 DEF UpType
<1>4. Advance
  BY <1>1, <1>3 DEF Advance, InFlight
<1>5. TurnsInOrder'
  BY <1>1, <1>3, TurnsAfter, Bounds DEF RecoveryInd, TurnsInOrder, Turn
<1>6. WireIsHonest'
  <2>1. ASSUME NEW i \in 1..Len(up.net) PROVE up.net[i].t \in Turn
    <3>1. up.net[i] \in Note
      BY <1>0 DEF UpType
    <3> QED
      BY <3>1 DEF Note
  <2> QED
    BY <1>2, <1>3, <1>4, <2>1, Bounds DEF RecoveryInd, WireIsHonest, Honest, Advance, Turn
<1>7. QuietWorkers /\ w' \in [Workers -> WorkerType]
  BY <1>1, QuietWays DEF RecoveryInd, QuietWorkers
<1>8. SessionBound'
  BY <1>4, <1>7, QuietSessions DEF RecoveryInd
<1>9. EndedOnce' /\ Tickets'
  BY <1>1, <1>2, <1>7, Opens DEF RecoveryInd
<1>10. Watched' /\ reg' \in RegType
  BY <1>1, <1>2, ArmedIsWatched
<1>11. ExecBound' /\ NeverRetiredEarly'
  <2>1. ~(exec'.turn > 0)
    BY <1>2
  <2>2. ExecBound'
    BY <1>2, <2>1 DEF ExecBound, Ongoing
  <2>3. early' = early
    BY <1>1
  <2> QED
    BY <2>2, <2>3 DEF RecoveryInd, NeverRetiredEarly
<1>12. conn' \in [gen : 1..MaxConns, live : BOOLEAN]
  <2>1. CASE conn.live
    BY <1>0, <2>1 DEF Start
  <2>2. CASE ~conn.live
    <3>1. conn.gen + 1 \in 1..MaxConns
      BY <1>0, <2>2, Bounds DEF Start
    <3> QED
      BY <2>2, <3>1 DEF Start
  <2> QED
    BY <2>1, <2>2
<1> QED
  BY <1>0, <1>1, <1>2, <1>3, <1>5, <1>6, <1>7, <1>8, <1>9, <1>10, <1>11, <1>12, Closes

LEMMA RolloverStep == ASSUME RecoveryInd, Rollover PROVE RecoveryInd'
<1>0. /\ exec \in ExecType /\ reg \in RegType /\ w \in [Workers -> WorkerType] /\ up \in UpType
      /\ conn \in [gen : 1..MaxConns, live : BOOLEAN]
      /\ left \in [lost : 0..MaxLost, faults : 0..MaxFaults] /\ ends \in [Exec -> Nat]
      /\ shown \in [Exec -> Nat] /\ stop \in {"no", "requested", "joined", "cancelled"} /\ recon \subseteq Exec
  BY TypesOf DEF RecoveryInd
<1>1. /\ UNCHANGED <<reg, w, conn, up, left, stop, recon, ends, shown, early>>
      /\ exec.running /\ exec.turn > 0 /\ exec.page > 0
      /\ exec' \in ExecType /\ exec'.page > 1 /\ exec'.turn = exec.turn /\ exec'.for = exec.for
      /\ exec'.inc = exec.inc /\ exec'.running = exec.running
  <2>1. exec.page \in 1..(MaxPages - 1) /\ exec' = [exec EXCEPT !.page = @ + 1]
    BY DEF Rollover
  <2>2. exec.page + 1 \in 0..MaxPages /\ exec.page + 1 > 1 /\ exec.page > 0
    BY <2>1, Bounds
  <2>3. exec' = [exec EXCEPT !.page = exec.page + 1]
    BY <1>0, <2>1
  <2>4. exec' \in ExecType /\ exec'.page = exec.page + 1
    BY <1>0, <2>2, <2>3 DEF ExecType
  <2>5. exec'.turn = exec.turn /\ exec'.for = exec.for /\ exec'.inc = exec.inc /\ exec'.running = exec.running
    BY <1>0, <2>3 DEF ExecType
  <2> QED
    BY <2>2, <2>4, <2>5 DEF Rollover
<1>2. TurnsInOrder' /\ WireIsHonest' /\ Advance
  BY <1>1, UpRests
<1>3. QuietWorkers
  BY <1>1, QuietWays DEF RecoveryInd
<1>4. SessionBound'
  BY <1>2, <1>3, QuietSessions DEF RecoveryInd
<1>5. EndedOnce' /\ Tickets'
  BY <1>1, <1>3, GoesOn DEF RecoveryInd, Ongoing
<1>6. ExecBound' /\ NeverRetiredEarly'
  <2>1. exec.turn \in Nat /\ exec'.turn > 0
    BY <1>0, <1>1, Bounds DEF ExecType
  <2>2. ~(exec'.turn = 0)
    BY <1>0, <1>1, <2>1
  <2>3. exec.inc > 0
    BY <1>1 DEF RecoveryInd, ExecBound, Ongoing
  <2>4. ExecBound'
    BY <1>1, <2>2, <2>3 DEF RecoveryInd, ExecBound, Ongoing
  <2>5. early' = early
    BY <1>1
  <2> QED
    BY <2>4, <2>5 DEF RecoveryInd, NeverRetiredEarly
<1>7. Watched'
  BY <1>1 DEF RecoveryInd, Watched
<1> QED
  BY <1>0, <1>1, <1>2, <1>4, <1>5, <1>6, <1>7, Closes

LEMMA DisconnectStep == ASSUME RecoveryInd, Disconnect PROVE RecoveryInd'
<1>0. /\ up \in UpType /\ conn \in [gen : 1..MaxConns, live : BOOLEAN]
      /\ left \in [lost : 0..MaxLost, faults : 0..MaxFaults]
      /\ shown \in [Exec -> Nat] /\ stop \in {"no", "requested", "joined", "cancelled"} /\ recon \subseteq Exec
  BY TypesOf DEF RecoveryInd
<1>1. /\ Finalized(exec, FALSE) /\ w' = Replaced
      /\ UNCHANGED <<left, stop, recon, shown>>
  BY DEF Disconnect
<1>2. /\ up' \in UpType /\ up'.turn = up.turn /\ up'.net = <<>>
      /\ conn' \in [gen : 1..MaxConns, live : BOOLEAN]
  <2>1. up' = [up EXCEPT !.net = <<>>] /\ conn' = [conn EXCEPT !.live = FALSE] /\ <<>> \in Seq(Note)
    BY DEF Disconnect
  <2>2. up' \in UpType /\ up'.turn = up.turn /\ up'.net = <<>>
    BY <1>0, <2>1 DEF UpType
  <2> QED
    BY <1>0, <2>1, <2>2
<1>3. Advance /\ TurnsInOrder'
  BY <1>2 DEF Advance, RecoveryInd, TurnsInOrder
<1>4. WireIsHonest'
  BY <1>2 DEF WireIsHonest
<1>5. QuietWorkers
  BY <1>1, QuietWays DEF RecoveryInd
<1>6. SessionBound'
  BY <1>3, <1>5, QuietSessions DEF RecoveryInd
<1>7. Tickets'
  BY <1>1, <1>5, RetiresTickets
<1>8. /\ exec' \in ExecType /\ ExecBound' /\ NeverRetiredEarly' /\ EndedOnce'
      /\ ends' \in [Exec -> Nat] /\ Watched' /\ reg' \in RegType
  BY <1>1, Retires
<1> QED
  BY <1>0, <1>1, <1>2, <1>3, <1>4, <1>5, <1>6, <1>7, <1>8, Closes DEF QuietWorkers

\* A result is presented by who retires the execution.
LEMMA PresentedType ==
  ASSUME shown \in [Exec -> Nat], NEW i \in Nat, NEW page, page > 0 => i \in Exec, Presented(i, page)
  PROVE  /\ shown' \in [Exec -> Nat]
         /\ \A j \in Exec : shown'[j] = IF page > 0 /\ j = i THEN shown[j] + 1 ELSE shown[j]
BY DEF Presented

LEMMA RetiresShown ==
  ASSUME RecoveryInd, Finalized(exec, TRUE), MayEnd,
         QuietWorkers, UNCHANGED recon, Presented(exec.inc, exec.page)
  PROVE  Tickets' /\ shown' \in [Exec -> Nat]
<1>0. /\ exec \in ExecType /\ shown \in [Exec -> Nat] /\ ends \in [Exec -> Nat]
  BY TypesOf DEF RecoveryInd
<1>1. /\ \A i \in Exec : ends[i] = 1 => ends'[i] = 1
      /\ exec.page > 0 => /\ exec.inc \in Exec /\ ends[exec.inc] = 0 /\ ends'[exec.inc] = 1
                          /\ shown[exec.inc] = 0 /\ exec.inc \notin recon
                          /\ \A x \in Workers : ~Holds(x, exec.inc)
      /\ ends' \in [Exec -> Nat]
  BY Retires
<1>2. \A x \in Workers, i \in Exec : Holds(x, i)' <=> Holds(x, i)
  BY DEF Holds, QuietWorkers, Quiet
<1>3. /\ shown' \in [Exec -> Nat]
      /\ \A j \in Exec : shown'[j] = IF exec.page > 0 /\ j = exec.inc THEN shown[j] + 1 ELSE shown[j]
  BY <1>0, <1>1, PresentedType DEF ExecType
<1>4. \A i \in Exec : ends[i] <= 1 /\ shown[i] <= ends[i]
  BY DEF RecoveryInd, EndedOnce, Tickets
<1>5. \A i \in Exec : shown'[i] <= ends'[i]
  BY <1>0, <1>1, <1>3, <1>4
<1>6. \A i \in Exec : i \in recon' => ends'[i] = 1 /\ shown'[i] = 0
  BY <1>1, <1>3 DEF RecoveryInd, Tickets
<1>7. \A i \in Exec, x \in Workers : Holds(x, i)' =>
         /\ ends'[i] = 1 /\ shown'[i] = 0 /\ i \notin recon'
         /\ \A y \in Workers : Holds(y, i)' => y = x
  BY <1>1, <1>2, <1>3 DEF RecoveryInd, Tickets
<1> QED
  BY <1>3, <1>5, <1>6, <1>7 DEF Tickets

\* What is known of the turn of an execution that is not waiting for one.
LEMMA ReadIsOver ==
  ASSUME RecoveryInd, ~AwaitingStarted(exec), ~Active \/ ReadOver(exec.turn)
  PROVE  MayEnd
<1>0. exec \in ExecType /\ up \in UpType
  BY TypesOf DEF RecoveryInd
<1>1. CASE exec.turn > 0
  <2>1. exec.for = exec.turn /\ exec.turn \in Turn /\ up.turn[exec.turn] \in InFlight
    BY <1>0, <1>1, Bounds DEF RecoveryInd, ExecBound, ExecType, Turn
  <2> QED
    BY <2>1 DEF ReadOver, Active, InFlight, MayEnd
<1>2. CASE exec.turn = 0
  BY <1>0, <1>2 DEF RecoveryInd, ExecBound, AwaitingStarted, Anchored, MayEnd, ExecType
<1> QED
  BY <1>0, <1>1, <1>2 DEF ExecType

\* The execution is acknowledged, or found unreachable.
AliveAs(e) ==
  /\ e \in ExecType /\ e.inc = exec.inc /\ e.turn = exec.turn /\ e.page = exec.page
  /\ e.kind = exec.kind /\ e.for = exec.for /\ (exec.running => e.running)
  /\ e.await = exec.await \/ (e.await = FALSE /\ ~AwaitingStarted(exec))

LEMMA AliveWays ==
  ASSUME RecoveryInd
  PROVE  /\ ~AwaitingStarted(exec) => AliveAs(Acknowledged)
         /\ \A c \in {"live", "degraded"} : AliveAs([exec EXCEPT !.chan = c])
         /\ AliveAs(exec)
<1>0. exec \in ExecType
  BY TypesOf DEF RecoveryInd
<1>1. \A c \in {"live", "degraded"} : AliveAs([exec EXCEPT !.chan = c])
  BY <1>0 DEF AliveAs, ExecType
<1>2. ASSUME ~AwaitingStarted(exec) PROVE AliveAs(Acknowledged)
  <2>1. Acknowledged = [exec EXCEPT !.running = TRUE, !.await = FALSE, !.chan = "live"]
    BY DEF Acknowledged
  <2> QED
    BY <1>0, <1>2, <2>1 DEF AliveAs, ExecType
<1>3. AliveAs(exec)
  BY <1>0 DEF AliveAs
<1> QED
  BY <1>1, <1>2, <1>3

LEMMA AliveKeeps ==
  ASSUME RecoveryInd, AliveAs(exec'), UNCHANGED <<up, early>>
  PROVE  /\ exec' \in ExecType /\ ExecBound' /\ NeverRetiredEarly' /\ TurnsInOrder' /\ WireIsHonest'
         /\ Advance /\ up' \in UpType /\ (Ongoing' => Ongoing) /\ Fence(exec') = Fence(exec)
<1>0. exec \in ExecType
  BY TypesOf DEF RecoveryInd
<1>1. exec' \in ExecType /\ exec'.turn = exec.turn
  BY DEF AliveAs
<1>2. ExecBound'
  BY <1>0 DEF RecoveryInd, ExecBound, Ongoing, AliveAs, AwaitingStarted, ExecType
<1>3. NeverRetiredEarly' /\ (Ongoing' => Ongoing)
  BY <1>0 DEF RecoveryInd, NeverRetiredEarly, AliveAs, Ongoing, ExecType
<1>4. Fence(exec') = Fence(exec)
  BY DEF AliveAs, Fence
<1>5. TurnsInOrder' /\ WireIsHonest' /\ Advance /\ up' \in UpType
  BY <1>1, UpRests
<1> QED
  BY <1>1, <1>2, <1>3, <1>4, <1>5

LEMMA AskAgainStep == ASSUME RecoveryInd, AskAgain PROVE RecoveryInd'
<1>0. /\ exec \in ExecType /\ reg \in RegType /\ conn \in [gen : 1..MaxConns, live : BOOLEAN]
      /\ left \in [lost : 0..MaxLost, faults : 0..MaxFaults] /\ ends \in [Exec -> Nat]
      /\ shown \in [Exec -> Nat] /\ stop \in {"no", "requested", "joined", "cancelled"} /\ recon \subseteq Exec
  BY TypesOf DEF RecoveryInd
<1>1. UNCHANGED <<conn, up, stop, recon>> /\ ~AwaitingStarted(exec)
  BY DEF AskAgain
<1>2. left' \in [lost : 0..MaxLost, faults : 0..MaxFaults]
  <2>1. CASE UNCHANGED left
    BY <1>0, <2>1
  <2>2. CASE left.faults > 0 /\ left' = [left EXCEPT !.faults = @ - 1]
    <3>1. left.faults - 1 \in 0..MaxFaults /\ left' = [left EXCEPT !.faults = left.faults - 1]
      BY <1>0, <2>2, Bounds
    <3> QED
      BY <1>0, <3>1
  <2> QED
    BY <2>1, <2>2 DEF AskAgain
<1>3. CASE /\ Finalized(exec, TRUE) /\ w' = Replaced /\ Presented(exec.inc, exec.page)
           /\ ReadOver(exec.turn) \/ ~Active
  <2>1. MayEnd
    BY <1>1, <1>3, ReadIsOver
  <2>2. QuietWorkers
    BY <1>3, QuietWays DEF RecoveryInd
  <2>3. Tickets' /\ shown' \in [Exec -> Nat]
    BY <1>1, <1>3, <2>1, <2>2, RetiresShown
  <2>4. /\ exec' \in ExecType /\ ExecBound' /\ NeverRetiredEarly' /\ EndedOnce' /\ exec'.turn = 0
        /\ ends' \in [Exec -> Nat] /\ Watched' /\ reg' \in RegType
    BY <1>3, <2>1, Retires
  <2>5. TurnsInOrder' /\ WireIsHonest' /\ Advance /\ up' \in UpType
    BY <1>1, <2>4, UpRests
  <2>6. SessionBound'
    BY <2>2, <2>5, QuietSessions DEF RecoveryInd
  <2> QED
    BY <1>0, <1>1, <1>2, <2>2, <2>3, <2>4, <2>5, <2>6, Closes DEF QuietWorkers
<1>4. CASE /\ UNCHANGED <<reg, ends, shown, early>>
           /\ w' = Stale(w) \/ w' = w
           /\ AliveAs(exec')
  <2>1. QuietWorkers
    BY <1>4, QuietWays DEF RecoveryInd
  <2>2. /\ exec' \in ExecType /\ ExecBound' /\ NeverRetiredEarly' /\ TurnsInOrder' /\ WireIsHonest'
        /\ Advance /\ up' \in UpType /\ (Ongoing' => Ongoing) /\ Fence(exec') = Fence(exec)
    BY <1>1, <1>4, AliveKeeps
  <2>3. SessionBound'
    BY <2>1, <2>2, QuietSessions DEF RecoveryInd
  <2>4. EndedOnce' /\ Tickets'
    BY <1>1, <1>4, <2>1, <2>2, GoesOn DEF RecoveryInd, AliveAs
  <2>5. Watched'
    <3>1. \A x \in Workers : /\ Watches(x)' <=> Watches(x)
                             /\ w'[x].own = w[x].own /\ w'[x].pc = w[x].pc
      <4>1. \A x \in Workers : w'[x].own = w[x].own
        BY <1>4, StaleQuiet DEF RecoveryInd, Typed
      <4> QED
        BY <2>1, <2>2, <4>1 DEF Watches, Same, QuietWorkers, Quiet
    <3>2. exec'.inc = exec.inc /\ exec'.turn = exec.turn /\ exec'.page = exec.page /\ exec'.kind = exec.kind
      BY <1>4 DEF AliveAs
    <3> QED
      BY <1>1, <1>4, <2>2, <3>1, <3>2 DEF RecoveryInd, Watched, TicketFits, Stopped
  <2> QED
    BY <1>0, <1>1, <1>2, <1>4, <2>1, <2>2, <2>3, <2>4, <2>5, Closes DEF QuietWorkers
<1> QED
  <2>1. CASE conn.live /\ ~ReadOver(exec.turn) /\ UNCHANGED <<left, reg, ends, shown, early>>
             /\ exec' = Acknowledged /\ w' = Stale(w)
    BY <1>1, <1>4, <2>1, AliveWays
  <2>2. CASE /\ exec' = [exec EXCEPT !.chan = IF HasActive(exec) THEN "degraded" ELSE @]
             /\ UNCHANGED <<w, reg, ends, shown, early>>
    <3>1. AliveAs(exec')
      <4>1. CASE HasActive(exec)
        BY <2>2, <4>1, AliveWays
      <4>2. CASE ~HasActive(exec)
        BY <1>0, <2>2, <4>2 DEF AliveAs, ExecType
      <4> QED
        BY <4>1, <4>2
    <3> QED
      BY <1>4, <2>2, <3>1
  <2> QED
    BY <1>3, <2>1, <2>2 DEF AskAgain

LEMMA ReconcileStep == ASSUME RecoveryInd, NEW i \in Exec, TerminalReconcile(i) PROVE RecoveryInd'
<1>0. /\ exec \in ExecType /\ reg \in RegType /\ w \in [Workers -> WorkerType] /\ up \in UpType
      /\ conn \in [gen : 1..MaxConns, live : BOOLEAN]
      /\ left \in [lost : 0..MaxLost, faults : 0..MaxFaults] /\ ends \in [Exec -> Nat]
      /\ shown \in [Exec -> Nat] /\ stop \in {"no", "requested", "joined", "cancelled"} /\ recon \subseteq Exec
  BY TypesOf DEF RecoveryInd
<1>1. /\ i \in recon /\ recon' = recon \ {i} /\ UNCHANGED <<exec, reg, w, conn, up, left, stop, ends, early>>
  BY DEF TerminalReconcile
<1>2. /\ shown' \in [Exec -> Nat]
      /\ \A j \in Exec : j # i => shown'[j] = shown[j]
      /\ shown'[i] <= 1
  <2>1. shown[i] = 0
    BY <1>1 DEF RecoveryInd, Tickets
  <2>2. CASE UNCHANGED shown
    BY <1>0, <2>1, <2>2
  <2>3. CASE Presented(i, 1)
    BY <1>0, <2>1, <2>3 DEF Presented
  <2> QED
    BY <2>2, <2>3 DEF TerminalReconcile
<1>3. Tickets'
  <2>1. \A x \in Workers, j \in Exec : Holds(x, j)' <=> Holds(x, j)
    BY <1>1 DEF Holds
  <2>2. ends[i] = 1 /\ \A x \in Workers : ~Holds(x, i)
    BY <1>1 DEF RecoveryInd, Tickets
  <2>3. \A j \in Exec : shown'[j] <= ends'[j]
    BY <1>0, <1>1, <1>2, <2>2 DEF RecoveryInd, Tickets
  <2>4. \A j \in Exec : j \in recon' => ends'[j] = 1 /\ shown'[j] = 0
    BY <1>1, <1>2 DEF RecoveryInd, Tickets
  <2>5. \A j \in Exec, x \in Workers : Holds(x, j)' =>
         /\ ends'[j] = 1 /\ shown'[j] = 0 /\ j \notin recon'
         /\ \A y \in Workers : Holds(y, j)' => y = x
    BY <1>1, <1>2, <2>1, <2>2 DEF RecoveryInd, Tickets
  <2> QED
    BY <2>3, <2>4, <2>5 DEF Tickets
<1>4. TurnsInOrder' /\ WireIsHonest' /\ Advance
  BY <1>0, <1>1, UpRests
<1>5. ExecBound' /\ SessionBound' /\ EndedOnce' /\ NeverRetiredEarly'
  <2>1. ExecBound' /\ EndedOnce' /\ NeverRetiredEarly'
    BY <1>1 DEF RecoveryInd, ExecBound, Ongoing, EndedOnce, NeverRetiredEarly
  <2>2. SessionBound'
    BY <1>1 DEF RecoveryInd, SessionBound, SessionFits, FoundOver
  <2> QED
    BY <2>1, <2>2
<1>6. Watched'
  BY <1>1 DEF RecoveryInd, Watched, Watches, Same, Fence, TicketFits, Stopped
<1> QED
  BY <1>0, <1>1, <1>2, <1>3, <1>4, <1>5, <1>6, Closes

LEMMA ShutdownStep == ASSUME RecoveryInd, StopRequested \/ Joined PROVE RecoveryInd'
<1>0. /\ exec \in ExecType /\ reg \in RegType /\ w \in [Workers -> WorkerType] /\ up \in UpType
      /\ conn \in [gen : 1..MaxConns, live : BOOLEAN]
      /\ left \in [lost : 0..MaxLost, faults : 0..MaxFaults] /\ ends \in [Exec -> Nat]
      /\ shown \in [Exec -> Nat] /\ recon \subseteq Exec
  BY TypesOf DEF RecoveryInd
<1>1. /\ stop' \in {"requested", "joined"}
      /\ UNCHANGED <<exec, reg, w, conn, up, left, recon, ends, shown, early>>
  <2>1. CASE StopRequested
    BY <2>1 DEF StopRequested
  <2>2. CASE Joined
    BY <2>2 DEF Joined
  <2> QED
    BY <2>1, <2>2
<1>2. TurnsInOrder' /\ WireIsHonest' /\ ExecBound' /\ EndedOnce' /\ NeverRetiredEarly'
  <2>1. TurnsInOrder' /\ WireIsHonest'
    BY <1>0, <1>1, UpRests
  <2> QED
    BY <1>1, <2>1 DEF RecoveryInd, ExecBound, Ongoing, EndedOnce, NeverRetiredEarly
<1>3. SessionBound' /\ Tickets'
  BY <1>1 DEF RecoveryInd, SessionBound, SessionFits, FoundOver, Tickets, Holds
<1>4. Watched'
  <2>1. Stopped'
    BY <1>1 DEF Stopped
  <2> QED
    BY <1>1, <2>1 DEF RecoveryInd, Watched
<1> QED
  BY <1>0, <1>1, <1>2, <1>3, <1>4, Closes

LEMMA CancelledStep == ASSUME RecoveryInd, TimersCancelled PROVE RecoveryInd'
<1>0. /\ exec \in ExecType /\ conn \in [gen : 1..MaxConns, live : BOOLEAN]
      /\ left \in [lost : 0..MaxLost, faults : 0..MaxFaults] /\ ends \in [Exec -> Nat]
      /\ shown \in [Exec -> Nat] /\ recon \subseteq Exec
  BY TypesOf DEF RecoveryInd
<1>1. /\ stop' = "cancelled" /\ reg' = NoTicket /\ w' = Replaced
      /\ UNCHANGED <<exec, conn, up, left, recon, ends, shown, early>>
  BY DEF TimersCancelled
<1>2. QuietWorkers /\ w' \in [Workers -> WorkerType]
  BY <1>1, QuietWays DEF RecoveryInd, QuietWorkers
<1>3. TurnsInOrder' /\ WireIsHonest' /\ Advance /\ up' \in UpType
  BY <1>0, <1>1, UpRests
<1>4. SessionBound'
  BY <1>2, <1>3, QuietSessions DEF RecoveryInd
<1>5. EndedOnce' /\ Tickets'
  BY <1>1, <1>2, GoesOn DEF RecoveryInd, Ongoing
<1>6. ExecBound' /\ NeverRetiredEarly'
  BY <1>1 DEF RecoveryInd, ExecBound, Ongoing, NeverRetiredEarly
<1>7. Watched' /\ reg' \in RegType
  BY <1>1, Bounds DEF Watched, Stopped, NoTicket, RegType
<1> QED
  BY <1>0, <1>1, <1>2, <1>3, <1>4, <1>5, <1>6, <1>7, Closes

-----------------------------------------------------------------------------
(* The watchdog worker.                                                     *)

LEMMA IdleWorker ==
  /\ Idle \in WorkerType /\ Idle.pc = "idle" /\ Idle.sess[2] = 0
  /\ [Idle EXCEPT !.pc = "consume", !.own = TRUE] \in WorkerType
  /\ [Idle EXCEPT !.pc = "consume", !.own = TRUE].pc = "consume"
  /\ [Idle EXCEPT !.pc = "consume", !.own = TRUE].own = TRUE
  /\ [Idle EXCEPT !.pc = "consume", !.own = TRUE].sess[2] = 0
<1>1. Idle \in WorkerType
  BY Bounds DEF Idle, WorkerType, Pc
<1>2. Idle.pc = "idle" /\ Idle.sess[2] = 0
  BY DEF Idle
<1> HIDE DEF Idle
<1> QED
  BY <1>1, <1>2 DEF WorkerType, Pc

\* Everybody but x stays where he is.
Others(x) ==
  /\ w' \in [Workers -> WorkerType]
  /\ \A y \in Workers \ {x} : Quiet(w[y], w'[y]) /\ w'[y].own = w[y].own

LEMMA OneMoves ==
  ASSUME w \in [Workers -> WorkerType], NEW x \in Workers, NEW v \in WorkerType,
         w' = [w EXCEPT ![x] = v] \/ w' = Stale([w EXCEPT ![x] = v])
  PROVE  /\ Others(x) /\ w'[x].pc = v.pc /\ w'[x].sess = v.sess /\ w'[x].armed = v.armed
         /\ w'[x].over = v.over /\ w'[x].own = v.own
<1> DEFINE ws == [w EXCEPT ![x] = v]
<1>1. ws \in [Workers -> WorkerType] /\ ws[x] = v /\ \A y \in Workers \ {x} : ws[y] = w[y]
  OBVIOUS
<1>2. \A y \in Workers : Quiet(ws[y], ws[y])
  BY <1>1 DEF Quiet
<1> HIDE DEF ws
<1>3. CASE w' = ws
  BY <1>1, <1>2, <1>3 DEF Others
<1>4. CASE w' = Stale(ws)
  <2>1. /\ w' \in [Workers -> WorkerType]
        /\ \A y \in Workers : Quiet(ws[y], w'[y]) /\ w'[y].own = ws[y].own
    BY <1>1, <1>4, StaleQuiet
  <2> QED
    BY <1>1, <2>1 DEF Others, Quiet
<1> QED
  BY <1>3, <1>4 DEF ws

LEMMA OthersSessions ==
  ASSUME Typed, SessionBound, UNCHANGED up, NEW x \in Workers, w' \in [Workers -> WorkerType],
         \A y \in Workers \ {x} : Quiet(w[y], w'[y]), SessionFits(w'[x])
  PROVE  SessionBound'
<1> SUFFICES ASSUME NEW y \in Workers PROVE SessionFits(w[y])'
  BY DEF SessionBound
<1>1. CASE y = x
  BY <1>1 DEF SessionFits, FoundOver
<1>2. CASE y # x
  BY <1>2 DEF SessionBound, SessionFits, FoundOver, Quiet
<1> QED
  BY <1>1, <1>2

\* A worker that retires nothing and presents nothing.
LEMMA WorkerKeeps ==
  ASSUME RecoveryInd, NEW x \in Workers, Others(x), AliveAs(exec'),
         UNCHANGED <<reg, conn, up, stop, recon, ends, shown, early>>,
         left' \in [lost : 0..MaxLost, faults : 0..MaxFaults],
         SessionFits(w'[x]), w'[x].pc # "present", w[x].pc # "consume" \/ ~w[x].own,
         Watches(x) /\ ~Stopped /\ reg = NoTicket => Watches(x)'
  PROVE  RecoveryInd'
<1>0. /\ exec \in ExecType /\ reg \in RegType /\ conn \in [gen : 1..MaxConns, live : BOOLEAN]
      /\ ends \in [Exec -> Nat]
      /\ shown \in [Exec -> Nat] /\ stop \in {"no", "requested", "joined", "cancelled"} /\ recon \subseteq Exec
  BY TypesOf DEF RecoveryInd
<1>1. /\ exec' \in ExecType /\ ExecBound' /\ NeverRetiredEarly' /\ TurnsInOrder' /\ WireIsHonest'
      /\ Advance /\ up' \in UpType /\ (Ongoing' => Ongoing) /\ Fence(exec') = Fence(exec)
      /\ exec'.inc = exec.inc /\ exec'.turn = exec.turn /\ exec'.page = exec.page /\ exec'.kind = exec.kind
  BY AliveKeeps DEF AliveAs
<1>2. SessionBound'
  BY OthersSessions DEF RecoveryInd, Others
<1>3. EndedOnce'
  BY <1>1 DEF RecoveryInd, EndedOnce
<1>4. Tickets'
  <2>1. \A y \in Workers, i \in Exec : Holds(y, i)' => Holds(y, i)
    BY DEF Holds, Others, Quiet
  <2> QED
    BY <2>1 DEF RecoveryInd, Tickets
<1>5. Watched'
  <2>1. \A y \in Workers \ {x} : /\ Watches(y) => Watches(y)'
                                 /\ w'[y].own = w[y].own /\ w'[y].pc = w[y].pc
    BY <1>1 DEF Watches, Same, Others, Quiet
  <2>2. reg'.fired => \E y \in Workers : w'[y].pc = "consume" /\ w'[y].own
    <3> SUFFICES ASSUME reg.fired PROVE \E y \in Workers : w'[y].pc = "consume" /\ w'[y].own
      OBVIOUS
    <3>1. PICK y \in Workers : w[y].pc = "consume" /\ w[y].own
      BY DEF RecoveryInd, Watched
    <3>2. y # x
      BY <3>1
    <3> QED
      BY <2>1, <3>1, <3>2
  <2>3. ASSUME exec'.page = 1, exec'.kind # "compact", ~Stopped'
        PROVE  (reg' # NoTicket /\ TicketFits') \/ (reg' = NoTicket /\ \E y \in Workers : Watches(y)')
    <3>1. ~Stopped
      BY <2>3 DEF Stopped
    <3>2. CASE reg # NoTicket
      <4>1. TicketFits
        BY <1>1, <2>3, <3>1, <3>2 DEF RecoveryInd, Watched
      <4> QED
        BY <1>1, <3>2, <4>1 DEF TicketFits
    <3>3. CASE reg = NoTicket
      <4>1. PICK y \in Workers : Watches(y)
        BY <1>1, <2>3, <3>1, <3>3 DEF RecoveryInd, Watched
      <4> QED
        BY <2>1, <3>1, <3>3, <4>1
    <3> QED
      BY <3>2, <3>3
  <2> QED
    BY <1>1, <2>2, <2>3 DEF Watched
<1> QED
  BY <1>0, <1>1, <1>2, <1>3, <1>4, <1>5, Closes DEF Others

\* What WorkerKeeps asks of a worker that only moves on.
LEMMA WorkerMoves ==
  ASSUME RecoveryInd, NEW x \in Workers, NEW v \in WorkerType,
         w' = [w EXCEPT ![x] = v] \/ w' = Stale([w EXCEPT ![x] = v]),
         AliveAs(exec'), UNCHANGED <<reg, conn, up, stop, recon, ends, shown, early>>,
         left' \in [lost : 0..MaxLost, faults : 0..MaxFaults],
         SessionFits(v), v.pc # "present", w[x].pc # "consume" \/ ~w[x].own,
         Watches(x) /\ ~Stopped /\ reg = NoTicket => v.pc \in Watching /\ v.sess = w[x].sess /\ ~v.armed
  PROVE  RecoveryInd'
<1>1. w \in [Workers -> WorkerType]
  BY TypesOf DEF RecoveryInd
<1>2. /\ Others(x) /\ w'[x].pc = v.pc /\ w'[x].sess = v.sess /\ w'[x].armed = v.armed
      /\ w'[x].over = v.over
  BY <1>1, OneMoves
<1>3. SessionFits(w'[x])
  BY <1>2 DEF SessionFits, FoundOver
<1>4. Fence(exec') = Fence(exec)
  BY AliveKeeps
<1>5. Watches(x) /\ ~Stopped /\ reg = NoTicket => Watches(x)'
  BY <1>2, <1>4 DEF Watches, Same
<1> QED
  BY <1>2, <1>3, <1>5, WorkerKeeps

LEMMA LeavesKeeps ==
  ASSUME RecoveryInd, NEW x \in Workers, Leaves(x), AliveAs(exec'),
         UNCHANGED <<reg, conn, up, left, stop, recon, ends, shown, early>>,
         w[x].pc # "consume" \/ ~w[x].own,
         Watches(x) /\ ~Stopped => reg # NoTicket
  PROVE  RecoveryInd'
<1>1. SessionFits(Idle)
  BY IdleWorker DEF SessionFits, Reads, FoundOver
<1>2. left' \in [lost : 0..MaxLost, faults : 0..MaxFaults]
  BY TypesOf DEF RecoveryInd
<1> QED
  BY <1>1, <1>2, IdleWorker, WorkerMoves DEF Leaves

\* A worker that goes on with what it has.
LEMMA GoesKeeps ==
  ASSUME RecoveryInd, NEW x \in Workers, NEW to \in Watching, Goes(x, to), AliveAs(exec'),
         UNCHANGED <<reg, conn, up, stop, recon, ends, shown, early>>,
         left' \in [lost : 0..MaxLost, faults : 0..MaxFaults],
         w[x].pc \in Watching,
         to \in Reads => w[x].pc \in Reads,
         to \in {"missing", "finalize"} /\ w[x].sess[2] > 0 => up.turn[w[x].sess[2]] = "over",
         to # "settle"
  PROVE  RecoveryInd'
<1> DEFINE v == [w[x] EXCEPT !.pc = to]
<1>1. w[x] \in WorkerType /\ SessionFits(w[x]) /\ w \in [Workers -> WorkerType]
  BY TypesOf DEF RecoveryInd, SessionBound
<1>2. to \in Pc /\ to # "present" /\ w[x].pc # "consume"
  BY DEF Watching, Reads, Pc
<1>3. /\ v \in WorkerType /\ v.pc = to /\ v.sess = w[x].sess /\ v.armed = w[x].armed
  BY <1>1, <1>2 DEF WorkerType
<1>4. w' = [w EXCEPT ![x] = v]
  BY <1>1 DEF Goes
<1> HIDE DEF v
<1>5. SessionFits(v)
  BY <1>1, <1>3 DEF SessionFits, FoundOver
<1> QED
  BY <1>2, <1>3, <1>4, <1>5, WorkerMoves DEF Watches

LEMMA UnknownStep == ASSUME RecoveryInd, NEW x \in Workers, CompactUnknown(x) PROVE RecoveryInd'
<1>1. /\ w[x].pc = "unknown" /\ Leaves(x)
      /\ UNCHANGED <<reg, conn, up, left, stop, recon, ends, shown, early>>
  BY DEF CompactUnknown, Outside, At
<1>2. AliveAs(exec')
  BY AliveWays DEF CompactUnknown
<1>3. ~Watches(x)
  BY <1>1 DEF Watches, Watching, Reads
<1> QED
  BY <1>1, <1>2, <1>3, LeavesKeeps

LEMMA PrepareStep == ASSUME RecoveryInd, NEW x \in Workers, Prepare(x) PROVE RecoveryInd'
<1>0. /\ w[x] \in WorkerType /\ SessionFits(w[x]) /\ w \in [Workers -> WorkerType]
      /\ left \in [lost : 0..MaxLost, faults : 0..MaxFaults] /\ conn \in [gen : 1..MaxConns, live : BOOLEAN]
      /\ exec \in ExecType
  BY TypesOf DEF RecoveryInd, SessionBound
<1>1. /\ w[x].pc = "prepare"
      /\ UNCHANGED <<exec, reg, conn, up, left, stop, recon, ends, shown, early>>
  BY DEF Prepare, Outside, Untouched, At
<1>2. AliveAs(exec')
  BY <1>1, AliveWays
<1>3. CASE Stopped \/ ~Same(x) \/ AwaitingStarted(exec)
  <2>1. Same(x) => ~AwaitingStarted(exec)
    BY <1>0, <1>1 DEF Same, Fence, SessionFits, AwaitingStarted, Reads, ExecType
  <2> QED
    BY <1>1, <1>2, <1>3, <2>1, LeavesKeeps DEF Prepare, Watches
<1>4. CASE ~(Stopped \/ ~Same(x) \/ AwaitingStarted(exec)) /\ ~conn.live
  BY <1>0, <1>1, <1>2, <1>4, GoesKeeps DEF Prepare, Watching, Reads
<1>5. CASE ~(Stopped \/ ~Same(x) \/ AwaitingStarted(exec)) /\ conn.live
  <2> DEFINE b == (reg # NoTicket)
  <2>1. w' = [w EXCEPT ![x] = [w[x] EXCEPT !.pc = "read", !.fresh = TRUE, !.conn = conn.gen, !.armed = b]]
    BY <1>0, <1>5 DEF Prepare
  <2>2. b \in BOOLEAN /\ (b <=> reg # NoTicket)
    OBVIOUS
  <2> HIDE DEF b
  <2> DEFINE v == [w[x] EXCEPT !.pc = "read", !.fresh = TRUE, !.conn = conn.gen, !.armed = b]
  <2>3. conn.gen \in Nat /\ "read" \in Pc
    BY <1>0, Bounds DEF Pc
  <2>4. v \in WorkerType
    BY <1>0, <2>2, <2>3 DEF WorkerType
  <2>5. v.pc = "read" /\ v.sess = w[x].sess /\ v.armed = b
    BY <1>0 DEF WorkerType
  <2>6. w' = [w EXCEPT ![x] = v]
    BY <2>1
  <2> HIDE DEF v
  <2>7. SessionFits(v)
    BY <1>0, <1>1, <2>5 DEF SessionFits, FoundOver, Reads
  <2>8. reg = NoTicket => ~v.armed
    BY <2>2, <2>5
  <2> QED
    BY <1>0, <1>1, <1>2, <2>4, <2>5, <2>6, <2>7, <2>8, WorkerMoves DEF Watching, Reads
<1> QED
  BY <1>3, <1>4, <1>5

LEMMA FewerFaults ==
  ASSUME left \in [lost : 0..MaxLost, faults : 0..MaxFaults], left.faults > 0,
         left' = [left EXCEPT !.faults = @ - 1]
  PROVE  left' \in [lost : 0..MaxLost, faults : 0..MaxFaults]
<1>1. left.faults - 1 \in 0..MaxFaults /\ left' = [left EXCEPT !.faults = left.faults - 1]
  BY Bounds
<1> QED
  BY <1>1

LEMMA ReadStep == ASSUME RecoveryInd, NEW x \in Workers, Read(x) PROVE RecoveryInd'
<1>0. /\ w[x] \in WorkerType /\ SessionFits(w[x]) /\ w \in [Workers -> WorkerType]
      /\ left \in [lost : 0..MaxLost, faults : 0..MaxFaults] /\ up \in UpType
  BY TypesOf DEF RecoveryInd, SessionBound
<1>1. /\ w[x].pc = "read" /\ w[x].pc \in Watching /\ w[x].pc \in Reads
      /\ UNCHANGED <<exec, reg, conn, up, stop, recon, ends, shown, early>>
  BY DEF Read, Outside, Untouched, At, Watching, Reads
<1>2. AliveAs(exec')
  BY <1>1, AliveWays
<1>3. w[x].sess[2] > 0 => w[x].sess[2] \in Turn /\ up.turn[w[x].sess[2]] \in InFlight
  BY <1>0, Bounds DEF WorkerType, Turn, SessionFits
<1>4. ~Active /\ w[x].sess[2] > 0 => up.turn[w[x].sess[2]] = "over"
  BY <1>3 DEF Active, InFlight
<1>5. CASE Stopped /\ Leaves(x) /\ UNCHANGED left
  BY <1>1, <1>2, <1>5, LeavesKeeps
<1>6. CASE ~Stopped /\ ~SameGeneration(x) /\ Goes(x, "degrade") /\ UNCHANGED left
  BY <1>0, <1>1, <1>2, <1>6, GoesKeeps DEF Watching, Reads
<1>7. CASE UNCHANGED left /\ w' = [w EXCEPT ![x].pc = "settle", ![x].over = ReadOver(w[x].sess[2])]
  <2> DEFINE b == ReadOver(w[x].sess[2])
  <2>1. b \in BOOLEAN
    BY DEF ReadOver, Active
  <2>2. b /\ w[x].sess[2] > 0 => up.turn[w[x].sess[2]] = "over"
    BY <1>4 DEF ReadOver
  <2> HIDE DEF b
  <2> DEFINE v == [w[x] EXCEPT !.pc = "settle", !.over = b]
  <2>3. v \in WorkerType
    BY <1>0, <2>1 DEF WorkerType, Pc
  <2>4. v.pc = "settle" /\ v.sess = w[x].sess /\ v.armed = w[x].armed /\ v.over = b
    BY <1>0 DEF WorkerType
  <2>5. w' = [w EXCEPT ![x] = v]
    BY <1>0, <1>7 DEF b
  <2> HIDE DEF v
  <2>6. SessionFits(v)
    BY <1>0, <1>1, <1>3, <2>2, <2>4 DEF SessionFits, FoundOver, Reads
  <2>7. Watches(x) => v.pc \in Watching /\ v.sess = w[x].sess /\ ~v.armed
    BY <2>4 DEF Watches, Watching, Reads
  <2> QED
    BY <1>0, <1>1, <1>2, <1>7, <2>3, <2>4, <2>5, <2>6, <2>7, WorkerMoves
<1>8. CASE /\ left.faults > 0 /\ left' = [left EXCEPT !.faults = @ - 1]
           /\ \E to \in {"degrade", "rearm"} \cup (IF Active THEN {} ELSE {"missing"}) : Goes(x, to)
  <2>1. PICK to \in {"degrade", "rearm"} \cup (IF Active THEN {} ELSE {"missing"}) : Goes(x, to)
    BY <1>8
  <2>2. /\ to \in Watching /\ to \in {"degrade", "rearm", "missing"}
        /\ to = "missing" => ~Active
    BY DEF Watching, Reads
  <2>3. left' \in [lost : 0..MaxLost, faults : 0..MaxFaults]
    BY <1>0, <1>8, FewerFaults
  <2>4. to \in {"missing", "finalize"} /\ w[x].sess[2] > 0 => up.turn[w[x].sess[2]] = "over"
    BY <2>2, <1>4
  <2> QED
    BY <1>1, <1>2, <2>1, <2>2, <2>3, <2>4, GoesKeeps
<1> QED
  BY <1>5, <1>6, <1>7, <1>8 DEF Read

LEMMA SettleStep == ASSUME RecoveryInd, NEW x \in Workers, Settle(x) PROVE RecoveryInd'
<1>0. /\ w[x] \in WorkerType /\ SessionFits(w[x]) /\ w \in [Workers -> WorkerType]
      /\ left \in [lost : 0..MaxLost, faults : 0..MaxFaults] /\ exec \in ExecType
  BY TypesOf DEF RecoveryInd, SessionBound
<1>1. /\ w[x].pc = "settle" /\ w[x].pc \in Watching /\ w[x].pc \in Reads
      /\ UNCHANGED <<reg, conn, up, left, stop, recon, ends, shown, early>>
  BY DEF Settle, Outside, At, Watching, Reads
<1>2. left' \in [lost : 0..MaxLost, faults : 0..MaxFaults]
  BY <1>0, <1>1
<1>3. CASE Told(x) /\ Leaves(x) /\ UNCHANGED exec
  BY <1>1, <1>3, AliveWays, LeavesKeeps DEF Told
<1>4. CASE ~Told(x) /\ ~Current(x) /\ Goes(x, "rearm") /\ UNCHANGED exec
  BY <1>0, <1>1, <1>2, <1>4, AliveWays, GoesKeeps DEF Watching, Reads
<1> DEFINE b == (reg # NoTicket)
<1>b. b \in BOOLEAN /\ (b <=> reg # NoTicket)
  OBVIOUS
<1>m. ASSUME NEW to \in {"finalize", "rearm"}, AliveAs(exec'), to = "finalize" => w[x].over,
             \/ w' = [w EXCEPT ![x].pc = to, ![x].armed = b]
             \/ w' = Stale([w EXCEPT ![x].pc = to, ![x].armed = b])
      PROVE  RecoveryInd'
  <2> HIDE DEF b
  <2> DEFINE v == [w[x] EXCEPT !.pc = to, !.armed = b]
  <2>1. v \in WorkerType
    BY <1>0, <1>b DEF WorkerType, Pc
  <2>2. v.pc = to /\ v.sess = w[x].sess /\ v.armed = b /\ v.over = w[x].over
    BY <1>0 DEF WorkerType
  <2>3. [w EXCEPT ![x].pc = to, ![x].armed = b] = [w EXCEPT ![x] = v]
    BY <1>0
  <2> HIDE DEF v
  <2>4. SessionFits(v)
    BY <1>0, <1>1, <1>m, <2>2 DEF SessionFits, FoundOver, Reads
  <2>5. Watches(x) /\ reg = NoTicket => v.pc \in Watching /\ v.sess = w[x].sess /\ ~v.armed
    BY <2>2, <1>b DEF Watches, Watching, Reads
  <2>6. v.pc # "present"
    BY <2>2
  <2>7. w' = [w EXCEPT ![x] = v] \/ w' = Stale([w EXCEPT ![x] = v])
    BY <1>m, <2>3
  <2> QED
    BY <1>1, <1>2, <1>m, <2>1, <2>4, <2>5, <2>6, <2>7, WorkerMoves
<1>5. CASE /\ w[x].over /\ UNCHANGED exec
           /\ w' = [w EXCEPT ![x].pc = "finalize", ![x].armed = reg # NoTicket]
  BY <1>5, <1>m, AliveWays
<1>6. CASE /\ Current(x) /\ exec' = Acknowledged
           /\ w' = Stale([w EXCEPT ![x].pc = "rearm", ![x].armed = reg # NoTicket])
  <2>1. ~AwaitingStarted(exec)
    BY <1>0, <1>1, <1>6 DEF Current, Same, Fence, SessionFits, AwaitingStarted, ExecType
  <2> QED
    BY <1>6, <1>m, <2>1, AliveWays
<1> QED
  BY <1>3, <1>4, <1>5, <1>6 DEF Settle

LEMMA FallbackStep == ASSUME RecoveryInd, NEW x \in Workers, Fallback(x) PROVE RecoveryInd'
<1>0. /\ w[x] \in WorkerType /\ SessionFits(w[x])
      /\ left \in [lost : 0..MaxLost, faults : 0..MaxFaults]
  BY TypesOf DEF RecoveryInd, SessionBound
<1>1. /\ w[x].pc = "missing" /\ w[x].pc \in Watching /\ w[x].pc \in Reads
      /\ UNCHANGED <<exec, reg, conn, up, left, stop, recon, ends, shown, early>>
  BY DEF Fallback, Outside, Untouched, At, Watching, Reads
<1>2. AliveAs(exec') /\ left' \in [lost : 0..MaxLost, faults : 0..MaxFaults]
  BY <1>0, <1>1, AliveWays
<1>3. CASE Told(x) /\ Leaves(x)
  BY <1>1, <1>2, <1>3, LeavesKeeps DEF Told
<1>4. ASSUME NEW to \in {"finalize", "rearm"}, Goes(x, to) PROVE RecoveryInd'
  <2>1. to \in Watching /\ to # "settle"
    BY DEF Watching, Reads
  <2>2. w[x].sess[2] > 0 => up.turn[w[x].sess[2]] = "over"
    BY <1>0, <1>1 DEF SessionFits, FoundOver
  <2> QED
    BY <1>1, <1>2, <1>4, <2>1, <2>2, GoesKeeps
<1> QED
  BY <1>3, <1>4 DEF Fallback

LEMMA DegradeStep == ASSUME RecoveryInd, NEW x \in Workers, Degrade(x) PROVE RecoveryInd'
<1>0. left \in [lost : 0..MaxLost, faults : 0..MaxFaults]
  BY TypesOf DEF RecoveryInd
<1>1. /\ w[x].pc = "degrade" /\ w[x].pc \in Watching /\ w[x].pc \in Reads
      /\ UNCHANGED <<reg, conn, up, left, stop, recon, ends, shown, early>>
  BY DEF Degrade, Outside, At, Watching, Reads
<1>2. left' \in [lost : 0..MaxLost, faults : 0..MaxFaults]
  BY <1>0, <1>1
<1>3. AliveAs(exec')
  BY AliveWays DEF Degrade
<1>4. CASE Told(x) /\ Leaves(x)
  BY <1>1, <1>3, <1>4, LeavesKeeps DEF Told
<1>5. CASE Goes(x, "rearm")
  BY <1>1, <1>2, <1>3, <1>5, GoesKeeps DEF Watching, Reads
<1> QED
  BY <1>4, <1>5 DEF Degrade

\* A worker that changes the ticket and nothing else.
LEMMA TicketKeeps ==
  ASSUME RecoveryInd, NEW x \in Workers, w' \in [Workers -> WorkerType],
         \A y \in Workers \ {x} : Quiet(w[y], w'[y]),
         UNCHANGED <<exec, conn, up, left, stop, recon, ends, shown, early>>,
         SessionFits(w'[x]), w'[x].pc # "present", reg' \in RegType, Watched'
  PROVE  RecoveryInd'
<1>0. /\ exec \in ExecType /\ conn \in [gen : 1..MaxConns, live : BOOLEAN]
      /\ left \in [lost : 0..MaxLost, faults : 0..MaxFaults] /\ ends \in [Exec -> Nat]
      /\ shown \in [Exec -> Nat] /\ stop \in {"no", "requested", "joined", "cancelled"} /\ recon \subseteq Exec
  BY TypesOf DEF RecoveryInd
<1>1. SessionBound'
  BY OthersSessions DEF RecoveryInd
<1>2. EndedOnce' /\ ExecBound' /\ NeverRetiredEarly'
  BY DEF RecoveryInd, EndedOnce, ExecBound, Ongoing, NeverRetiredEarly
<1>3. Tickets'
  <2>1. \A y \in Workers, i \in Exec : Holds(y, i)' => Holds(y, i)
    BY DEF Holds, Quiet
  <2> QED
    BY <2>1 DEF RecoveryInd, Tickets
<1>4. TurnsInOrder' /\ WireIsHonest' /\ Advance /\ up' \in UpType
  BY <1>0, UpRests
<1> QED
  BY <1>0, <1>1, <1>2, <1>3, <1>4, Closes

LEMMA FireStep == ASSUME RecoveryInd, NEW x \in Workers, Fire(x) PROVE RecoveryInd'
<1>0. reg \in RegType /\ w \in [Workers -> WorkerType]
  BY TypesOf DEF RecoveryInd
<1>1. /\ reg # NoTicket /\ reg' = [reg EXCEPT !.fired = TRUE]
      /\ UNCHANGED <<exec, conn, up, left, stop, recon, ends, shown, early>>
  BY DEF Fire, Outside
<1> DEFINE v == [Idle EXCEPT !.pc = "consume", !.own = TRUE]
<1>2. w' = [w EXCEPT ![x] = v]
  BY DEF Fire
<1>3. v \in WorkerType /\ v.pc = "consume" /\ v.own = TRUE /\ v.sess[2] = 0
  BY IdleWorker
<1> HIDE DEF v
<1>4. Others(x) /\ w'[x].pc = "consume" /\ w'[x].own = TRUE /\ w'[x].sess[2] = 0
  BY <1>0, <1>2, <1>3, OneMoves
<1>5. SessionFits(w'[x])
  BY <1>4 DEF SessionFits, Reads, FoundOver
<1>6. /\ reg' \in RegType /\ reg'.fired = TRUE
      /\ reg'.inc = reg.inc /\ reg'.turn = reg.turn /\ reg'.page = reg.page
  BY <1>0, <1>1 DEF RegType
<1>7. Watched'
  <2>1. reg' # NoTicket
    BY <1>6 DEF NoTicket
  <2>2. ASSUME exec'.page = 1, exec'.kind # "compact", ~Stopped' PROVE TicketFits'
    <3>1. TicketFits
      BY <1>1, <2>2 DEF RecoveryInd, Watched, Stopped
    <3> QED
      BY <1>1, <1>6, <3>1 DEF TicketFits
  <2> QED
    BY <1>4, <2>1, <2>2 DEF Watched
<1> QED
  BY <1>1, <1>4, <1>5, <1>6, <1>7, TicketKeeps DEF Others

LEMMA NoTicketType == NoTicket \in RegType /\ NoTicket.fired = FALSE
BY Bounds DEF NoTicket, RegType

LEMMA ConsumeStep == ASSUME RecoveryInd, NEW x \in Workers, Consume(x) PROVE RecoveryInd'
<1>0. /\ reg \in RegType /\ w \in [Workers -> WorkerType] /\ w[x] \in WorkerType /\ exec \in ExecType
  BY TypesOf DEF RecoveryInd
<1> DEFINE current == reg.inc = exec.inc /\ reg.turn = exec.turn /\ reg.page = exec.page /\ exec.running
           taken == [w[x] EXCEPT !.sess = Fence(exec), !.armed = FALSE]
<1>1. /\ w[x].pc = "consume" /\ UNCHANGED <<exec, conn, up, left, stop, recon, ends, shown, early>>
      /\ reg' = IF w[x].own THEN NoTicket ELSE reg
      /\ ~Watches(x)
  BY DEF Consume, At, Outside, Watches, Watching, Reads
<1>2. CASE ~w[x].own
  BY <1>1, <1>2, AliveWays, LeavesKeeps DEF Consume
<1>3. CASE w[x].own /\ (~current \/ Stopped)
  <2>1. Leaves(x) /\ reg' = NoTicket
    BY <1>1, <1>3 DEF Consume
  <2>2. Others(x) /\ w'[x].pc = "idle" /\ w'[x].sess = Idle.sess
    BY <1>0, <2>1, IdleWorker, OneMoves DEF Leaves
  <2>3. SessionFits(w'[x])
    BY <2>2, IdleWorker DEF SessionFits, Reads, FoundOver
  <2>4. Watched'
    <3>1. ASSUME exec'.page = 1, exec'.kind # "compact", ~Stopped' PROVE \E y \in Workers : Watches(y)'
      <4>1. ~Stopped /\ exec.page = 1 /\ exec.kind # "compact" /\ exec.running
        BY <1>1, <3>1 DEF Stopped, RecoveryInd, ExecBound, Ongoing
      <4>2. ~TicketFits
        BY <1>3, <4>1 DEF TicketFits
      <4>3. PICK y \in Workers : Watches(y)
        BY <4>1, <4>2 DEF RecoveryInd, Watched
      <4>4. Watches(y)'
        BY <1>1, <2>2, <4>3 DEF Watches, Same, Fence, Others, Quiet
      <4> QED
        BY <4>4
    <3> QED
      BY <2>1, <3>1, NoTicketType DEF Watched
  <2> QED
    BY <1>1, <2>1, <2>2, <2>3, <2>4, NoTicketType, TicketKeeps DEF Others
<1>4. CASE w[x].own /\ current /\ ~Stopped
  <2>0. reg' = NoTicket
    BY <1>1, <1>4
  <2>1. PICK to \in {"prepare", "rearm", "unknown"} :
          /\ to = "prepare" => ~AwaitingStarted(exec)
          /\ to = "unknown" => exec.kind = "compact"
          /\ w' = [w EXCEPT ![x] = [taken EXCEPT !.pc = to]]
    BY <1>4 DEF Consume
  <2> DEFINE v == [taken EXCEPT !.pc = to]
  <2>2. v \in WorkerType
    BY <1>0, FenceType DEF WorkerType, Pc
  <2>3. v.pc = to /\ v.sess = Fence(exec) /\ v.armed = FALSE
    BY <1>0 DEF WorkerType
  <2> HIDE DEF v
  <2>4. Others(x) /\ w'[x].pc = to /\ w'[x].sess = Fence(exec) /\ w'[x].armed = FALSE
    BY <1>0, <2>1, <2>2, <2>3, OneMoves DEF v
  <2>5. Fence(exec)[2] = exec.turn /\ Fence(exec)[3] = exec.page
    BY DEF Fence
  <2>6. SessionFits(w'[x])
    <3>1. exec.turn > 0 => up.turn[exec.turn] \in InFlight
      BY DEF RecoveryInd, ExecBound
    <3>2. to = "prepare" /\ exec.turn = 0 => exec.page = 0
      BY <1>0, <2>1 DEF RecoveryInd, ExecBound, AwaitingStarted, ExecType
    <3> QED
      BY <2>1, <2>4, <2>5, <3>1, <3>2 DEF SessionFits, Reads, FoundOver
  <2>7. Watched'
    <3>1. ASSUME exec'.kind # "compact" PROVE Watches(x)'
      <4>1. to \in Watching
        BY <1>1, <2>1, <3>1 DEF Watching, Reads
      <4>2. Same(x)'
        BY <1>1, <2>4 DEF Same, Fence
      <4> QED
        BY <2>4, <4>1, <4>2 DEF Watches
    <3> QED
      BY <2>0, <3>1, NoTicketType DEF Watched
  <2> QED
    BY <1>1, <2>0, <2>1, <2>4, <2>6, <2>7, NoTicketType, TicketKeeps DEF Others
<1> QED
  BY <1>2, <1>3, <1>4

LEMMA RearmStep == ASSUME RecoveryInd, NEW x \in Workers, Rearm(x) PROVE RecoveryInd'
<1>0. /\ w \in [Workers -> WorkerType] /\ w[x] \in WorkerType /\ exec \in ExecType
  BY TypesOf DEF RecoveryInd
<1>1. /\ w[x].pc = "rearm" /\ UNCHANGED <<exec, conn, up, left, stop, recon, ends, shown, early>>
  BY DEF Rearm, At, Outside
<1>2. CASE reg' = Armed(exec) /\ w' = [Replaced EXCEPT ![x] = Idle]
  <2>1. /\ w' \in [Workers -> WorkerType] /\ w'[x] = Idle
        /\ \A y \in Workers \ {x} : Quiet(w[y], w'[y])
    BY <1>0, <1>2, ReplacedQuiet, IdleWorker
  <2>2. SessionFits(w'[x]) /\ w'[x].pc # "present"
    BY <2>1, IdleWorker DEF SessionFits, Reads, FoundOver
  <2>3. Watched' /\ reg' \in RegType
    BY <1>0, <1>1, <1>2, ArmedIsWatched DEF RecoveryInd, ExecBound, Ongoing
  <2> QED
    BY <1>1, <2>1, <2>2, <2>3, TicketKeeps
<1>3. CASE ~(~Told(x) /\ Same(x) /\ (reg # NoTicket) = w[x].armed) /\ Leaves(x) /\ UNCHANGED reg
  <2>1. ASSUME Watches(x), ~Stopped PROVE reg # NoTicket
    <3>1. Same(x) /\ w[x].armed = FALSE
      BY <1>0, <2>1 DEF Watches, WorkerType
    <3> QED
      BY <1>3, <2>1, <3>1 DEF Told
  <2> QED
    BY <1>1, <1>3, <2>1, AliveWays, LeavesKeeps
<1> QED
  BY <1>2, <1>3 DEF Rearm

LEMMA PresentStep == ASSUME RecoveryInd, NEW x \in Workers, Present(x) PROVE RecoveryInd'
<1>0. /\ exec \in ExecType /\ reg \in RegType /\ w \in [Workers -> WorkerType] /\ up \in UpType
      /\ conn \in [gen : 1..MaxConns, live : BOOLEAN]
      /\ left \in [lost : 0..MaxLost, faults : 0..MaxFaults] /\ ends \in [Exec -> Nat]
      /\ shown \in [Exec -> Nat] /\ stop \in {"no", "requested", "joined", "cancelled"} /\ recon \subseteq Exec
      /\ w[x] \in WorkerType
  BY TypesOf DEF RecoveryInd
<1>1. /\ w[x].pc = "present" /\ Leaves(x) /\ ~Watches(x)
      /\ UNCHANGED <<exec, reg, conn, up, left, stop, recon, ends, early>>
  BY DEF Present, At, Outside, Watches, Watching, Reads
<1>2. CASE UNCHANGED shown
  BY <1>1, <1>2, AliveWays, LeavesKeeps
<1>3. CASE Presented(w[x].sess[1], w[x].sess[3])
  <2> DEFINE i == w[x].sess[1]
             page == w[x].sess[3]
  <2>1. i \in Nat /\ page \in Nat
    BY <1>0, Bounds DEF WorkerType
  <2>2. page > 0 => Holds(x, i)
    BY <1>1 DEF Holds
  <2>3. Presented(i, page)
    BY <1>3
  <2> HIDE DEF i, page
  <2>4. /\ shown' \in [Exec -> Nat]
        /\ \A j \in Exec : shown'[j] = IF page > 0 /\ j = i THEN shown[j] + 1 ELSE shown[j]
    <3>1. CASE page > 0
      <4>1. shown' = [j \in Exec |-> IF j = i THEN shown[i] + 1 ELSE shown[j]]
        BY <1>0, <2>3, <3>1 DEF Presented
      <4>2. \A j \in Exec : shown[j] + 1 \in Nat
        BY <1>0
      <4> QED
        BY <1>0, <3>1, <4>1, <4>2
    <3>2. CASE ~(page > 0)
      BY <1>0, <2>3, <3>2 DEF Presented
    <3> QED
      BY <3>1, <3>2
  <2>5. Others(x) /\ w'[x].pc = "idle" /\ w'[x].sess = Idle.sess
    BY <1>0, <1>1, IdleWorker, OneMoves DEF Leaves
  <2>6. SessionFits(w'[x])
    BY <2>5, IdleWorker DEF SessionFits, Reads, FoundOver
  <2>7. Tickets'
    <3>1. \A y \in Workers, j \in Exec : Holds(y, j)' => Holds(y, j) /\ y # x
      BY <2>5 DEF Holds, Others, Quiet
    <3>2. \A j \in Exec : page > 0 /\ j = i =>
            ends[j] = 1 /\ shown[j] = 0 /\ j \notin recon /\ \A y \in Workers : Holds(y, j) => y = x
      BY <2>2 DEF RecoveryInd, Tickets
    <3>3. \A j \in Exec : shown'[j] <= ends'[j]
      BY <1>1, <2>4, <3>2 DEF RecoveryInd, Tickets
    <3>4. \A j \in Exec : j \in recon' => ends'[j] = 1 /\ shown'[j] = 0
      BY <1>1, <2>4, <3>2 DEF RecoveryInd, Tickets
    <3>5. \A j \in Exec, y \in Workers : Holds(y, j)' =>
             /\ ends'[j] = 1 /\ shown'[j] = 0 /\ j \notin recon'
             /\ \A z \in Workers : Holds(z, j)' => z = y
      BY <1>1, <2>4, <3>1, <3>2 DEF RecoveryInd, Tickets
    <3> QED
      BY <3>3, <3>4, <3>5 DEF Tickets
  <2>8. Watched'
    <3>1. \A y \in Workers \ {x} : /\ Watches(y) => Watches(y)'
                                   /\ w'[y].own = w[y].own /\ w'[y].pc = w[y].pc
      BY <1>1, <2>5 DEF Watches, Same, Fence, Others, Quiet
    <3>2. \A y \in Workers : w[y].pc = "consume" \/ Watches(y) => y # x
      BY <1>1
    <3> QED
      BY <1>1, <3>1, <3>2 DEF RecoveryInd, Watched, TicketFits, Stopped
  <2>9. SessionBound' /\ EndedOnce' /\ ExecBound' /\ NeverRetiredEarly'
    <3>1. SessionBound'
      BY <1>1, <2>5, <2>6, OthersSessions DEF RecoveryInd, Others
    <3>2. EndedOnce' /\ ExecBound' /\ NeverRetiredEarly'
      BY <1>1 DEF RecoveryInd, EndedOnce, ExecBound, Ongoing, NeverRetiredEarly
    <3> QED
      BY <3>1, <3>2
  <2>10. TurnsInOrder' /\ WireIsHonest' /\ up' \in UpType
    BY <1>0, <1>1, UpRests
  <2> QED
    BY <1>0, <1>1, <2>4, <2>5, <2>7, <2>8, <2>9, <2>10, Closes DEF Others
<1> QED
  BY <1>2, <1>3 DEF Present

LEMMA FinalizeStep == ASSUME RecoveryInd, NEW x \in Workers, FinalizeStaged(x) PROVE RecoveryInd'
<1>0. /\ exec \in ExecType /\ w \in [Workers -> WorkerType]
      /\ conn \in [gen : 1..MaxConns, live : BOOLEAN]
      /\ left \in [lost : 0..MaxLost, faults : 0..MaxFaults] /\ ends \in [Exec -> Nat]
      /\ shown \in [Exec -> Nat] /\ stop \in {"no", "requested", "joined", "cancelled"} /\ recon \subseteq Exec
      /\ w[x] \in WorkerType /\ SessionFits(w[x])
  BY TypesOf DEF RecoveryInd, SessionBound
<1>1. /\ w[x].pc = "finalize" /\ w[x].pc \in Watching /\ w[x].pc \in Reads
      /\ UNCHANGED <<conn, up, left, stop, recon, shown>>
  BY DEF FinalizeStaged, At, Outside, Watching, Reads
<1>2. CASE /\ Told(x) \/ ~Same(x)
           /\ IF Told(x) THEN Leaves(x) ELSE Goes(x, "rearm")
           /\ UNCHANGED <<exec, reg, ends, early>>
  <2>1. AliveAs(exec')
    BY <1>2, AliveWays
  <2>2. CASE Told(x)
    BY <1>1, <1>2, <2>1, <2>2, LeavesKeeps DEF Told
  <2>3. CASE ~Told(x)
    BY <1>0, <1>1, <1>2, <2>1, <2>3, GoesKeeps DEF Watching, Reads
  <2> QED
    BY <2>2, <2>3
<1>3. CASE Same(x) /\ Finalized(exec, TRUE) /\ w' = [Replaced EXCEPT ![x].pc = "present"]
  <2>1. MayEnd
    <3>1. w[x].sess[2] = exec.turn /\ w[x].sess[3] = exec.page
      BY <1>3 DEF Same, Fence
    <3>2. CASE exec.turn > 0
      BY <1>0, <1>1, <3>1, <3>2 DEF RecoveryInd, ExecBound, SessionFits, FoundOver, MayEnd
    <3>3. CASE exec.turn = 0
      BY <1>0, <1>1, <3>1, <3>3 DEF SessionFits, Anchored, MayEnd
    <3> QED
      BY <1>0, <3>2, <3>3 DEF ExecType
  <2>2. /\ exec' \in ExecType /\ ExecBound' /\ NeverRetiredEarly' /\ EndedOnce' /\ exec'.turn = 0
        /\ ends' \in [Exec -> Nat] /\ Watched' /\ reg' \in RegType
        /\ \A i \in Exec : ends[i] = 1 => ends'[i] = 1
        /\ exec.page > 0 =>
              /\ exec.inc \in Exec /\ ends[exec.inc] = 0 /\ ends'[exec.inc] = 1
              /\ shown[exec.inc] = 0 /\ exec.inc \notin recon
              /\ \A y \in Workers : ~Holds(y, exec.inc)
    BY <1>3, <2>1, Retires
  <2>3. TurnsInOrder' /\ WireIsHonest' /\ Advance /\ up' \in UpType
    BY <1>1, <2>2, UpRests
  <2>4. /\ w' \in [Workers -> WorkerType] /\ w'[x].pc = "present" /\ w'[x].sess = w[x].sess
        /\ \A y \in Workers \ {x} : Quiet(w[y], w'[y])
    <3>1. Replaced \in [Workers -> WorkerType] /\ \A y \in Workers : Quiet(w[y], Replaced[y])
      BY <1>0, ReplacedQuiet
    <3> DEFINE rs == Replaced
               v == [rs[x] EXCEPT !.pc = "present"]
    <3>2. w' = [rs EXCEPT ![x] = v]
      BY <1>3, <3>1
    <3>3. v \in WorkerType /\ v.pc = "present" /\ v.sess = w[x].sess
      BY <3>1 DEF WorkerType, Quiet, Pc
    <3> HIDE DEF v
    <3> QED
      BY <3>1, <3>2, <3>3
  <2>5. SessionBound'
    <3>1. SessionFits(w'[x])
      BY <1>0, <1>1, <2>4 DEF SessionFits, Reads, FoundOver
    <3> QED
      BY <1>1, <2>4, <3>1, OthersSessions DEF RecoveryInd
  <2>6. Tickets'
    <3>1. \A y \in Workers \ {x}, i \in Exec : Holds(y, i)' <=> Holds(y, i)
      BY <2>4 DEF Holds, Quiet
    <3>2. ~\E i \in Exec : Holds(x, i)
      BY <1>1 DEF Holds
    <3>3. \A i \in Exec : Holds(x, i)' => i = exec.inc /\ exec.page > 0
      BY <1>3, <2>4 DEF Holds, Same, Fence
    <3>4. ends \in [Exec -> Nat] /\ ends' \in [Exec -> Nat] /\ shown \in [Exec -> Nat]
          /\ \A i \in Exec : ends[i] <= 1 /\ shown[i] <= ends[i]
      BY <1>0, <2>2 DEF RecoveryInd, EndedOnce, Tickets
    <3>5. \A i \in Exec : shown'[i] <= ends'[i]
      BY <1>1, <2>2, <3>4
    <3>6. \A i \in Exec : i \in recon' => ends'[i] = 1 /\ shown'[i] = 0
      BY <1>1, <2>2 DEF RecoveryInd, Tickets
    <3>7. \A i \in Exec, y \in Workers : Holds(y, i)' =>
             /\ ends'[i] = 1 /\ shown'[i] = 0 /\ i \notin recon'
             /\ \A z \in Workers : Holds(z, i)' => z = y
      <4> SUFFICES ASSUME NEW i \in Exec, NEW y \in Workers, Holds(y, i)'
                   PROVE  /\ ends'[i] = 1 /\ shown'[i] = 0 /\ i \notin recon'
                          /\ \A z \in Workers : Holds(z, i)' => z = y
        OBVIOUS
      <4>1. CASE y = x
        BY <1>1, <2>2, <3>1, <3>3, <4>1
      <4>2. CASE y # x
        <5>1. Holds(y, i)
          BY <3>1, <4>2
        <5>2. ends[i] = 1 /\ shown[i] = 0 /\ i \notin recon /\ \A z \in Workers : Holds(z, i) => z = y
          BY <5>1 DEF RecoveryInd, Tickets
        <5>3. ~Holds(x, i)'
          BY <2>2, <3>3, <5>1
        <5> QED
          BY <1>1, <2>2, <3>1, <5>2, <5>3
      <4> QED
        BY <4>1, <4>2
    <3> QED
      BY <3>5, <3>6, <3>7 DEF Tickets
  <2> QED
    BY <1>0, <1>1, <2>2, <2>3, <2>4, <2>5, <2>6, Closes
<1> QED
  BY <1>2, <1>3 DEF FinalizeStaged

LEMMA WorkerStep == ASSUME RecoveryInd, NEW x \in Workers, Worker(x) PROVE RecoveryInd'
BY ConsumeStep, UnknownStep, PrepareStep, ReadStep, SettleStep, FallbackStep, DegradeStep,
   FinalizeStep, PresentStep, RearmStep DEF Worker

LEMMA NextStep == ASSUME RecoveryInd, [Next]_vars PROVE RecoveryInd'
<1>1. CASE Next
  <2>1. ASSUME NEW t \in Turn, Begin(t) \/ Work(t) \/ End(t) \/ StartElsewhere(t) PROVE RecoveryInd'
    BY <2>1, BeginStep, WorkStep, EndStep, StartElsewhereStep
  <2>2. ASSUME NEW x \in Workers, Fire(x) \/ Worker(x) PROVE RecoveryInd'
    BY <2>2, FireStep, WorkerStep
  <2> QED
    BY <1>1, <2>1, <2>2, StartStep, LoseStep, HandlerStep, RolloverStep, DisconnectStep, AskAgainStep,
       ReconcileStep, ShutdownStep, CancelledStep DEF Next
<1>2. CASE UNCHANGED vars
  <2>1. /\ UNCHANGED <<exec, reg, w, conn, left, stop, recon, ends, shown, early>> /\ UNCHANGED up
    BY <1>2 DEF vars
  <2>2. up' \in UpType /\ Advance
    BY <2>1 DEF Advance, RecoveryInd, Typed
  <2>3. TurnsInOrder' /\ WireIsHonest'
    BY <2>1 DEF RecoveryInd, TurnsInOrder, WireIsHonest, Honest
  <2> QED
    BY <2>1, <2>2, <2>3, ServerKeeps DEF Kept
<1> QED
  BY <1>1, <1>2

LEMMA RecoveryInit == Init => RecoveryInd
<1> SUFFICES ASSUME Init PROVE RecoveryInd
  OBVIOUS
<1>1. /\ exec = NoExec /\ reg = NoTicket /\ w = [x \in Workers |-> Idle]
      /\ stop = "no" /\ recon = {} /\ early = {}
      /\ ends = [i \in Exec |-> 0] /\ shown = [i \in Exec |-> 0]
      /\ up.turn = [t \in Turn |-> "none"] /\ up.net = <<>>
  BY DEF Init
<1>2. exec \in ExecType /\ exec.inc = 0 /\ exec.page = 0 /\ exec.turn = 0 /\ exec.for = 0 /\ exec.await = FALSE
  BY <1>1, Bounds DEF NoExec, ExecType
<1>3. reg \in RegType /\ reg.fired = FALSE
  BY <1>1, NoTicketType
<1>4. \A x \in Workers : w[x] = Idle
  BY <1>1
<1>5. up \in UpType
  <2>1. \A t \in Turn : MaxWork \in Nat
    BY Bounds
  <2> QED
    BY <2>1 DEF Init, UpType
<1>6. Typed
  <2>1. w \in [Workers -> WorkerType]
    BY <1>1, IdleWorker
  <2>2. conn \in [gen : 1..MaxConns, live : BOOLEAN] /\ left \in [lost : 0..MaxLost, faults : 0..MaxFaults]
    BY Bounds DEF Init
  <2>3. ends \in [Exec -> Nat] /\ shown \in [Exec -> Nat]
    BY <1>1
  <2> QED
    BY <1>1, <1>2, <1>3, <1>5, <2>1, <2>2, <2>3, TypedFrom
<1>7. NeverRetiredEarly /\ TurnsInOrder /\ ExecBound /\ WireIsHonest
  BY <1>1, <1>2 DEF NeverRetiredEarly, TurnsInOrder, ExecBound, Ongoing, WireIsHonest
<1>8. SessionBound
  <2>1. SessionFits(Idle)
    BY IdleWorker DEF SessionFits, Reads, FoundOver
  <2> SUFFICES ASSUME NEW x \in Workers PROVE SessionFits(w[x])
    BY DEF SessionBound
  <2>2. w[x] = Idle
    BY <1>4
  <2> HIDE DEF Idle
  <2> QED
    BY <2>1, <2>2
<1>9. EndedOnce /\ Tickets
  BY <1>1, <1>4, IdleWorker DEF EndedOnce, Tickets, Holds
<1>10. Watched
  BY <1>2, <1>3 DEF Watched
<1> QED
  BY <1>6, <1>7, <1>8, <1>9, <1>10 DEF RecoveryInd

-----------------------------------------------------------------------------
(* The histories, and what the invariant says of the properties.            *)

Recorded == late \subseteq Workers /\ early \subseteq Exec \X BOOLEAN

LEMMA EarlyRecorded ==
  ASSUME RecoveryInd, early \subseteq Exec \X BOOLEAN
  PROVE  EarlyIf(exec) \subseteq Exec \X BOOLEAN
<1>1. exec.for > 0 => exec.inc \in Exec
  BY TypesOf, Bounds DEF RecoveryInd, ExecBound, ExecType, Exec
<1>2. Anchored(exec) \in BOOLEAN
  BY DEF Anchored
<1> QED
  BY <1>1, <1>2 DEF EarlyIf

LEMMA FinalizedRecords ==
  ASSUME NEW over \in BOOLEAN, Finalized(exec, over) PROVE early' \in {early, EarlyIf(exec)}
BY DEF Finalized

LEMMA HandlerRecords ==
  ASSUME Handler PROVE early' \in {early, EarlyIf(exec)} /\ late' = late
BY FinalizedRecords
   DEF Handler, OnStarted, OnWork, OnItem, OnCompleted, OnIdle, OnError, OnClosed, OnActive,
       Heartbeat, TerminalSignal, SettledIdle, Ignored

LEMMA WorkerRecords ==
  ASSUME NEW x \in Workers, Fire(x) \/ Worker(x)
  PROVE  early' \in {early, EarlyIf(exec)} /\ late' = late \ {x}
BY FinalizedRecords
   DEF Worker, Fire, Consume, CompactUnknown, Prepare, Read, Settle, Fallback, Degrade,
       FinalizeStaged, Present, Rearm, Outside, Untouched

LEMMA NextRecords ==
  ASSUME Next, late \subseteq Workers
  PROVE  early' \in {early, EarlyIf(exec)} /\ late' \subseteq Workers
<1>1. ASSUME NEW t \in Turn, Begin(t) \/ Work(t) \/ End(t) \/ StartElsewhere(t)
      PROVE  UNCHANGED <<early, late>>
  BY <1>1 DEF Begin, Work, End, StartElsewhere
<1>2. ASSUME NEW t \in Turn, NEW k \in Kinds, NEW page \in {0, 1}, Start(t, k, page)
      PROVE  UNCHANGED <<early, late>>
  BY <1>2 DEF Start
<1>3. ASSUME Lose \/ Rollover \/ Joined \/ TimersCancelled
             \/ \E i \in Exec : TerminalReconcile(i)
      PROVE  UNCHANGED <<early, late>>
  BY <1>3 DEF Lose, Rollover, Joined, TimersCancelled, TerminalReconcile
<1>4. ASSUME Disconnect \/ AskAgain PROVE early' \in {early, EarlyIf(exec)} /\ late' = late
  BY <1>4, FinalizedRecords DEF Disconnect, AskAgain
<1>5. ASSUME StopRequested PROVE early' = early /\ late' \subseteq Workers
  BY <1>5 DEF StopRequested
<1> QED
  BY <1>1, <1>2, <1>3, <1>4, <1>5, HandlerRecords, WorkerRecords DEF Next

LEMMA RecordedStep == ASSUME RecoveryInd, Recorded, [Next]_vars PROVE Recorded'
<1>1. CASE Next
  BY <1>1, NextRecords, EarlyRecorded DEF Recorded
<1>2. CASE UNCHANGED vars
  BY <1>2 DEF vars, Recorded
<1> QED
  BY <1>1, <1>2

\* What the invariant says of the properties that are checked.
LEMMA RecoveryImplies == RecoveryInd /\ Recorded => ExecutionInvariant
<1> SUFFICES ASSUME RecoveryInd, Recorded PROVE ExecutionInvariant
  OBVIOUS
<1>1. TypeOK /\ NeverRetiredEarly
  BY DEF RecoveryInd, Recorded, Typed, TypeOK, ExecType, RegType, WorkerType, UpType
<1>2. OneResult
  <2>1. ends \in [Exec -> Nat] /\ shown \in [Exec -> Nat]
    BY TypesOf DEF RecoveryInd
  <2>2. \A i \in Exec : ends[i] <= 1 /\ shown[i] <= ends[i]
    BY DEF RecoveryInd, EndedOnce, Tickets
  <2> QED
    BY <2>1, <2>2 DEF OneResult
<1>3. RunningIsWatched
  <2> SUFFICES ASSUME exec.page = 1, exec.kind # "compact", ~Stopped
               PROVE  \/ reg.inc = exec.inc /\ reg.turn = exec.turn /\ reg.page = exec.page
                      \/ \E x \in Workers : w[x].pc \notin {"idle", "consume", "unknown", "present"} /\ Same(x)
    BY DEF RunningIsWatched
  <2>1. TicketFits \/ \E x \in Workers : Watches(x)
    BY DEF RecoveryInd, Watched
  <2> QED
    BY <2>1 DEF TicketFits, Watches, Watching, Reads
<1> QED
  BY <1>1, <1>2, <1>3 DEF ExecutionInvariant

\* An execution is retired once, and one that has a page or its turn not before
\* that turn is over; its result is presented once, and a plain execution on
\* its first page never loses its watchdog, for any number of workers, turns,
\* executions, pages, lost notifications, failed reads and connections, and
\* whether the app-server says idle, error or closed.
THEOREM ExecutionSafety == Spec => []ExecutionInvariant
<1>1. Init => RecoveryInd /\ Recorded
  BY RecoveryInit DEF Init, Recorded
<1>2. RecoveryInd /\ Recorded /\ [Next]_vars => (RecoveryInd /\ Recorded)'
  BY NextStep, RecordedStep
<1>3. RecoveryInd /\ Recorded => ExecutionInvariant
  BY RecoveryImplies
<1> QED
  BY <1>1, <1>2, <1>3, PTL DEF Spec

-----------------------------------------------------------------------------
(* The shutdown.                                                            *)

\* Until it is requested there is no barrier; behind it nothing is added.
LEMMA WorkersRest ==
  ASSUME RecoveryInd, NothingBehindTheBarrier, recon' \subseteq recon,
         stop' = stop \/ (stop = "joined" /\ stop' = "cancelled"),
         w' \in {w, Replaced, Stale(w), Stale(Replaced)}
  PROVE  NothingBehindTheBarrier'
<1>1. \A x \in Workers : w'[x].pc = w[x].pc
  BY QuietWays DEF RecoveryInd, QuietWorkers, Quiet
<1> QED
  BY <1>1 DEF NothingBehindTheBarrier

LEMMA HandlerBehind ==
  ASSUME RecoveryInd, NothingBehindTheBarrier, Handler PROVE NothingBehindTheBarrier'
<1>1. stop' = stop /\ (stop # "no" => recon' = recon)
  BY DEF Handler, OnStarted, OnWork, OnItem, OnCompleted, OnIdle, OnError, OnClosed, OnActive,
         Heartbeat, TerminalSignal, SettledIdle, Ignored, Reconciles
<1>2. w' \in {w, Stale(w), Stale(Replaced)}
  BY DEF Handler, OnStarted, OnWork, OnItem, OnCompleted, OnIdle, OnError, OnClosed, OnActive, Ignored
<1>3. CASE stop = "no"
  BY <1>1, <1>3 DEF NothingBehindTheBarrier
<1>4. CASE stop # "no"
  BY <1>1, <1>2, <1>4, WorkersRest
<1> QED
  BY <1>3, <1>4

\* No worker starts once the stop is requested, and none has work left then.
LEMMA WorkerBehind ==
  ASSUME NothingBehindTheBarrier, NEW x \in Workers, Fire(x) \/ Worker(x)
  PROVE  NothingBehindTheBarrier'
<1>1. stop' = stop
  BY DEF Worker, Fire, Consume, CompactUnknown, Prepare, Read, Settle, Fallback, Degrade,
         FinalizeStaged, Present, Rearm, Outside
<1>2. ~Stopped \/ w[x].pc # "idle"
  BY DEF Worker, Fire, Consume, CompactUnknown, Prepare, Read, Settle, Fallback, Degrade,
         FinalizeStaged, Present, Rearm, At
<1> QED
  BY <1>1, <1>2 DEF NothingBehindTheBarrier, Stopped

LEMMA NextBehind ==
  ASSUME RecoveryInd, NothingBehindTheBarrier, [Next]_vars PROVE NothingBehindTheBarrier'
<1>1. ASSUME NEW t \in Turn, Begin(t) \/ Work(t) \/ End(t) \/ StartElsewhere(t)
      PROVE  NothingBehindTheBarrier'
  BY <1>1, WorkersRest DEF Begin, Work, End, StartElsewhere
<1>2. ASSUME NEW t \in Turn, NEW k \in Kinds, NEW page \in {0, 1}, Start(t, k, page)
      PROVE  NothingBehindTheBarrier'
  BY <1>2, WorkersRest DEF Start
<1>3. ASSUME Lose \/ Rollover \/ Disconnect PROVE NothingBehindTheBarrier'
  BY <1>3, WorkersRest DEF Lose, Rollover, Disconnect
<1>4. ASSUME AskAgain PROVE NothingBehindTheBarrier'
  BY <1>4 DEF AskAgain, Stopped, NothingBehindTheBarrier
<1>5. ASSUME NEW i \in Exec, TerminalReconcile(i) PROVE NothingBehindTheBarrier'
  BY <1>5, WorkersRest DEF TerminalReconcile
<1>6. ASSUME StopRequested PROVE NothingBehindTheBarrier'
  BY <1>6 DEF StopRequested, NothingBehindTheBarrier
<1>7. ASSUME Joined PROVE NothingBehindTheBarrier'
  BY <1>7 DEF Joined, At, NothingBehindTheBarrier
<1>8. ASSUME TimersCancelled PROVE NothingBehindTheBarrier'
  BY <1>8, WorkersRest DEF TimersCancelled
<1>9. ASSUME UNCHANGED vars PROVE NothingBehindTheBarrier'
  BY <1>9, WorkersRest DEF vars
<1> QED
  BY <1>1, <1>2, <1>3, <1>4, <1>5, <1>6, <1>7, <1>8, <1>9, HandlerBehind, WorkerBehind DEF Next

\* When the timers are cancelled no recovery worker is left, and none is
\* started: neither by a worker that asked for the stop too early, nor by a
\* timer or a notification, of which there are any number.
THEOREM ShutdownSafety == Spec => []NothingBehindTheBarrier
<1>1. Init => RecoveryInd /\ NothingBehindTheBarrier
  BY RecoveryInit DEF Init, NothingBehindTheBarrier
<1>2. RecoveryInd /\ NothingBehindTheBarrier /\ [Next]_vars
        => (RecoveryInd /\ NothingBehindTheBarrier)'
  BY NextStep, NextBehind
<1> QED
  BY <1>1, <1>2, PTL DEF Spec

-----------------------------------------------------------------------------
(***************************************************************************)
(* Execution output, for any number of patch workers, any page size,       *)
(* transcript length and number of attempts.                               *)
(*                                                                         *)
(* The ledger is exact (LedgerInv) and each card is in one place, with     *)
(* what was asked for last (DispatchInv).  A stretch of the transcript     *)
(* has one card because every message in the chat is a page's, or was      *)
(* sent by the terminal worker where the chain of its receipts ends        *)
(* (PostedInv, ReceiptsInv, TermInv).  A page keeps up because every       *)
(* handler that ends leaves a timer that fits the ledger, or a card that   *)
(* shows all the page can hold (LoopInv, ShownInv).                        *)
(***************************************************************************)

\* The loop handles one thing at a time: while a page is being presented no
\* timer is registered, and between handlers a registered one fits the ledger.
LoopInv ==
  /\ len \in 0..MaxLen /\ run \in {"new", "running", "settled", "over"} /\ turn \in BOOLEAN
  /\ patched \in BOOLEAN /\ bg \in BOOLEAN
  /\ timer \in [att : 0..MaxAttempt, msg : 0..Reserved, turn : BOOLEAN, set : BOOLEAN]
  /\ pc \in {"idle", "page", "reconcile"}
  /\ run \in {"new", "over"} => pc = "idle"
  /\ run = "new" => /\ pages = <<>> /\ natt = 0 /\ startOf[1] = 0
                    /\ timer = NoTimer /\ ~patched
  /\ run = "new" \/ (run = "running" /\ ~turn) => len = 0
  /\ run \in {"new", "running"} => bg
  /\ pc # "idle" => ~timer.set
  /\ pc = "reconcile" => HasPending(pages)
  /\ run = "running" /\ timer.set => TicketMatches(timer)
  /\ run = "running" /\ ~turn /\ timer.set => ~patched

\* Page i of the ledger ps: a page begins where the one before it is full, and
\* only the last two may be unsealed.
PageFits(ps, i) ==
  /\ ps[i].start = IF i = 1 THEN 0 ELSE ps[i - 1].start + Cap
  /\ i < Len(ps) => ps[i].st \in {"sealed", "active"}
  /\ i < Len(ps) /\ ps[i].st = "active" => i = Len(ps) - 1
  /\ i = Len(ps) => ps[i].st \in {"active", "send_unknown"}
  /\ i = Len(ps) /\ i > 1 =>
       ps[i - 1].st = IF ps[i].st = "active" THEN "sealed" ELSE "active"
  /\ ps[i].st = "sealed" => ps[i].end = ps[i].start + Cap
  /\ ps[i].msg \in IF ps[i].st = "send_unknown" THEN {0, Reserved} ELSE {ps[i].att, Reserved}
  /\ ps[i].msg = Reserved => i = 1

Ascending(ps) ==
  \A i, j \in 1..Len(ps) : i < j => ps[i].att < ps[j].att /\ ps[i].start < ps[j].start

\* An attempt is named once and knows where its page starts.
LedgerInv ==
  /\ pages \in Seq(Page) /\ natt \in 0..MaxAttempt /\ posted \subseteq 1..natt
  /\ startOf \in [1..MaxAttempt -> 0..MaxLen]
  /\ Ascending(pages)
  /\ \A i \in 1..Len(pages) :
       /\ PageFits(pages, i)
       /\ pages[i].att <= natt /\ startOf[pages[i].att] = pages[i].start
       /\ pages[i].start <= len

\* Two models of a card that differ in their text at most.
Alike(x, y) == x.lo = y.lo /\ x.hi = y.hi /\ x.running = y.running

DispatchTypes ==
  /\ pend \in [Msgs -> Model \cup {NoModel}] /\ want \in [Msgs -> Model \cup {NoModel}]
  /\ slot \in [Msgs -> SUBSET {"queued", "inflight", "retry"}] /\ queue \in Seq(0..Reserved)
  /\ hold \in [Patchers -> [msg : -1..Reserved, model : Model \cup {NoModel}]]
  /\ closed \in BOOLEAN /\ done \in [Msgs -> BOOLEAN]

InQueue(n, q) == \E i \in 1..Len(q) : q[i] = n

\* A card is at rest, queued, in flight or to be retried, and what waits or is
\* in flight is what was asked for last, save its text.
CardInv(m) ==
  /\ slot[m] \in {{}, {"queued"}, {"inflight"}, {"retry"}}
  /\ slot[m] = {"inflight"} <=> \E x \in Patchers : hold[x].msg = m
  /\ slot[m] = {"queued"} <=> InQueue(m, queue)
  /\ slot[m] \in {{"queued"}, {"retry"}} => pend[m] # NoModel
  /\ pend[m] # NoModel => Alike(pend[m], want[m])
  /\ ~closed /\ slot[m] = {} => pend[m] = NoModel /\ done[m]

PatcherInv(x) ==
  hold[x].msg > 0 =>
    /\ hold[x].model # NoModel
    /\ pend[hold[x].msg] = NoModel => Alike(hold[x].model, want[hold[x].msg])

DispatchInv ==
  /\ DispatchTypes
  /\ OneWorkerPerCard
  /\ \A m \in Msgs : CardInv(m)
  /\ \A x \in Patchers : PatcherInv(x)

\* A card was last asked to show exactly this range, and not as running.
Final(m, lo, hi) == want[m].lo = lo /\ want[m].hi = hi /\ ~want[m].running

ShownInv ==
  /\ term \in {"none", "begin"} /\ ~closed =>
       \A i \in 1..Len(pages) : pages[i].st = "sealed" =>
         Final(pages[i].msg, pages[i].start, pages[i].end)
  /\ run = "running" /\ ~closed /\ HasPending(pages) /\ HasActivePage =>
       want[ActivePage.msg] = ModelOf(ActivePage.start, Pending.start, TRUE)
  /\ PageIsCurrent

\* Where the pages that were presented end.
ChainEnd(rs) == IF rs = <<>> THEN 0 ELSE rs[Len(rs)].end
Known(m) == m \in 1..natt \/ m = Reserved
Receipted(m) == \E i \in 1..Len(receipts) : receipts[i].msg = m

ReceiptsInv ==
  /\ receipts \in Seq(Receipt)
  /\ \A i \in 1..Len(receipts) :
       /\ receipts[i].start = IF i = 1 THEN 0 ELSE receipts[i - 1].end
       /\ Known(receipts[i].msg)
       /\ \A j \in 1..Len(receipts) : i # j => receipts[i].msg # receipts[j].msg
       /\ ~closed => Final(receipts[i].msg, receipts[i].start, receipts[i].end)

\* The messages the ledger has not dropped as refused.
Counted == posted \ denied

\* Each of them is one of a page, or was sent by the terminal worker further on
\* in the transcript.
PostedInv ==
  /\ denied \subseteq posted
  /\ OneCardPerRange
  /\ \A i \in 1..Len(pages) : pages[i].msg = Reserved => pages[i].att \notin posted
  /\ term \in {"none", "begin", "replay"} =>
       \A a \in Counted : \E i \in 1..Len(pages) : pages[i].att = a
  /\ term = "page" => \A a \in Counted : startOf[a] <= at.start
  /\ term = "send" => \A a \in Counted : startOf[a] < ChainEnd(receipts)

TermInv ==
  /\ term \in {"none", "begin", "replay", "page", "send", "carrier", "cleanup", "done"}
  /\ at \in [msg : 0..Reserved, start : 0..MaxLen]
  /\ term # "none" => run = "over"
  /\ term \in {"none", "begin"} => receipts = <<>>
  /\ term = "begin" => HasActivePage \/ HasPending(pages)
  /\ term = "replay" => /\ HasPending(pages) /\ ChainEnd(receipts) = Pending.start
                        /\ ~Receipted(Pending.att)
                        /\ Pending.msg # 0 => ~Receipted(Pending.msg)
  /\ term = "page" => Known(at.msg) /\ ~Receipted(at.msg) /\ at.start = ChainEnd(receipts)
  /\ term = "send" => receipts # <<>>

\* A reply is cut out of its pages only once it has a message of its own.
CutInv ==
  /\ carrier \in BOOLEAN
  /\ todo \subseteq 1..Len(receipts)
  /\ carrier => term \in {"cleanup", "done"}
  /\ todo # {} => term = "cleanup" /\ carrier
  /\ NothingRemovedUnpublished

OutputInd ==
  /\ LoopInv /\ LedgerInv /\ DispatchInv /\ ShownInv
  /\ ReceiptsInv /\ PostedInv /\ TermInv /\ CutInv

-----------------------------------------------------------------------------
(* The dispatcher.                                                          *)

SlotStates == {{}, {"queued"}, {"inflight"}, {"retry"}}

LEMMA OutputBounds ==
  /\ Cap \in Nat /\ Cap > 0 /\ MaxLen \in Nat /\ MaxAttempt \in Nat /\ MaxAttempt > 0
  /\ Reserved = MaxAttempt + 1 /\ Reserved \in Nat
  /\ Msgs = 1..Reserved /\ IsFiniteSet(Patchers)
  BY OutputConstants DEF Reserved, Msgs

LEMMA ModelFields ==
  /\ NoModel \notin Model
  /\ \A x \in Model \cup {NoModel} :
       /\ x.lo \in 0..MaxLen /\ x.hi \in 0..MaxLen /\ x.running \in BOOLEAN
       /\ x = [lo |-> x.lo, hi |-> x.hi, running |-> x.running, text |-> x.text]
<1>1. NoModel \notin Model
  <2>1. \A x \in Model : x.text \in {"full", "cut", "minimal"}
    BY DEF Model
  <2> QED
    BY <2>1 DEF NoModel
<1>2. ASSUME NEW x \in Model
      PROVE  /\ x.lo \in 0..MaxLen /\ x.hi \in 0..MaxLen /\ x.running \in BOOLEAN
             /\ x = [lo |-> x.lo, hi |-> x.hi, running |-> x.running, text |-> x.text]
  BY <1>2 DEF Model
<1>3. /\ NoModel.lo \in 0..MaxLen /\ NoModel.hi \in 0..MaxLen /\ NoModel.running \in BOOLEAN
      /\ NoModel = [lo |-> NoModel.lo, hi |-> NoModel.hi, running |-> NoModel.running,
                    text |-> NoModel.text]
  BY OutputBounds DEF NoModel
<1> QED
  BY <1>1, <1>2, <1>3

\* A dispatcher that nobody touches.
LEMMA DispatchRests ==
  ASSUME DispatchInv, UNCHANGED <<dispatcher, hold>>
  PROVE  DispatchInv'
<1>1. UNCHANGED <<pend, slot, queue, closed, want, done, hold>>
  BY DEF dispatcher
<1>2. DispatchTypes'
  BY <1>1 DEF DispatchInv, DispatchTypes
<1>3. OneWorkerPerCard'
  BY <1>1 DEF DispatchInv, OneWorkerPerCard
<1>4. ASSUME NEW m \in Msgs PROVE CardInv(m)'
  BY <1>1, <1>4 DEF DispatchInv, CardInv, Alike
<1>5. ASSUME NEW x \in Patchers PROVE PatcherInv(x)'
  BY <1>1, <1>5 DEF DispatchInv, PatcherInv, Alike
<1> QED
  BY <1>2, <1>3, <1>4, <1>5 DEF DispatchInv

LEMMA SlotTypes ==
  ASSUME NEW f, f \in [Msgs -> SUBSET {"queued", "inflight", "retry"}], NEW m \in Msgs,
         NEW S \in SUBSET {"queued", "inflight", "retry"}
  PROVE  [f EXCEPT ![m] = S] \in [Msgs -> SUBSET {"queued", "inflight", "retry"}]
  OBVIOUS

\* A message that is put at the end of the queue.
LEMMA Enqueued ==
  ASSUME NEW q \in Seq(0..Reserved), NEW m \in Msgs
  PROVE  /\ Append(q, m) \in Seq(0..Reserved)
         /\ Len(Append(q, m)) = Len(q) + 1 /\ Len(q) \in Nat
         /\ \A i \in 1..Len(q) : Append(q, m)[i] = q[i]
         /\ Append(q, m)[Len(q) + 1] = m
<1>1. m \in 0..Reserved
  BY OutputBounds
<1>2. /\ Append(q, m) \in Seq(0..Reserved)
      /\ Len(Append(q, m)) = Len(q) + 1 /\ Len(q) \in Nat
      /\ \A i \in 1..Len(q) : Append(q, m)[i] = q[i]
      /\ Append(q, m)[Len(q) + 1] = m
  BY <1>1, AppendProperties, LenProperties
<1> QED
  BY <1>2

LEMMA EnqueuedLast ==
  ASSUME NEW q \in Seq(0..Reserved), NEW m \in Msgs, NEW n
  PROVE  InQueue(n, Append(q, m)) <=> n = m \/ InQueue(n, q)
<1>1. /\ Len(Append(q, m)) = Len(q) + 1 /\ Len(q) \in Nat
      /\ \A i \in 1..Len(q) : Append(q, m)[i] = q[i]
      /\ Append(q, m)[Len(q) + 1] = m
  BY Enqueued
<1>2. 1..Len(Append(q, m)) = 1..Len(q) \cup {Len(q) + 1}
  BY <1>1
<1> QED
  BY <1>1, <1>2 DEF InQueue

Distinct(q) == \A i, j \in 1..Len(q) : i # j /\ q[i] # Stop => q[i] # q[j]

LEMMA EnqueuedOnce ==
  ASSUME NEW q \in Seq(0..Reserved), NEW m \in Msgs, Distinct(q),
         ~InQueue(m, q)
  PROVE  Distinct(Append(q, m))
<1>1. /\ Len(Append(q, m)) = Len(q) + 1 /\ Len(q) \in Nat
      /\ \A i \in 1..Len(q) : Append(q, m)[i] = q[i]
      /\ Append(q, m)[Len(q) + 1] = m
  BY Enqueued
<1>2. ASSUME NEW i \in 1..Len(Append(q, m)), NEW j \in 1..Len(Append(q, m)), i # j,
             Append(q, m)[i] # Stop
      PROVE  Append(q, m)[i] # Append(q, m)[j]
  <2>1. /\ i \in 1..Len(q) \/ i = Len(q) + 1
        /\ j \in 1..Len(q) \/ j = Len(q) + 1
    BY <1>1, <1>2
  <2> QED
    BY <1>1, <1>2, <2>1 DEF Distinct, InQueue
<1> QED
  BY <1>2 DEF Distinct

LEMMA OnePerCard ==
  ASSUME DispatchInv
  PROVE  /\ Distinct(queue)
         /\ \A v, x \in Patchers : v # x /\ hold[v].msg > 0 => hold[v].msg # hold[x].msg
<1>1. queue \in Seq(0..Reserved) /\ DOMAIN queue = 1..Len(queue)
  BY LenProperties DEF DispatchInv, DispatchTypes
<1> QED
  BY <1>1 DEF DispatchInv, OneWorkerPerCard, Distinct

LEMMA OnePerCardAgain ==
  ASSUME queue' \in Seq(0..Reserved), Distinct(queue'),
         \A v, x \in Patchers : v # x /\ hold'[v].msg > 0 => hold'[v].msg # hold'[x].msg
  PROVE  OneWorkerPerCard'
<1>1. DOMAIN queue' = 1..Len(queue')
  BY LenProperties
<1> QED
  BY <1>1 DEF OneWorkerPerCard, Distinct

\* A submitted card: the other cards keep what they have.
LEMMA SubmitKeeps ==
  ASSUME DispatchInv, NEW m \in Msgs, NEW model \in Model, Submit(m, model), hold' = hold
  PROVE  DispatchInv'
<1>1. CASE closed
  BY <1>1, DispatchRests DEF Submit
<1>2. CASE ~closed
  <2>1. /\ pend' = [pend EXCEPT ![m] = model]
        /\ want' = [want EXCEPT ![m] = model]
        /\ done' = [done EXCEPT ![m] = FALSE]
        /\ closed' = closed
        /\ Busy(m) => slot' = slot /\ queue' = queue
        /\ ~Busy(m) => /\ slot' = [slot EXCEPT ![m] = @ \cup {"queued"}]
                       /\ queue' = Append(queue, m)
    BY <1>2 DEF Submit
  <2>2. DispatchTypes /\ \A n \in Msgs : CardInv(n)
    BY DEF DispatchInv
  <2>3. /\ pend \in [Msgs -> Model \cup {NoModel}] /\ want \in [Msgs -> Model \cup {NoModel}]
        /\ slot \in [Msgs -> SUBSET {"queued", "inflight", "retry"}] /\ queue \in Seq(0..Reserved)
        /\ done \in [Msgs -> BOOLEAN]
    BY <2>2 DEF DispatchTypes
  <2>4. model # NoModel /\ Alike(model, model)
    BY ModelFields DEF Alike
  <2>5. ~Busy(m) => slot' = [slot EXCEPT ![m] = {"queued"}]
    BY <2>1, <2>3 DEF Busy
  <2>6. slot' \in [Msgs -> SUBSET {"queued", "inflight", "retry"}]
    BY <2>1, <2>3, <2>5, SlotTypes
  <2>7. queue' \in Seq(0..Reserved)
    <3>1. Append(queue, m) \in Seq(0..Reserved)
      BY <2>3, Enqueued
    <3> QED
      BY <2>1, <2>3, <3>1
  <2>8. DispatchTypes'
    BY <2>1, <2>2, <2>3, <2>6, <2>7 DEF DispatchTypes
  <2>9. ASSUME NEW n \in Msgs PROVE CardInv(n)'
    <3>1. CASE n # m
      <4>1. /\ pend'[n] = pend[n] /\ want'[n] = want[n] /\ done'[n] = done[n]
            /\ slot'[n] = slot[n]
        BY <2>1, <2>3, <2>5, <3>1
      <4>2. InQueue(n, queue') <=> InQueue(n, queue)
        <5>1. InQueue(n, Append(queue, m)) <=> n = m \/ InQueue(n, queue)
          BY <2>3, EnqueuedLast
        <5>2. queue' = queue \/ queue' = Append(queue, m)
          BY <2>1
        <5> QED
          BY <3>1, <5>1, <5>2
      <4>3. CardInv(n)
        BY <2>2
      <4>4. hold' = hold
        OBVIOUS
      <4>5. closed' = closed
        BY <2>1
      <4>6. /\ slot'[n] \in SlotStates
            /\ slot'[n] = {"inflight"} <=> \E x \in Patchers : hold'[x].msg = n
        BY <4>1, <4>3, <4>4 DEF CardInv, SlotStates
      <4>7. slot'[n] = {"queued"} <=> InQueue(n, queue')
        BY <4>1, <4>2, <4>3 DEF CardInv
      <4>8. /\ slot'[n] \in {{"queued"}, {"retry"}} => pend'[n] # NoModel
            /\ pend'[n] # NoModel => Alike(pend'[n], want'[n])
            /\ ~closed' /\ slot'[n] = {} => pend'[n] = NoModel /\ done'[n]
        BY <4>1, <4>3, <4>5 DEF CardInv, Alike
      <4> QED
        BY <4>6, <4>7, <4>8 DEF CardInv, SlotStates, Alike
    <3>2. CASE n = m
      <4>1. pend'[m] = model /\ want'[m] = model
        BY <2>1, <2>3
      <4>2. CASE Busy(m)
        <5>1. slot' = slot /\ queue' = queue /\ slot[m] # {}
          BY <2>1, <4>2 DEF Busy
        <5> QED
          BY <2>2, <2>4, <3>2, <4>1, <5>1 DEF CardInv, Alike
      <4>3. CASE ~Busy(m)
        <5>1. slot'[m] = {"queued"} /\ slot[m] = {}
          BY <2>3, <2>5, <4>3 DEF Busy
        <5>2. ~ \E x \in Patchers : hold[x].msg = m
          BY <2>2, <5>1 DEF CardInv
        <5>3. InQueue(m, queue')
          <6>1. InQueue(m, Append(queue, m))
            BY <2>3, EnqueuedLast
          <6> QED
            BY <2>1, <4>3, <6>1
        <5> QED
          BY <2>4, <3>2, <4>1, <5>1, <5>2, <5>3 DEF CardInv
      <4> QED
        BY <4>2, <4>3
    <3> QED
      BY <3>1, <3>2
  <2>10. ASSUME NEW x \in Patchers PROVE PatcherInv(x)'
    <3>1. ASSUME hold[x].msg > 0 PROVE hold[x].msg \in Msgs
      <4>1. hold[x].msg \in -1..Reserved
        BY <2>2 DEF DispatchTypes
      <4> QED
        BY <3>1, <4>1, OutputBounds
    <3>2. ASSUME hold[x].msg > 0
          PROVE  /\ hold[x].msg = m => pend'[hold[x].msg] # NoModel
                 /\ hold[x].msg # m => /\ pend'[hold[x].msg] = pend[hold[x].msg]
                                       /\ want'[hold[x].msg] = want[hold[x].msg]
      BY <2>1, <2>3, <2>4, <3>1, <3>2
    <3> QED
      BY <3>2, <2>10 DEF DispatchInv, PatcherInv, Alike
  <2>11. OneWorkerPerCard'
    <3>1. ~Busy(m) => ~InQueue(m, queue)
      BY <2>2 DEF CardInv, Busy
    <3>2. Distinct(queue')
      BY <2>1, <2>3, <3>1, OnePerCard, EnqueuedOnce
    <3> QED
      BY <2>7, <3>2, OnePerCard, OnePerCardAgain
  <2> QED
    BY <2>8, <2>9, <2>10, <2>11 DEF DispatchInv
<1> QED
  BY <1>1, <1>2

LEMMA SubmitWants ==
  ASSUME DispatchInv, NEW m \in Msgs, NEW model, Submit(m, model)
  PROVE  /\ closed' = closed
         /\ ~closed => want'[m] = model
         /\ closed => want' = want
         /\ \A n \in Msgs \ {m} : want'[n] = want[n]
  BY DEF Submit, dispatcher, DispatchInv, DispatchTypes

LEMMA TakenFirst ==
  ASSUME NEW q \in Seq(0..Reserved), q # <<>>, Distinct(q)
  PROVE  /\ Head(q) \in 0..Reserved /\ InQueue(Head(q), q)
         /\ Tail(q) \in Seq(0..Reserved) /\ Distinct(Tail(q))
         /\ \A n \in Msgs : InQueue(n, Tail(q)) <=> n # Head(q) /\ InQueue(n, q)
<1>1. /\ Head(q) \in 0..Reserved /\ Tail(q) \in Seq(0..Reserved)
      /\ Len(Tail(q)) = Len(q) - 1
      /\ \A i \in 1..Len(Tail(q)) : Tail(q)[i] = q[i + 1]
  BY HeadTailProperties
<1>2. Len(q) \in Nat /\ Len(q) # 0 /\ Head(q) = q[1]
  BY EmptySeq, LenProperties
<1>3. InQueue(Head(q), q)
  BY <1>2 DEF InQueue
<1>4. Distinct(Tail(q))
  BY <1>1, <1>2 DEF Distinct
<1>5. ASSUME NEW n \in Msgs
      PROVE  InQueue(n, Tail(q)) <=> n # Head(q) /\ InQueue(n, q)
  <2>1. n # Stop
    BY OutputBounds DEF Stop
  <2>2. ASSUME InQueue(n, Tail(q)) PROVE n # Head(q) /\ InQueue(n, q)
    <3>1. PICK i \in 1..Len(Tail(q)) : Tail(q)[i] = n
      BY <2>2 DEF InQueue
    <3>2. i + 1 \in 1..Len(q) /\ 1 \in 1..Len(q) /\ i + 1 # 1 /\ q[i + 1] = n
      BY <1>1, <1>2, <3>1
    <3> QED
      BY <1>2, <2>1, <3>2 DEF Distinct, InQueue
  <2>3. ASSUME InQueue(n, q), n # Head(q) PROVE InQueue(n, Tail(q))
    <3>1. PICK i \in 1..Len(q) : q[i] = n
      BY <2>3 DEF InQueue
    <3>2. i - 1 \in 1..Len(Tail(q)) /\ (i - 1) + 1 = i
      BY <1>1, <1>2, <2>3, <3>1
    <3>3. Tail(q)[i - 1] = n
      BY <1>1, <3>1, <3>2
    <3> QED
      BY <3>2, <3>3 DEF InQueue
  <2> QED
    BY <2>2, <2>3
<1> QED
  BY <1>1, <1>3, <1>4, <1>5

LEMMA HoldTypes ==
  ASSUME DispatchInv, NEW x \in Patchers, hold[x].msg > 0
  PROVE  hold[x].msg \in Msgs /\ hold[x].model \in Model
<1>1. hold[x] \in [msg : -1..Reserved, model : Model \cup {NoModel}] /\ PatcherInv(x)
  BY DEF DispatchInv, DispatchTypes
<1>2. hold[x].msg \in -1..Reserved /\ hold[x].model \in Model \cup {NoModel}
  BY <1>1
<1>3. hold[x].msg \in Msgs
  BY <1>2, OutputBounds
<1> QED
  BY <1>1, <1>2, <1>3 DEF PatcherInv

LEMMA TakesKeeps ==
  ASSUME DispatchInv, NEW x \in Patchers, WorkerTakes(x)
  PROVE  DispatchInv'
<1> DEFINE m == Head(queue)
<1>1. /\ pend \in [Msgs -> Model \cup {NoModel}] /\ want \in [Msgs -> Model \cup {NoModel}]
      /\ slot \in [Msgs -> SUBSET {"queued", "inflight", "retry"}] /\ queue \in Seq(0..Reserved)
      /\ hold \in [Patchers -> [msg : -1..Reserved, model : Model \cup {NoModel}]]
      /\ done \in [Msgs -> BOOLEAN] /\ closed \in BOOLEAN
      /\ \A n \in Msgs : CardInv(n)
      /\ Distinct(queue)
  BY OnePerCard DEF DispatchInv, DispatchTypes
<1>2. /\ hold[x].msg = 0 /\ queue # <<>> /\ m # Stop /\ queue' = Tail(queue)
      /\ want' = want /\ done' = done /\ closed' = closed
  BY DEF WorkerTakes
<1>3. m \in Msgs /\ InQueue(m, queue)
  BY <1>1, <1>2, TakenFirst, OutputBounds DEF Stop
<1>4. slot[m] = {"queued"} /\ pend[m] # NoModel /\ pend[m] \in Model
  BY <1>1, <1>3 DEF CardInv
<1>5. /\ slot' = [slot EXCEPT ![m] = {"inflight"}]
      /\ pend' = [pend EXCEPT ![m] = NoModel]
      /\ hold' = [hold EXCEPT ![x] = [msg |-> m, model |-> pend[m]]]
  BY <1>3, <1>4 DEF WorkerTakes
<1>6. ~ \E v \in Patchers : hold[v].msg = m
  BY <1>1, <1>3, <1>4 DEF CardInv
<1>7. /\ hold'[x].msg = m /\ hold'[x].model = pend[m]
      /\ \A v \in Patchers : v # x => hold'[v] = hold[v]
  BY <1>1, <1>5
<1>8. DispatchTypes'
  <2>1. m \in -1..Reserved
    BY <1>3, OutputBounds
  <2>2. [msg |-> m, model |-> pend[m]] \in [msg : -1..Reserved, model : Model \cup {NoModel}]
    BY <1>4, <2>1
  <2>3. hold' \in [Patchers -> [msg : -1..Reserved, model : Model \cup {NoModel}]]
    BY <1>1, <1>5, <2>2
  <2>4. pend' \in [Msgs -> Model \cup {NoModel}]
    BY <1>1, <1>5
  <2>5. slot' \in [Msgs -> SUBSET {"queued", "inflight", "retry"}]
    BY <1>1, <1>3, <1>5, SlotTypes
  <2>6. queue' \in Seq(0..Reserved)
    BY <1>1, <1>2, TakenFirst
  <2> QED
    BY <1>1, <1>2, <2>3, <2>4, <2>5, <2>6 DEF DispatchTypes
<1>9. OneWorkerPerCard'
  <2>1. queue' \in Seq(0..Reserved) /\ Distinct(queue')
    BY <1>1, <1>2, TakenFirst
  <2>2. ASSUME NEW u \in Patchers, NEW v \in Patchers, u # v, hold'[u].msg > 0
        PROVE  hold'[u].msg # hold'[v].msg
    BY <1>6, <1>7, <2>2, OnePerCard
  <2> QED
    BY <2>1, <2>2, OnePerCardAgain
<1>10. ASSUME NEW n \in Msgs PROVE CardInv(n)'
  <2>1. InQueue(n, queue') <=> n # m /\ InQueue(n, queue)
    BY <1>1, <1>2, TakenFirst
  <2>2. CASE n = m
    <3>1. slot'[m] = {"inflight"} /\ pend'[m] = NoModel
      BY <1>1, <1>3, <1>5
    <3> QED
      BY <1>7, <2>1, <2>2, <3>1 DEF CardInv
  <2>3. CASE n # m
    <3>1. slot'[n] = slot[n] /\ pend'[n] = pend[n] /\ want'[n] = want[n] /\ done'[n] = done[n]
      BY <1>1, <1>2, <1>5, <2>3
    <3>2. (\E v \in Patchers : hold'[v].msg = n) <=> (\E v \in Patchers : hold[v].msg = n)
      <4>1. hold[x].msg # n /\ hold'[x].msg # n
        BY <1>2, <1>7, <2>3, OutputBounds
      <4> QED
        BY <1>7, <4>1
    <3> QED
      BY <1>1, <1>2, <2>1, <2>3, <3>1, <3>2 DEF CardInv, Alike
  <2> QED
    BY <2>2, <2>3
<1>11. ASSUME NEW v \in Patchers PROVE PatcherInv(v)'
  <2>1. CASE v = x
    <3>1. Alike(pend[m], want[m]) /\ want'[m] = want[m]
      BY <1>1, <1>2, <1>3, <1>4 DEF CardInv
    <3> QED
      BY <1>4, <1>7, <2>1, <3>1, ModelFields DEF PatcherInv, Alike
  <2>2. CASE v # x
    <3>1. hold'[v] = hold[v] /\ PatcherInv(v)
      BY <1>7, <2>2 DEF DispatchInv
    <3>2. hold[v].msg > 0 => pend'[hold[v].msg] = pend[hold[v].msg] /\ want' = want
      BY <1>1, <1>2, <1>5, <1>6, HoldTypes
    <3> QED
      BY <3>1, <3>2 DEF PatcherInv, Alike
  <2> QED
    BY <2>1, <2>2
<1> QED
  BY <1>8, <1>9, <1>10, <1>11 DEF DispatchInv

LEMMA StopsKeeps ==
  ASSUME DispatchInv, NEW x \in Patchers, WorkerStops(x)
  PROVE  DispatchInv'
<1>1. /\ DispatchTypes /\ Distinct(queue)
      /\ queue \in Seq(0..Reserved)
      /\ hold \in [Patchers -> [msg : -1..Reserved, model : Model \cup {NoModel}]]
      /\ \A n \in Msgs : CardInv(n)
  BY OnePerCard DEF DispatchInv, DispatchTypes
<1>2. /\ hold[x].msg = 0 /\ queue # <<>> /\ Head(queue) = Stop /\ queue' = Tail(queue)
      /\ hold' = [hold EXCEPT ![x].msg = -1]
      /\ UNCHANGED <<pend, slot, want, done, closed>>
  BY DEF WorkerStops
<1>3. /\ hold'[x].msg = -1
      /\ \A v \in Patchers : v # x => hold'[v] = hold[v]
  BY <1>1, <1>2
<1>4. hold' \in [Patchers -> [msg : -1..Reserved, model : Model \cup {NoModel}]]
  <2>1. hold[x] \in [msg : -1..Reserved, model : Model \cup {NoModel}]
    BY <1>1
  <2>2. -1 \in -1..Reserved
    BY OutputBounds
  <2>3. [hold[x] EXCEPT !.msg = -1] \in [msg : -1..Reserved, model : Model \cup {NoModel}]
    BY <2>1, <2>2
  <2> QED
    BY <1>1, <1>2, <2>3
<1>5. queue' \in Seq(0..Reserved) /\ Distinct(queue')
  BY <1>1, <1>2, TakenFirst
<1>6. DispatchTypes'
  BY <1>1, <1>2, <1>4, <1>5 DEF DispatchTypes
<1>7. OneWorkerPerCard'
  <2>1. ASSUME NEW u \in Patchers, NEW v \in Patchers, u # v, hold'[u].msg > 0
        PROVE  hold'[u].msg # hold'[v].msg
    BY <1>3, <2>1, OnePerCard
  <2> QED
    BY <1>5, <2>1, OnePerCardAgain
<1>8. ASSUME NEW n \in Msgs PROVE CardInv(n)'
  <2>1. InQueue(n, queue') <=> InQueue(n, queue)
    BY <1>1, <1>2, TakenFirst, OutputBounds DEF Stop
  <2>2. (\E v \in Patchers : hold'[v].msg = n) <=> (\E v \in Patchers : hold[v].msg = n)
    <3>1. hold[x].msg # n /\ hold'[x].msg # n
      BY <1>2, <1>3, OutputBounds
    <3> QED
      BY <1>3, <3>1
  <2> QED
    BY <1>1, <1>2, <2>1, <2>2 DEF CardInv, Alike
<1>9. ASSUME NEW v \in Patchers PROVE PatcherInv(v)'
  <2>1. PatcherInv(v)
    BY DEF DispatchInv
  <2>2. v = x \/ hold'[v] = hold[v]
    BY <1>3
  <2> QED
    BY <1>2, <1>3, <2>1, <2>2 DEF PatcherInv, Alike
<1> QED
  BY <1>6, <1>7, <1>8, <1>9 DEF DispatchInv

LEMMA RetryModelsFit ==
  ASSUME NEW model \in Model, NEW p \in RetryModels(model)
  PROVE  p \in Model /\ Alike(p, model)
<1>1. "minimal" \in {"full", "cut", "minimal"}
  OBVIOUS
<1>2. /\ [model EXCEPT !.text = "minimal"] \in Model
      /\ Alike([model EXCEPT !.text = "minimal"], model)
  BY <1>1 DEF Model, Alike
<1>3. p = model \/ p = [model EXCEPT !.text = "minimal"]
  BY DEF RetryModels
<1> QED
  BY <1>2, <1>3 DEF Alike

LEMMA AlikeIsWanted ==
  ASSUME NEW x \in Model \cup {NoModel}, NEW y \in Model \cup {NoModel}, Alike(x, y)
  PROVE  [x EXCEPT !.text = y.text] = y
<1>1. /\ x = [lo |-> x.lo, hi |-> x.hi, running |-> x.running, text |-> x.text]
      /\ y = [lo |-> y.lo, hi |-> y.hi, running |-> y.running, text |-> y.text]
  BY ModelFields
<1>2. [x EXCEPT !.text = y.text]
        = [lo |-> x.lo, hi |-> x.hi, running |-> x.running, text |-> y.text]
  BY <1>1
<1> QED
  BY <1>1, <1>2 DEF Alike

\* A card that is not queued changes its slot.
LEMMA CardMoves ==
  ASSUME DispatchInv, NEW m \in Msgs, NEW T \in SlotStates, ~InQueue(m, queue),
         slot' = [slot EXCEPT ![m] = T],
         queue' = IF T = {"queued"} THEN Append(queue, m) ELSE queue
  PROVE  /\ queue' \in Seq(0..Reserved) /\ Distinct(queue')
         /\ slot' \in [Msgs -> SUBSET {"queued", "inflight", "retry"}]
         /\ slot'[m] = T
         /\ \A n \in Msgs \ {m} : slot'[n] = slot[n]
         /\ \A n \in Msgs : slot'[n] = {"queued"} <=> InQueue(n, queue')
<1>1. /\ slot \in [Msgs -> SUBSET {"queued", "inflight", "retry"}]
      /\ queue \in Seq(0..Reserved) /\ Distinct(queue)
      /\ \A n \in Msgs : CardInv(n)
  BY OnePerCard DEF DispatchInv, DispatchTypes
<1>2. T \in SUBSET {"queued", "inflight", "retry"}
  BY DEF SlotStates
<1>3. slot' \in [Msgs -> SUBSET {"queued", "inflight", "retry"}]
  BY <1>1, <1>2, SlotTypes
<1>4. slot'[m] = T /\ \A n \in Msgs \ {m} : slot'[n] = slot[n]
  BY <1>1
<1>5. queue' \in Seq(0..Reserved) /\ Distinct(queue')
  <2>1. Append(queue, m) \in Seq(0..Reserved)
    BY <1>1, Enqueued
  <2>2. Distinct(Append(queue, m))
    BY <1>1, EnqueuedOnce
  <2> QED
    BY <1>1, <2>1, <2>2
<1>6. ASSUME NEW n \in Msgs PROVE slot'[n] = {"queued"} <=> InQueue(n, queue')
  <2>1. InQueue(n, Append(queue, m)) <=> n = m \/ InQueue(n, queue)
    BY <1>1, EnqueuedLast
  <2>2. slot[n] = {"queued"} <=> InQueue(n, queue)
    BY <1>1 DEF CardInv
  <2>3. CASE T = {"queued"}
    BY <1>4, <2>1, <2>2, <2>3
  <2>4. CASE T # {"queued"}
    BY <1>4, <2>2, <2>4
  <2> QED
    BY <2>3, <2>4
<1> QED
  BY <1>3, <1>4, <1>5, <1>6

LEMMA FinishesKeeps ==
  ASSUME DispatchInv, NEW x \in Patchers, NEW outcome, WorkerFinishes(x, outcome)
  PROVE  DispatchInv'
<1> DEFINE m == hold[x].msg
           again == outcome = "retry" /\ ~closed
           s == (slot[m] \ {"inflight"}) \cup (IF again THEN {"retry"} ELSE {})
<1>1. /\ pend \in [Msgs -> Model \cup {NoModel}] /\ want \in [Msgs -> Model \cup {NoModel}]
      /\ slot \in [Msgs -> SUBSET {"queued", "inflight", "retry"}] /\ queue \in Seq(0..Reserved)
      /\ hold \in [Patchers -> [msg : -1..Reserved, model : Model \cup {NoModel}]]
      /\ done \in [Msgs -> BOOLEAN] /\ closed \in BOOLEAN
      /\ \A n \in Msgs : CardInv(n)
      /\ Distinct(queue) /\ PatcherInv(x)
  BY OnePerCard DEF DispatchInv, DispatchTypes
<1>2. m > 0
  BY DEF WorkerFinishes
<1>3. m \in Msgs /\ hold[x].model \in Model
  BY <1>2, HoldTypes
<1>4. slot[m] = {"inflight"} /\ ~InQueue(m, queue)
  BY <1>1, <1>3 DEF CardInv
<1>5. s = IF again THEN {"retry"} ELSE {}
  BY <1>4
<1>6. /\ hold' = [hold EXCEPT ![x] = [msg |-> 0, model |-> NoModel]]
      /\ done' = [done EXCEPT ![m] = @ \/ (~again /\ [hold[x].model EXCEPT !.text = want[m].text] = want[m])]
      /\ want' = want /\ closed' = closed
  BY DEF WorkerFinishes
<1>7. PICK p \in IF again /\ pend[m] = NoModel THEN RetryModels(hold[x].model) ELSE {pend[m]} :
        /\ pend' = [pend EXCEPT ![m] = p]
        /\ IF Requeues(m, p, s)
           THEN slot' = [slot EXCEPT ![m] = s \cup {"queued"}] /\ queue' = Append(queue, m)
           ELSE slot' = [slot EXCEPT ![m] = s] /\ UNCHANGED queue
  BY DEF WorkerFinishes
<1> HIDE DEF m, s
<1>8. p \in Model \cup {NoModel} /\ (p # NoModel => Alike(p, want[m]))
  <2>1. CASE again /\ pend[m] = NoModel
    <3>1. Alike(hold[x].model, want[m])
      BY <1>1, <1>2, <2>1 DEF PatcherInv, m
    <3>2. p \in Model /\ Alike(p, hold[x].model)
      BY <1>3, <1>7, <2>1, RetryModelsFit
    <3> QED
      BY <3>1, <3>2 DEF Alike
  <2>2. CASE ~(again /\ pend[m] = NoModel)
    <3>1. p = pend[m]
      BY <1>7, <2>2
    <3>2. CardInv(m)
      BY <1>1, <1>3
    <3> QED
      BY <1>1, <1>3, <3>1, <3>2 DEF CardInv
  <2> QED
    BY <2>1, <2>2
<1>9. again => p # NoModel
  <2>1. CASE again /\ pend[m] = NoModel
    BY <1>3, <1>7, <2>1, RetryModelsFit, ModelFields
  <2> QED
    BY <1>7, <2>1
<1> DEFINE T == IF again THEN {"retry"} ELSE IF p # NoModel /\ ~closed THEN {"queued"} ELSE {}
<1>10. /\ slot' = [slot EXCEPT ![m] = T]
       /\ queue' = IF T = {"queued"} THEN Append(queue, m) ELSE queue
  <2>1. CASE again
    <3>1. ~Requeues(m, p, s)
      BY <1>5, <2>1 DEF Requeues
    <3> QED
      BY <1>5, <1>7, <2>1, <3>1
  <2>2. CASE ~again
    <3>1. s = {} /\ s \cup {"queued"} = {"queued"} /\ s \cap {"queued", "retry"} = {}
      BY <1>5, <2>2
    <3>2. Requeues(m, p, s) <=> p # NoModel /\ ~closed
      BY <3>1 DEF Requeues
    <3> QED
      BY <1>7, <2>2, <3>1, <3>2
  <2> QED
    BY <2>1, <2>2
<1>11. T \in SlotStates /\ T # {"inflight"}
  BY DEF SlotStates
<1>12. T \in {{"queued"}, {"retry"}} => p # NoModel
  BY <1>9
<1>13. T = {} /\ ~closed => p = NoModel /\ ~again
  OBVIOUS
<1> HIDE DEF T
<1>14. /\ queue' \in Seq(0..Reserved) /\ Distinct(queue')
       /\ slot' \in [Msgs -> SUBSET {"queued", "inflight", "retry"}]
       /\ slot'[m] = T
       /\ \A n \in Msgs \ {m} : slot'[n] = slot[n]
       /\ \A n \in Msgs : slot'[n] = {"queued"} <=> InQueue(n, queue')
  BY <1>3, <1>4, <1>10, <1>11, CardMoves
<1>15. /\ pend'[m] = p
       /\ \A n \in Msgs \ {m} : pend'[n] = pend[n] /\ done'[n] = done[n]
       /\ hold'[x].msg = 0
       /\ \A v \in Patchers : v # x => hold'[v] = hold[v]
  BY <1>1, <1>3, <1>6, <1>7
<1>16. ~closed /\ T = {} => done'[m]
  <2>1. ASSUME ~closed, T = {} PROVE [hold[x].model EXCEPT !.text = want[m].text] = want[m]
    <3>1. pend[m] = NoModel
      BY <1>7, <1>13, <2>1
    <3>2. Alike(hold[x].model, want[m])
      BY <1>1, <1>2, <3>1 DEF PatcherInv, m
    <3> QED
      BY <1>1, <1>3, <3>2, AlikeIsWanted
  <2> QED
    BY <1>1, <1>3, <1>6, <1>13, <2>1
<1>17. \A v \in Patchers : v # x => hold[v].msg # m
  BY <1>2, OnePerCard DEF m
<1>18. DispatchTypes'
  <2>1. hold' \in [Patchers -> [msg : -1..Reserved, model : Model \cup {NoModel}]]
    <3>1. 0 \in -1..Reserved
      BY OutputBounds
    <3>2. [msg |-> 0, model |-> NoModel] \in [msg : -1..Reserved, model : Model \cup {NoModel}]
      BY <3>1
    <3> QED
      BY <1>1, <1>6, <3>2
  <2>2. pend' \in [Msgs -> Model \cup {NoModel}]
    BY <1>1, <1>7, <1>8
  <2>3. done' \in [Msgs -> BOOLEAN]
    <3>1. [done EXCEPT ![m] = @ \/ (~again /\ [hold[x].model EXCEPT !.text = want[m].text] = want[m])]
            \in [Msgs -> BOOLEAN]
      BY <1>1, <1>3
    <3> QED
      BY <1>6, <3>1
  <2> QED
    BY <1>1, <1>6, <1>14, <2>1, <2>2, <2>3 DEF DispatchTypes
<1>19. OneWorkerPerCard'
  <2>1. ASSUME NEW u \in Patchers, NEW v \in Patchers, u # v, hold'[u].msg > 0
        PROVE  hold'[u].msg # hold'[v].msg
    <3>1. u # x
      BY <1>15, <2>1
    <3>2. hold'[u] = hold[u] /\ (v # x => hold'[v] = hold[v])
      BY <1>15, <3>1
    <3> QED
      BY <1>15, <2>1, <3>2, OnePerCard
  <2> QED
    BY <1>14, <2>1, OnePerCardAgain
<1>20. ASSUME NEW n \in Msgs PROVE CardInv(n)'
  <2>1. slot'[n] = {"queued"} <=> InQueue(n, queue')
    BY <1>14
  <2>2. CASE n = m
    <3>1. ~ \E v \in Patchers : hold'[v].msg = m
      BY <1>3, <1>15, <1>17, OutputBounds
    <3>2. slot'[n] = T /\ pend'[n] = p /\ want'[n] = want[m]
      BY <1>6, <1>14, <1>15, <2>2
    <3>3. p # NoModel => Alike(p, want[m])
      BY <1>8
    <3> QED
      BY <1>6, <1>11, <1>12, <1>13, <1>16, <2>1, <2>2, <3>1, <3>2, <3>3
      DEF CardInv, Alike, SlotStates
  <2>3. CASE n # m
    <3>1. slot'[n] = slot[n] /\ pend'[n] = pend[n] /\ want'[n] = want[n] /\ done'[n] = done[n]
      BY <1>6, <1>14, <1>15, <2>3
    <3>2. (\E v \in Patchers : hold'[v].msg = n) <=> (\E v \in Patchers : hold[v].msg = n)
      <4>1. hold[x].msg # n /\ hold'[x].msg # n
        BY <1>15, <2>3, OutputBounds DEF m
      <4> QED
        BY <1>15, <4>1
    <3> QED
      BY <1>1, <1>6, <2>1, <3>1, <3>2 DEF CardInv, Alike
  <2> QED
    BY <2>2, <2>3
<1>21. ASSUME NEW v \in Patchers PROVE PatcherInv(v)'
  <2>1. CASE v = x
    BY <1>15, <2>1 DEF PatcherInv
  <2>2. CASE v # x
    <3>1. hold'[v] = hold[v] /\ PatcherInv(v)
      BY <1>15, <2>2 DEF DispatchInv
    <3>2. hold[v].msg > 0 => pend'[hold[v].msg] = pend[hold[v].msg] /\ want' = want
      BY <1>6, <1>15, <1>17, <2>2, HoldTypes
    <3> QED
      BY <3>1, <3>2 DEF PatcherInv, Alike
  <2> QED
    BY <2>1, <2>2
<1> QED
  BY <1>18, <1>19, <1>20, <1>21 DEF DispatchInv

LEMMA RetryKeeps ==
  ASSUME DispatchInv, NEW m \in Msgs, RetryReady(m)
  PROVE  DispatchInv'
<1>1. /\ DispatchTypes /\ \A n \in Msgs : CardInv(n)
      /\ \A x \in Patchers : PatcherInv(x)
  BY DEF DispatchInv
<1>2. /\ "retry" \in slot[m]
      /\ UNCHANGED <<pend, closed, want, done, hold>>
  BY DEF RetryReady
<1>3. slot[m] = {"retry"} /\ ~InQueue(m, queue) /\ pend[m] # NoModel
  BY <1>1, <1>2 DEF CardInv
<1>4. slot[m] \ {"retry"} = {}
  BY <1>3
<1> DEFINE T == IF closed THEN {} ELSE {"queued"}
<1>5. /\ slot' = [slot EXCEPT ![m] = T]
      /\ queue' = IF T = {"queued"} THEN Append(queue, m) ELSE queue
  BY <1>3, <1>4 DEF RetryReady
<1>6. T \in SlotStates /\ T # {"inflight"} /\ T # {"retry"} /\ (T = {} => closed)
  BY DEF SlotStates
<1> HIDE DEF T
<1>7. /\ queue' \in Seq(0..Reserved) /\ Distinct(queue')
      /\ slot' \in [Msgs -> SUBSET {"queued", "inflight", "retry"}]
      /\ slot'[m] = T
      /\ \A n \in Msgs \ {m} : slot'[n] = slot[n]
      /\ \A n \in Msgs : slot'[n] = {"queued"} <=> InQueue(n, queue')
  BY <1>3, <1>5, <1>6, CardMoves
<1>8. DispatchTypes'
  BY <1>1, <1>2, <1>7 DEF DispatchTypes
<1>9. OneWorkerPerCard'
  BY <1>2, <1>7, OnePerCard, OnePerCardAgain
<1>10. ASSUME NEW n \in Msgs PROVE CardInv(n)'
  <2>1. slot'[n] = {"queued"} <=> InQueue(n, queue')
    BY <1>7
  <2>2. CASE n = m
    BY <1>1, <1>2, <1>3, <1>6, <1>7, <2>1, <2>2 DEF CardInv, Alike, SlotStates
  <2>3. CASE n # m
    BY <1>1, <1>2, <1>7, <2>1, <2>3 DEF CardInv, Alike
  <2> QED
    BY <2>2, <2>3
<1>11. ASSUME NEW v \in Patchers PROVE PatcherInv(v)'
  BY <1>1, <1>2 DEF PatcherInv, Alike
<1> QED
  BY <1>8, <1>9, <1>10, <1>11 DEF DispatchInv

\* Stop words are no cards.
LEMMA StopsQueued ==
  ASSUME NEW q \in Seq(0..Reserved), Distinct(q), NEW k \in Nat
  PROVE  LET z == q \o [i \in 1..k |-> Stop]
         IN z \in Seq(0..Reserved) /\ Distinct(z) /\ \A n \in Msgs : InQueue(n, z) <=> InQueue(n, q)
<1> DEFINE r == [i \in 1..k |-> Stop]
           z == q \o r
<1>1. Stop \in 0..Reserved
  BY OutputBounds DEF Stop
<1>2. r \in Seq(0..Reserved) /\ Len(r) = k
  BY <1>1
<1>3. \A i \in 1..k : r[i] = Stop
  OBVIOUS
<1> HIDE DEF r
<1>4. /\ z \in Seq(0..Reserved) /\ Len(z) = Len(q) + k /\ Len(q) \in Nat
      /\ \A i \in 1..Len(q) + k : z[i] = IF i <= Len(q) THEN q[i] ELSE r[i - Len(q)]
  BY <1>2, ConcatProperties, LenProperties
<1> HIDE DEF z
<1>5. ASSUME NEW i \in 1..Len(z), z[i] # Stop PROVE i \in 1..Len(q) /\ z[i] = q[i]
  <2>1. i > Len(q) => i - Len(q) \in 1..k
    BY <1>4
  <2> QED
    BY <1>3, <1>4, <1>5, <2>1
<1>6. ASSUME NEW i \in 1..Len(q) PROVE i \in 1..Len(z) /\ z[i] = q[i]
  BY <1>4
<1>7. Distinct(z)
  <2>1. ASSUME NEW i \in 1..Len(z), NEW j \in 1..Len(z), i # j, z[i] # Stop, z[i] = z[j]
        PROVE  FALSE
    <3>1. i \in 1..Len(q) /\ z[i] = q[i] /\ j \in 1..Len(q) /\ z[j] = q[j]
      BY <1>5, <2>1
    <3> QED
      BY <2>1, <3>1 DEF Distinct
  <2> QED
    BY <2>1 DEF Distinct
<1>8. ASSUME NEW n \in Msgs PROVE InQueue(n, z) <=> InQueue(n, q)
  <2>1. n # Stop
    BY OutputBounds DEF Stop
  <2> QED
    BY <1>5, <1>6, <2>1 DEF InQueue
<1> QED
  BY <1>4, <1>7, <1>8 DEF z, r

LEMMA ShutdownKeeps ==
  ASSUME DispatchInv, Shutdown
  PROVE  DispatchInv'
<1>1. /\ DispatchTypes /\ \A n \in Msgs : CardInv(n)
      /\ \A x \in Patchers : PatcherInv(x)
      /\ queue \in Seq(0..Reserved) /\ Distinct(queue)
  BY OnePerCard DEF DispatchInv, DispatchTypes
<1>2. /\ closed' = TRUE /\ UNCHANGED <<pend, slot, want, done, hold>>
      /\ queue' = queue \o [i \in 1..Cardinality(Patchers) |-> Stop]
  BY DEF Shutdown
<1>3. Cardinality(Patchers) \in Nat
  BY OutputBounds, FS_CardinalityType
<1>4. /\ queue' \in Seq(0..Reserved) /\ Distinct(queue')
      /\ \A n \in Msgs : InQueue(n, queue') <=> InQueue(n, queue)
  BY <1>1, <1>2, <1>3, StopsQueued
<1>5. DispatchTypes'
  BY <1>1, <1>2, <1>4 DEF DispatchTypes
<1>6. OneWorkerPerCard'
  BY <1>2, <1>4, OnePerCard, OnePerCardAgain
<1>7. ASSUME NEW n \in Msgs PROVE CardInv(n)'
  BY <1>1, <1>2, <1>4 DEF CardInv, Alike
<1>8. ASSUME NEW v \in Patchers PROVE PatcherInv(v)'
  BY <1>1, <1>2 DEF PatcherInv, Alike
<1> QED
  BY <1>5, <1>6, <1>7, <1>8 DEF DispatchInv

-----------------------------------------------------------------------------
(* The ledger of pages.                                                     *)

LedgerShape(ps) ==
  ps \in Seq(Page) /\ Ascending(ps) /\ \A i \in 1..Len(ps) : PageFits(ps, i)

LEMMA PageFields ==
  ASSUME NEW p \in Page
  PROVE  /\ p.att \in 1..MaxAttempt /\ p.msg \in 0..Reserved /\ p.start \in 0..MaxLen
         /\ p.end \in {Open} \cup 0..MaxLen /\ p.st \in {"active", "sealed", "send_unknown"}
         /\ p.tried \in BOOLEAN
         /\ p.att \in Nat /\ p.msg \in Nat /\ p.start \in Nat /\ p.att > 0 /\ p.att # Reserved
  BY OutputBounds DEF Page

LEMMA PagesTyped ==
  ASSUME NEW ps \in Seq(Page)
  PROVE  /\ Len(ps) \in Nat /\ DOMAIN ps = 1..Len(ps)
         /\ ps # <<>> <=> Len(ps) > 0
         /\ \A i \in 1..Len(ps) : ps[i] \in Page
  BY EmptySeq, LenProperties, ElementOfSeq

\* Where the active and the pending page are.
LEMMA LiveSuffix ==
  ASSUME NEW ps, LedgerShape(ps)
  PROVE  /\ Len(ps) = 0 => ~HasPending(ps) /\ ActiveIndex(ps) = 0
         /\ Len(ps) > 0 /\ ps[Len(ps)].st = "active" =>
              ~HasPending(ps) /\ ActiveIndex(ps) = Len(ps)
         /\ Len(ps) > 0 /\ ps[Len(ps)].st # "active" =>
              /\ HasPending(ps) /\ ActiveIndex(ps) = Len(ps) - 1
              /\ ps[Len(ps)].st = "send_unknown" /\ Last(ps) = ps[Len(ps)]
         /\ ActiveIndex(ps) \in 0..Len(ps)
         /\ ActiveIndex(ps) # 0 => ps[ActiveIndex(ps)].st = "active"
         /\ \A i \in 1..Len(ps) : i < ActiveIndex(ps) <=> ps[i].st = "sealed"
<1>1. /\ Len(ps) \in Nat /\ ps # <<>> <=> Len(ps) > 0
      /\ \A i \in 1..Len(ps) : PageFits(ps, i)
  BY PagesTyped DEF LedgerShape
<1>2. Len(ps) = 0 => ~HasPending(ps) /\ ActiveIndex(ps) = 0
  BY <1>1 DEF HasPending, ActiveIndex
<1>3. ASSUME Len(ps) > 0
      PROVE  /\ Len(ps) \in 1..Len(ps) /\ ps[Len(ps)].st \in {"active", "send_unknown"}
             /\ Len(ps) > 1 => /\ Len(ps) - 1 \in 1..Len(ps)
                               /\ ps[Len(ps) - 1].st = IF ps[Len(ps)].st = "active"
                                                       THEN "sealed" ELSE "active"
  <2>1. Len(ps) \in 1..Len(ps) /\ (Len(ps) > 1 => Len(ps) - 1 \in 1..Len(ps))
    BY <1>1, <1>3
  <2> QED
    BY <1>1, <2>1 DEF PageFits
<1>4. Last(ps) = ps[Len(ps)]
  BY DEF Last
<1>5. ASSUME Len(ps) > 0, ps[Len(ps)].st = "active"
      PROVE  ~HasPending(ps) /\ ActiveIndex(ps) = Len(ps)
  BY <1>1, <1>4, <1>5 DEF HasPending, ActiveIndex
<1>6. ASSUME Len(ps) > 0, ps[Len(ps)].st # "active"
      PROVE  /\ ps[Len(ps)].st = "send_unknown"
             /\ HasPending(ps) /\ ActiveIndex(ps) = Len(ps) - 1
  <2>1. ps[Len(ps)].st = "send_unknown" /\ HasPending(ps)
    BY <1>1, <1>3, <1>4, <1>6 DEF HasPending
  <2>2. ActiveIndex(ps) = IF Len(ps) - 1 > 0 /\ ps[Len(ps) - 1].st = "active"
                          THEN Len(ps) - 1 ELSE 0
    BY <2>1 DEF ActiveIndex
  <2>3. Len(ps) > 1 => ps[Len(ps) - 1].st = "active"
    BY <1>3, <1>6
  <2>4. Len(ps) \in Nat /\ Len(ps) > 0
    BY <1>1, <1>6
  <2>5. CASE Len(ps) > 1
    <3>1. Len(ps) - 1 > 0
      BY <2>4, <2>5
    <3> QED
      BY <2>1, <2>2, <2>3, <2>5, <3>1
  <2>6. CASE ~(Len(ps) > 1)
    <3>1. ~(Len(ps) - 1 > 0) /\ Len(ps) - 1 = 0
      BY <2>4, <2>6
    <3> QED
      BY <2>1, <2>2, <3>1
  <2> QED
    BY <2>5, <2>6
<1>7. ActiveIndex(ps) \in 0..Len(ps)
  BY <1>1, <1>2, <1>5, <1>6
<1>8. ActiveIndex(ps) # 0 => ps[ActiveIndex(ps)].st = "active"
  BY <1>1, <1>2, <1>3, <1>5, <1>6
<1>9. ASSUME NEW i \in 1..Len(ps) PROVE i < ActiveIndex(ps) <=> ps[i].st = "sealed"
  <2>1. PageFits(ps, i) /\ Len(ps) > 0
    BY <1>1
  <2>2. CASE ps[Len(ps)].st = "active"
    <3>1. ActiveIndex(ps) = Len(ps)
      BY <1>5, <2>1, <2>2
    <3>2. i < Len(ps) => ps[i].st = "sealed"
      <4>1. ASSUME i < Len(ps), ps[i].st = "active" PROVE FALSE
        <5>1. i = Len(ps) - 1 /\ Len(ps) > 1
          BY <1>1, <2>1, <4>1 DEF PageFits
        <5> QED
          BY <1>3, <2>2, <4>1, <5>1
      <4> QED
        BY <2>1, <4>1 DEF PageFits
    <3> QED
      BY <1>1, <2>2, <3>1, <3>2
  <2>3. CASE ps[Len(ps)].st # "active"
    <3>1. ActiveIndex(ps) = Len(ps) - 1 /\ ps[Len(ps)].st = "send_unknown"
      BY <1>6, <2>1, <2>3
    <3>2. i < Len(ps) - 1 => ps[i].st = "sealed"
      BY <1>1, <2>1 DEF PageFits
    <3>3. i = Len(ps) - 1 => ps[i].st = "active"
      BY <1>1, <1>3, <2>1, <3>1
    <3> QED
      BY <1>1, <3>1, <3>2, <3>3
  <2> QED
    BY <2>2, <2>3
<1> QED
  BY <1>2, <1>4, <1>5, <1>6, <1>7, <1>8, <1>9

LEMMA FirstPage ==
  ASSUME NEW p \in Page, p.start = 0, p.st \in {"active", "send_unknown"},
         p.msg \in IF p.st = "send_unknown" THEN {0, Reserved} ELSE {p.att, Reserved}
  PROVE  LedgerShape(<<p>>) /\ Len(<<p>>) = 1 /\ <<p>>[1] = p
<1>1. <<p>> \in Seq(Page) /\ Len(<<p>>) = 1 /\ <<p>>[1] = p
  OBVIOUS
<1> DEFINE ps == <<p>>
<1>2. ps \in Seq(Page) /\ Len(ps) = 1 /\ ps[1] = p
  BY <1>1
<1> HIDE DEF ps
<1>3. Ascending(ps)
  BY <1>2 DEF Ascending
<1>4. \A i \in 1..Len(ps) : i = 1
  BY <1>2
<1>5. PageFits(ps, 1)
  BY <1>2 DEF PageFits
<1> QED
  BY <1>2, <1>3, <1>4, <1>5 DEF LedgerShape, ps

\* A page that is opened behind an active one.
LEMMA NextPage ==
  ASSUME NEW ps, LedgerShape(ps), Len(ps) > 0, ps[Len(ps)].st = "active",
         NEW p \in Page, p.st = "send_unknown", p.msg = 0,
         p.start = ps[Len(ps)].start + Cap, p.att > ps[Len(ps)].att
  PROVE  LET qs == Append(ps, p)
         IN /\ LedgerShape(qs) /\ Len(qs) = Len(ps) + 1 /\ qs[Len(ps) + 1] = p
            /\ \A i \in 1..Len(ps) : qs[i] = ps[i]
<1> DEFINE qs == Append(ps, p)
           n == Len(ps)
<1>1. /\ n \in Nat /\ n \in 1..n /\ ps \in Seq(Page)
      /\ \A i \in 1..n : ps[i] \in Page /\ PageFits(ps, i)
  BY PagesTyped DEF LedgerShape
<1>2. /\ qs \in Seq(Page) /\ Len(qs) = n + 1 /\ qs[n + 1] = p
      /\ \A i \in 1..n : qs[i] = ps[i]
  BY <1>1, AppendProperties
<1> HIDE DEF qs
<1>3. ASSUME NEW i \in 1..Len(qs), NEW j \in 1..Len(qs), i < j
      PROVE  qs[i].att < qs[j].att /\ qs[i].start < qs[j].start
  <2>1. i \in 1..n /\ (j \in 1..n \/ j = n + 1)
    BY <1>1, <1>2, <1>3
  <2>2. CASE j \in 1..n
    BY <1>2, <1>3, <2>1, <2>2 DEF LedgerShape, Ascending
  <2>3. CASE j = n + 1
    <3>1. i = n \/ (i < n /\ ps[i].att < ps[n].att /\ ps[i].start < ps[n].start)
      BY <1>1, <2>1 DEF LedgerShape, Ascending
    <3>2. /\ ps[i].att \in Nat /\ ps[n].att \in Nat /\ p.att \in Nat
          /\ ps[i].start \in Nat /\ ps[n].start \in Nat
      BY <1>1, <2>1, PageFields
    <3>3. qs[i] = ps[i] /\ qs[j] = p
      BY <1>2, <2>1, <2>3
    <3>4. ps[i].att < p.att
      BY <3>1, <3>2
    <3>5. ps[i].start < p.start
      BY <3>1, <3>2, OutputBounds
    <3> QED
      BY <3>3, <3>4, <3>5
  <2> QED
    BY <2>1, <2>2, <2>3
<1>4. ASSUME NEW i \in 1..Len(qs) PROVE PageFits(qs, i)
  <2>1. CASE i = n + 1
    <3>1. qs[i] = p /\ qs[i - 1] = ps[n] /\ i > 1 /\ i = Len(qs) /\ ~(i < Len(qs)) /\ i # 1
      BY <1>1, <1>2, <2>1
    <3>2. 0 # Reserved
      BY OutputBounds
    <3> QED
      BY <3>1, <3>2 DEF PageFits
  <2>2. CASE i = n
    <3>1. qs[i] = ps[n] /\ i = Len(qs) - 1 /\ i < Len(qs) /\ (i > 1 => qs[i - 1] = ps[i - 1])
      BY <1>1, <1>2, <2>2
    <3>2. PageFits(ps, n)
      BY <1>1
    <3> QED
      BY <1>1, <2>2, <3>1, <3>2 DEF PageFits
  <2>3. CASE i < n
    <3>1. qs[i] = ps[i] /\ i \in 1..n /\ i < Len(qs) /\ (i > 1 => qs[i - 1] = ps[i - 1])
      BY <1>1, <1>2, <2>3
    <3>2. PageFits(ps, i) /\ ps[i].st # "active"
      <4>1. i < ActiveIndex(ps)
        BY <1>1, <2>3, LiveSuffix
      <4> QED
        BY <1>1, <3>1, <4>1, LiveSuffix
    <3> QED
      BY <1>1, <2>3, <3>1, <3>2 DEF PageFits
  <2> QED
    BY <1>1, <1>2, <2>1, <2>2, <2>3
<1> QED
  BY <1>2, <1>3, <1>4 DEF LedgerShape, Ascending, qs

\* A page is confirmed: the one before it, if any, is sealed where it starts.
LEMMA ConfirmedPages ==
  ASSUME NEW ps, LedgerShape(ps), NEW p \in Page, p.st = "active",
         NEW i, i = ActiveIndex(ps),
         p.msg \in {p.att, Reserved}, p.msg = Reserved => i = 0,
         i = 0 => p.start = 0,
         i # 0 => p.start = ps[i].start + Cap /\ p.att > ps[i].att
  PROVE  LET cs == Confirmed(ps, p)
         IN /\ LedgerShape(cs) /\ i \in Nat /\ Len(cs) = i + 1 /\ cs[i + 1] = p
            /\ \A k \in 1..i : /\ cs[k].att = ps[k].att /\ cs[k].msg = ps[k].msg
                               /\ cs[k].start = ps[k].start /\ cs[k].st = "sealed"
                               /\ cs[k].end = ps[k].start + Cap
<1> DEFINE cs == Confirmed(ps, p)
<1>1. /\ i \in 0..Len(ps) /\ Len(ps) \in Nat /\ ps \in Seq(Page) /\ i \in Nat
      /\ \A k \in 1..Len(ps) : ps[k] \in Page /\ PageFits(ps, k)
  BY PagesTyped, LiveSuffix DEF LedgerShape
<1>2. CASE i = 0
  <2>1. cs = <<p>>
    BY <1>2 DEF Confirmed
  <2>2. LedgerShape(<<p>>) /\ Len(<<p>>) = 1 /\ <<p>>[1] = p
    BY <1>2, FirstPage
  <2> QED
    BY <1>2, <2>1, <2>2
<1>3. CASE i # 0
  <2> DEFINE sealed == [ps[i] EXCEPT !.st = "sealed", !.end = p.start]
             front == SubSeq(ps, 1, i - 1)
  <2>1. i \in 1..Len(ps) /\ ps[i] \in Page /\ ps[i].st = "active" /\ PageFits(ps, i)
    BY <1>1, <1>3, LiveSuffix
  <2>2. /\ sealed \in Page /\ sealed.att = ps[i].att /\ sealed.msg = ps[i].msg
        /\ sealed.start = ps[i].start /\ sealed.st = "sealed" /\ sealed.end = p.start
    <3>1. p.start \in {Open} \cup 0..MaxLen /\ "sealed" \in {"active", "sealed", "send_unknown"}
      BY PageFields
    <3> QED
      BY <2>1, <3>1 DEF Page
  <2>3. /\ front \in Seq(Page) /\ Len(front) = i - 1
        /\ \A k \in 1..(i - 1) : front[k] = ps[k]
    <3>1. \A k \in 1..(i - 1) : ps[k] \in Page
      BY <1>1, <2>1
    <3>2. 1 \in Int /\ i - 1 \in Int
      BY <1>1
    <3>3. /\ SubSeq(ps, 1, i - 1) \in Seq(Page)
          /\ Len(SubSeq(ps, 1, i - 1)) = IF 1 <= i - 1 THEN (i - 1) - 1 + 1 ELSE 0
          /\ \A k \in 1..((i - 1) - 1 + 1) : SubSeq(ps, 1, i - 1)[k] = ps[1 + k - 1]
      BY <3>1, <3>2, SubSeqProperties
    <3>4. (i - 1) - 1 + 1 = i - 1 /\ \A k \in 1..(i - 1) : 1 + k - 1 = k
      BY <1>1, <2>1
    <3>5. Len(front) = i - 1
      BY <1>1, <1>3, <3>3
    <3> QED
      BY <3>3, <3>4, <3>5
  <2>4. cs = Append(front \o <<sealed>>, p)
    BY <1>3 DEF Confirmed
  <2> HIDE DEF sealed, front, cs
  <2>5. /\ front \o <<sealed>> \in Seq(Page) /\ Len(front \o <<sealed>>) = i
        /\ \A k \in 1..i : (front \o <<sealed>>)[k] = IF k < i THEN ps[k] ELSE sealed
    <3>1. <<sealed>> \in Seq(Page) /\ Len(<<sealed>>) = 1 /\ <<sealed>>[1] = sealed
      BY <2>2
    <3>2. /\ front \o <<sealed>> \in Seq(Page)
          /\ Len(front \o <<sealed>>) = Len(front) + Len(<<sealed>>)
          /\ \A k \in 1..Len(front) + Len(<<sealed>>) : (front \o <<sealed>>)[k] =
                IF k <= Len(front) THEN front[k] ELSE <<sealed>>[k - Len(front)]
      BY <2>3, <3>1, ConcatProperties
    <3>3. ASSUME NEW k \in 1..i
          PROVE  /\ k <= Len(front) <=> k < i
                 /\ k < i => k \in 1..(i - 1)
                 /\ ~(k < i) => k - Len(front) = 1
      BY <1>1, <2>3, <3>3
    <3>4. Len(front) + Len(<<sealed>>) = i
      BY <1>1, <2>3, <3>1
    <3> QED
      BY <2>3, <3>1, <3>2, <3>3, <3>4
  <2>6. /\ cs \in Seq(Page) /\ Len(cs) = i + 1 /\ cs[i + 1] = p
        /\ \A k \in 1..i : cs[k] = IF k < i THEN ps[k] ELSE sealed
    BY <2>4, <2>5, AppendProperties
  <2>7. ASSUME NEW k \in 1..i
        PROVE  /\ cs[k].att = ps[k].att /\ cs[k].msg = ps[k].msg
               /\ cs[k].start = ps[k].start /\ cs[k].st = "sealed"
               /\ cs[k].end = ps[k].start + Cap
    <3>1. CASE k < i
      <4>1. k \in 1..Len(ps) /\ cs[k] = ps[k]
        BY <1>1, <2>6, <3>1
      <4>2. ps[k].st = "sealed"
        BY <3>1, <4>1, LiveSuffix
      <4> QED
        BY <1>1, <4>1, <4>2 DEF PageFits
    <3>2. CASE ~(k < i)
      <4>1. k = i
        BY <1>1, <3>2
      <4> QED
        BY <1>3, <2>2, <2>6, <4>1
    <3> QED
      BY <3>1, <3>2
  <2>8. ASSUME NEW k \in 1..i
        PROVE  /\ ps[k].att <= ps[i].att /\ ps[k].start <= ps[i].start
               /\ ps[k].att \in Nat /\ ps[k].start \in Nat
               /\ ps[k].att < p.att /\ ps[k].start < p.start
    <3>1. k \in 1..Len(ps) /\ (k = i \/ k < i)
      BY <1>1
    <3>2. /\ ps[k].att \in Nat /\ ps[i].att \in Nat /\ p.att \in Nat
          /\ ps[k].start \in Nat /\ ps[i].start \in Nat /\ p.start \in Nat
      BY <1>1, <2>1, <3>1, PageFields
    <3>3. ps[k].att <= ps[i].att /\ ps[k].start <= ps[i].start
      BY <2>1, <3>1, <3>2 DEF LedgerShape, Ascending
    <3>4. ps[k].att < p.att
      BY <1>3, <3>2, <3>3
    <3>5. ps[k].start < p.start
      BY <1>3, <3>2, <3>3, OutputBounds
    <3> QED
      BY <3>2, <3>3, <3>4, <3>5
  <2>9. Ascending(cs)
    <3>1. ASSUME NEW k \in 1..Len(cs), NEW m \in 1..Len(cs), k < m
          PROVE  cs[k].att < cs[m].att /\ cs[k].start < cs[m].start
      <4>1. k \in 1..i /\ (m \in 1..i \/ m = i + 1)
        BY <1>1, <2>6, <3>1
      <4>2. CASE m \in 1..i
        <5>1. k \in 1..Len(ps) /\ m \in 1..Len(ps)
          BY <1>1, <4>1, <4>2
        <5> QED
          BY <2>7, <3>1, <4>1, <4>2, <5>1 DEF LedgerShape, Ascending
      <4>3. CASE m = i + 1
        BY <2>6, <2>7, <2>8, <4>1, <4>3
      <4> QED
        BY <4>1, <4>2, <4>3
    <3> QED
      BY <3>1 DEF Ascending
  <2>10. ASSUME NEW k \in 1..Len(cs) PROVE PageFits(cs, k)
    <3>1. CASE k = i + 1
      <4>1. /\ cs[k] = p /\ k = Len(cs) /\ ~(k < Len(cs)) /\ k # 1 /\ k > 1 /\ k - 1 = i
            /\ i \in 1..i
        BY <1>1, <1>3, <2>6, <3>1
      <4>2. cs[i].start = ps[i].start /\ cs[i].st = "sealed"
        BY <2>7, <4>1
      <4>3. p.start = cs[i].start + Cap /\ p.msg # Reserved
        BY <1>3, <4>2
      <4> QED
        BY <4>1, <4>2, <4>3 DEF PageFits
    <3>2. CASE k # i + 1
      <4>1. /\ k \in 1..i /\ k < Len(cs) /\ k # Len(cs) /\ k \in 1..Len(ps)
            /\ k # 1 => k - 1 \in 1..i
        BY <1>1, <2>6, <3>2
      <4>2. PageFits(ps, k) /\ ps[k].st # "send_unknown"
        <5>1. ps[k].st \in {"sealed", "active"}
          BY <1>1, <2>1, <4>1, LiveSuffix
        <5> QED
          BY <1>1, <4>1, <5>1
      <4>3. /\ cs[k].start = ps[k].start /\ cs[k].msg = ps[k].msg /\ cs[k].att = ps[k].att
            /\ cs[k].st = "sealed" /\ cs[k].end = ps[k].start + Cap
            /\ k # 1 => cs[k - 1].start = ps[k - 1].start
        BY <2>7, <4>1
      <4> QED
        BY <4>1, <4>2, <4>3 DEF PageFits
    <3> QED
      BY <3>1, <3>2
  <2> QED
    BY <1>1, <2>6, <2>7, <2>9, <2>10 DEF LedgerShape, cs
<1> QED
  BY <1>2, <1>3

\* The pending page is dropped.
LEMMA DroppedPages ==
  ASSUME NEW ps, LedgerShape(ps), HasPending(ps)
  PROVE  LET qs == Front(ps)
         IN /\ LedgerShape(qs) /\ Len(qs) = Len(ps) - 1
            /\ \A i \in 1..Len(qs) : qs[i] = ps[i]
            /\ ~HasPending(qs)
<1> DEFINE qs == Front(ps)
           n == Len(ps)
<1>1. /\ n \in Nat /\ ps \in Seq(Page) /\ n > 0
      /\ \A i \in 1..n : ps[i] \in Page /\ PageFits(ps, i)
      /\ ps[n].st = "send_unknown"
  BY PagesTyped, LiveSuffix DEF LedgerShape, HasPending
<1>2. qs \in Seq(Page) /\ Len(qs) = n - 1 /\ \A i \in 1..(n - 1) : qs[i] = ps[i]
  <2>1. \A k \in 1..(n - 1) : ps[k] \in Page
    BY <1>1
  <2>2. 1 \in Int /\ n - 1 \in Int
    BY <1>1
  <2>3. /\ SubSeq(ps, 1, n - 1) \in Seq(Page)
        /\ Len(SubSeq(ps, 1, n - 1)) = IF 1 <= n - 1 THEN (n - 1) - 1 + 1 ELSE 0
        /\ \A k \in 1..((n - 1) - 1 + 1) : SubSeq(ps, 1, n - 1)[k] = ps[1 + k - 1]
    BY <2>1, <2>2, SubSeqProperties
  <2>4. (n - 1) - 1 + 1 = n - 1 /\ \A k \in 1..(n - 1) : 1 + k - 1 = k
    BY <1>1
  <2>5. Len(SubSeq(ps, 1, n - 1)) = n - 1
    <3>1. n \in Nat /\ n > 0
      BY <1>1
    <3>2. \A k \in Nat : k > 0 => (IF 1 <= k - 1 THEN (k - 1) - 1 + 1 ELSE 0) = k - 1
      <4> TAKE k \in Nat
      <4>1. CASE k = 1
        BY <4>1
      <4>2. CASE k > 1
        BY <4>2
      <4> QED
        BY <4>1, <4>2
    <3> QED
      BY <2>3, <3>1, <3>2
  <2> QED
    BY <2>3, <2>4, <2>5 DEF Front
<1> HIDE DEF qs
<1>3. Ascending(qs)
  <2>1. \A i \in 1..Len(qs) : i \in 1..n /\ qs[i] = ps[i]
    BY <1>1, <1>2
  <2> QED
    BY <2>1 DEF LedgerShape, Ascending
<1>4. ASSUME NEW i \in 1..Len(qs) PROVE PageFits(qs, i)
  <2>1. /\ i \in 1..n /\ qs[i] = ps[i] /\ i < n /\ i <= n - 1
        /\ i # 1 => qs[i - 1] = ps[i - 1]
        /\ i < Len(qs) <=> i < n - 1
        /\ i = Len(qs) <=> i = n - 1
    BY <1>1, <1>2
  <2>2. PageFits(ps, i)
    BY <1>1, <2>1
  <2>3. CASE i < n - 1
    <3>1. ps[i].st = "sealed"
      BY <1>1, <2>1, <2>2, <2>3 DEF PageFits
    <3> QED
      BY <2>1, <2>2, <2>3, <3>1 DEF PageFits
  <2>4. CASE i = n - 1
    <3>1. ps[i].st = "active"
      <4>1. PageFits(ps, n) /\ n > 1 /\ n - 1 = i
        BY <1>1, <2>4
      <4> QED
        BY <1>1, <4>1 DEF PageFits
    <3>2. i > 1 => ps[i - 1].st = "sealed"
      <4>1. ASSUME i > 1 PROVE i - 1 \in 1..n /\ i - 1 < n - 1
        BY <1>1, <2>4, <4>1
      <4>2. ASSUME i > 1 PROVE ps[i - 1].st \in {"sealed", "active"}
        <5>1. PageFits(ps, i - 1) /\ i - 1 < n
          BY <1>1, <2>1, <4>1, <4>2
        <5> QED
          BY <5>1 DEF PageFits
      <4> QED
        <5>1. ASSUME i > 1, ps[i - 1].st = "active" PROVE FALSE
          <6>1. PageFits(ps, i - 1) /\ i - 1 < n /\ n = Len(ps)
            BY <1>1, <2>1, <4>1, <5>1
          <6>2. i - 1 = Len(ps) - 1
            BY <5>1, <6>1 DEF PageFits
          <6> QED
            BY <1>1, <2>4, <6>2
        <5> QED
          BY <4>2, <5>1
    <3> QED
      BY <1>1, <2>1, <2>2, <2>4, <3>1, <3>2 DEF PageFits
  <2> QED
    BY <1>1, <2>1, <2>3, <2>4
<1>5. ~HasPending(qs)
  <2>1. LedgerShape(qs)
    BY <1>2, <1>3, <1>4 DEF LedgerShape
  <2>2. ASSUME Len(qs) > 0 PROVE qs[Len(qs)].st = "active"
    <3>1. Len(qs) = n - 1 /\ n > 1 /\ n - 1 \in 1..n /\ qs[n - 1] = ps[n - 1] /\ PageFits(ps, n)
      BY <1>1, <1>2, <2>2
    <3> QED
      BY <1>1, <3>1 DEF PageFits
  <2>3. Len(qs) = 0 \/ Len(qs) > 0
    BY <1>1, <1>2
  <2> QED
    BY <2>1, <2>2, <2>3, LiveSuffix
<1> QED
  BY <1>2, <1>3, <1>4, <1>5 DEF LedgerShape, qs

\* The pending page was tried once.
LEMMA TriedPages ==
  ASSUME NEW ps, LedgerShape(ps), HasPending(ps)
  PROVE  LET qs == [ps EXCEPT ![Len(ps)].tried = TRUE]
         IN /\ LedgerShape(qs) /\ Len(qs) = Len(ps)
            /\ \A i \in 1..Len(ps) :
                 /\ qs[i].att = ps[i].att /\ qs[i].msg = ps[i].msg /\ qs[i].start = ps[i].start
                 /\ qs[i].st = ps[i].st /\ qs[i].end = ps[i].end
<1> DEFINE qs == [ps EXCEPT ![Len(ps)].tried = TRUE]
           n == Len(ps)
<1>1. /\ n \in Nat /\ n \in 1..n /\ ps \in Seq(Page)
      /\ \A i \in 1..n : ps[i] \in Page /\ PageFits(ps, i)
  BY PagesTyped, LiveSuffix DEF LedgerShape, HasPending
<1>2. qs \in Seq(Page) /\ Len(qs) = n /\ \A i \in 1..n : qs[i] = IF i = n THEN [ps[n] EXCEPT !.tried = TRUE] ELSE ps[i]
  <2>1. [ps[n] EXCEPT !.tried = TRUE] \in Page
    BY <1>1 DEF Page
  <2>2. qs = [ps EXCEPT ![n] = [ps[n] EXCEPT !.tried = TRUE]]
    OBVIOUS
  <2> QED
    BY <1>1, <2>1, <2>2, ExceptSeq
<1> HIDE DEF qs
<1>3. \A i \in 1..n :
        /\ qs[i].att = ps[i].att /\ qs[i].msg = ps[i].msg /\ qs[i].start = ps[i].start
        /\ qs[i].st = ps[i].st /\ qs[i].end = ps[i].end
  <2>1. ASSUME NEW p \in Page
        PROVE  /\ [p EXCEPT !.tried = TRUE].att = p.att /\ [p EXCEPT !.tried = TRUE].msg = p.msg
               /\ [p EXCEPT !.tried = TRUE].start = p.start
               /\ [p EXCEPT !.tried = TRUE].st = p.st /\ [p EXCEPT !.tried = TRUE].end = p.end
    BY DEF Page
  <2>2. ps[n] \in Page
    BY <1>1
  <2> TAKE i \in 1..n
  <2>3. CASE i = n
    <3>1. qs[i] = [ps[n] EXCEPT !.tried = TRUE]
      BY <1>2, <2>3
    <3> QED
      BY <2>1, <2>2, <2>3, <3>1
  <2>4. CASE i # n
    BY <1>2, <2>4
  <2> QED
    BY <2>3, <2>4
<1>4. Ascending(qs)
  BY <1>2, <1>3 DEF LedgerShape, Ascending
<1>5. ASSUME NEW i \in 1..n PROVE PageFits(qs, i)
  <2>1. i > 1 => i - 1 \in 1..n
    BY <1>1
  <2>2. PageFits(ps, i) /\ (i = 1 \/ i > 1)
    BY <1>1
  <2> QED
    BY <1>2, <1>3, <2>1, <2>2 DEF PageFits
<1> QED
  BY <1>2, <1>3, <1>4, <1>5 DEF LedgerShape, qs

\* No two pages have the same message or attempt.
LEMMA PagesDiffer ==
  ASSUME NEW ps, LedgerShape(ps), NEW i \in 1..Len(ps), NEW j \in 1..Len(ps), i # j
  PROVE  /\ ps[i].att # ps[j].att /\ ps[i].start # ps[j].start
         /\ ps[i].msg # 0 => ps[i].msg # ps[j].msg
<1>1. /\ ps[i] \in Page /\ ps[j] \in Page /\ PageFits(ps, i) /\ PageFits(ps, j)
      /\ i < j \/ j < i
  BY PagesTyped DEF LedgerShape
<1>2. /\ ps[i].att \in Nat /\ ps[j].att \in Nat /\ ps[i].start \in Nat /\ ps[j].start \in Nat
      /\ ps[i].att # Reserved /\ ps[j].att # Reserved /\ ps[i].att # 0 /\ ps[j].att # 0
  BY <1>1, PageFields
<1>3. ps[i].att # ps[j].att /\ ps[i].start # ps[j].start
  BY <1>1, <1>2 DEF LedgerShape, Ascending
<1>4. /\ ps[i].msg \in {0, ps[i].att, Reserved} /\ ps[j].msg \in {0, ps[j].att, Reserved}
      /\ ~(ps[i].msg = Reserved /\ ps[j].msg = Reserved)
  BY <1>1 DEF PageFits
<1> QED
  BY <1>2, <1>3, <1>4

\* The active page, and the pending one behind it.
LEMMA ActiveFields ==
  ASSUME NEW ps, LedgerShape(ps), NEW i, i = ActiveIndex(ps), i # 0
  PROVE  /\ i \in 1..Len(ps) /\ ps[i] \in Page /\ ps[i].st = "active" /\ PageFits(ps, i)
         /\ ps[i].msg \in {ps[i].att, Reserved} /\ ps[i].msg # 0 /\ ps[i].msg \in Msgs
         /\ ps[i].start \in 0..MaxLen /\ ps[i].att \in 1..MaxAttempt
         /\ HasPending(ps) <=> i = Len(ps) - 1
         /\ ~HasPending(ps) <=> i = Len(ps)
<1>1. /\ i \in 1..Len(ps) /\ Len(ps) \in Nat /\ ps[i] \in Page /\ ps[i].st = "active" /\ PageFits(ps, i)
  BY PagesTyped, LiveSuffix DEF LedgerShape
<1>2. ps[i].msg \in {ps[i].att, Reserved}
  BY <1>1 DEF PageFits
<1>3. ps[i].start \in 0..MaxLen /\ ps[i].att \in 1..MaxAttempt /\ ps[i].att > 0
  BY <1>1, PageFields
<1>4. ps[i].msg # 0 /\ ps[i].msg \in Msgs
  BY <1>2, <1>3, OutputBounds
<1>5. (HasPending(ps) /\ i = Len(ps) - 1) \/ (~HasPending(ps) /\ i = Len(ps))
  BY <1>1, LiveSuffix
<1>6. Len(ps) # Len(ps) - 1
  BY <1>1
<1> QED
  BY <1>1, <1>2, <1>3, <1>4, <1>5, <1>6

LEMMA PendingFields ==
  ASSUME NEW ps, LedgerShape(ps), HasPending(ps), NEW n, n = Len(ps)
  PROVE  /\ n \in 1..Len(ps) /\ n \in Nat /\ Last(ps) = ps[n] /\ ps[n] \in Page /\ ps[n].st = "send_unknown"
         /\ PageFits(ps, n) /\ ActiveIndex(ps) = n - 1
         /\ ps[n].msg \in {0, Reserved} /\ (ps[n].msg = Reserved => n = 1)
         /\ ps[n].start \in 0..MaxLen /\ ps[n].att \in 1..MaxAttempt
         /\ n = 1 => ps[n].start = 0
         /\ n # 1 => ps[n].start = ps[n - 1].start + Cap
<1>1. /\ n \in Nat /\ n > 0 /\ ps[n].st = "send_unknown" /\ Last(ps) = ps[n]
      /\ ActiveIndex(ps) = n - 1
  BY PagesTyped, LiveSuffix DEF LedgerShape, HasPending
<1>2. n \in 1..Len(ps)
  BY <1>1
<1>3. ps[n] \in Page /\ PageFits(ps, n)
  BY <1>2, PagesTyped DEF LedgerShape
<1> QED
  BY <1>1, <1>2, <1>3, PageFields DEF PageFits

\* The sealed pages are the ones before the active page.
LEMMA SealedCount ==
  ASSUME LedgerShape(pages)
  PROVE  LET k == IF HasActivePage THEN ActiveIndex(pages) - 1 ELSE 0
         IN Cardinality(Sealed) = k /\ k \in Nat /\ k <= Len(pages) /\ Sealed = 1..k
<1> DEFINE k == IF HasActivePage THEN ActiveIndex(pages) - 1 ELSE 0
<1>1. /\ Len(pages) \in Nat /\ DOMAIN pages = 1..Len(pages)
      /\ ActiveIndex(pages) \in 0..Len(pages)
      /\ \A i \in 1..Len(pages) : i < ActiveIndex(pages) <=> pages[i].st = "sealed"
  BY PagesTyped, LiveSuffix DEF LedgerShape
<1>2. k \in Nat /\ k <= Len(pages)
  BY <1>1 DEF HasActivePage
<1>3. \A i \in 1..Len(pages) : i <= k <=> pages[i].st = "sealed"
  BY <1>1 DEF HasActivePage
<1> HIDE DEF k
<1>4. Sealed = 1..k
  BY <1>1, <1>2, <1>3 DEF Sealed
<1>5. Cardinality(1..k) = k
  BY <1>2, FS_Interval
<1> QED
  BY <1>2, <1>4, <1>5 DEF k

-----------------------------------------------------------------------------
(* What a step leaves alone keeps its part of the invariant.                *)

LEMMA LoopRests ==
  ASSUME LoopInv, UNCHANGED <<len, run, turn, patched, timer, pages, pc, bg>>,
         run = "new" => UNCHANGED <<natt, startOf>>
  PROVE  LoopInv'
  BY DEF LoopInv, TicketMatches, Pending, CurrentMsg, ActivePage, HasActivePage

LEMMA LedgerRests ==
  ASSUME LedgerInv, UNCHANGED <<len, pages, natt, posted, startOf>>
  PROVE  LedgerInv'
  BY DEF LedgerInv

LEMMA ShownRests ==
  ASSUME ShownInv, UNCHANGED <<len, run, turn, timer, pages, pc, term, want>>, closed => closed'
  PROVE  ShownInv'
  BY DEF ShownInv, PageIsCurrent, Final, TicketMatches, Pending, CurrentMsg, ActivePage,
         HasActivePage, ProjectionEnd

LEMMA ReceiptsRest ==
  ASSUME ReceiptsInv, UNCHANGED <<receipts, natt, want>>, closed => closed'
  PROVE  ReceiptsInv'
  BY DEF ReceiptsInv, Known, Final

LEMMA PostedRests ==
  ASSUME PostedInv, UNCHANGED <<pages, posted, startOf, denied, term, at, receipts>>
  PROVE  PostedInv'
  BY DEF PostedInv, OneCardPerRange, Counted

LEMMA TermRests ==
  ASSUME TermInv, UNCHANGED <<run, pages, natt, term, at, receipts>>
  PROVE  TermInv'
  BY DEF TermInv, Known, Receipted, HasActivePage, Pending

LEMMA CutRests ==
  ASSUME CutInv, UNCHANGED <<term, receipts, todo, carrier, want>>
  PROVE  CutInv'
  BY DEF CutInv, NothingRemovedUnpublished

\* The dispatcher's own steps, which ask for nothing.
LEMMA DispatcherStep ==
  ASSUME OutputInd, UNCHANGED <<book, patched, timer, ledger, pc, bg, terminal, want>>,
         closed => closed', DispatchInv'
  PROVE  OutputInd'
<1>1. UNCHANGED <<len, run, turn, patched, timer, pages, natt, posted, startOf, denied, pc, bg,
                  term, at, receipts, todo, carrier, want>>
  BY DEF book, ledger, terminal
<1>2. /\ LoopInv /\ LedgerInv /\ ShownInv /\ ReceiptsInv /\ PostedInv /\ TermInv /\ CutInv
  BY DEF OutputInd
<1>3. LoopInv'
  BY <1>1, <1>2, LoopRests
<1>4. LedgerInv'
  BY <1>1, <1>2, LedgerRests
<1>5. ShownInv'
  BY <1>1, <1>2, ShownRests
<1>6. ReceiptsInv'
  BY <1>1, <1>2, ReceiptsRest
<1>7. PostedInv' /\ TermInv' /\ CutInv'
  BY <1>1, <1>2, PostedRests, TermRests, CutRests
<1> QED
  BY <1>3, <1>4, <1>5, <1>6, <1>7 DEF OutputInd

LEMMA DispatcherSteps ==
  ASSUME OutputInd,
         \/ \E x \in Patchers : WorkerTakes(x) \/ WorkerStops(x)
         \/ \E x \in Patchers, o \in {"applied", "retry", "failed"} : WorkerFinishes(x, o)
         \/ \E m \in Msgs : RetryReady(m)
         \/ Shutdown
  PROVE  OutputInd'
<1>1. DispatchInv
  BY DEF OutputInd
<1>2. ASSUME NEW x \in Patchers, WorkerTakes(x) PROVE OutputInd'
  <2>1. DispatchInv'
    BY <1>1, <1>2, TakesKeeps
  <2>2. UNCHANGED <<book, patched, timer, ledger, pc, bg, terminal, want, closed>>
    BY <1>2 DEF WorkerTakes
  <2> QED
    BY <2>1, <2>2, DispatcherStep
<1>3. ASSUME NEW x \in Patchers, WorkerStops(x) PROVE OutputInd'
  <2>1. DispatchInv'
    BY <1>1, <1>3, StopsKeeps
  <2>2. UNCHANGED <<book, patched, timer, ledger, pc, bg, terminal, want, closed>>
    BY <1>3 DEF WorkerStops
  <2> QED
    BY <2>1, <2>2, DispatcherStep
<1>4. ASSUME NEW x \in Patchers, NEW o, WorkerFinishes(x, o) PROVE OutputInd'
  <2>1. DispatchInv'
    BY <1>1, <1>4, FinishesKeeps
  <2>2. UNCHANGED <<book, patched, timer, ledger, pc, bg, terminal, want, closed>>
    BY <1>4 DEF WorkerFinishes
  <2> QED
    BY <2>1, <2>2, DispatcherStep
<1>5. ASSUME NEW m \in Msgs, RetryReady(m) PROVE OutputInd'
  <2>1. DispatchInv'
    BY <1>1, <1>5, RetryKeeps
  <2>2. UNCHANGED <<book, patched, timer, ledger, pc, bg, terminal, want, closed>>
    BY <1>5 DEF RetryReady
  <2> QED
    BY <2>1, <2>2, DispatcherStep
<1>6. ASSUME Shutdown PROVE OutputInd'
  <2>1. DispatchInv'
    BY <1>1, <1>6, ShutdownKeeps
  <2>2. UNCHANGED <<book, patched, timer, ledger, pc, bg, terminal, want>> /\ closed' = TRUE
    BY <1>6 DEF Shutdown
  <2> QED
    BY <2>1, <2>2, DispatcherStep
<1> QED
  BY <1>2, <1>3, <1>4, <1>5, <1>6

-----------------------------------------------------------------------------
(* What is asked of the dispatcher by the other steps.                      *)

\* One model is submitted for the card m, or none.
Asks(m, model) == hold' = hold /\ (Submit(m, model) \/ UNCHANGED dispatcher)

LEMMA AsksKeeps ==
  ASSUME DispatchInv, NEW m \in Msgs, NEW model \in Model, Asks(m, model)
  PROVE  /\ DispatchInv'
         /\ closed' = closed
         /\ \A n \in Msgs \ {m} : want'[n] = want[n]
         /\ want'[m] \in {want[m], model}
         /\ Submit(m, model) /\ ~closed => want'[m] = model
<1>1. CASE UNCHANGED dispatcher /\ ~Submit(m, model)
  <2>1. closed' = closed /\ want' = want /\ hold' = hold
    BY <1>1 DEF dispatcher, Asks
  <2> QED
    BY <1>1, <2>1, DispatchRests
<1>2. CASE Submit(m, model)
  <2>1. DispatchInv'
    BY <1>2, SubmitKeeps DEF Asks
  <2> QED
    BY <1>2, <2>1, SubmitWants
<1> QED
  BY <1>1, <1>2 DEF Asks

LEMMA ModelsTyped ==
  ASSUME NEW lo \in 0..MaxLen, NEW hi \in 0..MaxLen, NEW r \in BOOLEAN
  PROVE  /\ ModelOf(lo, hi, r) \in Model
         /\ ModelOf(lo, hi, r).lo = lo /\ ModelOf(lo, hi, r).hi = hi
         /\ ModelOf(lo, hi, r).running = r /\ ModelOf(lo, hi, r).text = "full"
<1>1. "full" \in {"full", "cut", "minimal"}
  OBVIOUS
<1>2. ModelOf(lo, hi, r) \in Model
  BY <1>1 DEF ModelOf, Model
<1>3. /\ ModelOf(lo, hi, r).lo = lo /\ ModelOf(lo, hi, r).hi = hi
      /\ ModelOf(lo, hi, r).running = r /\ ModelOf(lo, hi, r).text = "full"
  BY DEF ModelOf
<1> QED
  BY <1>2, <1>3

LEMMA Restated ==
  ASSUME NEW x \in Model
  PROVE  /\ [x EXCEPT !.running = FALSE] \in Model /\ [x EXCEPT !.text = "cut"] \in Model
         /\ [x EXCEPT !.running = FALSE].lo = x.lo /\ [x EXCEPT !.running = FALSE].hi = x.hi
         /\ ~[x EXCEPT !.running = FALSE].running
         /\ [x EXCEPT !.running = FALSE].text = x.text
         /\ [x EXCEPT !.text = "cut"].lo = x.lo /\ [x EXCEPT !.text = "cut"].hi = x.hi
         /\ [x EXCEPT !.text = "cut"].running = x.running
<1>1. "cut" \in {"full", "cut", "minimal"} /\ FALSE \in BOOLEAN
  OBVIOUS
<1> QED
  BY <1>1 DEF Model

\* A card's text is cut by nothing but the clean-up.
LEMMA CutKept ==
  ASSUME DispatchInv, CutInv, NEW m \in Msgs, NEW model \in Model, model.text # "cut",
         Asks(m, model), carrier' = carrier
  PROVE  NothingRemovedUnpublished'
  BY AsksKeeps DEF NothingRemovedUnpublished, CutInv

-----------------------------------------------------------------------------
(* The handlers of the loop that leave the ledger alone.                    *)

LEMMA LedgerShaped ==
  ASSUME LedgerInv
  PROVE  /\ LedgerShape(pages) /\ Len(pages) \in Nat /\ natt \in Nat /\ natt <= MaxAttempt
         /\ \A i \in 1..Len(pages) :
              /\ pages[i] \in Page /\ pages[i].att \in 1..natt /\ pages[i].start <= len
              /\ startOf[pages[i].att] = pages[i].start
<1>1. LedgerShape(pages) /\ natt \in 0..MaxAttempt
  BY DEF LedgerInv, LedgerShape
<1>2. Len(pages) \in Nat /\ \A i \in 1..Len(pages) : pages[i] \in Page
  BY <1>1, PagesTyped DEF LedgerShape
<1>3. natt \in Nat /\ natt <= MaxAttempt
  BY <1>1, OutputBounds
<1>4. ASSUME NEW i \in 1..Len(pages)
      PROVE  /\ pages[i].att \in 1..natt /\ pages[i].start <= len
             /\ startOf[pages[i].att] = pages[i].start
  <2>1. pages[i].att \in 1..MaxAttempt
    BY <1>2, PageFields
  <2> QED
    BY <1>3, <2>1, OutputBounds DEF LedgerInv
<1> QED
  BY <1>1, <1>2, <1>3, <1>4

\* Before the end of the execution the terminal worker has done nothing.
LEMMA BeforeTheEnd ==
  ASSUME OutputInd, run # "over"
  PROVE  term = "none" /\ receipts = <<>> /\ todo = {} /\ carrier = FALSE
<1>1. term = "none" /\ receipts = <<>>
  BY DEF OutputInd, TermInv
<1> QED
  BY <1>1 DEF OutputInd, CutInv

TicketFor(ps, t) == [Ticket(ps, t) EXCEPT !.msg = IF @ # 0 THEN @ ELSE Last(ps).msg]
Live(ps) == ActiveIndex(ps) # 0 \/ HasPending(ps)

LEMMA TicketTyped ==
  ASSUME NEW ps, LedgerShape(ps), NEW t \in BOOLEAN, Live(ps)
  PROVE  /\ Ticket(ps, t).att \in 0..MaxAttempt /\ Ticket(ps, t).msg \in 0..Reserved
         /\ Ticket(ps, t) \in [att : 0..MaxAttempt, msg : 0..Reserved, turn : BOOLEAN, set : BOOLEAN]
         /\ Ticket(ps, t).turn = t /\ Ticket(ps, t).set
         /\ HasPending(ps) =>
              /\ Ticket(ps, t).att = Last(ps).att /\ Last(ps).att # 0
              /\ Ticket(ps, t).msg = IF ActiveIndex(ps) # 0 THEN ps[ActiveIndex(ps)].msg ELSE 0
              /\ Last(ps).msg \in 0..Reserved
         /\ ~HasPending(ps) =>
              /\ Ticket(ps, t).att = 0
              /\ Ticket(ps, t).msg = ps[ActiveIndex(ps)].msg /\ Ticket(ps, t).msg # 0
<1> DEFINE a == IF HasPending(ps) THEN Last(ps).att ELSE 0
           m == IF ActiveIndex(ps) # 0 THEN ps[ActiveIndex(ps)].msg ELSE 0
<1>1. HasPending(ps) => /\ a = Last(ps).att /\ a \in 1..MaxAttempt /\ a # 0
                        /\ Last(ps).msg \in 0..Reserved
  <2>1. ASSUME HasPending(ps)
        PROVE  Last(ps).att \in 1..MaxAttempt /\ Last(ps).msg \in {0, Reserved}
    BY <2>1, PendingFields
  <2> QED
    BY <2>1, OutputBounds
<1>2. a \in 0..MaxAttempt
  BY <1>1, OutputBounds
<1>3. ActiveIndex(ps) # 0 => m = ps[ActiveIndex(ps)].msg /\ m \in Msgs /\ m # 0
  BY ActiveFields
<1>4. m \in 0..Reserved
  BY <1>3, OutputBounds
<1>5. Ticket(ps, t) = [att |-> a, msg |-> m, turn |-> t, set |-> TRUE]
  BY DEF Ticket
<1>6. ~HasPending(ps) => a = 0 /\ ActiveIndex(ps) # 0
  BY DEF Live
<1>7. Ticket(ps, t).att = a /\ Ticket(ps, t).msg = m /\ Ticket(ps, t).turn = t /\ Ticket(ps, t).set
  BY <1>5
<1>8. Ticket(ps, t) \in [att : 0..MaxAttempt, msg : 0..Reserved, turn : BOOLEAN, set : BOOLEAN]
  BY <1>2, <1>4, <1>5
<1>9. HasPending(ps) => m = IF ActiveIndex(ps) # 0 THEN ps[ActiveIndex(ps)].msg ELSE 0
  OBVIOUS
<1> HIDE DEF a, m
<1> QED
  BY <1>1, <1>2, <1>3, <1>4, <1>6, <1>7, <1>8, <1>9

\* A timer that is registered for the ledger fits it.
LEMMA FreshTicket ==
  LedgerShape(pages) /\ Live(pages) /\ turn \in BOOLEAN /\ timer = Ticket(pages, turn) =>
    TicketMatches(timer)
<1> SUFFICES ASSUME LedgerShape(pages), Live(pages), turn \in BOOLEAN,
                    timer = Ticket(pages, turn)
             PROVE  TicketMatches(timer)
  OBVIOUS
<1>1. CASE HasPending(pages)
  BY <1>1, TicketTyped DEF TicketMatches, Pending, CurrentMsg, ActivePage, HasActivePage
<1>2. CASE ~HasPending(pages)
  <2>1. ActiveIndex(pages) # 0
    BY <1>2 DEF Live
  <2>2. /\ timer.att = 0 /\ timer.msg # 0 /\ timer.turn = turn
        /\ timer.msg = pages[ActiveIndex(pages)].msg
    BY <1>2, TicketTyped
  <2> QED
    BY <2>1, <2>2 DEF TicketMatches, CurrentMsg, ActivePage, HasActivePage
<1> QED
  BY <1>1, <1>2

\* What a pending page adds to the ticket.
LEMMA LaterTicket ==
  LedgerShape(pages) /\ HasPending(pages) /\ turn \in BOOLEAN /\ timer = TicketFor(pages, turn) =>
    /\ timer \in [att : 0..MaxAttempt, msg : 0..Reserved, turn : BOOLEAN, set : BOOLEAN]
    /\ timer.set /\ TicketMatches(timer)
<1> SUFFICES ASSUME LedgerShape(pages), HasPending(pages), turn \in BOOLEAN,
                    timer = TicketFor(pages, turn)
             PROVE  /\ timer \in [att : 0..MaxAttempt, msg : 0..Reserved, turn : BOOLEAN, set : BOOLEAN]
                    /\ timer.set /\ TicketMatches(timer)
  OBVIOUS
<1> DEFINE t == Ticket(pages, turn)
           m == IF t.msg # 0 THEN t.msg ELSE Last(pages).msg
<1>1. Live(pages)
  BY DEF Live
<1>2. /\ t \in [att : 0..MaxAttempt, msg : 0..Reserved, turn : BOOLEAN, set : BOOLEAN]
      /\ t.turn = turn /\ t.set /\ t.att = Last(pages).att /\ t.att # 0
      /\ t.msg = IF ActiveIndex(pages) # 0 THEN pages[ActiveIndex(pages)].msg ELSE 0
      /\ Last(pages).msg \in 0..Reserved /\ t.msg \in 0..Reserved
  BY <1>1, TicketTyped
<1>3. timer = [t EXCEPT !.msg = m]
  BY DEF TicketFor
<1> HIDE DEF t
<1>4. m \in 0..Reserved
  BY <1>2
<1>5. /\ timer \in [att : 0..MaxAttempt, msg : 0..Reserved, turn : BOOLEAN, set : BOOLEAN]
      /\ timer.msg = m /\ timer.att = t.att /\ timer.set = t.set /\ timer.turn = t.turn
  BY <1>2, <1>3, <1>4
<1>6. t.msg = CurrentMsg /\ Pending = Last(pages)
  BY <1>2 DEF CurrentMsg, ActivePage, HasActivePage, Pending
<1>7. m \in {CurrentMsg, Pending.msg}
  BY <1>6
<1> QED
  BY <1>2, <1>5, <1>6, <1>7 DEF TicketMatches

\* A delta or the start of the turn, which updates the card at once or later.
LEMMA Scheduled ==
  ASSUME LoopInv, LedgerInv, pc = "idle", run = "running", run' = run, turn' = TRUE,
         len' \in 0..MaxLen, ScheduleUpdate(TRUE), UNCHANGED pages
  PROVE  /\ LoopInv'
         /\ pc' = "idle" /\ HasActivePage => timer'.set /\ TicketMatches(timer)'
<1>1. /\ LedgerShape(pages)
      /\ timer \in [att : 0..MaxAttempt, msg : 0..Reserved, turn : BOOLEAN, set : BOOLEAN]
      /\ bg = TRUE /\ patched \in BOOLEAN
      /\ timer.set => TicketMatches(timer)
      /\ ~turn /\ timer.set => ~patched
      /\ turn \in BOOLEAN
  BY LedgerShaped DEF LoopInv
<1>2. TicketMatches(timer)' <=>
        /\ timer'.turn = turn'
        /\ IF timer'.att # 0 THEN HasPending(pages) /\ Pending.att = timer'.att
                                  /\ timer'.msg \in {CurrentMsg, Pending.msg}
           ELSE timer'.msg # 0 /\ timer'.msg = CurrentMsg
  BY DEF TicketMatches, Pending, CurrentMsg, ActivePage, HasActivePage
<1>3. Live(pages) <=> HasActivePage \/ HasPending(pages)
  BY DEF Live, HasActivePage
<1>4. NoTimer \in [att : 0..MaxAttempt, msg : 0..Reserved, turn : BOOLEAN, set : BOOLEAN] /\ ~NoTimer.set
  BY OutputBounds DEF NoTimer
<1>5. CASE ~HasActivePage /\ ~HasPending(pages) /\ UNCHANGED <<patched, timer, pc, bg>>
  <2>1. ~TicketMatches(timer)
    BY <1>5 DEF TicketMatches, CurrentMsg
  <2>2. ~timer.set
    BY <1>1, <2>1
  <2> QED
    BY <1>1, <1>5, <2>2 DEF LoopInv
<1>6. CASE patched' = TRUE /\ timer' = NoTimer /\ Presents(TRUE)
  <2>1. /\ pc' \in {"page", "reconcile"} /\ bg' = TRUE
        /\ pc' = "reconcile" => HasPending(pages)
    BY <1>6 DEF Presents
  <2> QED
    BY <1>1, <1>4, <1>6, <2>1 DEF LoopInv
<1>7. CASE patched /\ timer.set /\ UNCHANGED <<patched, timer, pc, bg>>
  <2>1. turn = TRUE /\ turn' = turn
    BY <1>1, <1>7
  <2>2. TicketMatches(timer)'
    BY <1>1, <1>2, <1>7, <2>1 DEF TicketMatches
  <2> QED
    BY <1>1, <1>7, <2>1, <2>2 DEF LoopInv
<1>8. CASE /\ HasActivePage \/ HasPending(pages)
           /\ patched /\ timer' = Ticket(pages, TRUE) /\ UNCHANGED <<patched, pc, bg>>
  <2>1. /\ timer' \in [att : 0..MaxAttempt, msg : 0..Reserved, turn : BOOLEAN, set : BOOLEAN]
        /\ timer'.set
    BY <1>1, <1>3, <1>8, TicketTyped
  <2>2. TicketMatches(timer)'
    <3>1. (LedgerShape(pages) /\ Live(pages) /\ turn \in BOOLEAN /\ timer = Ticket(pages, turn) =>
             TicketMatches(timer))'
      BY FreshTicket, PTL
    <3>2. LedgerShape(pages)' /\ Live(pages)' /\ (turn \in BOOLEAN)' /\ (timer = Ticket(pages, turn))'
      BY <1>1, <1>3, <1>8 DEF Live
    <3> QED
      BY <3>1, <3>2
  <2> QED
    BY <1>1, <1>8, <2>1, <2>2 DEF LoopInv
<1> QED
  BY <1>5, <1>6, <1>7, <1>8 DEF ScheduleUpdate

\* A transcript that only grows.
LEMMA LedgerGrows ==
  ASSUME LedgerInv, UNCHANGED <<pages, natt, posted, startOf>>, len \in 0..MaxLen, len' \in 0..MaxLen,
         len <= len'
  PROVE  LedgerInv'
<1>1. ASSUME NEW i \in 1..Len(pages) PROVE pages[i].start <= len'
  <2>1. pages[i].start \in Nat /\ pages[i].start <= len
    BY LedgerShaped, PageFields
  <2> QED
    BY <2>1, OutputBounds
<1> QED
  BY <1>1 DEF LedgerInv

\* The handlers below leave alone what the dispatcher, the terminal worker and
\* the ledger have.
LEMMA ScheduledStep ==
  ASSUME OutputInd, TurnStarted \/ Delta
  PROVE  OutputInd'
<1>1. /\ LoopInv /\ LedgerInv /\ DispatchInv /\ ShownInv /\ ReceiptsInv /\ PostedInv /\ TermInv
      /\ CutInv
  BY DEF OutputInd
<1>2. /\ pc = "idle" /\ run = "running" /\ run' = run /\ turn' = TRUE /\ ScheduleUpdate(TRUE)
      /\ UNCHANGED <<pages, natt, posted, startOf, denied, term, at, receipts, todo, carrier, hold, want,
                     closed>>
      /\ UNCHANGED dispatcher
      /\ len' = len \/ (turn /\ len < MaxLen /\ len' = len + 1)
      /\ ~turn => len' = len
  BY DEF TurnStarted, Delta, ledger, terminal, dispatcher
<1>3. len \in 0..MaxLen /\ len' \in 0..MaxLen /\ len <= len'
  BY <1>1, <1>2, OutputBounds DEF LoopInv
<1>4. /\ LoopInv'
      /\ pc' = "idle" /\ HasActivePage => timer'.set /\ TicketMatches(timer)'
  BY <1>1, <1>2, <1>3, Scheduled
<1>5. LedgerInv'
  BY <1>1, <1>2, <1>3, LedgerGrows
<1>6. DispatchInv'
  BY <1>1, <1>2, DispatchRests
<1>7. ShownInv'
  <2>1. PageIsCurrent'
    BY <1>2, <1>4 DEF PageIsCurrent, HasActivePage
  <2> QED
    BY <1>1, <1>2, <2>1 DEF ShownInv, Final, Pending, ActivePage, HasActivePage
<1>8. ReceiptsInv' /\ PostedInv' /\ TermInv' /\ CutInv'
  BY <1>1, <1>2, ReceiptsRest, PostedRests, TermRests, CutRests
<1> QED
  BY <1>4, <1>5, <1>6, <1>7, <1>8 DEF OutputInd

\* A timer that fires, or a thread that is no longer active.
LEMMA PresentsStep ==
  ASSUME OutputInd, ConsumeTimer \/ SettleAndFlush
  PROVE  OutputInd'
<1>1. /\ LoopInv /\ LedgerInv /\ DispatchInv /\ ShownInv /\ ReceiptsInv /\ PostedInv /\ TermInv
      /\ CutInv
  BY DEF OutputInd
<1>2. /\ pc = "idle" /\ timer' = NoTimer /\ len' = len
      /\ UNCHANGED <<pages, natt, posted, startOf, denied, term, at, receipts, todo, carrier, hold, want,
                     closed>>
      /\ UNCHANGED dispatcher
      /\ \/ run' = run /\ turn' = turn
         \/ run = "running" /\ run' = "settled" /\ turn' = FALSE
      /\ patched' \in {patched, TRUE}
      /\ \/ UNCHANGED <<pc, bg>>
         \/ run \in {"running", "settled"} /\ Presents(TRUE)
         \/ run' = "settled" /\ Presents(FALSE)
      /\ run \in {"new", "over"} => UNCHANGED <<run, patched>>
      /\ run' = "running" => timer.set /\ (TicketMatches(timer) => Presents(TRUE))
  BY DEF ConsumeTimer, SettleAndFlush, ledger, terminal, dispatcher, book
<1>3. NoTimer \in [att : 0..MaxAttempt, msg : 0..Reserved, turn : BOOLEAN, set : BOOLEAN] /\ ~NoTimer.set
  BY OutputBounds DEF NoTimer
<1>4. LoopInv'
  <2>1. /\ pc' \in {"idle", "page", "reconcile"} /\ bg' \in BOOLEAN
        /\ pc' = "reconcile" => HasPending(pages)
        /\ pc' # "idle" => run' \in {"running", "settled"}
        /\ run' \in {"new", "running"} => bg'
    <3>1. CASE UNCHANGED <<pc, bg>>
      BY <1>1, <1>2, <3>1 DEF LoopInv
    <3>2. CASE run \in {"running", "settled"} /\ Presents(TRUE)
      <4>1. bg' = TRUE /\ pc' \in {"page", "reconcile"} /\ (pc' = "reconcile" => HasPending(pages))
        BY <3>2 DEF Presents
      <4>2. run' \in {"running", "settled"}
        BY <1>2, <3>2
      <4> QED
        BY <4>1, <4>2
    <3>3. CASE run' = "settled" /\ Presents(FALSE)
      <4>1. bg' = FALSE /\ pc' \in {"page", "reconcile"} /\ (pc' = "reconcile" => HasPending(pages))
        BY <3>3 DEF Presents
      <4> QED
        BY <3>3, <4>1
    <3> QED
      BY <1>2, <3>1, <3>2, <3>3
  <2>2. /\ run' \in {"new", "running", "settled", "over"} /\ turn' \in BOOLEAN /\ patched' \in BOOLEAN
        /\ run' = "new" => run = "new" /\ patched' = patched
        /\ run' = "running" => run = "running" /\ turn' = turn
    BY <1>1, <1>2 DEF LoopInv
  <2> QED
    BY <1>1, <1>2, <1>3, <2>1, <2>2 DEF LoopInv
<1>5. LedgerInv' /\ DispatchInv'
  BY <1>1, <1>2, LedgerRests, DispatchRests
<1>6. ShownInv'
  <2>1. PageIsCurrent'
    <3>1. ASSUME run' = "running" PROVE pc' # "idle"
      <4>1. run = "running" /\ TicketMatches(timer)
        BY <1>1, <1>2, <3>1 DEF LoopInv
      <4> QED
        BY <1>2, <3>1, <4>1 DEF Presents
    <3> QED
      BY <3>1 DEF PageIsCurrent
  <2>2. run' = "running" => run = "running"
    BY <1>2
  <2> QED
    BY <1>1, <1>2, <2>1, <2>2 DEF ShownInv, Final, Pending, ActivePage, HasActivePage
<1>7. TermInv'
  <2>1. term # "none" => run' = "over"
    BY <1>1, <1>2 DEF TermInv
  <2> QED
    BY <1>1, <1>2, <2>1 DEF TermInv, Known, Receipted, HasActivePage, Pending
<1>8. ReceiptsInv' /\ PostedInv' /\ CutInv'
  BY <1>1, <1>2, ReceiptsRest, PostedRests, CutRests
<1> QED
  BY <1>4, <1>5, <1>6, <1>7, <1>8 DEF OutputInd

\* The turn is over.
LEMMA FinalizeOutputStep ==
  ASSUME OutputInd, NEW note \in 0..1, Finalize(note)
  PROVE  OutputInd'
<1>1. /\ LoopInv /\ LedgerInv /\ DispatchInv /\ ShownInv /\ ReceiptsInv /\ PostedInv /\ TermInv
      /\ CutInv
  BY DEF OutputInd
<1>2. /\ pc = "idle" /\ run \in {"running", "settled"} /\ run' = "over" /\ turn' = FALSE
      /\ UNCHANGED <<pages, natt, posted, startOf, denied, at, receipts, todo, carrier, hold, want, closed,
                     pc, bg>>
      /\ UNCHANGED dispatcher
      /\ len + note <= MaxLen /\ len' = len + note
      /\ patched' \in {patched, TRUE} /\ timer' \in {timer, NoTimer}
      /\ term' = IF HasActivePage \/ HasPending(pages) THEN "begin" ELSE "done"
  BY DEF Finalize, ledger, dispatcher
<1>3. term = "none" /\ receipts = <<>> /\ todo = {} /\ carrier = FALSE
  BY <1>2, BeforeTheEnd
<1>4. len \in 0..MaxLen /\ len' \in 0..MaxLen /\ len <= len'
  BY <1>1, <1>2, OutputBounds DEF LoopInv
<1>5. NoTimer \in [att : 0..MaxAttempt, msg : 0..Reserved, turn : BOOLEAN, set : BOOLEAN] /\ ~NoTimer.set
  BY OutputBounds DEF NoTimer
<1>6. LoopInv'
  BY <1>1, <1>2, <1>4, <1>5 DEF LoopInv
<1>7. LedgerInv' /\ DispatchInv'
  BY <1>1, <1>2, <1>4, LedgerGrows, DispatchRests
<1>8. term' \in {"begin", "done"}
  BY <1>2
<1>9. ShownInv'
  BY <1>1, <1>2, <1>3, <1>8 DEF ShownInv, PageIsCurrent, Final
<1>10. TermInv'
  BY <1>1, <1>2, <1>3, <1>8 DEF TermInv, HasActivePage
<1>11. ReceiptsInv'
  BY <1>1, <1>2, ReceiptsRest
<1>12. PostedInv'
  BY <1>1, <1>2, <1>3, <1>8 DEF PostedInv, OneCardPerRange, Counted
<1>13. CutInv'
  BY <1>1, <1>2, <1>3 DEF CutInv, NothingRemovedUnpublished
<1> QED
  BY <1>6, <1>7, <1>9, <1>10, <1>11, <1>12, <1>13 DEF OutputInd

\* What is asked for the active page is not asked for a sealed one.
LEMMA SealedKept ==
  ASSUME LedgerShape(pages), HasActivePage, \A n \in Msgs \ {ActivePage.msg} : want'[n] = want[n],
         NEW i \in 1..Len(pages), pages[i].st = "sealed"
  PROVE  want'[pages[i].msg] = want[pages[i].msg] /\ pages[i].msg \in Msgs
<1> DEFINE a == ActiveIndex(pages)
<1>1. a # 0 /\ a \in 1..Len(pages) /\ pages[a].st = "active" /\ ActivePage = pages[a]
  BY ActiveFields DEF HasActivePage, ActivePage
<1>2. i # a
  BY <1>1
<1>3. PageFits(pages, i) /\ pages[i] \in Page
  BY PagesTyped DEF LedgerShape
<1>4. pages[i].msg \in {pages[i].att, Reserved} /\ pages[i].att \in 1..MaxAttempt
  BY <1>3, PageFields DEF PageFits
<1>5. pages[i].msg \in Msgs /\ pages[i].msg # 0
  BY <1>4, OutputBounds
<1>6. pages[i].msg # pages[a].msg
  BY <1>1, <1>2, <1>5, PagesDiffer
<1> QED
  BY <1>1, <1>5, <1>6

\* While the loop handles the execution, the terminal worker waits.
LEMMA QuietTerminal ==
  ASSUME OutputInd, UNCHANGED <<term, at, receipts, todo, carrier>>, natt' \in Nat,
         run # "over", run' # "over"
  PROVE  ReceiptsInv' /\ TermInv' /\ ~carrier' /\ todo' = {} /\ term' = "none"
<1>1. term = "none" /\ receipts = <<>> /\ todo = {} /\ carrier = FALSE
  BY BeforeTheEnd
<1>2. ReceiptsInv'
  BY <1>1 DEF OutputInd, ReceiptsInv
<1>3. TermInv'
  BY <1>1 DEF OutputInd, TermInv
<1> QED
  BY <1>1, <1>2, <1>3

LEMMA QuietCut ==
  ASSUME OutputInd, UNCHANGED <<term, receipts, todo, carrier>>, run # "over",
         NEW m \in Msgs, NEW model \in Model, model.text # "cut", Asks(m, model)
  PROVE  CutInv'
<1>1. todo = {} /\ carrier = FALSE /\ DispatchInv /\ CutInv
  BY BeforeTheEnd DEF OutputInd
<1>2. NothingRemovedUnpublished'
  BY <1>1, CutKept
<1> QED
  BY <1>1, <1>2 DEF CutInv

LEMMA PresentOutputStep ==
  ASSUME OutputInd, PresentPage
  PROVE  OutputInd'
<1>1. /\ LoopInv /\ LedgerInv /\ DispatchInv /\ ShownInv /\ ReceiptsInv /\ PostedInv /\ TermInv
      /\ CutInv
  BY DEF OutputInd
<1>2. /\ pc = "page" /\ pc' = "idle" /\ hold' = hold
      /\ UNCHANGED <<len, run, turn, patched, timer, pages, natt, posted, startOf, denied, bg,
                     term, at, receipts, todo, carrier>>
  BY DEF PresentPage, book, ledger, terminal
<1>3. /\ run \in {"running", "settled"} /\ ~timer.set /\ (run = "running" => bg)
      /\ len \in 0..MaxLen
  BY <1>1, <1>2 DEF LoopInv
<1>4. LoopInv'
  BY <1>1, <1>2, <1>3 DEF LoopInv
<1>5. LedgerInv' /\ PostedInv'
  BY <1>1, <1>2, LedgerRests, PostedRests
<1>6. ReceiptsInv' /\ TermInv'
  <2>1. natt' \in Nat
    BY <1>1, <1>2, LedgerShaped
  <2> QED
    BY <1>2, <1>3, <2>1, QuietTerminal
<1>7. LedgerShape(pages)
  BY <1>1, LedgerShaped
<1>8. CASE ~HasActivePage
  <2>1. UNCHANGED dispatcher
    BY <1>8 DEF PresentPage
  <2>2. want' = want /\ closed' = closed
    BY <2>1 DEF dispatcher
  <2>3. DispatchInv'
    BY <1>1, <1>2, <2>1, DispatchRests
  <2>4. CutInv'
    BY <1>1, <1>2, <2>2, CutRests
  <2>5. ShownInv'
    BY <1>1, <1>2, <1>8, <2>2 DEF ShownInv, PageIsCurrent, HasActivePage, Final
  <2> QED
    BY <1>4, <1>5, <1>6, <2>3, <2>4, <2>5 DEF OutputInd
<1>9. CASE HasActivePage
  <2> DEFINE a == ActiveIndex(pages)
             m == ActivePage.msg
             lo == ActivePage.start
             hi == ProjectionEnd
             model == ModelOf(lo, hi, Running)
  <2>1. /\ a \in 1..Len(pages) /\ ActivePage = pages[a] /\ m \in Msgs
        /\ lo \in 0..MaxLen
    BY <1>7, <1>9, ActiveFields DEF HasActivePage, ActivePage
  <2>2. /\ hi \in 0..MaxLen
        /\ HasPending(pages) => hi = Pending.start /\ hi = lo + Cap
        /\ ~HasPending(pages) => hi = len
    <3>1. CASE HasPending(pages)
      <4>1. a = Len(pages) - 1 /\ Pending = pages[Len(pages)] /\ Len(pages) \in Nat
        BY <1>7, <3>1, PendingFields DEF Pending
      <4>2. Len(pages) # 1
        BY <2>1, <4>1
      <4>3. Pending.start = lo + Cap /\ Pending.start \in 0..MaxLen
        BY <1>7, <2>1, <3>1, <4>1, <4>2, PendingFields
      <4> QED
        BY <3>1, <4>3 DEF ProjectionEnd
    <3>2. CASE ~HasPending(pages)
      BY <1>3, <3>2 DEF ProjectionEnd
    <3> QED
      BY <3>1, <3>2
  <2>3. Running \in BOOLEAN
    BY DEF Running
  <2>4. model \in Model /\ model.text # "cut"
    <3>1. ModelOf(lo, hi, Running) \in Model /\ ModelOf(lo, hi, Running).text = "full"
      BY <2>1, <2>2, <2>3, ModelsTyped
    <3> QED
      BY <3>1
  <2>5. /\ HasPending(pages) \/ Fits(lo, hi)
        /\ Publish(m, model)
    BY <1>9 DEF PresentPage
  <2>6. Asks(m, model) /\ (run = "running" => Submit(m, model))
    BY <1>2, <1>3, <2>5 DEF Publish, Asks
  <2>7. Fits(lo, hi)
    BY <2>1, <2>2, <2>5, OutputBounds DEF Fits
  <2>8. ActivePage' = ActivePage /\ HasActivePage' /\ Pending' = Pending /\ ProjectionEnd' = ProjectionEnd
    BY <1>2, <1>9 DEF ActivePage, HasActivePage, Pending, ProjectionEnd
  <2>9. run = "running" => model = ModelOf(lo, hi, TRUE)
    BY DEF ModelOf, Running
  <2> HIDE DEF model
  <2>10. DispatchInv' /\ closed' = closed /\ (\A n \in Msgs \ {m} : want'[n] = want[n])
         /\ (run = "running" /\ ~closed => want'[m] = model)
    BY <1>1, <2>1, <2>4, <2>6, AsksKeeps
  <2>11. CutInv'
    BY <1>2, <1>3, <2>1, <2>4, <2>6, QuietCut
  <2>12. ShownInv'
    <3>1. ASSUME NEW i \in 1..Len(pages), pages[i].st = "sealed", ~closed, term \in {"none", "begin"}
          PROVE  Final(pages[i].msg, pages[i].start, pages[i].end)'
      <4>1. want'[pages[i].msg] = want[pages[i].msg]
        BY <1>7, <1>9, <2>10, <3>1, SealedKept
      <4>2. Final(pages[i].msg, pages[i].start, pages[i].end)
        BY <1>1, <3>1 DEF ShownInv
      <4> QED
        BY <1>2, <4>1, <4>2 DEF Final
    <3>2. run = "running" /\ ~closed => want'[m] = ModelOf(lo, hi, TRUE)
      BY <2>9, <2>10
    <3>3. PageIsCurrent'
      BY <1>2, <2>7, <2>8, <2>10, <3>2 DEF PageIsCurrent
    <3>4. run = "running" /\ ~closed /\ HasPending(pages) /\ HasActivePage =>
            want'[m] = ModelOf(lo, Pending.start, TRUE)
      BY <2>2, <3>2
    <3>5. (run = "running" /\ ~closed /\ HasPending(pages) /\ HasActivePage =>
             want[ActivePage.msg] = ModelOf(ActivePage.start, Pending.start, TRUE))'
      BY <1>2, <1>9, <2>8, <2>10, <3>4
    <3>6. (term \in {"none", "begin"} /\ ~closed =>
             \A i \in 1..Len(pages) : pages[i].st = "sealed" =>
               Final(pages[i].msg, pages[i].start, pages[i].end))'
      BY <1>2, <2>10, <3>1
    <3> QED
      BY <3>3, <3>5, <3>6 DEF ShownInv
  <2> QED
    BY <1>4, <1>5, <1>6, <2>10, <2>11, <2>12 DEF OutputInd
<1> QED
  BY <1>8, <1>9

-----------------------------------------------------------------------------
(* The first card.                                                          *)

LEMMA NewPageTyped ==
  ASSUME NEW a \in 1..MaxAttempt, NEW m \in 0..Reserved, NEW s \in 0..MaxLen,
         NEW st \in {"active", "send_unknown"}
  PROVE  /\ NewPage(a, m, s, st) \in Page
         /\ NewPage(a, m, s, st).att = a /\ NewPage(a, m, s, st).msg = m
         /\ NewPage(a, m, s, st).start = s /\ NewPage(a, m, s, st).st = st
<1>1. Open \in {Open} \cup 0..MaxLen /\ st \in {"active", "sealed", "send_unknown"}
  OBVIOUS
<1> QED
  BY <1>1 DEF NewPage, Page

LEMMA EmptyLedger ==
  LedgerShape(<<>>) /\ Len(<<>>) = 0 /\ ~HasPending(<<>>) /\ ActiveIndex(<<>>) = 0
<1>1. <<>> \in Seq(Page) /\ Len(<<>>) = 0
  BY EmptySeq
<1>2. LedgerShape(<<>>)
  BY <1>1 DEF LedgerShape, Ascending
<1> QED
  BY <1>1, <1>2, LiveSuffix

\* What a send can leave in the chat.
LEMMA SendPosts ==
  ASSUME NEW a, NEW outcome, Send(a, outcome)
  PROVE  /\ outcome \in Outcomes
         /\ posted \subseteq posted' /\ posted' \subseteq posted \cup {a}
         /\ outcome = "rejected" => posted' = posted
  BY DEF Send, Outcomes

LEMMA OpenStep ==
  ASSUME OutputInd, NEW reserved \in BOOLEAN, NEW known \in BOOLEAN, NEW outcome \in Outcomes,
         OpenInitial(reserved, known, outcome)
  PROVE  OutputInd'
<1> DEFINE m == IF reserved THEN Reserved ELSE 0
<1>1. /\ LoopInv /\ LedgerInv /\ DispatchInv /\ ShownInv /\ ReceiptsInv /\ PostedInv /\ TermInv
      /\ CutInv
  BY DEF OutputInd
<1>2. /\ run = "new" /\ run' = "running" /\ turn' = known /\ natt' = natt + 1 /\ hold' = hold
      /\ UNCHANGED <<len, patched, startOf, denied, pc, bg, term, at, receipts, todo, carrier, want,
                     closed>>
      /\ UNCHANGED dispatcher
      /\ (reserved /\ posted' = posted) \/ (~reserved /\ Send(natt + 1, outcome))
      /\ pages' = InitialLedger(natt + 1, m, outcome)
      /\ outcome = "unknown" => ReconcileLater(pages', known)
      /\ outcome # "unknown" => timer' = timer
  BY DEF OpenInitial, terminal, dispatcher
<1>3. /\ pages = <<>> /\ natt = 0 /\ startOf[1] = 0 /\ timer = NoTimer /\ ~patched /\ bg
      /\ pc = "idle" /\ len = 0 /\ len \in 0..MaxLen /\ bg \in BOOLEAN /\ patched \in BOOLEAN
  BY <1>1, <1>2 DEF LoopInv
<1>4. natt' = 1 /\ natt' \in 0..MaxAttempt /\ 1 \in 1..MaxAttempt /\ 0 \in 0..MaxLen /\ 1 # Reserved
      /\ 0 # Reserved
  BY <1>2, <1>3, OutputBounds
<1>5. posted = {} /\ denied' = {}
  <2>1. 1..natt = {}
    BY <1>3
  <2>2. posted = {}
    BY <1>1, <2>1 DEF LedgerInv
  <2> QED
    BY <1>1, <1>2, <2>2 DEF PostedInv
<1>6. /\ posted' \subseteq {1}
      /\ reserved => posted' = {}
      /\ outcome = "rejected" => posted' = {}
  <2>1. CASE reserved
    BY <1>2, <1>5, <2>1
  <2>2. CASE ~reserved
    <3>1. Send(1, outcome)
      BY <1>2, <1>3, <2>2
    <3> QED
      BY <1>5, <2>2, <3>1, SendPosts
  <2> QED
    BY <2>1, <2>2
<1>7. m \in 0..Reserved /\ m \in {0, Reserved} /\ (m = Reserved => reserved)
  BY <1>4, OutputBounds
<1>8. pages' = InitialLedger(1, m, outcome)
  BY <1>2, <1>3
<1> HIDE DEF m
\* The ledger that comes out of it.
<1>9. CASE outcome = "rejected"
  <2>1. pages' = <<>>
    BY <1>8, <1>9 DEF InitialLedger
  <2>2. LedgerShape(pages') /\ Len(pages') = 0 /\ ~HasPending(pages') /\ ActiveIndex(pages') = 0
    BY <2>1, EmptyLedger
  <2>3. posted' = {} /\ timer' = NoTimer
    BY <1>2, <1>3, <1>6, <1>9
  <2>4. LedgerInv'
    BY <1>1, <1>2, <1>4, <2>2, <2>3 DEF LedgerInv, LedgerShape
  <2>5. LoopInv'
    BY <1>1, <1>2, <1>3, <2>3, OutputBounds DEF LoopInv, NoTimer
  <2>6. ShownInv'
    <3>1. \A i \in 1..Len(pages') : pages'[i].st # "sealed"
      BY <2>2
    <3>2. ~HasPending(pages') /\ ~HasActivePage'
      BY <2>2 DEF HasActivePage
    <3>3. PageIsCurrent'
      BY <3>2 DEF PageIsCurrent
    <3> QED
      BY <3>1, <3>2, <3>3 DEF ShownInv
  <2>7. PostedInv'
    BY <1>5, <2>2, <2>3 DEF PostedInv, OneCardPerRange, Counted
  <2>8. DispatchInv'
    BY <1>1, <1>2, DispatchRests
  <2>9. ReceiptsInv' /\ TermInv'
    BY <1>2, <1>4, QuietTerminal
  <2>10. CutInv'
    BY <1>1, <1>2, CutRests
  <2> QED
    BY <2>4, <2>5, <2>6, <2>7, <2>8, <2>9, <2>10 DEF OutputInd
<1>10. CASE outcome # "rejected"
  <2> DEFINE p == pages'[1]
  <2>1. /\ p \in Page /\ pages' = <<p>> /\ p.att = 1 /\ p.start = 0
        /\ outcome = "confirmed" => p.st = "active" /\ p.msg = IF m # 0 THEN m ELSE 1
        /\ outcome = "unknown" => p.st = "send_unknown" /\ p.msg = m
        /\ p.st \in {"active", "send_unknown"}
        /\ p.st = "send_unknown" <=> outcome = "unknown"
    <3>1. CASE outcome = "confirmed"
      <4> DEFINE q == NewPage(1, IF m # 0 THEN m ELSE 1, 0, "active")
      <4>1. (IF m # 0 THEN m ELSE 1) \in 0..Reserved
        BY <1>7, OutputBounds
      <4>2. /\ q \in Page /\ q.att = 1 /\ q.msg = IF m # 0 THEN m ELSE 1
            /\ q.start = 0 /\ q.st = "active"
        BY <1>4, <4>1, NewPageTyped
      <4>3. pages' = <<q>>
        BY <1>8, <3>1 DEF InitialLedger
      <4> HIDE DEF q
      <4>4. p = q
        BY <4>3
      <4> HIDE DEF p
      <4> QED
        BY <3>1, <4>2, <4>3, <4>4
    <3>2. CASE outcome = "unknown"
      <4> DEFINE q == NewPage(1, m, 0, "send_unknown")
      <4>1. /\ q \in Page /\ q.att = 1 /\ q.msg = m
            /\ q.start = 0 /\ q.st = "send_unknown"
        BY <1>4, <1>7, NewPageTyped
      <4>2. pages' = <<q>>
        BY <1>8, <3>2 DEF InitialLedger
      <4> HIDE DEF q
      <4>3. p = q
        BY <4>2
      <4> HIDE DEF p
      <4> QED
        BY <3>2, <4>1, <4>2, <4>3
    <3> QED
      BY <1>10, <3>1, <3>2 DEF Outcomes
  <2> HIDE DEF p
  <2>2. /\ p.msg \in IF p.st = "send_unknown" THEN {0, Reserved} ELSE {p.att, Reserved}
        /\ p.msg = Reserved => reserved
    <3>1. CASE outcome = "confirmed"
      BY <1>4, <1>7, <2>1, <3>1
    <3>2. CASE outcome = "unknown"
      BY <1>7, <2>1, <3>2
    <3> QED
      BY <1>10, <3>1, <3>2 DEF Outcomes
  <2>3. LedgerShape(pages') /\ Len(pages') = 1 /\ pages'[1] = p
    BY <2>1, <2>2, FirstPage
  <2>4. \A i \in 1..Len(pages') : i = 1
    BY <2>3
  <2>5. /\ HasPending(pages') <=> outcome = "unknown"
        /\ HasPending(pages') => ActiveIndex(pages') = 0
    <3>1. Len(pages') > 0 /\ Len(pages') - 1 = 0
      BY <2>3
    <3>2. CASE p.st = "active"
      BY <2>1, <2>3, <3>1, <3>2, LiveSuffix
    <3>3. CASE p.st # "active"
      BY <2>1, <2>3, <3>1, <3>3, LiveSuffix
    <3> QED
      BY <3>2, <3>3
  <2>6. LedgerInv'
    <3>1. \A i \in 1..Len(pages') : /\ PageFits(pages', i) /\ pages'[i].att <= natt'
                                    /\ startOf'[pages'[i].att] = pages'[i].start
                                    /\ pages'[i].start <= len'
      BY <1>2, <1>3, <1>4, <2>1, <2>3, <2>4 DEF LedgerShape
    <3>2. posted' \subseteq 1..natt'
      BY <1>4, <1>6
    <3> QED
      BY <1>1, <1>2, <1>4, <2>3, <3>1, <3>2 DEF LedgerInv, LedgerShape
  <2>7. /\ timer' \in [att : 0..MaxAttempt, msg : 0..Reserved, turn : BOOLEAN, set : BOOLEAN]
        /\ timer'.set => TicketMatches(timer)'
    <3>1. CASE outcome = "unknown"
      <4>1. timer' = TicketFor(pages', turn')
        BY <1>2, <1>3, <3>1 DEF ReconcileLater, TicketFor, NoTimer
      <4>2. (LedgerShape(pages) /\ HasPending(pages) /\ turn \in BOOLEAN /\ timer = TicketFor(pages, turn) =>
               /\ timer \in [att : 0..MaxAttempt, msg : 0..Reserved, turn : BOOLEAN, set : BOOLEAN]
               /\ timer.set /\ TicketMatches(timer))'
        BY LaterTicket, PTL
      <4>3. (LedgerShape(pages))' /\ (HasPending(pages))' /\ (turn \in BOOLEAN)'
        BY <1>2, <2>3, <2>5, <3>1
      <4> QED
        BY <4>1, <4>2, <4>3
    <3>2. CASE outcome # "unknown"
      <4>1. timer' = NoTimer
        BY <1>2, <1>3, <3>2
      <4> QED
        BY <4>1, OutputBounds DEF NoTimer
    <3> QED
      BY <3>1, <3>2
  <2>8. LoopInv'
    BY <1>1, <1>2, <1>3, <2>7 DEF LoopInv
  <2>9. ShownInv'
    <3>1. \A i \in 1..Len(pages') : pages'[i].st # "sealed"
      BY <2>1, <2>3, <2>4
    <3>2. ~(HasPending(pages') /\ HasActivePage')
      BY <2>5 DEF HasActivePage
    <3>3. PageIsCurrent'
      BY <1>2, <1>3 DEF PageIsCurrent
    <3> QED
      BY <3>1, <3>2, <3>3 DEF ShownInv
  <2>10. PostedInv'
    <3>1. OneCardPerRange'
      BY <1>6 DEF OneCardPerRange
    <3>2. \A i \in 1..Len(pages') : pages'[i].msg = Reserved => pages'[i].att \notin posted'
      BY <1>6, <2>2, <2>3, <2>4
    <3>3. \A x \in posted' : \E i \in 1..Len(pages') : pages'[i].att = x
      <4>1. 1 \in 1..Len(pages') /\ pages'[1].att = 1
        BY <2>1, <2>3
      <4> QED
        BY <1>6, <4>1
    <3>4. term' = "none"
      BY <1>2, BeforeTheEnd
    <3> QED
      BY <1>5, <3>1, <3>2, <3>3, <3>4 DEF PostedInv, Counted
  <2>11. DispatchInv'
    BY <1>1, <1>2, DispatchRests
  <2>12. ReceiptsInv' /\ TermInv'
    BY <1>2, <1>4, QuietTerminal
  <2>13. CutInv'
    BY <1>1, <1>2, CutRests
  <2> QED
    BY <2>6, <2>8, <2>9, <2>10, <2>11, <2>12, <2>13 DEF OutputInd
<1> QED
  BY <1>9, <1>10

-----------------------------------------------------------------------------
(* The next page.                                                           *)

PostedArePages == \A a \in Counted : \E i \in 1..Len(pages) : pages[i].att = a

\* Messages of different pages show different stretches.
LEMMA OneCardEach ==
  LedgerInv /\ PostedArePages => OneCardPerRange
<1> SUFFICES ASSUME LedgerInv, PostedArePages, NEW a \in Counted, NEW b \in Counted, a # b
             PROVE  startOf[a] # startOf[b]
  BY DEF OneCardPerRange, Counted
<1>1. PICK i \in 1..Len(pages) : pages[i].att = a
  BY DEF PostedArePages
<1>2. PICK j \in 1..Len(pages) : pages[j].att = b
  BY DEF PostedArePages
<1>3. i # j
  BY <1>1, <1>2
<1>4. pages[i].start # pages[j].start
  BY <1>3, LedgerShaped, PagesDiffer
<1> QED
  BY <1>1, <1>2, <1>4, LedgerShaped

LEMMA LedgerExtended ==
  ASSUME LedgerInv, LedgerShape(pages'), NEW n, n = Len(pages), Len(pages') = n + 1,
         NEW a, a = natt + 1, a <= MaxAttempt, natt' = a,
         NEW cut \in 0..MaxLen, startOf' = [startOf EXCEPT ![a] = cut],
         pages'[n + 1].att = a, pages'[n + 1].start = cut, cut <= len, len' = len,
         \A k \in 1..n : /\ pages'[k].att = pages[k].att /\ pages'[k].start = pages[k].start
                         /\ pages'[k].msg = pages[k].msg,
         posted' \subseteq posted \cup {a}
  PROVE  LedgerInv'
<1>1. /\ n \in Nat /\ natt \in Nat /\ a \in 1..MaxAttempt /\ a \in Nat /\ natt < a /\ natt' \in 0..MaxAttempt
      /\ startOf \in [1..MaxAttempt -> 0..MaxLen]
      /\ posted \subseteq 1..natt
  BY LedgerShaped, OutputBounds DEF LedgerInv
<1>2. startOf' \in [1..MaxAttempt -> 0..MaxLen] /\ startOf'[a] = cut
  BY <1>1
<1>3. posted' \subseteq 1..natt'
  BY <1>1
<1>4. ASSUME NEW i \in 1..Len(pages')
      PROVE  /\ pages'[i].att <= natt' /\ startOf'[pages'[i].att] = pages'[i].start
             /\ pages'[i].start <= len'
  <2>1. CASE i = n + 1
    BY <1>1, <1>2, <2>1
  <2>2. CASE i # n + 1
    <3>1. i \in 1..n
      BY <1>1, <2>2
    <3>2. pages[i].att \in 1..natt /\ pages[i].start <= len /\ startOf[pages[i].att] = pages[i].start
      BY <3>1, LedgerShaped
    <3>3. pages[i].att # a /\ pages[i].att \in 1..MaxAttempt /\ pages[i].att <= a
      <4>1. MaxAttempt \in Nat /\ natt + 1 <= MaxAttempt /\ a = natt + 1 /\ natt \in Nat
        BY <1>1, OutputBounds
      <4>2. pages[i].att \in Nat /\ pages[i].att > 0 /\ pages[i].att <= natt
        BY <1>1, <3>2
      <4> QED
        BY <4>1, <4>2
    <3> QED
      BY <1>1, <3>1, <3>2, <3>3
  <2> QED
    BY <2>1, <2>2
<1> QED
  BY <1>1, <1>2, <1>3, <1>4 DEF LedgerInv, LedgerShape

LEMMA PostedExtended ==
  ASSUME LedgerInv, LedgerInv', PostedInv, term = "none", term' = "none",
         NEW n, n = Len(pages), Len(pages') = n + 1, NEW a, a = natt + 1, a <= MaxAttempt,
         pages'[n + 1].att = a, pages'[n + 1].msg # Reserved,
         \A k \in 1..n : /\ pages'[k].att = pages[k].att /\ pages'[k].start = pages[k].start
                         /\ pages'[k].msg = pages[k].msg,
         posted \subseteq posted', posted' \subseteq posted \cup {a}, denied' = denied
  PROVE  PostedInv'
<1>1. n \in Nat /\ natt \in Nat /\ n + 1 \in 1..Len(pages') /\ 1..n \subseteq 1..Len(pages')
  BY LedgerShaped
<1>2. PostedArePages'
  <2>1. ASSUME NEW x \in Counted' PROVE \E i \in 1..Len(pages') : pages'[i].att = x
    <3>1. CASE x = a
      BY <1>1, <3>1
    <3>2. CASE x # a
      <4>1. PICK i \in 1..n : pages[i].att = x
        BY <2>1, <3>2 DEF PostedInv, Counted
      <4> QED
        BY <1>1, <4>1
    <3> QED
      BY <3>1, <3>2
  <2> QED
    BY <2>1 DEF PostedArePages
<1>3. OneCardPerRange'
  <2>1. (LedgerInv /\ PostedArePages => OneCardPerRange)'
    BY OneCardEach, PTL
  <2> QED
    BY <1>2, <2>1
<1>4. ASSUME NEW i \in 1..Len(pages'), pages'[i].msg = Reserved PROVE pages'[i].att \notin posted'
  <2>1. i \in 1..n
    BY <1>1, <1>4
  <2>2. pages[i].att \notin posted /\ pages[i].att \in 1..natt
    BY <1>4, <2>1, LedgerShaped DEF PostedInv
  <2>3. pages[i].att # a
    BY <1>1, <2>2
  <2> QED
    BY <2>1, <2>2, <2>3
<1> QED
  <2>1. denied' \subseteq posted'
    BY DEF PostedInv
  <2> QED
    BY <1>2, <1>3, <1>4, <2>1 DEF PostedInv, PostedArePages

\* The active page, when nothing is pending behind it.
LEMMA RolloverFields ==
  ASSUME OutputInd, NEW outcome, RolloverPage(outcome)
  PROVE  LET a == natt + 1
             n == Len(pages)
             lo == ActivePage.start
             cut == lo + Cap
         IN /\ n \in 1..n /\ n \in Nat /\ ActiveIndex(pages) = n /\ ActivePage = pages[n]
            /\ pages[n] \in Page /\ pages[n].st = "active" /\ pages[n].msg \in Msgs
            /\ pages[n].att < a /\ a \in 1..MaxAttempt /\ a # Reserved /\ a \in 0..Reserved /\ a # 0
            /\ lo \in 0..MaxLen /\ cut \in 0..MaxLen /\ cut <= len /\ len > 0
            /\ ~Fits(lo, len)
            /\ run \in {"running", "settled"} /\ ~timer.set
            /\ run = "running" => bg /\ turn
            /\ HasActivePage /\ ~HasPending(pages)
            /\ turn \in BOOLEAN
<1>1. LedgerShape(pages) /\ Len(pages) \in Nat /\ natt \in Nat
  BY LedgerShaped DEF OutputInd
<1>2. /\ pc = "page" /\ HasActivePage /\ ~HasPending(pages) /\ ~Fits(ActivePage.start, len)
      /\ natt + 1 <= MaxAttempt
  BY DEF RolloverPage
<1>3. ActiveIndex(pages) = Len(pages) /\ ActiveIndex(pages) # 0
  BY <1>1, <1>2, ActiveFields DEF HasActivePage
<1>4. /\ Len(pages) \in 1..Len(pages) /\ ActivePage = pages[Len(pages)]
      /\ pages[Len(pages)] \in Page /\ pages[Len(pages)].st = "active"
      /\ pages[Len(pages)].msg \in Msgs /\ pages[Len(pages)].start \in 0..MaxLen
  BY <1>1, <1>3, ActiveFields DEF ActivePage
<1>5. pages[Len(pages)].att < natt + 1
  <2>1. pages[Len(pages)].att \in 1..natt
    BY <1>4, LedgerShaped DEF OutputInd
  <2> QED
    BY <1>1, <2>1
<1>6. natt + 1 \in 1..MaxAttempt /\ natt + 1 # Reserved /\ natt + 1 \in 0..Reserved /\ natt + 1 # 0
  BY <1>1, <1>2, OutputBounds
<1>7. len \in 0..MaxLen
  BY DEF OutputInd, LoopInv
<1>8. /\ ActivePage.start + Cap \in 0..MaxLen /\ ActivePage.start + Cap <= len /\ len > 0
      /\ ActivePage.start \in 0..MaxLen
  <2>1. len - ActivePage.start > Cap
    <3>1. ~(len - ActivePage.start <= Cap)
      BY <1>2 DEF Fits
    <3> QED
      BY <1>4, <1>7, <3>1, OutputBounds
  <2> QED
    BY <1>4, <1>7, <2>1, OutputBounds
<1>9. /\ run \in {"running", "settled"} /\ ~timer.set /\ turn \in BOOLEAN
      /\ run = "running" => bg /\ turn
  BY <1>2, <1>8 DEF OutputInd, LoopInv
<1> QED
  BY <1>1, <1>2, <1>3, <1>4, <1>5, <1>6, <1>8, <1>9

\* An attempt that gets no page.
LEMMA AttemptMade ==
  ASSUME LedgerInv, NEW a, a = natt + 1, a <= MaxAttempt, natt' = a,
         NEW cut \in 0..MaxLen, startOf' = [startOf EXCEPT ![a] = cut],
         pages' = pages, len' = len, posted' \subseteq posted \cup {a}
  PROVE  /\ LedgerInv' /\ a \in 1..MaxAttempt /\ a \notin posted /\ startOf'[a] = cut
         /\ \A b \in posted : startOf'[b] = startOf[b]
<1>1. /\ natt \in Nat /\ a \in 1..MaxAttempt /\ a \in Nat /\ natt < a /\ natt' \in 0..MaxAttempt
      /\ startOf \in [1..MaxAttempt -> 0..MaxLen]
      /\ posted \subseteq 1..natt /\ MaxAttempt \in Nat
  BY LedgerShaped, OutputBounds DEF LedgerInv
<1>2. startOf' \in [1..MaxAttempt -> 0..MaxLen] /\ startOf'[a] = cut
  BY <1>1
<1>3. \A b \in 1..natt : b # a /\ b \in 1..MaxAttempt /\ startOf'[b] = startOf[b] /\ b <= natt'
  BY <1>1
<1>4. posted' \subseteq 1..natt'
  BY <1>1
<1>5. a \notin posted
  BY <1>1
<1>6. ASSUME NEW i \in 1..Len(pages)
      PROVE  /\ pages[i].att <= natt' /\ startOf'[pages[i].att] = pages[i].start
             /\ pages[i].start <= len /\ PageFits(pages, i)
  BY <1>3, LedgerShaped DEF LedgerShape
<1>7. LedgerInv'
  BY <1>1, <1>2, <1>4, <1>6 DEF LedgerInv
<1> QED
  BY <1>1, <1>2, <1>3, <1>5, <1>7

LEMMA RolledOver ==
  ASSUME OutputInd, NEW outcome \in Outcomes, RolloverPage(outcome)
  PROVE  LET n == Len(pages)
             cut == ActivePage.start + Cap
         IN /\ LedgerInv' /\ PostedInv' /\ LedgerShape(pages')
            /\ outcome = "confirmed" =>
                 /\ ~HasPending(pages') /\ ActiveIndex(pages') = n + 1
                 /\ Len(pages') = n + 1 /\ pages'[n + 1].st = "active"
                 /\ \A k \in 1..n :
                      /\ pages'[k].msg = pages[k].msg /\ pages'[k].start = pages[k].start
                      /\ pages'[k].st = "sealed" /\ pages'[k].end = pages[k].start + Cap
            /\ outcome = "unknown" =>
                 /\ HasPending(pages') /\ ActiveIndex(pages') = n /\ Last(pages').start = cut
                 /\ Len(pages') = n + 1 /\ pages'[n + 1].st = "send_unknown"
                 /\ \A k \in 1..n : pages'[k] = pages[k]
            /\ outcome = "rejected" => pages' = pages
<1> DEFINE n == Len(pages)
           a == natt + 1
           lo == ActivePage.start
           cut == lo + Cap
<1>1. /\ n \in 1..n /\ n \in Nat /\ ActiveIndex(pages) = n /\ ActivePage = pages[n]
      /\ pages[n] \in Page /\ pages[n].st = "active" /\ pages[n].msg \in Msgs
      /\ pages[n].att < a /\ a \in 1..MaxAttempt /\ a # Reserved /\ a \in 0..Reserved /\ a # 0
      /\ lo \in 0..MaxLen /\ cut \in 0..MaxLen /\ cut <= len
      /\ run \in {"running", "settled"}
  BY RolloverFields
<1>2. /\ natt' = a /\ a <= MaxAttempt /\ startOf' = [startOf EXCEPT ![a] = cut]
      /\ Send(a, outcome) /\ pages' = RolloverLedger(a, cut, outcome)
      /\ UNCHANGED <<len, run, turn, denied, term, at, receipts, todo, carrier>>
  BY DEF RolloverPage, book, terminal
<1>3. LedgerInv /\ PostedInv /\ LedgerShape(pages) /\ term = "none" /\ term' = "none"
  BY <1>1, <1>2, BeforeTheEnd, LedgerShaped DEF OutputInd
<1>4. /\ posted \subseteq posted' /\ posted' \subseteq posted \cup {a}
      /\ outcome = "rejected" => posted' = posted
  BY <1>2, SendPosts
<1>5. Reserved \in 0..Reserved /\ 0 \in 0..Reserved /\ 0 # Reserved
  BY OutputBounds
<1>6. CASE outcome = "confirmed"
  <2> DEFINE p == NewPage(a, a, cut, "active")
  <2>1. p \in Page /\ p.att = a /\ p.msg = a /\ p.start = cut /\ p.st = "active"
    BY <1>1, NewPageTyped
  <2>2. pages' = Confirmed(pages, p)
    BY <1>2, <1>6 DEF RolloverLedger
  <2> HIDE DEF p
  <2>3. p.msg \in {p.att, Reserved} /\ p.msg # Reserved
    BY <1>1, <2>1
  <2>4. n # 0 /\ p.start = pages[n].start + Cap /\ p.att > pages[n].att
    <3>1. n # 0 /\ p.start = pages[n].start + Cap
      BY <1>1, <2>1
    <3>2. pages[n].att \in Nat /\ a \in Nat
      BY <1>1, PageFields, LedgerShaped
    <3> QED
      BY <1>1, <2>1, <3>1, <3>2
  <2>5. /\ LedgerShape(pages') /\ Len(pages') = n + 1 /\ pages'[n + 1] = p
        /\ \A k \in 1..n : /\ pages'[k].att = pages[k].att /\ pages'[k].msg = pages[k].msg
                           /\ pages'[k].start = pages[k].start /\ pages'[k].st = "sealed"
                           /\ pages'[k].end = pages[k].start + Cap
    BY <1>1, <1>3, <2>1, <2>2, <2>3, <2>4, ConfirmedPages
  <2>6. LedgerInv'
    BY <1>1, <1>2, <1>3, <1>4, <2>1, <2>5, LedgerExtended
  <2>7. PostedInv'
    BY <1>1, <1>2, <1>3, <1>4, <2>1, <2>5, <2>6, PostedExtended
  <2>8. ~HasPending(pages') /\ ActiveIndex(pages') = n + 1
    <3>1. Len(pages') > 0
      BY <1>1, <2>5
    <3> QED
      BY <2>1, <2>5, <3>1, LiveSuffix
  <2> QED
    BY <1>6, <2>1, <2>5, <2>6, <2>7, <2>8
<1>7. CASE outcome = "unknown"
  <2> DEFINE p == NewPage(a, 0, cut, "send_unknown")
  <2>1. p \in Page /\ p.att = a /\ p.msg = 0 /\ p.start = cut /\ p.st = "send_unknown"
    BY <1>1, <1>5, NewPageTyped
  <2>2. pages' = Append(pages, p)
    BY <1>2, <1>7 DEF RolloverLedger
  <2> HIDE DEF p
  <2>3. n > 0 /\ p.start = pages[n].start + Cap /\ p.att > pages[n].att
    <3>1. n > 0 /\ p.start = pages[n].start + Cap
      BY <1>1, <2>1
    <3>2. pages[n].att \in Nat /\ a \in Nat
      BY <1>1, PageFields, LedgerShaped
    <3> QED
      BY <1>1, <2>1, <3>1, <3>2
  <2>4. /\ LedgerShape(pages') /\ Len(pages') = n + 1 /\ pages'[n + 1] = p
        /\ \A k \in 1..n : pages'[k] = pages[k]
    BY <1>1, <1>3, <2>1, <2>2, <2>3, NextPage
  <2>5. LedgerInv'
    BY <1>1, <1>2, <1>3, <1>4, <2>1, <2>4, LedgerExtended
  <2>6. PostedInv'
    BY <1>1, <1>2, <1>3, <1>4, <1>5, <2>1, <2>4, <2>5, PostedExtended
  <2>7. HasPending(pages') /\ ActiveIndex(pages') = n /\ Last(pages') = p
    <3>1. Len(pages') > 0 /\ Len(pages') - 1 = n
      BY <1>1, <2>4
    <3> QED
      BY <2>1, <2>4, <3>1, LiveSuffix
  <2> QED
    BY <1>7, <2>1, <2>4, <2>5, <2>6, <2>7
<1>8. CASE outcome = "rejected"
  <2>1. pages' = pages /\ posted' = posted
    BY <1>2, <1>4, <1>8 DEF RolloverLedger
  <2>2. /\ LedgerInv' /\ a \notin posted
        /\ \A b \in posted : startOf'[b] = startOf[b]
    BY <1>1, <1>2, <1>3, <1>4, <2>1, AttemptMade
  <2>3. PostedInv'
    BY <1>2, <1>3, <2>1, <2>2 DEF PostedInv, OneCardPerRange, Counted
  <2> QED
    BY <1>3, <1>8, <2>1, <2>2, <2>3
<1> QED
  BY <1>6, <1>7, <1>8 DEF Outcomes

LEMMA RolloverOutputStep ==
  ASSUME OutputInd, NEW outcome \in Outcomes, RolloverPage(outcome)
  PROVE  OutputInd'
<1> DEFINE n == Len(pages)
           a == natt + 1
           m == ActivePage.msg
           lo == ActivePage.start
           cut == lo + Cap
           full == ModelOf(lo, cut, Running)
           model == IF outcome = "confirmed" THEN [full EXCEPT !.running = FALSE] ELSE full
<1>1. /\ n \in 1..n /\ n \in Nat /\ ActiveIndex(pages) = n /\ ActivePage = pages[n]
      /\ pages[n] \in Page /\ pages[n].st = "active" /\ m \in Msgs
      /\ a \in 1..MaxAttempt /\ lo \in 0..MaxLen /\ cut \in 0..MaxLen /\ ~Fits(lo, len)
      /\ run \in {"running", "settled"} /\ ~timer.set /\ (run = "running" => bg /\ turn)
      /\ HasActivePage /\ ~HasPending(pages) /\ turn \in BOOLEAN
  BY RolloverFields
<1>2. /\ pc = "page" /\ natt' = a /\ hold' = hold
      /\ outcome = "confirmed" => pc' = pc /\ Submit(m, model)
      /\ outcome # "confirmed" => pc' = "idle" /\ Publish(m, model)
      /\ outcome = "unknown" => ReconcileLater(pages', turn)
      /\ outcome # "unknown" => timer' = timer
      /\ UNCHANGED <<len, run, turn, patched, bg, term, at, receipts, todo, carrier>>
  BY DEF RolloverPage, book, terminal
<1>3. /\ LedgerInv' /\ PostedInv' /\ LedgerShape(pages')
      /\ outcome = "confirmed" =>
           /\ ~HasPending(pages') /\ Len(pages') = n + 1 /\ pages'[n + 1].st = "active"
           /\ \A k \in 1..n :
                /\ pages'[k].msg = pages[k].msg /\ pages'[k].start = pages[k].start
                /\ pages'[k].st = "sealed" /\ pages'[k].end = pages[k].start + Cap
      /\ outcome = "unknown" =>
           /\ HasPending(pages') /\ ActiveIndex(pages') = n /\ Last(pages').start = cut
           /\ Len(pages') = n + 1 /\ pages'[n + 1].st = "send_unknown"
           /\ \A k \in 1..n : pages'[k] = pages[k]
      /\ outcome = "rejected" => pages' = pages
  BY RolledOver
<1>4. /\ LoopInv /\ DispatchInv /\ ShownInv /\ LedgerShape(pages) /\ term = "none"
      /\ \A i \in 1..n : PageFits(pages, i)
  BY <1>1, LedgerShaped, BeforeTheEnd DEF OutputInd, LedgerShape
<1>5. /\ full \in Model /\ full.lo = lo /\ full.hi = cut /\ full.text = "full"
      /\ run = "running" => full = ModelOf(lo, cut, TRUE)
  <2>1. Running \in BOOLEAN
    BY DEF Running
  <2>2. run = "running" => full = ModelOf(lo, cut, TRUE)
    BY DEF ModelOf, Running
  <2>3. /\ ModelOf(lo, cut, Running) \in Model /\ ModelOf(lo, cut, Running).lo = lo
        /\ ModelOf(lo, cut, Running).hi = cut /\ ModelOf(lo, cut, Running).text = "full"
    BY <1>1, <2>1, ModelsTyped
  <2> QED
    BY <2>2, <2>3
<1> HIDE DEF full
<1>6. /\ model \in Model /\ model.text # "cut" /\ model.lo = lo /\ model.hi = cut
      /\ outcome = "confirmed" => ~model.running
      /\ outcome # "confirmed" => model = full
  BY <1>5, Restated
<1> HIDE DEF model
<1>7. /\ Asks(m, model)
      /\ outcome = "confirmed" \/ run = "running" => Submit(m, model)
  BY <1>1, <1>2 DEF Publish, Asks
<1>8. /\ DispatchInv' /\ closed' = closed /\ (\A j \in Msgs \ {m} : want'[j] = want[j])
      /\ (outcome = "confirmed" \/ run = "running") /\ ~closed => want'[m] = model
  BY <1>1, <1>4, <1>6, <1>7, AsksKeeps
<1>9. ReceiptsInv' /\ TermInv'
  <2>1. natt' \in Nat
    BY <1>1, <1>2, LedgerShaped DEF OutputInd
  <2> QED
    BY <1>1, <1>2, <2>1, QuietTerminal
<1>10. CutInv'
  BY <1>1, <1>2, <1>6, <1>7, QuietCut
\* The timer of a page whose sending is unknown.
<1>11. /\ timer' \in [att : 0..MaxAttempt, msg : 0..Reserved, turn : BOOLEAN, set : BOOLEAN]
       /\ timer'.set => outcome = "unknown" /\ TicketMatches(timer)'
       /\ outcome = "unknown" => timer'.set
  <2>1. CASE outcome = "unknown"
    <3>1. timer' = TicketFor(pages', turn')
      BY <1>1, <1>2, <2>1 DEF ReconcileLater, TicketFor
    <3>2. (LedgerShape(pages) /\ HasPending(pages) /\ turn \in BOOLEAN /\ timer = TicketFor(pages, turn) =>
             /\ timer \in [att : 0..MaxAttempt, msg : 0..Reserved, turn : BOOLEAN, set : BOOLEAN]
             /\ timer.set /\ TicketMatches(timer))'
      BY LaterTicket, PTL
    <3>3. (LedgerShape(pages))' /\ (HasPending(pages))' /\ (turn \in BOOLEAN)'
      BY <1>1, <1>2, <1>3, <2>1
    <3> QED
      BY <2>1, <3>1, <3>2, <3>3
  <2>2. CASE outcome # "unknown"
    BY <1>1, <1>2, <1>4, <2>2 DEF LoopInv
  <2> QED
    BY <2>1, <2>2
<1>12. LoopInv'
  <2>1. /\ pc' \in {"idle", "page"} /\ (pc' # "idle" => outcome = "confirmed")
        /\ run' = "running" => turn'
    BY <1>1, <1>2
  <2> QED
    BY <1>1, <1>2, <1>4, <1>11, <2>1 DEF LoopInv
<1>13. ASSUME NEW i \in 1..n, pages[i].st = "sealed", ~closed
       PROVE  /\ want'[pages[i].msg] = want[pages[i].msg]
              /\ Final(pages[i].msg, pages[i].start, pages[i].start + Cap)
  <2>1. want'[pages[i].msg] = want[pages[i].msg]
    BY <1>1, <1>4, <1>8, <1>13, SealedKept
  <2>2. Final(pages[i].msg, pages[i].start, pages[i].end) /\ pages[i].end = pages[i].start + Cap
    BY <1>4, <1>13 DEF ShownInv, PageFits
  <2> QED
    BY <2>1, <2>2
<1>14. ShownInv'
  <2>1. CASE outcome = "confirmed"
    <3>1. ASSUME NEW i \in 1..Len(pages'), pages'[i].st = "sealed", ~closed
          PROVE  /\ want'[pages'[i].msg].lo = pages'[i].start
                 /\ want'[pages'[i].msg].hi = pages'[i].end
                 /\ ~want'[pages'[i].msg].running
      <4>1. i \in 1..n
        BY <1>1, <1>3, <2>1, <3>1
      <4>2. /\ pages'[i].msg = pages[i].msg /\ pages'[i].start = pages[i].start
            /\ pages'[i].end = pages[i].start + Cap
        BY <1>3, <2>1, <4>1
      <4>3. CASE i = n
        <5>1. want'[m] = model
          BY <1>8, <2>1, <3>1
        <5> QED
          BY <1>1, <1>6, <2>1, <4>2, <4>3, <5>1
      <4>4. CASE i # n
        <5>1. pages[i].st = "sealed"
          BY <1>1, <1>4, <4>1, <4>4, LiveSuffix
        <5> QED
          BY <1>13, <3>1, <4>1, <4>2, <5>1 DEF Final
      <4> QED
        BY <4>3, <4>4
    <3>2. ~HasPending(pages') /\ pc' # "idle"
      BY <1>2, <1>3, <2>1
    <3> QED
      BY <1>8, <3>1, <3>2 DEF ShownInv, Final, PageIsCurrent
  <2>2. CASE outcome # "confirmed"
    <3>1. n \in 1..Len(pages') /\ \A k \in 1..n : pages'[k] = pages[k]
      BY <1>1, <1>3, <2>2 DEF Outcomes
    <3>2. \A i \in 1..Len(pages') : pages'[i].st = "sealed" => i \in 1..n
      BY <1>1, <1>3, <2>2 DEF Outcomes
    <3>3. ASSUME NEW i \in 1..Len(pages'), pages'[i].st = "sealed", ~closed
          PROVE  /\ want'[pages'[i].msg].lo = pages'[i].start
                 /\ want'[pages'[i].msg].hi = pages'[i].end
                 /\ ~want'[pages'[i].msg].running
      <4>1. i \in 1..n /\ pages'[i] = pages[i]
        BY <3>1, <3>2, <3>3
      <4>2. pages[i].end = pages[i].start + Cap
        BY <1>4, <3>3, <4>1 DEF PageFits
      <4> QED
        BY <1>13, <3>3, <4>1, <4>2 DEF Final
    <3>4. ActiveIndex(pages') = n
      BY <1>1, <1>3, <2>2 DEF Outcomes
    <3>5. HasActivePage' /\ ActivePage' = ActivePage
      BY <1>1, <3>1, <3>4 DEF HasActivePage, ActivePage
    <3>6. run = "running" /\ ~closed => want'[m] = ModelOf(lo, cut, TRUE)
      BY <1>5, <1>6, <1>8, <2>2
    <3>7. HasPending(pages') => Pending'.start = cut
      <4>1. ~HasPending(pages') \/ outcome = "unknown"
        BY <1>1, <1>3, <2>2 DEF Outcomes
      <4> QED
        BY <1>3, <4>1 DEF Pending
    <3>8. PageIsCurrent'
      <4>1. CASE outcome = "unknown"
        BY <1>11, <4>1 DEF PageIsCurrent
      <4>2. CASE outcome = "rejected"
        <5>1. ~HasPending(pages')
          BY <1>1, <1>3, <4>2
        <5>2. ProjectionEnd' = len
          BY <1>2, <5>1 DEF ProjectionEnd
        <5>3. ~Fits(ActivePage.start, ProjectionEnd)'
          BY <1>1, <3>5, <5>2 DEF Fits
        <5> QED
          BY <1>2, <1>8, <3>5, <3>6, <5>3 DEF PageIsCurrent
      <4> QED
        BY <2>2, <4>1, <4>2 DEF Outcomes
    <3>9. (run = "running" /\ ~closed /\ HasPending(pages) /\ HasActivePage =>
             want[ActivePage.msg] = ModelOf(ActivePage.start, Pending.start, TRUE))'
      BY <1>2, <1>8, <3>5, <3>6, <3>7
    <3>10. (term \in {"none", "begin"} /\ ~closed =>
              \A i \in 1..Len(pages) : pages[i].st = "sealed" =>
                Final(pages[i].msg, pages[i].start, pages[i].end))'
      BY <1>8, <3>3 DEF Final
    <3> QED
      BY <3>8, <3>9, <3>10 DEF ShownInv
  <2> QED
    BY <2>1, <2>2
<1> QED
  BY <1>3, <1>8, <1>9, <1>10, <1>12, <1>14 DEF OutputInd

-----------------------------------------------------------------------------
(* A page whose sending is unknown.                                         *)

LEMMA LedgerKept ==
  ASSUME LedgerInv, LedgerShape(pages'), UNCHANGED <<natt, startOf, len>>, posted' \subseteq 1..natt,
         \A k \in 1..Len(pages') : /\ k \in 1..Len(pages)
                                   /\ pages'[k].att = pages[k].att /\ pages'[k].start = pages[k].start
  PROVE  LedgerInv'
<1>1. ASSUME NEW i \in 1..Len(pages')
      PROVE  /\ PageFits(pages', i) /\ pages'[i].att <= natt' /\ startOf'[pages'[i].att] = pages'[i].start
             /\ pages'[i].start <= len'
  BY <1>1 DEF LedgerInv, LedgerShape
<1> QED
  BY <1>1 DEF LedgerInv, LedgerShape

LEMMA ReconcileFields ==
  ASSUME OutputInd, NEW outcome \in Outcomes, Reconcile(outcome)
  PROVE  LET n == Len(pages)
             q == pages[n]
             i == ActiveIndex(pages)
         IN /\ HasPending(pages) /\ Pending = q /\ n \in 1..n /\ n \in Nat /\ q \in Page
            /\ q.st = "send_unknown" /\ i = n - 1 /\ q.msg \in {0, Reserved}
            /\ q.msg = Reserved => n = 1
            /\ q.start \in 0..MaxLen /\ q.att \in 1..MaxAttempt /\ q.att \in 1..natt
            /\ n = 1 => q.start = 0
            /\ n # 1 => q.start = pages[i].start + Cap
            /\ i # 0 => /\ i \in 1..n /\ HasActivePage /\ ActivePage = pages[i]
                        /\ ActivePage.msg \in Msgs /\ ActivePage.start \in 0..MaxLen
            /\ HasActivePage <=> i # 0
            /\ run \in {"running", "settled"} /\ ~timer.set /\ term = "none"
            /\ natt' = natt /\ startOf' = startOf
            /\ posted \subseteq posted' /\ posted' \subseteq posted \cup {q.att}
            /\ q.msg = Reserved => posted' = posted
            /\ outcome = "rejected" => posted' = posted
            /\ denied' \subseteq posted' /\ denied \subseteq denied'
            /\ ~q.tried /\ outcome = "rejected" => q.att \notin Counted'
<1> DEFINE n == Len(pages)
           q == pages[n]
           i == ActiveIndex(pages)
<1>1. pc = "reconcile" /\ HasPending(pages) /\ Pending = Last(pages)
  BY DEF Reconcile, OutputInd, LoopInv, Pending
<1>2. LedgerShape(pages) /\ LedgerInv /\ n \in Nat /\ natt \in Nat
  BY LedgerShaped DEF OutputInd
<1>3. /\ n \in 1..n /\ Last(pages) = q /\ q \in Page /\ q.st = "send_unknown" /\ i = n - 1
      /\ q.msg \in {0, Reserved} /\ (q.msg = Reserved => n = 1)
      /\ q.start \in 0..MaxLen /\ q.att \in 1..MaxAttempt
      /\ n = 1 => q.start = 0
      /\ n # 1 => q.start = pages[n - 1].start + Cap
  BY <1>1, <1>2, PendingFields
<1>4. q.att \in 1..natt /\ startOf[q.att] = q.start
  BY <1>2, <1>3, LedgerShaped
<1>5. i # 0 => /\ i \in 1..n /\ ActivePage = pages[i]
               /\ ActivePage.msg \in Msgs /\ ActivePage.start \in 0..MaxLen
  BY <1>2, ActiveFields DEF ActivePage
<1>6. HasActivePage <=> i # 0
  BY DEF HasActivePage
<1>7. run \in {"running", "settled"} /\ ~timer.set
  BY <1>1 DEF OutputInd, LoopInv
<1>8. term = "none"
  BY <1>7, BeforeTheEnd
<1>9. denied \subseteq posted
  BY DEF OutputInd, PostedInv
<1>10. CASE q.tried
  <2>1. UNCHANGED <<natt, posted, startOf, denied>>
    BY <1>1, <1>3, <1>10 DEF Reconcile, ledger
  <2> QED
    BY <1>1, <1>2, <1>3, <1>4, <1>5, <1>6, <1>7, <1>8, <1>10, <1>9, <2>1
<1>11. CASE ~q.tried /\ q.msg = Reserved
  <2>1. UNCHANGED <<natt, posted, startOf, denied>>
    BY <1>1, <1>3, <1>11 DEF Reconcile
  <2>2. q.att \notin Counted'
    BY <1>3, <1>11, <2>1 DEF OutputInd, PostedInv, Counted
  <2> QED
    BY <1>1, <1>2, <1>3, <1>4, <1>5, <1>6, <1>7, <1>8, <1>11, <1>9, <2>1, <2>2
<1>12. CASE ~q.tried /\ q.msg # Reserved
  <2>1. /\ Send(q.att, outcome) /\ startOf' = [startOf EXCEPT ![q.att] = q.start]
        /\ natt' = IF q.att > natt THEN q.att ELSE natt
        /\ denied' = IF outcome = "rejected" THEN denied \cup ({q.att} \cap posted) ELSE denied
    BY <1>1, <1>3, <1>12 DEF Reconcile, ReplayAttempt
  <2>2. natt' = natt
    BY <1>2, <1>4, <2>1
  <2>3. startOf' = startOf
    <3>1. startOf \in [1..MaxAttempt -> 0..MaxLen]
      BY <1>2 DEF LedgerInv
    <3> QED
      BY <1>4, <2>1, <3>1
  <2>4. /\ posted \subseteq posted' /\ posted' \subseteq posted \cup {q.att}
        /\ outcome = "rejected" => posted' = posted
    BY <2>1, SendPosts
  <2>5. /\ denied' \subseteq posted' /\ denied \subseteq denied'
        /\ outcome = "rejected" => q.att \notin Counted'
    BY <1>9, <2>1, <2>4 DEF Counted
  <2> QED
    BY <1>1, <1>2, <1>3, <1>4, <1>5, <1>6, <1>7, <1>8, <1>12, <2>2, <2>3, <2>4, <2>5
<1> QED
  BY <1>10, <1>11, <1>12

\* The ledger that is reconciled.
LEMMA Reconciled ==
  ASSUME OutputInd, NEW outcome \in Outcomes, Reconcile(outcome), ~Pending.tried
  PROVE  LET n == Len(pages)
             i == ActiveIndex(pages)
         IN /\ LedgerShape(pages')
            /\ outcome = "confirmed" =>
                 /\ Len(pages') = n /\ ~HasPending(pages')
                 /\ pages'[n].att = pages[n].att /\ pages'[n].start = pages[n].start
                 /\ pages'[n].msg = Reserved => pages[n].msg = Reserved
                 /\ pages'[n].st = "active"
                 /\ \A k \in 1..i : /\ pages'[k].att = pages[k].att /\ pages'[k].msg = pages[k].msg
                                    /\ pages'[k].start = pages[k].start /\ pages'[k].st = "sealed"
                                    /\ pages'[k].end = pages[k].start + Cap
            /\ outcome = "unknown" =>
                 /\ Len(pages') = n /\ HasPending(pages') /\ ActiveIndex(pages') = i
                 /\ \A k \in 1..n : /\ pages'[k].att = pages[k].att /\ pages'[k].msg = pages[k].msg
                                    /\ pages'[k].start = pages[k].start /\ pages'[k].st = pages[k].st
                                    /\ pages'[k].end = pages[k].end
            /\ outcome = "rejected" =>
                 /\ Len(pages') = n - 1 /\ ~HasPending(pages')
                 /\ \A k \in 1..n - 1 : pages'[k] = pages[k]
<1> DEFINE n == Len(pages)
           q == pages[n]
           i == ActiveIndex(pages)
<1>1. /\ HasPending(pages) /\ Pending = q /\ n \in 1..n /\ n \in Nat /\ q \in Page
      /\ q.st = "send_unknown" /\ i = n - 1 /\ q.msg \in {0, Reserved}
      /\ q.msg = Reserved => n = 1
      /\ n = 1 => q.start = 0
      /\ n # 1 => q.start = pages[i].start + Cap
      /\ q.att \in 1..MaxAttempt
      /\ i # 0 => i \in 1..n
  BY ReconcileFields
<1>2. pages' = ReconciledLedger(outcome)
  BY DEF Reconcile
<1>3. LedgerShape(pages)
  BY LedgerShaped DEF OutputInd
<1>4. CASE outcome = "confirmed"
  <2> DEFINE mm == IF q.msg # 0 THEN q.msg ELSE q.att
             p == [q EXCEPT !.st = "active", !.msg = mm]
  <2>1. mm \in 0..Reserved /\ mm \in {q.att, Reserved} /\ (mm = Reserved => q.msg = Reserved)
    BY <1>1, OutputBounds
  <2>2. pages' = Confirmed(pages, p)
    BY <1>1, <1>2, <1>4 DEF ReconciledLedger
  <2> HIDE DEF mm
  <2>3. /\ p \in Page /\ p.att = q.att /\ p.start = q.start /\ p.st = "active" /\ p.msg = mm
    <3>1. "active" \in {"active", "sealed", "send_unknown"}
      OBVIOUS
    <3> QED
      BY <1>1, <2>1, <3>1 DEF Page
  <2> HIDE DEF p
  <2>4. /\ p.msg \in {p.att, Reserved}
        /\ p.msg = Reserved => i = 0
        /\ i = 0 => p.start = 0
    BY <1>1, <2>1, <2>3
  <2>5. ASSUME i # 0 PROVE p.start = pages[i].start + Cap /\ p.att > pages[i].att
    <3>1. i \in 1..n /\ i < n /\ n # 1
      BY <1>1, <2>5
    <3>2. pages[i].att < pages[n].att /\ pages[i] \in Page
      BY <1>1, <1>3, <3>1, PagesTyped DEF LedgerShape, Ascending
    <3>3. pages[i].att \in Nat /\ q.att \in Nat
      BY <1>1, <3>2, PageFields
    <3> QED
      BY <1>1, <2>3, <3>1, <3>2, <3>3
  <2>6. /\ LedgerShape(pages') /\ Len(pages') = i + 1 /\ pages'[i + 1] = p
        /\ \A k \in 1..i : /\ pages'[k].att = pages[k].att /\ pages'[k].msg = pages[k].msg
                           /\ pages'[k].start = pages[k].start /\ pages'[k].st = "sealed"
                           /\ pages'[k].end = pages[k].start + Cap
    BY <1>3, <2>2, <2>3, <2>4, <2>5, ConfirmedPages
  <2>7. Len(pages') = n /\ pages'[n] = p
    BY <1>1, <2>6
  <2>8. ~HasPending(pages')
    <3>1. Len(pages') > 0
      BY <1>1, <2>7
    <3> QED
      BY <2>3, <2>6, <2>7, <3>1, LiveSuffix
  <2> QED
    BY <1>4, <2>1, <2>3, <2>6, <2>7, <2>8
<1>5. CASE outcome = "unknown"
  <2>1. pages' = [pages EXCEPT ![Len(pages)].tried = TRUE]
    BY <1>2, <1>5 DEF ReconciledLedger
  <2>2. /\ LedgerShape(pages') /\ Len(pages') = n
        /\ \A k \in 1..n : /\ pages'[k].att = pages[k].att /\ pages'[k].msg = pages[k].msg
                           /\ pages'[k].start = pages[k].start /\ pages'[k].st = pages[k].st
                           /\ pages'[k].end = pages[k].end
    BY <1>1, <1>3, <2>1, TriedPages
  <2>3. HasPending(pages') /\ ActiveIndex(pages') = n - 1
    <3>1. Len(pages') > 0 /\ pages'[Len(pages')].st # "active"
      BY <1>1, <2>2
    <3> QED
      BY <2>2, <3>1, LiveSuffix
  <2> QED
    BY <1>1, <1>5, <2>2, <2>3
<1>6. CASE outcome = "rejected"
  <2>1. pages' = Front(pages)
    BY <1>2, <1>6 DEF ReconciledLedger
  <2>2. /\ LedgerShape(pages') /\ Len(pages') = n - 1 /\ ~HasPending(pages')
        /\ \A k \in 1..Len(pages') : pages'[k] = pages[k]
    BY <1>1, <1>3, <2>1, DroppedPages
  <2> QED
    BY <1>6, <2>2
<1> QED
  BY <1>4, <1>5, <1>6 DEF Outcomes

LEMMA ReconcilePages ==
  ASSUME OutputInd, NEW outcome \in Outcomes, Reconcile(outcome), ~Pending.tried
  PROVE  LedgerInv' /\ PostedInv'
<1> DEFINE n == Len(pages)
           q == pages[n]
           i == ActiveIndex(pages)
<1>1. /\ Pending = q /\ n \in 1..n /\ n \in Nat /\ i = n - 1 /\ q.att \in 1..natt
      /\ q.msg = Reserved => n = 1 /\ posted' = posted
      /\ natt' = natt /\ startOf' = startOf /\ posted' \subseteq posted \cup {q.att}
      /\ denied' \subseteq posted' /\ denied \subseteq denied'
      /\ outcome = "rejected" => q.att \notin Counted'
      /\ term = "none"
  BY ReconcileFields
<1>2. LedgerInv /\ PostedInv /\ LedgerShape(pages) /\ posted \subseteq 1..natt
  BY LedgerShaped DEF OutputInd, LedgerInv
<1>3. len' = len /\ term' = "none"
  BY <1>1 DEF Reconcile, book, terminal
<1>4. LedgerShape(pages')
  BY Reconciled
\* A page of the new ledger is the page of the old one.
<1>5. ASSUME NEW k \in 1..Len(pages')
      PROVE  /\ k \in 1..n /\ pages'[k].att = pages[k].att /\ pages'[k].start = pages[k].start
             /\ pages'[k].msg = Reserved => pages[k].msg = Reserved
  <2>1. CASE outcome = "confirmed"
    <3>1. k \in 1..n /\ (k = n \/ k \in 1..i)
      BY <1>1, <2>1, Reconciled
    <3>2. CASE k = n
      BY <2>1, <3>1, <3>2, Reconciled
    <3>3. CASE k \in 1..i
      BY <2>1, <3>1, <3>3, Reconciled
    <3> QED
      BY <3>1, <3>2, <3>3
  <2>2. CASE outcome = "unknown"
    BY <2>2, Reconciled
  <2>3. CASE outcome = "rejected"
    <3>1. k \in 1..n - 1 /\ k \in 1..n /\ pages'[k] = pages[k]
      BY <1>1, <2>3, Reconciled
    <3> QED
      BY <3>1
  <2> QED
    BY <2>1, <2>2, <2>3 DEF Outcomes
<1>6. Len(pages') = n \/ (outcome = "rejected" /\ Len(pages') = n - 1)
  BY Reconciled DEF Outcomes
<1>7. posted' \subseteq 1..natt
  BY <1>1, <1>2
<1>8. LedgerInv'
  BY <1>1, <1>2, <1>3, <1>4, <1>5, <1>7, LedgerKept
<1>9. ASSUME NEW x \in Counted' PROVE \E k \in 1..Len(pages') : pages'[k].att = x
  <2>1. PICK k \in 1..n : pages[k].att = x
    <3>1. CASE x \in Counted
      BY <1>1, <1>2, <3>1 DEF PostedInv
    <3>2. CASE x = q.att
      BY <1>1, <3>2
    <3> QED
      BY <1>1, <1>9, <3>1, <3>2 DEF Counted
  <2>2. k \in 1..Len(pages')
    <3>1. CASE Len(pages') = n
      BY <3>1
    <3>2. CASE outcome = "rejected" /\ Len(pages') = n - 1
      <4>1. x # q.att
        BY <1>1, <1>9, <3>2
      <4>2. k # n
        BY <2>1, <4>1
      <4> QED
        BY <1>1, <3>2, <4>2
    <3> QED
      BY <1>6, <3>1, <3>2
  <2> QED
    BY <1>5, <2>1, <2>2
<1>10. OneCardPerRange'
  <2>1. (LedgerInv /\ PostedArePages => OneCardPerRange)'
    BY OneCardEach, PTL
  <2>2. PostedArePages'
    BY <1>9 DEF PostedArePages
  <2> QED
    BY <1>8, <2>1, <2>2
<1>11. ASSUME NEW k \in 1..Len(pages'), pages'[k].msg = Reserved PROVE pages'[k].att \notin posted'
  <2>1. k \in 1..n /\ pages[k].msg = Reserved /\ pages'[k].att = pages[k].att
    BY <1>5, <1>11
  <2>2. pages[k].att \notin posted
    BY <1>2, <2>1 DEF PostedInv
  <2>3. CASE k = n
    BY <1>1, <2>1, <2>2, <2>3
  <2>4. CASE k # n
    <3>1. pages[k].att # q.att
      BY <1>1, <1>2, <2>1, <2>4, PagesDiffer
    <3> QED
      BY <1>1, <2>1, <2>2, <3>1
  <2> QED
    BY <2>3, <2>4
<1> QED
  BY <1>1, <1>3, <1>8, <1>9, <1>10, <1>11 DEF PostedInv

LEMMA TriedStep ==
  ASSUME OutputInd, NEW outcome \in Outcomes, Reconcile(outcome), Pending.tried
  PROVE  OutputInd'
<1>1. /\ LoopInv /\ LedgerInv /\ DispatchInv /\ ShownInv /\ ReceiptsInv /\ PostedInv /\ TermInv
      /\ CutInv
  BY DEF OutputInd
<1>2. /\ pc' = "idle" /\ hold' = hold
      /\ UNCHANGED <<len, run, turn, patched, timer, pages, natt, posted, startOf, denied, bg,
                     term, at, receipts, todo, carrier, want, closed>>
      /\ UNCHANGED dispatcher
  BY DEF Reconcile, book, ledger, terminal, dispatcher
<1>3. /\ HasPending(pages) /\ run \in {"running", "settled"} /\ ~timer.set
      /\ ActiveIndex(pages) = Len(pages) - 1 /\ Pending = pages[Len(pages)]
      /\ HasActivePage <=> ActiveIndex(pages) # 0
      /\ HasActivePage => /\ ActivePage.start \in 0..MaxLen /\ Pending.start = ActivePage.start + Cap
  BY ReconcileFields
<1>4. LoopInv'
  BY <1>1, <1>2, <1>3 DEF LoopInv
<1>5. LedgerInv' /\ DispatchInv'
  BY <1>1, <1>2, LedgerRests, DispatchRests
<1>6. ReceiptsInv' /\ PostedInv' /\ TermInv' /\ CutInv'
  BY <1>1, <1>2, ReceiptsRest, PostedRests, TermRests, CutRests
<1>7. ShownInv'
  <2>1. ProjectionEnd = Pending.start /\ ProjectionEnd' = ProjectionEnd
    BY <1>2, <1>3 DEF ProjectionEnd, Pending
  <2>2. HasActivePage => Fits(ActivePage.start, ProjectionEnd)
    BY <1>3, <2>1, OutputBounds DEF Fits
  <2>3. ActivePage' = ActivePage /\ HasActivePage' = HasActivePage /\ Pending' = Pending
    BY <1>2 DEF ActivePage, HasActivePage, Pending
  <2>4. run = "running" /\ ~closed /\ HasActivePage =>
          want[ActivePage.msg] = ModelOf(ActivePage.start, Pending.start, TRUE)
    BY <1>1, <1>3 DEF ShownInv
  <2>5. PageIsCurrent'
    BY <1>2, <2>1, <2>2, <2>3, <2>4 DEF PageIsCurrent
  <2> QED
    BY <1>1, <1>2, <2>3, <2>5 DEF ShownInv, Final
<1> QED
  BY <1>4, <1>5, <1>6, <1>7 DEF OutputInd

LEMMA ReconcileOutputStep ==
  ASSUME OutputInd, NEW outcome \in Outcomes, Reconcile(outcome)
  PROVE  OutputInd'
<1>1. CASE Pending.tried
  BY <1>1, TriedStep
<1>2. CASE ~Pending.tried
  <2> DEFINE n == Len(pages)
             i == ActiveIndex(pages)
             m == ActivePage.msg
             model == ModelOf(ActivePage.start, Pending.start, FALSE)
  <2>1. /\ LoopInv /\ LedgerInv /\ DispatchInv /\ ShownInv /\ CutInv
        /\ LedgerShape(pages)
    BY LedgerShaped DEF OutputInd
  <2>2. /\ HasPending(pages) /\ Pending = pages[n] /\ n \in 1..n /\ n \in Nat /\ i = n - 1
        /\ Pending.start \in 0..MaxLen
        /\ n # 1 => Pending.start = pages[i].start + Cap
        /\ i # 0 => /\ i \in 1..n /\ HasActivePage /\ ActivePage = pages[i]
                    /\ m \in Msgs /\ ActivePage.start \in 0..MaxLen
        /\ HasActivePage <=> i # 0
        /\ run \in {"running", "settled"} /\ ~timer.set /\ term = "none" /\ natt' = natt
    BY ReconcileFields
  <2>3. /\ pc = "reconcile" /\ pc' = "page" /\ hold' = hold
        /\ UNCHANGED <<len, run, turn, patched, timer, bg, term, at, receipts, todo, carrier>>
        /\ IF outcome = "confirmed" /\ HasActivePage THEN Submit(m, model) ELSE UNCHANGED dispatcher
    BY <1>2 DEF Reconcile, book, terminal
  <2>4. LedgerInv' /\ PostedInv' /\ LedgerShape(pages')
    BY <1>2, ReconcilePages, Reconciled
  <2>5. LoopInv'
    BY <2>1, <2>2, <2>3 DEF LoopInv
  <2>6. ReceiptsInv' /\ TermInv'
    <3>1. natt' \in Nat
      BY <2>1, <2>2, LedgerShaped
    <3> QED
      BY <2>2, <2>3, <3>1, QuietTerminal
  <2>7. i # 0 => model \in Model /\ model.text # "cut" /\ model.lo = ActivePage.start
                 /\ model.hi = Pending.start /\ ~model.running
    BY <2>2, ModelsTyped
  <2>8. PageIsCurrent'
    BY <2>3 DEF PageIsCurrent
  <2> HIDE DEF model
  <2>9. CASE outcome = "confirmed" /\ HasActivePage
    <3>1. Submit(m, model) /\ Asks(m, model) /\ i # 0
      BY <2>2, <2>3, <2>9 DEF Asks
    <3>2. /\ DispatchInv' /\ closed' = closed /\ (\A j \in Msgs \ {m} : want'[j] = want[j])
          /\ ~closed => want'[m] = model
      BY <2>1, <2>2, <2>7, <3>1, AsksKeeps
    <3>3. CutInv'
      BY <2>2, <2>3, <2>7, <3>1, QuietCut
    <3>4. ASSUME NEW k \in 1..Len(pages'), pages'[k].st = "sealed", ~closed
          PROVE  /\ want'[pages'[k].msg].lo = pages'[k].start
                 /\ want'[pages'[k].msg].hi = pages'[k].end
                 /\ ~want'[pages'[k].msg].running
      <4>1. k \in 1..i
        <5>1. Len(pages') = n /\ pages'[n].st # "sealed"
          BY <1>2, <2>9, Reconciled
        <5> QED
          BY <2>2, <3>4, <5>1
      <4>2. /\ pages'[k].msg = pages[k].msg /\ pages'[k].start = pages[k].start
            /\ pages'[k].end = pages[k].start + Cap
        BY <1>2, <2>9, <4>1, Reconciled
      <4>3. CASE k = i
        <5>1. want'[m] = model /\ n # 1
          BY <2>2, <3>1, <3>2, <3>4
        <5> QED
          BY <2>2, <2>7, <3>1, <4>2, <4>3, <5>1
      <4>4. CASE k # i
        <5>1. k \in 1..n /\ pages[k].st = "sealed"
          BY <2>1, <2>2, <4>1, <4>4, LiveSuffix
        <5>2. want'[pages[k].msg] = want[pages[k].msg]
          BY <2>1, <2>9, <3>2, <5>1, SealedKept
        <5>3. Final(pages[k].msg, pages[k].start, pages[k].end)
          BY <2>1, <2>2, <3>4, <5>1 DEF ShownInv
        <5>4. pages[k].end = pages[k].start + Cap
          BY <2>1, <5>1 DEF LedgerShape, PageFits
        <5> QED
          BY <4>2, <5>2, <5>3, <5>4 DEF Final
      <4> QED
        BY <4>3, <4>4
    <3>5. ~HasPending(pages')
      BY <1>2, <2>9, Reconciled
    <3>6. ShownInv'
      BY <2>8, <3>2, <3>4, <3>5 DEF ShownInv, Final
    <3> QED
      BY <2>4, <2>5, <2>6, <3>2, <3>3, <3>6 DEF OutputInd
  <2>10. CASE ~(outcome = "confirmed" /\ HasActivePage)
    <3>1. UNCHANGED dispatcher /\ want' = want /\ closed' = closed
      BY <2>3, <2>10 DEF dispatcher
    <3>2. DispatchInv'
      BY <2>1, <2>3, <3>1, DispatchRests
    <3>3. CutInv'
      BY <2>1, <2>3, <3>1, CutRests
    <3>4. ASSUME NEW k \in 1..Len(pages'), pages'[k].st = "sealed"
          PROVE  /\ k \in 1..n /\ pages[k].st = "sealed" /\ pages'[k].msg = pages[k].msg
                 /\ pages'[k].start = pages[k].start /\ pages'[k].end = pages[k].end
      <4>1. CASE outcome = "confirmed"
        <5>1. i = 0 /\ Len(pages') = n /\ pages'[n].st # "sealed"
          BY <1>2, <2>2, <2>10, <4>1, Reconciled
        <5>2. k = n
          BY <2>2, <5>1
        <5> QED
          BY <3>4, <5>1, <5>2
      <4>2. CASE outcome = "unknown"
        BY <1>2, <3>4, <4>2, Reconciled
      <4>3. CASE outcome = "rejected"
        <5>1. Len(pages') = n - 1 /\ \A j \in 1..n - 1 : pages'[j] = pages[j]
          BY <1>2, <4>3, Reconciled
        <5>2. k \in 1..n - 1 /\ k \in 1..n
          BY <2>2, <5>1
        <5> QED
          BY <3>4, <5>1, <5>2
      <4> QED
        BY <4>1, <4>2, <4>3 DEF Outcomes
    <3>5. run = "running" /\ ~closed /\ HasPending(pages') /\ HasActivePage' =>
            want[ActivePage'.msg] = ModelOf(ActivePage'.start, Pending'.start, TRUE)
      <4>1. CASE outcome # "unknown"
        BY <1>2, <4>1, Reconciled DEF Outcomes
      <4>2. CASE outcome = "unknown"
        <5>1. /\ Len(pages') = n /\ ActiveIndex(pages') = i
              /\ \A k \in 1..n : /\ pages'[k].msg = pages[k].msg /\ pages'[k].start = pages[k].start
          BY <1>2, <4>2, Reconciled
        <5>2. Pending'.start = Pending.start
          BY <2>2, <5>1 DEF Pending, Last
        <5>3. HasActivePage' <=> i # 0
          BY <5>1 DEF HasActivePage
        <5>4. i # 0 => ActivePage'.msg = ActivePage.msg /\ ActivePage'.start = ActivePage.start
          BY <2>2, <5>1 DEF ActivePage
        <5>5. run = "running" /\ ~closed /\ i # 0 =>
                want[ActivePage.msg] = ModelOf(ActivePage.start, Pending.start, TRUE)
          BY <2>1, <2>2 DEF ShownInv
        <5> QED
          BY <5>2, <5>3, <5>4, <5>5
      <4> QED
        BY <4>1, <4>2
    <3>6. ShownInv'
      <4>1. (term \in {"none", "begin"} /\ ~closed =>
               \A k \in 1..Len(pages) : pages[k].st = "sealed" =>
                 Final(pages[k].msg, pages[k].start, pages[k].end))'
        BY <2>1, <2>2, <3>1, <3>4 DEF ShownInv, Final
      <4>2. (run = "running" /\ ~closed /\ HasPending(pages) /\ HasActivePage =>
               want[ActivePage.msg] = ModelOf(ActivePage.start, Pending.start, TRUE))'
        BY <2>3, <3>1, <3>5
      <4> QED
        BY <2>8, <4>1, <4>2 DEF ShownInv
    <3> QED
      BY <2>4, <2>5, <2>6, <3>2, <3>3, <3>6 DEF OutputInd
  <2> QED
    BY <2>9, <2>10
<1> QED
  BY <1>1, <1>2

-----------------------------------------------------------------------------
(* The terminal worker.                                                     *)

LEMMA TermFrame ==
  ASSUME OutputInd, term # "none",
         UNCHANGED <<len, run, turn, patched, timer, pages, pc, bg>>,
         term' \in {"replay", "page", "send", "carrier", "cleanup", "done"}
  PROVE  LoopInv' /\ ShownInv' /\ run = "over" /\ run' = "over"
<1>1. run = "over" /\ run' = "over"
  BY DEF OutputInd, TermInv
<1>2. LoopInv'
  BY <1>1, LoopRests DEF OutputInd
<1>3. ShownInv'
  BY <1>1 DEF ShownInv, PageIsCurrent
<1> QED
  BY <1>1, <1>2, <1>3

LEMMA ReceiptFields ==
  ASSUME NEW p, p.msg \in Msgs, p.start \in 0..MaxLen, NEW e \in 0..MaxLen
  PROVE  /\ ReceiptOf(p, e) \in Receipt /\ ReceiptOf(p, e).msg = p.msg
         /\ ReceiptOf(p, e).start = p.start /\ ReceiptOf(p, e).end = e
  BY DEF ReceiptOf, Receipt

\* A page that is followed by another one.
LEMMA FullPage ==
  ASSUME LedgerInv, NEW k \in 1..Len(pages), k < Len(pages)
  PROVE  /\ pages[k] \in Page /\ pages[k].msg \in {pages[k].att, Reserved} /\ pages[k].msg \in Msgs
         /\ pages[k].start \in 0..MaxLen /\ pages[k].start + Cap \in 0..MaxLen
         /\ pages[k + 1].start = pages[k].start + Cap /\ pages[k].st \in {"sealed", "active"}
         /\ pages[k].msg # 0
<1>1. /\ k + 1 \in 1..Len(pages) /\ k \in Nat /\ k > 0
      /\ LedgerShape(pages)
  BY LedgerShaped
<1>2. /\ pages[k] \in Page /\ PageFits(pages, k) /\ pages[k + 1] \in Page /\ PageFits(pages, k + 1)
      /\ pages[k].att \in 1..natt
  BY <1>1, LedgerShaped DEF LedgerShape
<1>3. pages[k].st \in {"sealed", "active"}
  BY <1>2 DEF PageFits
<1>4. pages[k].msg \in {pages[k].att, Reserved}
  BY <1>2, <1>3 DEF PageFits
<1>5. pages[k].msg \in Msgs /\ pages[k].msg # 0
  BY <1>2, <1>4, PageFields, OutputBounds
<1>6. pages[k + 1].start = pages[k].start + Cap
  <2>1. k + 1 # 1 /\ (k + 1) - 1 = k
    BY <1>1
  <2> QED
    BY <1>2, <2>1 DEF PageFits
<1>7. pages[k].start \in 0..MaxLen /\ pages[k + 1].start \in 0..MaxLen
  BY <1>2, PageFields
<1> QED
  BY <1>2, <1>3, <1>4, <1>5, <1>6, <1>7

LEMMA SealedReceiptFields ==
  ASSUME LedgerInv, NEW k, k = Cardinality(Sealed)
  PROVE  /\ k \in Nat /\ k = IF HasActivePage THEN ActiveIndex(pages) - 1 ELSE 0
         /\ SealedReceipts \in Seq(Receipt) /\ Len(SealedReceipts) = k
         /\ \A j \in 1..k :
              /\ j \in 1..Len(pages) /\ j < Len(pages) /\ pages[j].st = "sealed"
              /\ SealedReceipts[j].msg = pages[j].msg /\ SealedReceipts[j].start = pages[j].start
              /\ SealedReceipts[j].end = pages[j].start + Cap
<1>1. /\ LedgerShape(pages) /\ Len(pages) \in Nat /\ k \in Nat
      /\ k = IF HasActivePage THEN ActiveIndex(pages) - 1 ELSE 0
      /\ ActiveIndex(pages) \in 0..Len(pages)
  BY LedgerShaped, SealedCount, LiveSuffix
<1>2. ASSUME NEW j \in 1..k
      PROVE  /\ j \in 1..Len(pages) /\ j < Len(pages) /\ pages[j].st = "sealed"
             /\ pages[j].end = pages[j].start + Cap /\ pages[j].end \in 0..MaxLen
             /\ pages[j].msg \in Msgs /\ pages[j].start \in 0..MaxLen
  <2>1. j \in 1..Len(pages) /\ j < ActiveIndex(pages) /\ j < Len(pages)
    BY <1>1, <1>2
  <2>2. pages[j].st = "sealed" /\ PageFits(pages, j)
    BY <1>1, <2>1, LiveSuffix DEF LedgerShape
  <2>3. pages[j].end = pages[j].start + Cap
    BY <2>2 DEF PageFits
  <2> QED
    BY <2>1, <2>2, <2>3, FullPage
<1>3. SealedReceipts = [j \in 1..k |-> ReceiptOf(pages[j], pages[j].end)]
  BY DEF SealedReceipts
<1>4. \A j \in 1..k : ReceiptOf(pages[j], pages[j].end) \in Receipt
  BY <1>2, ReceiptFields
<1>5. SealedReceipts \in Seq(Receipt) /\ Len(SealedReceipts) = k
  BY <1>1, <1>3, <1>4
<1>6. ASSUME NEW j \in 1..k
      PROVE  /\ SealedReceipts[j].msg = pages[j].msg /\ SealedReceipts[j].start = pages[j].start
             /\ SealedReceipts[j].end = pages[j].start + Cap
  <2>1. SealedReceipts[j] = ReceiptOf(pages[j], pages[j].end)
    BY <1>3
  <2> QED
    BY <1>2, <2>1, ReceiptFields
<1> QED
  BY <1>1, <1>2, <1>5, <1>6

\* The receipts of the pages that are full.
LEMMA BeginReceipts ==
  ASSUME OutputInd, TermBegin
  PROVE  LET n == Len(pages)
         IN /\ n \in 1..n /\ n \in Nat
            /\ receipts' \in Seq(Receipt) /\ Len(receipts') = n - 1
            /\ \A j \in 1..n - 1 :
                 /\ receipts'[j].msg = pages[j].msg /\ receipts'[j].start = pages[j].start
                 /\ receipts'[j].end = pages[j].start + Cap
            /\ HasPending(pages) => /\ Pending = pages[n] /\ ActiveIndex(pages) = n - 1
                                    /\ Pending.st = "send_unknown"
            /\ ~HasPending(pages) => /\ HasActivePage /\ ActivePage = pages[n]
                                     /\ ActiveIndex(pages) = n
<1> DEFINE n == Len(pages)
           i == ActiveIndex(pages)
           rs == SealedReceipts
           k == Cardinality(Sealed)
<1>1. /\ LedgerInv /\ LedgerShape(pages) /\ n \in Nat
      /\ HasActivePage \/ HasPending(pages)
  BY LedgerShaped DEF OutputInd, TermInv, TermBegin
<1>2. /\ k \in Nat /\ k = IF HasActivePage THEN i - 1 ELSE 0
      /\ rs \in Seq(Receipt) /\ Len(rs) = k
      /\ \A j \in 1..k :
           /\ rs[j].msg = pages[j].msg /\ rs[j].start = pages[j].start
           /\ rs[j].end = pages[j].start + Cap
  BY <1>1, SealedReceiptFields
<1>3. HasActivePage <=> i # 0
  BY DEF HasActivePage
<1> HIDE DEF rs, k
<1>4. CASE HasPending(pages)
  <2>1. Pending = pages[n] /\ i = n - 1 /\ n \in 1..n /\ pages[n].st = "send_unknown"
    BY <1>1, <1>4, PendingFields DEF Pending
  <2>2. CASE HasActivePage
    <3> DEFINE r == ReceiptOf(ActivePage, Pending.start)
    <3>1. receipts' = Append(rs, r)
      BY <1>4, <2>2 DEF TermBegin, rs
    <3>2. i \in 1..n /\ i < n /\ i + 1 = n /\ i # 0 /\ i \in Nat
      BY <1>1, <1>3, <2>1, <2>2
    <3>3. /\ pages[i].msg \in Msgs /\ pages[i].start \in 0..MaxLen
          /\ pages[i].start + Cap \in 0..MaxLen /\ pages[n].start = pages[i].start + Cap
      BY <1>1, <3>2, FullPage
    <3>4. ActivePage = pages[i]
      BY DEF ActivePage
    <3>5. /\ r \in Receipt /\ r.msg = pages[i].msg /\ r.start = pages[i].start
          /\ r.end = pages[i].start + Cap
      BY <2>1, <3>3, <3>4, ReceiptFields
    <3> HIDE DEF r
    <3>6. k = i - 1 /\ k + 1 = i
      BY <1>2, <2>2, <3>2
    <3>7. /\ receipts' \in Seq(Receipt) /\ Len(receipts') = k + 1 /\ receipts'[k + 1] = r
          /\ \A j \in 1..k : receipts'[j] = rs[j]
      BY <1>2, <3>1, <3>5, AppendProperties
    <3>8. \A j \in 1..n - 1 : j = i \/ j \in 1..k
      BY <1>2, <3>2, <3>6
    <3> QED
      BY <1>1, <1>2, <1>4, <2>1, <3>2, <3>5, <3>6, <3>7, <3>8
  <2>3. CASE ~HasActivePage
    <3>1. receipts' = rs
      BY <1>4, <2>3 DEF TermBegin, rs
    <3>2. k = 0 /\ n - 1 = 0
      BY <1>2, <1>3, <2>1, <2>3
    <3>3. receipts' \in Seq(Receipt) /\ Len(receipts') = n - 1 /\ \A j \in 1..n - 1 : FALSE
      <4>1. 1..n - 1 = {}
        BY <3>2
      <4>2. receipts' \in Seq(Receipt) /\ Len(receipts') = n - 1
        BY <1>2, <3>1, <3>2
      <4> QED
        BY <4>1, <4>2
    <3> QED
      BY <1>1, <1>4, <2>1, <3>3
  <2> QED
    BY <2>2, <2>3
<1>5. CASE ~HasPending(pages)
  <2>1. /\ HasActivePage /\ i = n /\ n \in 1..n /\ ActivePage = pages[n]
    BY <1>1, <1>3, <1>5, ActiveFields DEF ActivePage
  <2>2. receipts' = rs /\ k = n - 1
    BY <1>2, <1>5, <2>1 DEF TermBegin, rs
  <2> QED
    BY <1>1, <1>2, <1>5, <2>1, <2>2
<1> QED
  BY <1>4, <1>5

LEMMA BeginOutputStep ==
  ASSUME OutputInd, TermBegin
  PROVE  OutputInd'
<1> DEFINE n == Len(pages)
           m == ActivePage.msg
           model == ModelOf(ActivePage.start, Pending.start, FALSE)
<1>1. /\ LoopInv /\ LedgerInv /\ DispatchInv /\ ShownInv /\ PostedInv /\ TermInv /\ CutInv
      /\ LedgerShape(pages) /\ posted \subseteq 1..natt
  BY LedgerShaped DEF OutputInd, LedgerInv
<1>2. /\ term = "begin" /\ hold' = hold
      /\ UNCHANGED <<len, run, turn, patched, timer, pages, natt, posted, startOf, denied, pc, bg, todo, carrier>>
      /\ HasPending(pages) /\ HasActivePage => Submit(m, model)
      /\ ~(HasPending(pages) /\ HasActivePage) => UNCHANGED dispatcher
      /\ HasPending(pages) => at' = at /\ term' \in {"carrier", "replay"}
      /\ ~HasPending(pages) => /\ term' = "page"
                               /\ at' = [msg |-> ActivePage.msg, start |-> ActivePage.start]
  BY DEF TermBegin, book, ledger
<1>3. /\ n \in 1..n /\ n \in Nat
      /\ receipts' \in Seq(Receipt) /\ Len(receipts') = n - 1
      /\ \A j \in 1..n - 1 :
           /\ receipts'[j].msg = pages[j].msg /\ receipts'[j].start = pages[j].start
           /\ receipts'[j].end = pages[j].start + Cap
      /\ HasPending(pages) => Pending = pages[n] /\ ActiveIndex(pages) = n - 1
      /\ ~HasPending(pages) => HasActivePage /\ ActivePage = pages[n] /\ ActiveIndex(pages) = n
  BY BeginReceipts
<1>4. term' \in {"replay", "page", "carrier"} /\ todo = {} /\ carrier = FALSE
  BY <1>1, <1>2 DEF CutInv
<1>5. LoopInv' /\ ShownInv' /\ run = "over" /\ run' = "over"
  BY <1>2, <1>4, TermFrame
<1>6. LedgerInv'
  BY <1>1, <1>2, LedgerRests
<1>7. HasPending(pages) /\ HasActivePage =>
        /\ m = pages[n - 1].msg /\ m \in Msgs
        /\ model \in Model /\ model.text # "cut" /\ model.lo = pages[n - 1].start
        /\ model.hi = pages[n - 1].start + Cap /\ ~model.running
        /\ n - 1 \in 1..n - 1
  <2>1. ASSUME HasPending(pages), HasActivePage
        PROVE  n - 1 \in 1..n /\ n - 1 < n /\ ActivePage = pages[n - 1] /\ (n - 1) + 1 = n
    BY <1>1, <1>3, <2>1, ActiveFields DEF HasActivePage, ActivePage
  <2>2. ASSUME HasPending(pages), HasActivePage
        PROVE  /\ m \in Msgs /\ ActivePage.start \in 0..MaxLen
               /\ Pending.start = pages[n - 1].start + Cap /\ Pending.start \in 0..MaxLen
    BY <1>1, <1>3, <2>1, <2>2, FullPage
  <2>3. ASSUME HasPending(pages), HasActivePage PROVE n - 1 \in 1..n - 1
    BY <1>3, <2>1, <2>3
  <2>4. ASSUME HasPending(pages), HasActivePage
        PROVE  /\ model \in Model /\ model.text # "cut" /\ model.lo = ActivePage.start
               /\ model.hi = Pending.start /\ ~model.running
    <3>1. FALSE \in BOOLEAN /\ ActivePage.start \in 0..MaxLen /\ Pending.start \in 0..MaxLen
      BY <2>2, <2>4
    <3>2. /\ model \in Model /\ model.lo = ActivePage.start /\ model.hi = Pending.start
          /\ model.running = FALSE /\ model.text = "full"
      BY <3>1, ModelsTyped
    <3> QED
      BY <3>2
  <2> HIDE DEF model
  <2> QED
    BY <2>1, <2>2, <2>3, <2>4
<1> HIDE DEF model
<1>8. ASSUME HasPending(pages), HasActivePage
      PROVE  /\ DispatchInv' /\ closed' = closed
             /\ \A j \in Msgs \ {m} : want'[j] = want[j]
             /\ ~closed => want'[m] = model
             /\ NothingRemovedUnpublished'
  <2>1. Asks(m, model) /\ Submit(m, model)
    BY <1>2, <1>8 DEF Asks
  <2> QED
    BY <1>1, <1>2, <1>7, <1>8, <2>1, AsksKeeps, CutKept
<1>9. ASSUME ~(HasPending(pages) /\ HasActivePage)
      PROVE  DispatchInv' /\ closed' = closed /\ want' = want /\ NothingRemovedUnpublished'
  <2>1. UNCHANGED dispatcher
    BY <1>2, <1>9
  <2>2. closed' = closed /\ want' = want
    BY <2>1 DEF dispatcher
  <2>3. DispatchInv'
    BY <1>1, <1>2, <2>1, DispatchRests
  <2> QED
    BY <1>1, <1>2, <2>2, <2>3 DEF CutInv, NothingRemovedUnpublished
<1>10. /\ DispatchInv' /\ NothingRemovedUnpublished' /\ closed' = closed
  BY <1>8, <1>9
<1>11. CutInv'
  BY <1>1, <1>2, <1>4, <1>10 DEF CutInv
\* What each full page was told.
<1>12. ASSUME NEW j \in 1..n - 1
       PROVE  /\ j \in 1..n /\ j < n /\ pages[j].msg \in {pages[j].att, Reserved}
              /\ pages[j].msg \in Msgs /\ pages[j].msg # 0
              /\ pages[j + 1].start = pages[j].start + Cap /\ pages[j].st \in {"sealed", "active"}
              /\ pages[j].att \in 1..natt
  <2>1. j \in 1..n /\ j < n
    BY <1>3
  <2> QED
    BY <1>1, <2>1, FullPage, LedgerShaped
<1>13. ASSUME NEW j \in 1..n - 1, ~closed
       PROVE  /\ want'[pages[j].msg].lo = pages[j].start
              /\ want'[pages[j].msg].hi = pages[j].start + Cap
              /\ ~want'[pages[j].msg].running
  <2>1. CASE pages[j].st = "sealed"
    <3>1. /\ Final(pages[j].msg, pages[j].start, pages[j].end)
          /\ pages[j].end = pages[j].start + Cap
      BY <1>1, <1>2, <1>12, <1>13, <2>1 DEF ShownInv, LedgerShape, PageFits
    <3>2. want'[pages[j].msg] = want[pages[j].msg]
      <4>1. CASE HasPending(pages) /\ HasActivePage
        BY <1>1, <1>8, <1>12, <2>1, <4>1, SealedKept
      <4>2. CASE ~(HasPending(pages) /\ HasActivePage)
        BY <1>9, <4>2
      <4> QED
        BY <4>1, <4>2
    <3> QED
      BY <3>1, <3>2 DEF Final
  <2>2. CASE pages[j].st = "active"
    <3>1. j = n - 1 /\ HasPending(pages) /\ HasActivePage
      <4>1. ~(j < ActiveIndex(pages))
        BY <1>1, <1>12, <2>2, LiveSuffix
      <4>2. HasPending(pages)
        BY <1>3, <1>12, <4>1
      <4>3. j = n - 1
        BY <1>3, <1>12, <4>1, <4>2
      <4> QED
        BY <1>3, <1>12, <4>2, <4>3 DEF HasActivePage
    <3>2. want'[m] = model
      BY <1>8, <1>13, <3>1
    <3> QED
      BY <1>7, <3>1, <3>2
  <2> QED
    BY <1>12, <2>1, <2>2
<1>14. ReceiptsInv'
  <2>1. ASSUME NEW j \in 1..Len(receipts')
        PROVE  /\ receipts'[j].start = IF j = 1 THEN 0 ELSE receipts'[j - 1].end
               /\ Known(receipts[j].msg)'
               /\ \A l \in 1..Len(receipts') : j # l => receipts'[j].msg # receipts'[l].msg
               /\ ~closed' => Final(receipts[j].msg, receipts[j].start, receipts[j].end)'
    <3>1. j \in 1..n - 1 /\ PageFits(pages, j)
      BY <1>1, <1>3, <1>12 DEF LedgerShape
    <3>2. receipts'[j].start = IF j = 1 THEN 0 ELSE receipts'[j - 1].end
      <4>1. CASE j = 1
        BY <1>3, <3>1, <4>1 DEF PageFits
      <4>2. CASE j # 1
        <5>1. j - 1 \in 1..n - 1
          BY <1>3, <3>1, <4>2
        <5> QED
          BY <1>3, <3>1, <4>2, <5>1 DEF PageFits
      <4> QED
        BY <4>1, <4>2
    <3>3. Known(receipts[j].msg)'
      BY <1>2, <1>3, <1>12, <3>1 DEF Known
    <3>4. ASSUME NEW l \in 1..Len(receipts'), j # l PROVE receipts'[j].msg # receipts'[l].msg
      <4>1. l \in 1..n - 1
        BY <1>3
      <4> QED
        BY <1>1, <1>3, <1>12, <3>1, <3>4, <4>1, PagesDiffer
    <3>5. ~closed' => Final(receipts[j].msg, receipts[j].start, receipts[j].end)'
      BY <1>3, <1>10, <1>13, <3>1 DEF Final
    <3> QED
      BY <3>2, <3>3, <3>4, <3>5
  <2> QED
    BY <1>3, <2>1 DEF ReceiptsInv
\* Where the receipts end, and that the last page has none yet.
<1>15. ChainEnd(receipts') = pages[n].start
  <2>1. PageFits(pages, n)
    BY <1>1, <1>3 DEF LedgerShape
  <2>2. CASE n = 1
    <3>1. receipts' = <<>>
      BY <1>3, <2>2, EmptySeq
    <3> QED
      BY <2>1, <2>2, <3>1 DEF PageFits, ChainEnd
  <2>3. CASE n # 1
    <3>1. n - 1 \in 1..n - 1 /\ Len(receipts') = n - 1 /\ n - 1 # 0
      BY <1>3, <2>3
    <3>2. receipts' # <<>>
      BY <1>3, <3>1, EmptySeq
    <3> QED
      BY <1>3, <2>1, <2>3, <3>1, <3>2 DEF PageFits, ChainEnd
  <2> QED
    BY <2>2, <2>3
<1>16. /\ pages[n] \in Page /\ pages[n].att \in 1..natt /\ pages[n].att # Reserved
       /\ pages[n].msg \in 0..Reserved /\ pages[n].start \in 0..MaxLen
  BY <1>1, <1>3, LedgerShaped, PageFields
<1>17. ASSUME NEW j \in 1..Len(receipts')
       PROVE  /\ receipts'[j].msg # pages[n].att
              /\ pages[n].msg # 0 => receipts'[j].msg # pages[n].msg
  <2>1. j \in 1..n - 1 /\ j # n /\ receipts'[j].msg = pages[j].msg
    BY <1>3
  <2>2. /\ pages[j].att # pages[n].att
        /\ pages[j].msg # 0 => pages[j].msg # pages[n].msg
    BY <1>1, <1>3, <1>12, <2>1, PagesDiffer
  <2> QED
    BY <1>12, <1>16, <2>1, <2>2
<1>18. TermInv'
  <2>1. CASE HasPending(pages)
    <3>1. HasPending(pages)' /\ Pending' = pages[n]
      BY <1>2, <1>3, <2>1 DEF Pending
    <3> QED
      BY <1>1, <1>2, <1>4, <1>5, <1>15, <1>17, <2>1, <3>1 DEF TermInv, Receipted
  <2>2. CASE ~HasPending(pages)
    <3>1. /\ pages[n].msg \in {pages[n].att, Reserved} /\ pages[n].msg # 0
      BY <1>1, <1>3, <2>2, ActiveFields
    <3>2. at'.msg = pages[n].msg /\ at'.start = pages[n].start
          /\ at' \in [msg : 0..Reserved, start : 0..MaxLen]
      BY <1>2, <1>3, <1>16, <2>2
    <3>3. Known(at.msg)'
      BY <1>2, <1>16, <3>1, <3>2 DEF Known
    <3> QED
      BY <1>2, <1>4, <1>5, <1>15, <1>17, <2>2, <3>1, <3>2, <3>3 DEF TermInv, Receipted
  <2> QED
    BY <2>1, <2>2
<1>19. PostedInv'
  <2>1. \A a \in Counted : \E j \in 1..n : pages[j].att = a
    BY <1>1, <1>2 DEF PostedInv
  <2>2. ASSUME term' = "page", NEW a \in Counted PROVE startOf[a] <= at'.start
    <3>1. PICK j \in 1..n : pages[j].att = a
      BY <2>1
    <3>2. startOf[a] = pages[j].start /\ pages[j] \in Page
      BY <1>1, <3>1, LedgerShaped
    <3>3. at'.start = pages[n].start
      BY <1>2, <1>3, <2>2
    <3>4. j = n \/ pages[j].start < pages[n].start
      BY <1>1, <1>3 DEF LedgerShape, Ascending
    <3>5. pages[j].start \in Nat /\ pages[n].start \in Nat
      BY <1>16, <3>2, PageFields
    <3> QED
      BY <3>2, <3>3, <3>4, <3>5
  <2>3. OneCardPerRange'
    BY <1>1, <1>2 DEF PostedInv, OneCardPerRange
  <2>4. \A j \in 1..Len(pages') : pages'[j].msg = Reserved => pages'[j].att \notin posted'
    BY <1>1, <1>2 DEF PostedInv
  <2>5. denied' \subseteq posted' /\ Counted' = Counted
    BY <1>1, <1>2 DEF PostedInv, Counted
  <2> QED
    BY <1>2, <1>4, <2>1, <2>2, <2>3, <2>4, <2>5 DEF PostedInv
<1> QED
  BY <1>5, <1>6, <1>10, <1>11, <1>14, <1>18, <1>19 DEF OutputInd

LEMMA ReplayStep ==
  ASSUME OutputInd, NEW outcome \in Outcomes, TermReplay(outcome)
  PROVE  OutputInd'
<1> DEFINE n == Len(pages)
           q == pages[n]
<1>1. /\ LoopInv /\ LedgerInv /\ DispatchInv /\ ReceiptsInv /\ PostedInv /\ TermInv /\ CutInv
      /\ LedgerShape(pages) /\ posted \subseteq 1..natt /\ natt \in Nat
  BY LedgerShaped DEF OutputInd, LedgerInv
<1>2. /\ term = "replay" /\ hold' = hold
      /\ UNCHANGED <<len, run, turn, patched, timer, pages, natt, startOf, denied, pc, bg, receipts,
                     todo, carrier, want, closed>>
      /\ UNCHANGED dispatcher
      /\ (Pending.msg = Reserved /\ posted' = posted) \/ Send(Pending.att, outcome)
      /\ Pending.msg = Reserved => posted' = posted
      /\ outcome = "confirmed" => /\ term' = "page"
                                  /\ at' = [msg |-> IF Pending.msg # 0 THEN Pending.msg ELSE Pending.att,
                                            start |-> Pending.start]
      /\ outcome # "confirmed" => term' = "carrier" /\ at' = at
  BY DEF TermReplay, book, dispatcher
<1>3. /\ HasPending(pages) /\ ChainEnd(receipts) = Pending.start /\ ~Receipted(Pending.att)
      /\ Pending.msg # 0 => ~Receipted(Pending.msg)
      /\ run = "over"
  BY <1>1, <1>2 DEF TermInv
<1>4. /\ n \in 1..n /\ n \in Nat /\ Pending = q /\ q \in Page /\ q.msg \in {0, Reserved}
      /\ q.start \in 0..MaxLen /\ q.att \in 1..MaxAttempt /\ q.att \in 1..natt
  BY <1>1, <1>3, PendingFields, LedgerShaped DEF Pending
<1>5. /\ posted \subseteq posted' /\ posted' \subseteq posted \cup {q.att}
      /\ posted' \subseteq 1..natt
  <2>1. posted \subseteq posted' /\ posted' \subseteq posted \cup {q.att}
    BY <1>2, <1>4, SendPosts
  <2> QED
    BY <1>1, <1>4, <2>1
<1>6. term' \in {"page", "carrier"} /\ todo = {} /\ carrier = FALSE
  BY <1>1, <1>2 DEF CutInv
<1>7. LoopInv' /\ ShownInv' /\ run' = "over"
  BY <1>2, <1>6, TermFrame
<1>8. LedgerInv'
  BY <1>1, <1>2, <1>5 DEF LedgerInv
<1>9. DispatchInv' /\ ReceiptsInv'
  BY <1>1, <1>2, DispatchRests, ReceiptsRest
<1>10. CutInv'
  BY <1>1, <1>2, <1>6 DEF CutInv, NothingRemovedUnpublished
<1>11. TermInv'
  <2>1. CASE outcome = "confirmed"
    <3> DEFINE m == IF q.msg # 0 THEN q.msg ELSE q.att
    <3>1. /\ m \in 0..Reserved /\ (m = Reserved \/ m \in 1..natt) /\ ~Receipted(m)
      BY <1>3, <1>4, OutputBounds
    <3>2. at' = [msg |-> m, start |-> q.start]
      BY <1>2, <1>4, <2>1
    <3> HIDE DEF m
    <3>3. /\ at'.msg = m /\ at'.start = q.start /\ at' \in [msg : 0..Reserved, start : 0..MaxLen]
      BY <1>4, <3>1, <3>2
    <3>4. Known(at.msg)' /\ ~Receipted(at.msg)'
      BY <1>2, <3>1, <3>3 DEF Known, Receipted
    <3> QED
      BY <1>2, <1>3, <1>4, <1>7, <2>1, <3>3, <3>4 DEF TermInv
  <2>2. CASE outcome # "confirmed"
    BY <1>1, <1>2, <1>7, <2>2 DEF TermInv
  <2> QED
    BY <2>1, <2>2
<1>12. PostedInv'
  <2>1. ASSUME NEW a \in Counted' PROVE \E j \in 1..n : pages[j].att = a
    <3>1. CASE a \in Counted
      BY <1>1, <1>2, <3>1 DEF PostedInv
    <3>2. CASE a = q.att
      BY <1>4, <3>2
    <3> QED
      BY <1>2, <1>5, <2>1, <3>1, <3>2 DEF Counted
  <2>2. OneCardPerRange'
    <3>1. (LedgerInv /\ PostedArePages => OneCardPerRange)'
      BY OneCardEach, PTL
    <3>2. PostedArePages'
      BY <1>2, <2>1 DEF PostedArePages
    <3> QED
      BY <1>8, <3>1, <3>2
  <2>3. ASSUME NEW j \in 1..n, pages[j].msg = Reserved PROVE pages[j].att \notin posted'
    <3>1. pages[j].att \notin posted
      BY <1>1, <2>3 DEF PostedInv
    <3>2. CASE j = n
      BY <1>2, <1>4, <2>3, <3>1, <3>2
    <3>3. CASE j # n
      <4>1. pages[j].att # q.att
        BY <1>1, <1>4, <3>3, PagesDiffer
      <4> QED
        BY <1>5, <3>1, <4>1
    <3> QED
      BY <3>2, <3>3
  <2>4. ASSUME term' = "page", NEW a \in Counted' PROVE startOf[a] <= at'.start
    <3>1. PICK j \in 1..n : pages[j].att = a
      BY <2>1, <2>4
    <3>2. startOf[a] = pages[j].start /\ pages[j] \in Page
      BY <1>1, <3>1, LedgerShaped
    <3>3. at'.start = q.start
      BY <1>2, <1>4, <2>4
    <3>4. j = n \/ pages[j].start < q.start
      BY <1>1, <1>4 DEF LedgerShape, Ascending
    <3>5. pages[j].start \in Nat /\ q.start \in Nat
      BY <1>4, <3>2, PageFields
    <3> QED
      BY <3>2, <3>3, <3>4, <3>5
  <2>5. denied' \subseteq posted'
    BY <1>1, <1>2, <1>5 DEF PostedInv
  <2> QED
    BY <1>2, <1>6, <2>1, <2>2, <2>3, <2>4, <2>5 DEF PostedInv
<1> QED
  BY <1>7, <1>8, <1>9, <1>10, <1>11, <1>12 DEF OutputInd

LEMMA PageStep ==
  ASSUME OutputInd, TermPage
  PROVE  OutputInd'
<1> DEFINE fits == Fits(at.start, len)
           end == IF fits THEN len ELSE at.start + Cap
           m == at.msg
           model == ModelOf(at.start, end, FALSE)
           r == ReceiptOf(at, end)
           k == Len(receipts)
<1>1. /\ LoopInv /\ LedgerInv /\ DispatchInv /\ ReceiptsInv /\ PostedInv /\ TermInv /\ CutInv
      /\ natt \in Nat /\ natt <= MaxAttempt
  BY LedgerShaped DEF OutputInd
<1>2. /\ term = "page" /\ hold' = hold /\ Submit(m, model)
      /\ term' = IF fits THEN "carrier" ELSE "send"
      /\ receipts' = Append(receipts, r)
      /\ UNCHANGED <<len, run, turn, patched, timer, pages, natt, posted, startOf, denied, pc, bg, at, todo,
                     carrier>>
  BY DEF TermPage, book, ledger
<1>3. /\ Known(m) /\ ~Receipted(m) /\ at.start = ChainEnd(receipts) /\ at.start \in 0..MaxLen
      /\ len \in 0..MaxLen /\ receipts \in Seq(Receipt) /\ k \in Nat
  <2>1. receipts \in Seq(Receipt) /\ k \in Nat
    BY <1>1, LenProperties DEF ReceiptsInv
  <2> QED
    BY <1>1, <1>2, <2>1 DEF TermInv, LoopInv
<1>4. m \in Msgs
  BY <1>1, <1>3, OutputBounds DEF Known
<1>5. /\ end \in 0..MaxLen /\ (~fits => end = at.start + Cap /\ end > at.start)
  <2>1. CASE fits
    BY <1>3, <2>1
  <2>2. CASE ~fits
    <3>1. ~(len - at.start <= Cap)
      BY <2>2 DEF Fits
    <3>2. at.start + Cap \in 0..MaxLen /\ at.start + Cap > at.start
      BY <1>3, <3>1, OutputBounds
    <3> QED
      BY <2>2, <3>2
  <2> QED
    BY <2>1, <2>2
<1> HIDE DEF end, fits
<1>6. /\ r \in Receipt /\ r.msg = m /\ r.start = at.start /\ r.end = end
  BY <1>3, <1>4, <1>5, ReceiptFields
<1>7. /\ model \in Model /\ model.text # "cut" /\ model.lo = at.start /\ model.hi = end
      /\ ~model.running
  <2>1. FALSE \in BOOLEAN
    OBVIOUS
  <2>2. /\ model \in Model /\ model.lo = at.start /\ model.hi = end /\ model.running = FALSE
        /\ model.text = "full"
    BY <1>3, <1>5, <2>1, ModelsTyped
  <2> HIDE DEF model
  <2> QED
    BY <2>2
<1> HIDE DEF r, model
<1>8. Asks(m, model)
  BY <1>2 DEF Asks
<1>9. /\ DispatchInv' /\ closed' = closed /\ (\A j \in Msgs \ {m} : want'[j] = want[j])
      /\ ~closed => want'[m] = model
      /\ NothingRemovedUnpublished'
  BY <1>1, <1>2, <1>4, <1>7, <1>8, AsksKeeps, CutKept
<1>10. term' \in {"send", "carrier"} /\ todo = {} /\ carrier = FALSE
  BY <1>1, <1>2 DEF CutInv
<1>11. LoopInv' /\ ShownInv' /\ run' = "over"
  BY <1>2, <1>10, TermFrame
<1>12. LedgerInv'
  BY <1>1, <1>2, LedgerRests
<1>13. /\ receipts' \in Seq(Receipt) /\ Len(receipts') = k + 1 /\ receipts'[k + 1] = r
       /\ \A j \in 1..k : receipts'[j] = receipts[j]
  BY <1>2, <1>3, <1>6, AppendProperties
<1>14. CutInv'
  <2>1. todo' = {} /\ carrier' = FALSE
    BY <1>2, <1>10
  <2> QED
    BY <1>9, <2>1 DEF CutInv
<1>15. receipts' # <<>> /\ ChainEnd(receipts') = end
  <2>1. receipts' # <<>>
    BY <1>3, <1>13, EmptySeq
  <2> QED
    BY <1>6, <1>13, <2>1 DEF ChainEnd
<1>16. TermInv'
  BY <1>1, <1>2, <1>10, <1>11, <1>15 DEF TermInv
<1>17. ReceiptsInv'
  <2>1. ASSUME NEW j \in 1..k PROVE receipts[j].msg # m /\ receipts[j].msg \in Msgs
    <3>1. Known(receipts[j].msg)
      BY <1>1 DEF ReceiptsInv
    <3> QED
      BY <1>1, <1>3, <3>1, OutputBounds DEF Receipted, Known
  <2>2. ASSUME NEW j \in 1..k + 1
        PROVE  /\ receipts'[j].start = IF j = 1 THEN 0 ELSE receipts'[j - 1].end
               /\ Known(receipts[j].msg)'
               /\ \A l \in 1..k + 1 : j # l => receipts'[j].msg # receipts'[l].msg
               /\ ~closed' => Final(receipts[j].msg, receipts[j].start, receipts[j].end)'
    <3>1. CASE j = k + 1
      <4>1. receipts'[j].start = IF j = 1 THEN 0 ELSE receipts'[j - 1].end
        <5>1. CASE k = 0
          <6>1. receipts = <<>>
            BY <1>3, <5>1, EmptySeq
          <6> QED
            BY <1>3, <1>6, <1>13, <3>1, <5>1, <6>1 DEF ChainEnd
        <5>2. CASE k # 0
          <6>1. k \in 1..k /\ j - 1 = k /\ j # 1
            BY <1>3, <3>1, <5>2
          <6>2. receipts # <<>>
            BY <1>3, <5>2, EmptySeq
          <6> QED
            BY <1>3, <1>6, <1>13, <3>1, <6>1, <6>2 DEF ChainEnd
        <5> QED
          BY <5>1, <5>2
      <4>2. Known(receipts[j].msg)'
        BY <1>2, <1>3, <1>6, <1>13, <3>1 DEF Known
      <4>3. ASSUME NEW l \in 1..k + 1, j # l PROVE receipts'[j].msg # receipts'[l].msg
        <5>1. l \in 1..k
          BY <1>3, <3>1, <4>3
        <5> QED
          BY <1>6, <1>13, <2>1, <3>1, <5>1
      <4>4. ~closed' => Final(receipts[j].msg, receipts[j].start, receipts[j].end)'
        BY <1>6, <1>7, <1>9, <1>13, <3>1 DEF Final
      <4> QED
        BY <4>1, <4>2, <4>3, <4>4
    <3>2. CASE j # k + 1
      <4>1. j \in 1..k /\ receipts'[j] = receipts[j]
        BY <1>3, <1>13, <3>2
      <4>2. /\ receipts[j].start = IF j = 1 THEN 0 ELSE receipts[j - 1].end
            /\ Known(receipts[j].msg)
            /\ \A l \in 1..k : j # l => receipts[j].msg # receipts[l].msg
            /\ ~closed => Final(receipts[j].msg, receipts[j].start, receipts[j].end)
        BY <1>1, <4>1 DEF ReceiptsInv
      <4>3. j # 1 => j - 1 \in 1..k
        BY <1>3, <4>1
      <4>4. ASSUME NEW l \in 1..k + 1, j # l PROVE receipts'[j].msg # receipts'[l].msg
        <5>1. l \in 1..k \/ l = k + 1
          BY <1>3
        <5> QED
          BY <1>6, <1>13, <2>1, <4>1, <4>2, <4>4, <5>1
      <4>5. Known(receipts[j].msg)'
        BY <1>2, <4>1, <4>2 DEF Known
      <4>6. ~closed' => Final(receipts[j].msg, receipts[j].start, receipts[j].end)'
        BY <1>9, <2>1, <4>1, <4>2 DEF Final
      <4> QED
        BY <1>13, <4>1, <4>2, <4>3, <4>4, <4>5, <4>6
    <3> QED
      BY <3>1, <3>2
  <2> QED
    BY <1>13, <2>2 DEF ReceiptsInv
<1>18. PostedInv'
  <2>1. ASSUME term' = "send", NEW a \in Counted PROVE startOf[a] < ChainEnd(receipts')
    <3>1. startOf[a] <= at.start
      BY <1>1, <1>2, <2>1 DEF PostedInv
    <3>2. startOf[a] \in Nat
      <4>1. a \in 1..MaxAttempt /\ startOf \in [1..MaxAttempt -> 0..MaxLen]
        BY <1>1, <2>1, OutputBounds DEF LedgerInv, Counted
      <4> QED
        BY <4>1
    <3>3. end > at.start /\ end \in Nat /\ at.start \in Nat
      BY <1>2, <1>3, <1>5, <2>1
    <3> QED
      BY <1>15, <3>1, <3>2, <3>3
  <2> QED
    BY <1>1, <1>2, <1>10, <2>1 DEF PostedInv, OneCardPerRange, Counted
<1> QED
  BY <1>9, <1>11, <1>12, <1>14, <1>16, <1>17, <1>18 DEF OutputInd

LEMMA SendStep ==
  ASSUME OutputInd, NEW outcome \in Outcomes, TermSend(outcome)
  PROVE  OutputInd'
<1> DEFINE a == natt + 1
           cut == Last(receipts).end
<1>1. /\ LoopInv /\ LedgerInv /\ DispatchInv /\ ReceiptsInv /\ PostedInv /\ TermInv /\ CutInv
      /\ natt \in Nat /\ natt <= MaxAttempt /\ posted \subseteq 1..natt
  BY LedgerShaped DEF OutputInd, LedgerInv
<1>2. /\ term = "send" /\ hold' = hold /\ a <= MaxAttempt /\ natt' = a /\ Send(a, outcome)
      /\ startOf' = [startOf EXCEPT ![a] = cut]
      /\ UNCHANGED <<len, run, turn, patched, timer, pages, denied, pc, bg, receipts, todo, carrier,
                     want, closed>>
      /\ UNCHANGED dispatcher
      /\ outcome = "confirmed" => term' = "page" /\ at' = [msg |-> a, start |-> cut]
      /\ outcome # "confirmed" => term' = "carrier" /\ at' = at
  BY DEF TermSend, book, dispatcher
<1>3. receipts # <<>> /\ run = "over"
  BY <1>1, <1>2 DEF TermInv
<1>4. cut = ChainEnd(receipts) /\ cut \in 0..MaxLen
  <2>1. Len(receipts) \in 1..Len(receipts) /\ receipts \in Seq(Receipt)
    <3>1. receipts \in Seq(Receipt)
      BY <1>1 DEF ReceiptsInv
    <3>2. Len(receipts) \in Nat /\ Len(receipts) # 0
      BY <1>3, <3>1, EmptySeq, LenProperties
    <3> QED
      BY <3>1, <3>2
  <2>2. receipts[Len(receipts)] \in Receipt
    BY <2>1, ElementOfSeq
  <2>3. receipts[Len(receipts)].end \in 0..MaxLen
    BY <2>2 DEF Receipt
  <2> QED
    BY <1>3, <2>3 DEF ChainEnd, Last
<1> HIDE DEF cut
<1>5. posted \subseteq posted' /\ posted' \subseteq posted \cup {a}
  BY <1>2, SendPosts
<1>6. term' \in {"page", "carrier"} /\ todo = {} /\ carrier = FALSE
  BY <1>1, <1>2 DEF CutInv
<1>7. LoopInv' /\ ShownInv' /\ run' = "over"
  BY <1>2, <1>6, TermFrame
<1>8. /\ LedgerInv' /\ a \in 1..MaxAttempt /\ a \notin posted /\ startOf'[a] = cut
      /\ \A b \in posted : startOf'[b] = startOf[b]
  BY <1>1, <1>2, <1>4, <1>5, AttemptMade
<1>9. DispatchInv'
  BY <1>1, <1>2, DispatchRests
<1>10. CutInv'
  BY <1>1, <1>2, <1>6 DEF CutInv, NothingRemovedUnpublished
<1>11. a # Reserved /\ a \in 0..Reserved /\ \A m : Known(m) => Known(m)' /\ m # a
  <2>1. a # Reserved /\ a \in 0..Reserved
    BY <1>8, OutputBounds
  <2>2. ASSUME NEW m, Known(m) PROVE Known(m)' /\ m # a
    BY <1>1, <1>2, <2>1, <2>2 DEF Known
  <2> QED
    BY <2>1, <2>2
<1>12. \A j \in 1..Len(receipts) : Known(receipts[j].msg)' /\ receipts[j].msg # a
  <2>1. \A j \in 1..Len(receipts) : Known(receipts[j].msg)
    BY <1>1 DEF ReceiptsInv
  <2> QED
    BY <1>2, <1>11, <2>1 DEF Known
<1>13. ReceiptsInv'
  BY <1>1, <1>2, <1>12 DEF ReceiptsInv, Final
<1>14. TermInv'
  <2>1. CASE outcome = "confirmed"
    <3>1. /\ at'.msg = a /\ at'.start = cut /\ at' \in [msg : 0..Reserved, start : 0..MaxLen]
      BY <1>2, <1>4, <1>11, <2>1
    <3>2. Known(at.msg)' /\ ~Receipted(at.msg)'
      <4>1. a \in 1..natt'
        BY <1>1, <1>2
      <4> QED
        BY <1>2, <1>12, <3>1, <4>1 DEF Known, Receipted
    <3> QED
      BY <1>2, <1>4, <1>7, <2>1, <3>1, <3>2 DEF TermInv
  <2>2. CASE outcome # "confirmed"
    BY <1>1, <1>2, <1>7, <2>2 DEF TermInv
  <2> QED
    BY <2>1, <2>2
<1>15. Counted' \subseteq Counted \cup {a} /\ denied' \subseteq posted'
  BY <1>1, <1>2, <1>5 DEF PostedInv, Counted
<1>16. PostedInv'
  <2>1. ASSUME NEW b \in Counted PROVE startOf'[b] < cut /\ startOf'[b] \in Nat /\ b # a
    <3>1. startOf[b] < cut
      BY <1>1, <1>2, <1>4 DEF PostedInv
    <3>2. startOf[b] \in Nat
      <4>1. b \in 1..MaxAttempt /\ startOf \in [1..MaxAttempt -> 0..MaxLen]
        BY <1>1, <2>1, OutputBounds DEF LedgerInv, Counted
      <4> QED
        BY <4>1
    <3> QED
      BY <1>8, <2>1, <3>1, <3>2 DEF Counted
  <2>2. OneCardPerRange'
    <3>1. ASSUME NEW b \in Counted', NEW c \in Counted', b # c PROVE startOf'[b] # startOf'[c]
      <4>1. CASE b = a
        <5>1. c \in Counted /\ startOf'[c] < cut /\ startOf'[c] \in Nat
          BY <1>15, <2>1, <3>1, <4>1
        <5> QED
          BY <1>4, <1>8, <4>1, <5>1
      <4>2. CASE c = a
        <5>1. b \in Counted /\ startOf'[b] < cut /\ startOf'[b] \in Nat
          BY <1>15, <2>1, <3>1, <4>2
        <5> QED
          BY <1>4, <1>8, <4>2, <5>1
      <4>3. CASE b # a /\ c # a
        <5>1. b \in Counted /\ c \in Counted
          BY <1>15, <3>1, <4>3
        <5> QED
          BY <1>1, <1>8, <3>1, <5>1 DEF PostedInv, OneCardPerRange, Counted
      <4> QED
        BY <4>1, <4>2, <4>3
    <3> QED
      BY <3>1 DEF OneCardPerRange, Counted
  <2>3. ASSUME NEW j \in 1..Len(pages), pages[j].msg = Reserved PROVE pages[j].att \notin posted'
    <3>1. pages[j].att \notin posted /\ pages[j].att \in 1..natt
      BY <1>1, <2>3, LedgerShaped DEF PostedInv
    <3>2. pages[j].att # a
      BY <1>1, <3>1
    <3> QED
      BY <1>5, <3>1, <3>2
  <2>4. ASSUME term' = "page", NEW b \in Counted' PROVE startOf'[b] <= at'.start
    <3>1. at'.start = cut
      BY <1>2, <2>4
    <3>2. CASE b = a
      BY <1>4, <1>8, <3>1, <3>2
    <3>3. CASE b # a
      <4>1. startOf'[b] < cut /\ startOf'[b] \in Nat
        BY <1>15, <2>1, <2>4, <3>3
      <4> QED
        BY <1>4, <3>1, <4>1
    <3> QED
      BY <3>2, <3>3
  <2> QED
    BY <1>2, <1>6, <1>15, <2>2, <2>3, <2>4 DEF PostedInv
<1> QED
  BY <1>7, <1>8, <1>9, <1>10, <1>13, <1>14, <1>16 DEF OutputInd

LEMMA CarrierStep ==
  ASSUME OutputInd, NEW k \in 0..MaxLen, NEW published \in BOOLEAN, Carrier(k, published)
  PROVE  OutputInd'
<1>1. /\ LoopInv /\ LedgerInv /\ DispatchInv /\ ReceiptsInv /\ PostedInv /\ TermInv /\ CutInv
  BY DEF OutputInd
<1>2. /\ term = "carrier" /\ term' = "cleanup" /\ carrier' = published
      /\ todo' = IF published THEN Intersecting(k) ELSE {}
      /\ at' = [at EXCEPT !.start = k]
      /\ UNCHANGED <<len, run, turn, patched, timer, pages, natt, posted, startOf, denied, pc, bg, receipts,
                     hold, want, closed>>
      /\ UNCHANGED dispatcher
  BY DEF Carrier, Removable, book, ledger, dispatcher
<1>3. LoopInv' /\ ShownInv' /\ run' = "over"
  BY <1>2, TermFrame
<1>4. LedgerInv' /\ DispatchInv' /\ ReceiptsInv'
  BY <1>1, <1>2, LedgerRests, DispatchRests, ReceiptsRest
<1>5. PostedInv'
  BY <1>1, <1>2 DEF PostedInv, OneCardPerRange, Counted
<1>6. at' \in [msg : 0..Reserved, start : 0..MaxLen]
  BY <1>1, <1>2 DEF TermInv
<1>7. TermInv'
  BY <1>2, <1>3, <1>6 DEF TermInv
<1>8. CutInv'
  <2>1. todo' \subseteq 1..Len(receipts) /\ (todo' # {} => published = TRUE)
    <3>1. DOMAIN receipts = 1..Len(receipts)
      BY <1>1, LenProperties DEF ReceiptsInv
    <3>2. Intersecting(k) \subseteq 1..Len(receipts)
      BY <3>1 DEF Intersecting
    <3> QED
      BY <1>2, <3>2
  <2>2. \A m \in Msgs : want[m].text # "cut"
    BY <1>1, <1>2 DEF CutInv, NothingRemovedUnpublished
  <2> QED
    BY <1>2, <2>1, <2>2 DEF CutInv, NothingRemovedUnpublished
<1> QED
  BY <1>3, <1>4, <1>5, <1>7, <1>8 DEF OutputInd

LEMMA CleanupStep ==
  ASSUME OutputInd, NEW i, Cleanup(i)
  PROVE  OutputInd'
<1> DEFINE r == receipts[i]
           m == r.msg
           full == ModelOf(r.start, r.end, FALSE)
           model == [full EXCEPT !.text = "cut"]
<1>1. /\ LoopInv /\ LedgerInv /\ DispatchInv /\ ReceiptsInv /\ PostedInv /\ TermInv /\ CutInv
  BY DEF OutputInd
<1>2. /\ term = "cleanup" /\ i \in todo /\ todo' = todo \ {i} /\ hold' = hold /\ Submit(m, model)
      /\ UNCHANGED <<len, run, turn, patched, timer, pages, natt, posted, startOf, denied, pc, bg, term, at,
                     receipts, carrier>>
  BY DEF Cleanup, book, ledger
<1>3. i \in 1..Len(receipts) /\ carrier = TRUE /\ receipts \in Seq(Receipt)
  BY <1>1, <1>2 DEF CutInv, ReceiptsInv
<1>4. r \in Receipt
  BY <1>3, ElementOfSeq
<1>5. m \in Msgs /\ r.start \in 0..MaxLen /\ r.end \in 0..MaxLen
  BY <1>4 DEF Receipt
<1>6. /\ full \in Model /\ full.lo = r.start /\ full.hi = r.end /\ full.running = FALSE
  <2>1. FALSE \in BOOLEAN
    OBVIOUS
  <2> QED
    BY <1>5, <2>1, ModelsTyped
<1> HIDE DEF full
<1>7. /\ model \in Model /\ model.lo = r.start /\ model.hi = r.end /\ ~model.running
  BY <1>6, Restated
<1> HIDE DEF model
<1>8. /\ DispatchInv' /\ closed' = closed /\ (\A j \in Msgs \ {m} : want'[j] = want[j])
      /\ ~closed => want'[m] = model
  <2>1. Asks(m, model)
    BY <1>2 DEF Asks
  <2> QED
    BY <1>1, <1>2, <1>5, <1>7, <2>1, AsksKeeps
<1>9. LoopInv' /\ ShownInv' /\ run' = "over"
  BY <1>2, TermFrame
<1>10. LedgerInv' /\ PostedInv' /\ TermInv'
  <2>1. run = "over"
    BY <1>1, <1>2 DEF TermInv
  <2> QED
    BY <1>1, <1>2, <1>9, <2>1, LedgerRests, PostedRests, TermRests
<1>11. ReceiptsInv'
  <2>1. ASSUME NEW j \in 1..Len(receipts), ~closed
        PROVE  /\ want'[receipts[j].msg].lo = receipts[j].start
               /\ want'[receipts[j].msg].hi = receipts[j].end
               /\ ~want'[receipts[j].msg].running
    <3>1. CASE receipts[j].msg = m
      <4>1. j = i
        BY <1>1, <1>3, <3>1 DEF ReceiptsInv
      <4> QED
        BY <1>7, <1>8, <2>1, <4>1
    <3>2. CASE receipts[j].msg # m
      <4>1. receipts[j].msg \in Msgs
        <5>1. receipts[j] \in Receipt
          BY <1>3, ElementOfSeq
        <5> QED
          BY <5>1 DEF Receipt
      <4>2. Final(receipts[j].msg, receipts[j].start, receipts[j].end)
        BY <1>1, <2>1 DEF ReceiptsInv
      <4> QED
        BY <1>8, <3>2, <4>1, <4>2 DEF Final
    <3> QED
      BY <3>1, <3>2
  <2> QED
    BY <1>1, <1>2, <1>8, <2>1 DEF ReceiptsInv, Known, Final
<1>12. CutInv'
  BY <1>1, <1>2, <1>3 DEF CutInv, NothingRemovedUnpublished
<1> QED
  BY <1>8, <1>9, <1>10, <1>11, <1>12 DEF OutputInd

LEMMA EndsStep ==
  ASSUME OutputInd, TermEnds
  PROVE  OutputInd'
<1>1. /\ LoopInv /\ LedgerInv /\ DispatchInv /\ ReceiptsInv /\ PostedInv /\ TermInv /\ CutInv
  BY DEF OutputInd
<1>2. /\ term = "carrier" \/ (term = "cleanup" /\ todo = {})
      /\ term' = "done"
      /\ UNCHANGED <<len, run, turn, patched, timer, pages, natt, posted, startOf, denied, pc, bg, at,
                     receipts, todo, carrier, hold, want, closed>>
      /\ UNCHANGED dispatcher
  BY DEF TermEnds, book, ledger, dispatcher
<1>3. LoopInv' /\ ShownInv' /\ run' = "over"
  BY <1>2, TermFrame
<1>4. LedgerInv' /\ DispatchInv' /\ ReceiptsInv'
  BY <1>1, <1>2, LedgerRests, DispatchRests, ReceiptsRest
<1>5. PostedInv'
  BY <1>1, <1>2 DEF PostedInv, OneCardPerRange, Counted
<1>6. TermInv'
  BY <1>1, <1>2, <1>3 DEF TermInv
<1>7. CutInv'
  BY <1>1, <1>2 DEF CutInv, NothingRemovedUnpublished
<1> QED
  BY <1>3, <1>4, <1>5, <1>6, <1>7 DEF OutputInd

-----------------------------------------------------------------------------

LEMMA OutputIndInit ==
  ASSUME OutputInit
  PROVE  OutputInd
<1>1. /\ len = 0 /\ run = "new" /\ turn = FALSE /\ patched = FALSE /\ timer = NoTimer
      /\ pages = <<>> /\ natt = 0 /\ posted = {} /\ startOf = [a \in 1..MaxAttempt |-> 0]
      /\ denied = {}
      /\ pc = "idle" /\ bg = TRUE /\ term = "none" /\ at = [msg |-> 0, start |-> 0]
      /\ receipts = <<>> /\ todo = {} /\ carrier = FALSE
      /\ pend = [m \in Msgs |-> NoModel] /\ slot = [m \in Msgs |-> {}] /\ queue = <<>>
      /\ hold = [x \in Patchers |-> [msg |-> 0, model |-> NoModel]] /\ closed = FALSE
      /\ want = [m \in Msgs |-> NoModel] /\ done = [m \in Msgs |-> TRUE]
  BY DEF OutputInit
<1>2. /\ 0 \in 0..MaxLen /\ 0 \in 0..MaxAttempt /\ 0 \in 0..Reserved /\ 0 \in -1..Reserved
      /\ 1 \in 1..MaxAttempt
  BY OutputBounds
<1>3. /\ LedgerShape(pages) /\ Len(pages) = 0 /\ ~HasPending(pages) /\ ~HasActivePage
      /\ \A i \in 1..Len(pages) : FALSE
  BY <1>1, EmptyLedger DEF HasActivePage
<1>4. LoopInv
  BY <1>1, <1>2, <1>3 DEF LoopInv, NoTimer
<1>5. LedgerInv
  BY <1>1, <1>2, <1>3 DEF LedgerInv, LedgerShape
<1>6. DispatchInv
  <2>1. NoModel \in Model \cup {NoModel} /\ {} \in SUBSET {"queued", "inflight", "retry"}
    OBVIOUS
  <2>2. queue \in Seq(0..Reserved) /\ Len(queue) = 0
    BY <1>1, EmptySeq
  <2>3. /\ \A x \in Patchers : hold[x] = [msg |-> 0, model |-> NoModel] /\ hold[x].msg = 0
        /\ hold \in [Patchers -> [msg : -1..Reserved, model : Model \cup {NoModel}]]
    BY <1>1, <1>2, <2>1
  <2>4. DispatchTypes
    BY <1>1, <2>1, <2>2, <2>3 DEF DispatchTypes
  <2>5. OneWorkerPerCard
    <3>1. DOMAIN queue = {}
      BY <1>1
    <3> QED
      BY <2>3, <3>1 DEF OneWorkerPerCard
  <2>6. ASSUME NEW m \in Msgs PROVE CardInv(m)
    <3>1. slot[m] = {} /\ pend[m] = NoModel /\ done[m] = TRUE
      BY <1>1
    <3>2. ~InQueue(m, queue)
      <4>1. 1..Len(queue) = {}
        BY <2>2
      <4> QED
        BY <4>1 DEF InQueue
    <3>3. \A x \in Patchers : hold[x].msg # m
      BY <2>3, OutputBounds
    <3> QED
      BY <3>1, <3>2, <3>3 DEF CardInv
  <2>7. \A x \in Patchers : PatcherInv(x)
    BY <2>3 DEF PatcherInv
  <2> QED
    BY <2>4, <2>5, <2>6, <2>7 DEF DispatchInv
<1>7. ShownInv
  BY <1>1, <1>3 DEF ShownInv, PageIsCurrent
<1>8. receipts \in Seq(Receipt) /\ Len(receipts) = 0 /\ 1..Len(receipts) = {}
  <2>1. receipts \in Seq(Receipt) /\ Len(receipts) = 0
    BY <1>1, EmptySeq
  <2> QED
    BY <2>1
<1>9. ReceiptsInv
  BY <1>8 DEF ReceiptsInv
<1>10. PostedInv
  BY <1>1 DEF PostedInv, OneCardPerRange, Counted
<1>11. TermInv
  BY <1>1, <1>2 DEF TermInv
<1>12. CutInv
  <2>1. NoModel.text # "cut"
    BY DEF NoModel
  <2> QED
    BY <1>1, <2>1 DEF CutInv, NothingRemovedUnpublished
<1> QED
  BY <1>4, <1>5, <1>6, <1>7, <1>9, <1>10, <1>11, <1>12 DEF OutputInd

LEMMA OutputIndStep ==
  ASSUME OutputInd, [OutputNext]_outputVars
  PROVE  OutputInd'
<1>1. ASSUME NEW r \in BOOLEAN, NEW k \in BOOLEAN, NEW o \in Outcomes, OpenInitial(r, k, o)
      PROVE  OutputInd'
  BY <1>1, OpenStep
<1>2. CASE TurnStarted \/ Delta
  BY <1>2, ScheduledStep
<1>3. CASE ConsumeTimer \/ SettleAndFlush
  BY <1>3, PresentsStep
<1>4. CASE PresentPage
  BY <1>4, PresentOutputStep
<1>5. ASSUME NEW o \in Outcomes, Reconcile(o) PROVE OutputInd'
  BY <1>5, ReconcileOutputStep
<1>6. ASSUME NEW o \in Outcomes, RolloverPage(o) PROVE OutputInd'
  BY <1>6, RolloverOutputStep
<1>7. ASSUME NEW o \in Outcomes, TermReplay(o) PROVE OutputInd'
  BY <1>7, ReplayStep
<1>8. ASSUME NEW o \in Outcomes, TermSend(o) PROVE OutputInd'
  BY <1>8, SendStep
<1>9. ASSUME NEW n \in 0..1, Finalize(n) PROVE OutputInd'
  BY <1>9, FinalizeOutputStep
<1>10. CASE TermBegin
  BY <1>10, BeginOutputStep
<1>11. CASE TermPage
  BY <1>11, PageStep
<1>12. CASE TermEnds
  BY <1>12, EndsStep
<1>13. ASSUME NEW k \in 0..MaxLen, NEW p \in BOOLEAN, Carrier(k, p) PROVE OutputInd'
  BY <1>13, CarrierStep
<1>14. ASSUME NEW i \in 1..MaxAttempt + 1, Cleanup(i) PROVE OutputInd'
  BY <1>14, CleanupStep
<1>15. CASE \/ \E x \in Patchers : WorkerTakes(x) \/ WorkerStops(x)
            \/ \E x \in Patchers, o \in {"applied", "retry", "failed"} : WorkerFinishes(x, o)
            \/ \E m \in Msgs : RetryReady(m)
            \/ Shutdown
  BY <1>15, DispatcherSteps
<1>16. CASE UNCHANGED outputVars
  <2>1. /\ UNCHANGED <<book, patched, timer, ledger, pc, bg, terminal, dispatcher, hold>>
        /\ UNCHANGED <<want, closed>>
    BY <1>16 DEF outputVars, dispatcher
  <2>2. DispatchInv'
    BY <2>1, DispatchRests DEF OutputInd
  <2> QED
    BY <2>1, <2>2, DispatcherStep
<1> QED
  BY <1>1, <1>2, <1>3, <1>4, <1>5, <1>6, <1>7, <1>8, <1>9, <1>10, <1>11, <1>12, <1>13, <1>14,
     <1>15, <1>16 DEF OutputNext

\* What the parts of the invariant say of the ledger.
LEMMA Contiguous ==
  ASSUME LedgerInv
  PROVE  LedgerIsContiguous
<1>1. /\ LedgerShape(pages) /\ Len(pages) \in Nat /\ DOMAIN pages = 1..Len(pages)
      /\ pages # <<>> <=> Len(pages) > 0
      /\ \A i \in 1..Len(pages) : pages[i] \in Page /\ PageFits(pages, i) /\ pages[i].start <= len
  BY LedgerShaped, PagesTyped DEF LedgerShape
<1>2. ASSUME NEW i \in 1..Len(pages)
      PROVE  /\ i + 1 < Len(pages) => pages[i].st = "sealed"
             /\ pages[i].st = "sealed" => pages[i].end > pages[i].start
             /\ i > 1 /\ pages[i - 1].st = "sealed" =>
                  pages[i].st # "send_unknown" /\ pages[i].start = pages[i - 1].end
             /\ i > 1 /\ pages[i - 1].st # "sealed" =>
                  /\ pages[i - 1].st = "active" /\ pages[i].st = "send_unknown"
                  /\ pages[i].start > pages[i - 1].start
             /\ \A j \in 1..Len(pages) : i # j =>
                  /\ pages[i].att # pages[j].att
                  /\ pages[i].msg # 0 => pages[i].msg # pages[j].msg
  <2>1. PageFits(pages, i) /\ pages[i].start \in Nat /\ i \in Nat
    BY <1>1, PageFields
  <2>n. Len(pages) \in Nat
    BY <1>1
  <2>i. i <= Len(pages) /\ i \in Nat
    BY <2>n
  <2>2. i + 1 < Len(pages) => pages[i].st = "sealed"
    <3>1. ASSUME i + 1 < Len(pages), pages[i].st = "active" PROVE FALSE
      <4>1. i < Len(pages) /\ i # Len(pages) - 1
        BY <2>n, <2>i, <3>1
      <4> QED
        BY <2>1, <3>1, <4>1 DEF PageFits
    <3>2. i + 1 < Len(pages) => i < Len(pages)
      BY <1>1, <2>1
    <3> QED
      BY <2>1, <3>1, <3>2 DEF PageFits
  <2>3. pages[i].st = "sealed" => pages[i].end > pages[i].start
    <3>1. pages[i].st = "sealed" => pages[i].end = pages[i].start + Cap
      BY <2>1 DEF PageFits
    <3>2. pages[i].start + Cap > pages[i].start
      BY <2>1, OutputBounds
    <3> QED
      BY <3>1, <3>2
  <2>4. ASSUME i > 1
        PROVE  /\ pages[i - 1].st = "sealed" =>
                    pages[i].st # "send_unknown" /\ pages[i].start = pages[i - 1].end
               /\ pages[i - 1].st # "sealed" =>
                    /\ pages[i - 1].st = "active" /\ pages[i].st = "send_unknown"
                    /\ pages[i].start > pages[i - 1].start
    <3>1. /\ i - 1 \in 1..Len(pages) /\ i - 1 < Len(pages) /\ i # 1 /\ i - 1 < i
          /\ (i - 1 = Len(pages) - 1) => i = Len(pages)
      BY <1>1, <2>1, <2>4
    <3>2. /\ PageFits(pages, i - 1) /\ pages[i].start = pages[i - 1].start + Cap
          /\ pages[i - 1].start \in Nat
      BY <1>1, <2>1, <3>1, PageFields DEF PageFits
    <3>3. pages[i - 1].st = "sealed" => pages[i].start = pages[i - 1].end
      BY <3>2 DEF PageFits
    <3>4. pages[i - 1].st = "sealed" => pages[i].st # "send_unknown"
      <4>1. ASSUME pages[i - 1].st = "sealed", pages[i].st = "send_unknown" PROVE FALSE
        <5>1. i = Len(pages)
          <6>1. ~(i < Len(pages))
            BY <2>1, <4>1 DEF PageFits
          <6> QED
            BY <2>n, <2>i, <6>1
        <5> QED
          BY <2>1, <2>4, <4>1, <5>1 DEF PageFits
      <4> QED
        BY <4>1
    <3>5. pages[i - 1].st # "sealed" => pages[i - 1].st = "active" /\ i = Len(pages)
      BY <3>1, <3>2 DEF PageFits
    <3>6. pages[i - 1].st # "sealed" => pages[i].st = "send_unknown"
      BY <2>1, <2>4, <3>5 DEF PageFits
    <3>7. pages[i].start > pages[i - 1].start
      BY <3>2, OutputBounds
    <3> QED
      BY <3>3, <3>4, <3>5, <3>6, <3>7
  <2>5. ASSUME NEW j \in 1..Len(pages), i # j
        PROVE  /\ pages[i].att # pages[j].att
               /\ pages[i].msg # 0 => pages[i].msg # pages[j].msg
    BY <1>1, <2>5, PagesDiffer
  <2> QED
    BY <2>2, <2>3, <2>4, <2>5
<1>3. pages # <<>> => pages[1].start = 0
  <2>1. pages # <<>> => 1 \in 1..Len(pages)
    BY <1>1
  <2> QED
    BY <1>1, <2>1 DEF PageFits
<1>4. HasActivePage => ActivePage.start <= len
  BY <1>1, ActiveFields DEF HasActivePage, ActivePage
<1> QED
  BY <1>1, <1>2, <1>3, <1>4 DEF LedgerIsContiguous

LEMMA OutputIndImplies ==
  ASSUME OutputInd
  PROVE  OutputInvariant
<1>1. /\ LoopInv /\ LedgerInv /\ DispatchInv /\ ShownInv /\ ReceiptsInv /\ PostedInv /\ TermInv
      /\ CutInv /\ DispatchTypes
  BY DEF OutputInd, DispatchInv
<1>2. OutputTypeOK
  <2>1. posted \subseteq 1..MaxAttempt /\ denied \subseteq posted
    <3>1. posted \subseteq 1..natt /\ natt \in 0..MaxAttempt /\ denied \subseteq posted
      BY <1>1 DEF LedgerInv, PostedInv
    <3> QED
      BY <3>1, OutputBounds
  <2>2. /\ len \in 0..MaxLen /\ run \in {"new", "running", "settled", "over"} /\ turn \in BOOLEAN
        /\ patched \in BOOLEAN /\ bg \in BOOLEAN
        /\ timer \in [att : 0..MaxAttempt, msg : 0..Reserved, turn : BOOLEAN, set : BOOLEAN]
        /\ pc \in {"idle", "page", "reconcile"}
    BY <1>1 DEF LoopInv
  <2>3. /\ closed \in BOOLEAN
        /\ pend \in [Msgs -> Model \cup {NoModel}] /\ want \in [Msgs -> Model \cup {NoModel}]
        /\ slot \in [Msgs -> SUBSET {"queued", "inflight", "retry"}] /\ queue \in Seq(0..Reserved)
    BY <1>1 DEF DispatchTypes
  <2>4. /\ pages \in Seq(Page) /\ natt \in 0..MaxAttempt /\ receipts \in Seq(Receipt)
        /\ term \in {"none", "begin", "replay", "page", "send", "carrier", "cleanup", "done"}
        /\ carrier \in BOOLEAN
    BY <1>1 DEF LedgerInv, ReceiptsInv, TermInv, CutInv
  <2> QED
    BY <2>1, <2>2, <2>3, <2>4 DEF OutputTypeOK
<1>3. LedgerIsContiguous /\ OneCardPerRange /\ OneWorkerPerCard /\ PageIsCurrent
      /\ NothingRemovedUnpublished
  BY <1>1, Contiguous DEF PostedInv, DispatchInv, ShownInv, CutInv
<1>4. NoLostPatch
  <2>1. DOMAIN queue = 1..Len(queue)
    BY <1>1, LenProperties DEF DispatchTypes
  <2>2. ASSUME ~closed, NEW m \in Msgs
        PROVE  /\ pend[m] # NoModel => slot[m] # {}
               /\ slot[m] = {} => done[m]
               /\ "queued" \in slot[m] <=> \E i \in DOMAIN queue : queue[i] = m
    <3>1. CardInv(m)
      BY <1>1 DEF DispatchInv
    <3>2. "queued" \in slot[m] <=> slot[m] = {"queued"}
      BY <3>1 DEF CardInv
    <3>3. InQueue(m, queue) <=> \E i \in DOMAIN queue : queue[i] = m
      BY <2>1 DEF InQueue
    <3> QED
      BY <2>2, <3>1, <3>2, <3>3 DEF CardInv
  <2> QED
    BY <2>2 DEF NoLostPatch
<1>5. TerminalPagesAreFinal
  <2>1. DOMAIN receipts = 1..Len(receipts)
    BY <1>1, LenProperties DEF ReceiptsInv
  <2> QED
    BY <1>1, <2>1 DEF ReceiptsInv, TerminalPagesAreFinal, Final
<1> QED
  BY <1>2, <1>3, <1>4, <1>5 DEF OutputInvariant

\* Whatever the order in which the loop presents an execution, the chat loses,
\* repeats or answers a send, patch workers take turns and the end is presented:
\* the ledger stays contiguous, no stretch gets two cards, no patch is lost, the
\* page keeps up and nothing is removed before it was published
\* (bot/execution_pages.py, bot/execution_output_controller.py,
\* bot/runtime_card_publisher.py).
THEOREM OutputSafety == OutputSpec => []OutputInvariant
<1>1. OutputInit => OutputInd
  BY OutputIndInit
<1>2. OutputInd /\ [OutputNext]_outputVars => OutputInd'
  BY OutputIndStep
<1>3. OutputInd => OutputInvariant
  BY OutputIndImplies
<1> QED
  BY <1>1, <1>2, <1>3, PTL DEF OutputSpec
=============================================================================
