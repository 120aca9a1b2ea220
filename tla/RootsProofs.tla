----------------------------- MODULE RootsProofs ----------------------------
(***************************************************************************)
(* Proofs about the operations on threads: the receipts of a thread, for   *)
(* any number of Web opens and connections (ResumeInvariant), the Feishu   *)
(* root operations, for any number of chats, lease generations and turns   *)
(* (RootInvariant), and the Feishu bindings, for any number of chats and   *)
(* threads (BindingsInvariant).                                            *)
(*                                                                         *)
(* Receipts.  One slot per thread (rclaim, uclaim) keeps resumes and       *)
(* unsubscribes apart, but a connection loss takes the slot from an        *)
(* attempt that is still under way.  What such an attempt can still do is  *)
(* bounded by its generation: an attempt of the live one has the slot      *)
(* (CurrentHasSlot), and only such an attempt can subscribe.  A lease that *)
(* an attempt found absent was needed by nobody (NewLeaseIsQuiet), so      *)
(* giving it back uncovers nothing while the attempt still has the slot.   *)
(*                                                                         *)
(* Root operations.  A handler runs RPCs of open outcome one after the     *)
(* other, and still can start at most one turn, because the first one      *)
(* blocks the next (Moved).  It releases its lease only if it started      *)
(* none, apart from the resumes, which are recorded (Honest, Possible).    *)
(* From then on the turn and its lease are tied together by the turns that *)
(* were over at the admission: a notification older than that is what      *)
(* misbound and closedLate record, and a younger one can only be about the *)
(* turn itself (OwnTurn).                                                  *)
(*                                                                         *)
(* Bindings.  Every operation is an owner transaction that commits for a   *)
(* set of bindings or is pinned for a retry, and a step of the threads     *)
(* that these bindings leave.  OwnerInv is what the first keeps            *)
(* (CommitKeeps, PinKeeps), RuntimeInv what the second keeps as long as    *)
(* nobody else is attached to a thread it gives up (LeaveStep, FailStep).  *)
(***************************************************************************)
EXTENDS ThreadResume, FeishuRootOperation, Bindings, SequenceTheorems, TLAPS

-----------------------------------------------------------------------------
(* What the RPCs of a handler do to the app-server.                         *)

UpRecord ==
  [turn : Turn, turns : Turn, made : Seq(Nat), queued : Nat, closes : Nat,
   loaded : BOOLEAN, goal : {"none", "paused", "active"}, wire : Seq(Message)]

\* No turn begins from u to v, or exactly one, of generation g.
Same(u, v) == v.turn = u.turn /\ v.turns = u.turns /\ v.made = u.made /\ v.wire = u.wire

StartedBy(u, v, g) ==
  /\ u.turn = 0 /\ v.loaded
  /\ v.turns = u.turns + 1 /\ v.turn = v.turns
  /\ v.made = Append(u.made, g)
  /\ v.wire = Append(u.wire, [m |-> "started", t |-> v.turns])

Moved(u, v, g) ==
  /\ v \in UpRecord
  /\ v.queued = u.queued /\ (u.loaded => v.loaded)
  /\ Same(u, v) \/ StartedBy(u, v, g)

LEMMA MovedNot == ASSUME NEW u \in UpRecord, NEW g PROVE Moved(u, u, g) /\ Same(u, u)
BY DEF Moved, Same

\* Two RPCs in a row start no more than one turn.
LEMMA MovedTwice ==
  ASSUME NEW u \in UpRecord, NEW v, NEW w, NEW g, Moved(u, v, g), Moved(v, w, g)
  PROVE  /\ Moved(u, w, g)
         /\ Same(u, v) /\ Same(v, w) => Same(u, w)
<1>1. u.turn \in Nat /\ u.turns \in Nat /\ v.turn \in Nat /\ v.turns \in Nat
  BY DEF Moved, UpRecord, Turn
<1>2. ~(StartedBy(u, v, g) /\ StartedBy(v, w, g))
  BY <1>1 DEF StartedBy
<1>3. StartedBy(u, v, g) /\ Same(v, w) => StartedBy(u, w, g)
  BY DEF StartedBy, Same, Moved
<1>4. Same(u, v) /\ StartedBy(v, w, g) => StartedBy(u, w, g)
  BY DEF StartedBy, Same
<1>5. Same(u, v) /\ Same(v, w) => Same(u, w)
  BY DEF Same
<1> QED BY <1>2, <1>3, <1>4, <1>5 DEF Moved

LEMMA NewTurnMoves ==
  ASSUME BoundsAssumption, NEW u \in UpRecord, NEW g \in Nat, CanStart(u)
  PROVE  Moved(u, NewTurn(u, g), g) /\ StartedBy(u, NewTurn(u, g), g) /\ NewTurn(u, g).goal = u.goal
<1> DEFINE n == [m |-> "started", t |-> u.turns + 1]
           v == NewTurn(u, g)
<1>1. u.turns + 1 \in Turn /\ u.turn = 0 /\ u.loaded
  BY DEF CanStart, UpRecord, Turn, BoundsAssumption
<1>2. n \in Message
  BY <1>1 DEF Message
<1>3. Append(u.wire, n) \in Seq(Message) /\ Append(u.made, g) \in Seq(Nat)
  BY <1>2 DEF UpRecord
<1>4. v = [u EXCEPT !.turn = u.turns + 1, !.turns = u.turns + 1, !.made = Append(u.made, g),
                    !.wire = Append(u.wire, n)]
  BY DEF NewTurn
<1>5. /\ v.turn = u.turns + 1 /\ v.turns = u.turns + 1 /\ v.made = Append(u.made, g)
      /\ v.wire = Append(u.wire, n) /\ v.loaded = u.loaded /\ v.queued = u.queued /\ v.goal = u.goal
  BY <1>4 DEF UpRecord
<1>6. v \in UpRecord
  BY <1>1, <1>3, <1>4 DEF UpRecord
<1>7. StartedBy(u, v, g)
  BY <1>1, <1>5 DEF StartedBy
<1> HIDE DEF v
<1>8. Moved(u, v, g)
  BY <1>5, <1>6, <1>7 DEF Moved
<1> QED BY <1>5, <1>7, <1>8 DEF v

LEMMA AutostartMoves ==
  ASSUME BoundsAssumption, NEW u \in UpRecord, NEW g \in Nat, NEW v \in Autostarted(u, g)
  PROVE  /\ Moved(u, v, g) /\ v.goal = u.goal
         /\ u.goal # "active" => Same(u, v)
BY MovedNot, NewTurnMoves DEF Autostarted, MayContinue

LEMMA LoadedMoves ==
  ASSUME NEW u \in UpRecord, NEW g
  PROVE  LET v == [u EXCEPT !.loaded = TRUE]
         IN  v \in UpRecord /\ v.goal = u.goal /\ Same(u, v) /\ Moved(u, v, g)
BY DEF UpRecord, Same, Moved

LEMMA GoalMoves ==
  ASSUME NEW u \in UpRecord, NEW g, NEW s \in {"none", "paused", "active"}
  PROVE  LET v == [u EXCEPT !.goal = s]
         IN  v \in UpRecord /\ v.goal = s /\ Same(u, v) /\ Moved(u, v, g)
BY DEF UpRecord, Same, Moved

LEMMA ResumeMoves ==
  ASSUME BoundsAssumption, NEW u \in UpRecord, NEW g \in Nat, NEW v \in Resumed(u, g)
  PROVE  Moved(u, v, g) /\ (~MayContinue(u.goal) => Same(u, v))
<1> DEFINE w == [u EXCEPT !.loaded = TRUE]
<1>1. w \in UpRecord /\ w.goal = u.goal /\ Same(u, w) /\ Moved(u, w, g)
  BY LoadedMoves
<1>2. v \in Autostarted(w, g)
  BY DEF Resumed
<1> HIDE DEF w
<1>3. Moved(w, v, g) /\ (w.goal # "active" => Same(w, v))
  BY <1>1, <1>2, AutostartMoves
<1> QED BY <1>1, <1>3, MovedTwice DEF MayContinue

LEMMA GoalSetMoves ==
  ASSUME BoundsAssumption, NEW u \in UpRecord, NEW g \in Nat,
         NEW s \in {"none", "paused", "active"}, NEW v \in GoalSet(u, s, g)
  PROVE  Moved(u, v, g) /\ (~MayContinue(s) => Same(u, v))
<1> DEFINE w == [u EXCEPT !.goal = s]
<1>1. w \in UpRecord /\ w.goal = s /\ Same(u, w) /\ Moved(u, w, g)
  BY GoalMoves
<1>2. v \in Autostarted(w, g)
  BY DEF GoalSet
<1> HIDE DEF w
<1>3. Moved(w, v, g) /\ (w.goal # "active" => Same(w, v))
  BY <1>1, <1>2, AutostartMoves
<1> QED BY <1>1, <1>3, MovedTwice DEF MayContinue

LEMMA RpcOutcomes ==
  ASSUME NEW u, NEW V, NEW x \in Rpc(u, V)
  PROVE  /\ x.r \in {"ok", "rejected", "unknown"}
         /\ x.r = "ok" => x.u \in V
         /\ x.r = "rejected" => x.u = u
         /\ x.u \in V \cup {u}
BY DEF Rpc

LEMMA ResumeOutcomes ==
  ASSUME BoundsAssumption, NEW u \in UpRecord, NEW g \in Nat, NEW x \in ResumeRpc(u, g)
  PROVE  /\ x.r \in {"ok", "rejected", "unknown", "local"}
         /\ Moved(u, x.u, g)
         /\ x.r = "rejected" => x.u = u
         /\ ~MayContinue(u.goal) => Same(u, x.u)
<1>1. CASE x \in Rpc(u, Resumed(u, g))
  <2>1. x.u \in Resumed(u, g) \cup {u}
    BY <1>1, RpcOutcomes
  <2> QED BY <1>1, <2>1, RpcOutcomes, ResumeMoves, MovedNot
<1>2. CASE x \in [r : {"local"}, u : Resumed(u, g)]
  BY <1>2, ResumeMoves
<1> QED BY <1>1, <1>2 DEF ResumeRpc

LEMMA GoalOutcomes ==
  ASSUME BoundsAssumption, NEW u \in UpRecord, NEW g \in Nat, NEW s \in {"none", "paused", "active"},
         NEW x \in Rpc(u, GoalSet(u, s, g))
  PROVE  /\ x.r \in {"ok", "rejected", "unknown"}
         /\ Moved(u, x.u, g)
         /\ x.r = "rejected" => x.u = u
         /\ ~MayContinue(s) => Same(u, x.u)
BY RpcOutcomes, GoalSetMoves, MovedNot

-----------------------------------------------------------------------------
(* How a handler can end.  An honest one has started nothing if it releases *)
(* its lease.                                                               *)

EndRecord == [u : UpRecord, end : {"release", "awaiting", "unknown"}, id : Turn]

Possible(u, g, e) == e \in EndRecord /\ Moved(u, e.u, g)
Honest(u, g, e) == Possible(u, g, e) /\ (e.end = "release" => Same(u, e.u))

LEMMA EndIs ==
  ASSUME BoundsAssumption, NEW u, NEW v \in UpRecord, NEW g, Moved(u, v, g),
         NEW r \in {"release", "awaiting", "unknown"}
  PROVE  Possible(u, g, End(v, r)) /\ End(v, r).u = v /\ End(v, r).end = r
BY DEF Possible, End, EndRecord, Turn, BoundsAssumption

LEMMA StartOnceEnds ==
  ASSUME BoundsAssumption, NEW u \in UpRecord, NEW g \in Nat, NEW risk \in BOOLEAN,
         NEW e \in StartOnce(u, g, risk)
  PROVE  Honest(u, g, e) /\ (e.end = "release" => ~risk)
<1>0. Moved(u, u, g) /\ Same(u, u)
  BY MovedNot
<1>1. \A v \in Started(u, g) : Moved(u, v, g) /\ v.turn \in Turn /\ v \in UpRecord
  <2> SUFFICES ASSUME NEW v \in Started(u, g) PROVE Moved(u, v, g)
    BY DEF Moved, UpRecord
  <2> QED BY <1>0, NewTurnMoves DEF Started
<1>2. CASE e = End(u, Finish(risk))
  <2>1. Finish(risk) \in {"release", "awaiting", "unknown"} /\ (Finish(risk) = "release" => ~risk)
    BY DEF Finish
  <2> QED BY <1>0, <1>2, <2>1, EndIs DEF Honest
<1>3. ASSUME NEW v \in Started(u, g), e \in [u : {v}, end : {"awaiting"}, id : {0, v.turn}]
      PROVE  Honest(u, g, e) /\ e.end = "awaiting"
  <2>1. e.u = v /\ e.end = "awaiting"
    BY <1>3
  <2>2. e \in EndRecord
    BY <1>1, <1>3 DEF EndRecord, Turn, BoundsAssumption
  <2> QED BY <1>1, <2>1, <2>2 DEF Honest, Possible
<1>4. ASSUME NEW v \in Started(u, g) \cup {u}, e = End(v, "unknown")
      PROVE  Honest(u, g, e) /\ e.end = "unknown"
  BY <1>0, <1>1, <1>4, EndIs DEF Honest
<1> QED BY <1>2, <1>3, <1>4 DEF StartOnce

\* A resume whose goal may continue never ends in a release.
LEMMA ResumeAndStartEnds ==
  ASSUME BoundsAssumption, NEW u \in UpRecord, NEW g \in Nat, NEW e \in ResumeAndStart(u, g)
  PROVE  Honest(u, g, e)
<1> DEFINE After(risk, x) == CASE x.r = "ok" -> StartOnce(x.u, g, risk)
                               [] x.r = "local" -> {End(x.u, Finish(risk))}
                               [] x.r = "rejected" -> {End(x.u, "release")}
                               [] x.r = "unknown" -> {End(x.u, "unknown")}
<1>a. PICK risk \in {MayContinue(u.goal), TRUE} :
        e \in UNION {After(risk, x) : x \in ResumeRpc(u, g)}
  BY DEF ResumeAndStart, OnRpc
<1>1. PICK x \in ResumeRpc(u, g) : e \in After(risk, x)
  BY <1>a
<1>2. /\ x.r \in {"ok", "rejected", "unknown", "local"}
      /\ Moved(u, x.u, g)
      /\ x.r = "rejected" => x.u = u
      /\ ~risk => Same(u, x.u)
  BY ResumeOutcomes
<1>3. x.u \in UpRecord /\ risk \in BOOLEAN
  BY <1>2 DEF Moved, MayContinue
<1>4. CASE x.r = "ok"
  <2>1. e \in StartOnce(x.u, g, risk)
    BY <1>1, <1>4
  <2>2. Honest(x.u, g, e) /\ (e.end = "release" => ~risk)
    BY <1>3, <2>1, StartOnceEnds
  <2> QED BY <1>2, <2>2, MovedTwice DEF Honest, Possible
<1>5. CASE x.r = "local"
  <2>1. e = End(x.u, Finish(risk))
    BY <1>1, <1>5
  <2>2. Finish(risk) \in {"release", "awaiting", "unknown"} /\ (Finish(risk) = "release" => ~risk)
    BY DEF Finish
  <2> QED BY <1>2, <1>3, <2>1, <2>2, EndIs DEF Honest
<1>6. CASE x.r = "rejected"
  <2>1. e = End(u, "release")
    BY <1>1, <1>2, <1>6
  <2> QED BY <2>1, MovedNot, EndIs DEF Honest
<1>7. CASE x.r = "unknown"
  <2>1. e = End(x.u, "unknown")
    BY <1>1, <1>7
  <2> QED BY <1>2, <1>3, <2>1, EndIs DEF Honest
<1> QED BY <1>2, <1>4, <1>5, <1>6, <1>7

LEMMA PromptEndsHonestly ==
  ASSUME BoundsAssumption, NEW u \in UpRecord, NEW g \in Nat, NEW e \in PromptEnds(u, g)
  PROVE  Honest(u, g, e)
<1>1. CASE e = End(u, "release")
  BY <1>1, MovedNot, EndIs DEF Honest
<1>2. CASE e \in StartOnce(u, g, FALSE)
  BY <1>2, StartOnceEnds
<1>3. CASE e \in ResumeAndStart(u, g)
  BY <1>3, ResumeAndStartEnds
<1> QED BY <1>1, <1>2, <1>3 DEF PromptEnds

\* A compaction that the app-server has accepted.
CompactionQueued(u, g, e) ==
  /\ e \in EndRecord /\ e.end # "release"
  /\ u.loaded /\ u.turn = 0 /\ u.queued = 0
  /\ e.u = [u EXCEPT !.queued = g]

LEMMA CompactEndsHonestly ==
  ASSUME BoundsAssumption, NEW u \in UpRecord, NEW g \in Nat, NEW e \in CompactEnds(u, g)
  PROVE  Honest(u, g, e) \/ CompactionQueued(u, g, e)
<1> DEFINE q == [u EXCEPT !.queued = g]
<1>1. CASE e \in {End(u, "release"), End(u, "unknown")}
  BY <1>1, MovedNot, EndIs DEF Honest
<1>2. CASE /\ u.loaded /\ u.turn = 0 /\ u.queued = 0
           /\ e \in {End(q, "unknown"), End(q, "awaiting")}
  <2>1. q \in UpRecord
    BY DEF UpRecord
  <2> HIDE DEF q
  <2>2. e \in EndRecord /\ e.end # "release" /\ e.u = q
    BY <1>2, <2>1 DEF End, EndRecord, Turn, BoundsAssumption
  <2> QED BY <1>2, <2>2 DEF CompactionQueued, q
<1> QED BY <1>1, <1>2 DEF CompactEnds

\* A goal mutation releases only a root that is read as idle.
LEMMA NoncontinuingEndsHonestly ==
  ASSUME BoundsAssumption, NEW u \in UpRecord, NEW g \in Nat, NEW e \in NoncontinuingEnds(u)
  PROVE  /\ Honest(u, g, e) /\ e.u = u
         /\ e.end = "release" => u.turn = 0
<1>1. (e = End(u, "release") /\ u.turn = 0) \/ e = End(u, "unknown")
  BY DEF NoncontinuingEnds
<1> QED BY <1>1, MovedNot, EndIs DEF Honest

LEMMA NotMoving ==
  ASSUME NEW u \in UpRecord, NEW v \in UpRecord, NEW g, Moved(u, v, g), v.turn = 0
  PROVE  Same(u, v)
BY DEF Moved, StartedBy, UpRecord, Turn

LEMMA GoalEndsHonestly ==
  ASSUME BoundsAssumption, NEW u \in UpRecord, NEW g \in Nat,
         NEW s \in {"none", "paused", "active"}, NEW e \in GoalEnds(u, g, s)
  PROVE  Honest(u, g, e)
<1> DEFINE After(x) == CASE x.r = "ok" -> IF MayContinue(s) THEN {End(x.u, "unknown")}
                                          ELSE NoncontinuingEnds(x.u)
                         [] x.r = "local" -> {End(x.u, "release")}
                         [] x.r = "rejected" -> {End(x.u, "release")}
                         [] x.r = "unknown" -> {End(x.u, "unknown")}
<1>1. PICK x \in Rpc(u, GoalSet(u, s, g)) : e \in After(x)
  BY DEF GoalEnds, OnRpc, NoLocal
<1>2. /\ x.r \in {"ok", "rejected", "unknown"} /\ Moved(u, x.u, g)
      /\ x.r = "rejected" => x.u = u
  BY GoalOutcomes
<1>3. x.u \in UpRecord
  BY <1>2 DEF Moved
<1>4. CASE e = End(x.u, "unknown")
  BY <1>2, <1>3, <1>4, EndIs DEF Honest
<1>5. CASE e = End(u, "release")
  BY <1>5, MovedNot, EndIs DEF Honest
<1>6. CASE e \in NoncontinuingEnds(x.u)
  <2>1. e.u = x.u /\ e \in EndRecord /\ (e.end = "release" => x.u.turn = 0)
    BY <1>3, <1>6, NoncontinuingEndsHonestly DEF Honest, Possible
  <2> QED BY <1>2, <1>3, <2>1, NotMoving DEF Honest, Possible
<1> QED BY <1>1, <1>2, <1>4, <1>5, <1>6

LEMMA ClearEndsHonestly ==
  ASSUME BoundsAssumption, NEW u \in UpRecord, NEW g \in Nat, NEW e \in ClearEnds(u)
  PROVE  Honest(u, g, e)
<1> DEFINE c == [u EXCEPT !.goal = "none"]
           After(x) == CASE x.r = "ok" -> IF u.goal = "none" THEN {End(x.u, "release")}
                                          ELSE NoncontinuingEnds(x.u)
                         [] x.r = "local" -> {End(x.u, "release")}
                         [] x.r = "rejected" -> {End(x.u, "release")}
                         [] x.r = "unknown" -> {End(x.u, "unknown")}
<1>1. PICK x \in Rpc(u, {c}) : e \in After(x)
  BY DEF ClearEnds, OnRpc, NoLocal
<1>2. c \in UpRecord /\ Same(u, c) /\ Moved(u, c, g)
  BY GoalMoves
<1> HIDE DEF c
<1>3. x.u \in UpRecord /\ Same(u, x.u) /\ Moved(u, x.u, g) /\ x.r \in {"ok", "rejected", "unknown"}
  BY <1>2, MovedNot, RpcOutcomes
<1>4. CASE e \in {End(x.u, "unknown"), End(x.u, "release")}
  BY <1>3, <1>4, EndIs DEF Honest
<1>5. CASE e \in NoncontinuingEnds(x.u)
  <2>1. e.u = x.u /\ e \in EndRecord
    BY <1>3, <1>5, NoncontinuingEndsHonestly DEF Honest, Possible
  <2> QED BY <1>3, <2>1 DEF Honest, Possible
<1> QED BY <1>1, <1>3, <1>4, <1>5

LEMMA AttachEndsHonestly ==
  ASSUME BoundsAssumption, NEW u \in UpRecord, NEW g \in Nat, NEW e \in AttachEnds(u, g)
  PROVE  Honest(u, g, e)
<1> DEFINE After(risk, x) == CASE x.r = "ok" -> {End(x.u, Finish(risk))}
                               [] x.r = "local" -> {End(x.u, Finish(risk))}
                               [] x.r = "rejected" -> {End(x.u, "release")}
                               [] x.r = "unknown" -> {End(x.u, "unknown")}
<1>1. PICK risk \in {MayContinue(u.goal), TRUE} :
        e \in UNION {After(risk, x) : x \in ResumeRpc(u, g)}
  BY DEF AttachEnds, OnRpc
<1>2. PICK x \in ResumeRpc(u, g) : e \in After(risk, x)
  BY <1>1
<1>3. /\ x.r \in {"ok", "rejected", "unknown", "local"}
      /\ Moved(u, x.u, g)
      /\ x.r = "rejected" => x.u = u
      /\ ~risk => Same(u, x.u)
  BY ResumeOutcomes
<1>4. x.u \in UpRecord
  BY <1>3 DEF Moved
<1>5. CASE e = End(x.u, Finish(risk))
  <2>1. Finish(risk) \in {"release", "unknown"} /\ (Finish(risk) = "release" => ~risk)
    BY DEF Finish
  <2> QED BY <1>3, <1>4, <1>5, <2>1, EndIs DEF Honest
<1>6. CASE e = End(u, "release")
  BY <1>6, MovedNot, EndIs DEF Honest
<1>7. CASE e = End(x.u, "unknown")
  BY <1>3, <1>4, <1>7, EndIs DEF Honest
<1> QED BY <1>2, <1>3, <1>5, <1>6, <1>7

-----------------------------------------------------------------------------
(* The resumes, which may release under the turn of a goal.                 *)

LEMMA RestoredEnds ==
  ASSUME BoundsAssumption, NEW u \in UpRecord, NEW g \in Nat, NEW err, NEW e \in Restored(u, g, err)
  PROVE  Possible(u, g, e)
<1> DEFINE r == IF err = "unknown" THEN "unknown" ELSE "release"
           After(x) == CASE x.r = "ok" -> {End(x.u, r)}
                         [] x.r = "local" -> {End(x.u, "release")}
                         [] x.r = "rejected" -> {End(x.u, "release")}
                         [] x.r = "unknown" -> {End(x.u, "unknown")}
<1>1. e = End(u, r) \/ \E x \in Rpc(u, GoalSet(u, "active", g)) : e \in After(x)
  BY DEF Restored, OnRpc, NoLocal
<1>2. r \in {"release", "unknown"}
  OBVIOUS
<1>3. CASE e = End(u, r)
  BY <1>2, <1>3, MovedNot, EndIs
<1>4. ASSUME NEW x \in Rpc(u, GoalSet(u, "active", g)), e \in After(x)
      PROVE  Possible(u, g, e)
  <2>1. x.r \in {"ok", "rejected", "unknown"} /\ Moved(u, x.u, g)
    BY GoalOutcomes
  <2>2. x.u \in UpRecord
    BY <2>1 DEF Moved
  <2>3. \E k \in {"release", "unknown"} : e = End(x.u, k)
    BY <1>2, <1>4, <2>1
  <2> QED BY <2>1, <2>2, <2>3, EndIs
<1> QED BY <1>1, <1>3, <1>4

\* What is left of Settings without the branch that goes on.
SettingsFails(u, g, paused) ==
  IF paused THEN Restored(u, g, "rejected") \cup Restored(u, g, "unknown")
  ELSE {End(u, "release"), End(u, "unknown")}

LEMMA SettingsFailsEnds ==
  ASSUME BoundsAssumption, NEW u \in UpRecord, NEW g \in Nat, NEW paused \in BOOLEAN,
         NEW e \in SettingsFails(u, g, paused)
  PROVE  Possible(u, g, e)
BY RestoredEnds, MovedNot, EndIs DEF SettingsFails

LEMMA PossibleAfter ==
  ASSUME NEW u \in UpRecord, NEW v, NEW g, NEW e, Moved(u, v, g), Possible(v, g, e)
  PROVE  Possible(u, g, e)
BY MovedTwice DEF Possible

\* What follows a resume, where D is what the caller goes on with.
AfterCold(v, r, g, D) ==
  CASE r = "ok" -> D \cup SettingsFails(v, g, TRUE)
    [] r = "local" -> {End(v, "release")}
    [] OTHER -> Restored(v, g, r)

AfterWarm(v, r, goal, g, D) ==
  CASE r = "ok" -> D \cup SettingsFails(v, g, FALSE)
    [] r = "local" -> {End(v, Finish(MayContinue(goal)))}
    [] r = "rejected" -> {End(v, "release")}
    [] r = "unknown" -> {End(v, "unknown")}

LEMMA AfterResumeEnds ==
  ASSUME BoundsAssumption, NEW u \in UpRecord, NEW g \in Nat, NEW x \in ResumeRpc(u, g),
         NEW D, \A d \in D : Possible(x.u, g, d),
         NEW goal, NEW e \in AfterCold(x.u, x.r, g, D) \cup AfterWarm(x.u, x.r, goal, g, D)
  PROVE  Possible(u, g, e)
<1>1. x.r \in {"ok", "rejected", "unknown", "local"} /\ Moved(u, x.u, g)
  BY ResumeOutcomes
<1>2. x.u \in UpRecord
  BY <1>1 DEF Moved
<1>3. CASE e \in D
  BY <1>1, <1>3, PossibleAfter
<1>4. CASE \E paused \in BOOLEAN : e \in SettingsFails(x.u, g, paused)
  BY <1>1, <1>2, <1>4, SettingsFailsEnds, PossibleAfter
<1>5. CASE e \in Restored(x.u, g, x.r)
  BY <1>1, <1>2, <1>5, RestoredEnds, PossibleAfter
<1>6. CASE \E k \in {"release", "unknown"} : e = End(x.u, k)
  BY <1>1, <1>2, <1>6, EndIs
<1>7. Finish(MayContinue(goal)) \in {"release", "unknown"}
  BY DEF Finish
<1> QED BY <1>1, <1>3, <1>4, <1>5, <1>6, <1>7 DEF AfterCold, AfterWarm

\* The goal is paused before a cold resume.
AfterPause(y, g, E) ==
  CASE y.r = "ok" -> E
    [] y.r = "local" -> {End(y.u, "release")}
    [] y.r = "rejected" -> {End(y.u, "release")}
    [] y.r = "unknown" -> {End(y.u, "unknown")}

LEMMA AfterPauseEnds ==
  ASSUME BoundsAssumption, NEW u \in UpRecord, NEW g \in Nat,
         NEW y \in Rpc(u, {[u EXCEPT !.goal = "paused"]}),
         NEW E, \A d \in E : Possible(y.u, g, d), NEW e \in AfterPause(y, g, E)
  PROVE  Possible(u, g, e)
<1>1. y.u \in {[u EXCEPT !.goal = "paused"], u} /\ y.r \in {"ok", "rejected", "unknown"}
  BY RpcOutcomes
<1>2. Moved(u, y.u, g) /\ y.u \in UpRecord
  BY <1>1, GoalMoves, MovedNot
<1>3. CASE e \in E
  BY <1>2, <1>3, PossibleAfter
<1>4. CASE \E k \in {"release", "unknown"} : e = End(y.u, k)
  BY <1>2, <1>4, EndIs
<1> QED BY <1>1, <1>3, <1>4 DEF AfterPause

LEMMA PausedRecord ==
  ASSUME NEW u \in UpRecord, NEW y \in Rpc(u, {[u EXCEPT !.goal = "paused"]})
  PROVE  y.u \in UpRecord
<1>1. [u EXCEPT !.goal = "paused"] \in UpRecord
  BY GoalMoves
<1>2. y.u \in {[u EXCEPT !.goal = "paused"], u}
  BY RpcOutcomes
<1> QED BY <1>1, <1>2

LEMMA ExplicitEndsPossible ==
  ASSUME BoundsAssumption, NEW u \in UpRecord, NEW g \in Nat, NEW pause,
         NEW e \in ExplicitEnds(u, g, pause)
  PROVE  Possible(u, g, e)
<1> DEFINE Done(v) == {End(v, "release")}
           ColdSet(y) == UNION {AfterCold(x.u, x.r, g, Done(x.u)) : x \in ResumeRpc(y.u, g)}
<1>1. CASE \E y \in Rpc(u, {[u EXCEPT !.goal = "paused"]}) : e \in AfterPause(y, g, ColdSet(y))
  <2>1. PICK y \in Rpc(u, {[u EXCEPT !.goal = "paused"]}) : e \in AfterPause(y, g, ColdSet(y))
    BY <1>1
  <2>2. y.u \in UpRecord
    BY PausedRecord
  <2>3. ASSUME NEW d \in ColdSet(y) PROVE Possible(y.u, g, d)
    <3>1. PICK x \in ResumeRpc(y.u, g) : d \in AfterCold(x.u, x.r, g, Done(x.u))
      BY <2>3
    <3>2. Moved(y.u, x.u, g)
      BY <2>2, ResumeOutcomes
    <3>3. \A c \in Done(x.u) : Possible(x.u, g, c)
      BY <3>2, MovedNot, EndIs DEF Moved
    <3> HIDE DEF Done
    <3> QED BY <2>2, <3>1, <3>3, AfterResumeEnds
  <2> HIDE DEF ColdSet
  <2> QED BY <2>1, <2>3, AfterPauseEnds
<1>2. CASE \E x \in ResumeRpc(u, g) : e \in AfterWarm(x.u, x.r, u.goal, g, Done(x.u))
  <2>1. PICK x \in ResumeRpc(u, g) : e \in AfterWarm(x.u, x.r, u.goal, g, Done(x.u))
    BY <1>2
  <2>2. Moved(u, x.u, g)
    BY ResumeOutcomes
  <2>3. \A c \in Done(x.u) : Possible(x.u, g, c)
    BY <2>2, MovedNot, EndIs DEF Moved
  <2> HIDE DEF Done
  <2> QED BY <2>1, <2>3, AfterResumeEnds
<1>3. CASE pause /\ Cold(u)
  BY <1>1, <1>3
     DEF ExplicitEnds, ColdResume, OnRpc, NoLocal, Settings, SettingsFails, AfterCold, AfterPause
<1>4. CASE ~(pause /\ Cold(u))
  BY <1>2, <1>4 DEF ExplicitEnds, WarmResume, OnRpc, Settings, SettingsFails, AfterWarm
<1> QED BY <1>3, <1>4

\* resume_goal goes on by setting the goal active, unless it is.
Activation(v, g) ==
  LET Projected(w) == {End(w, "unknown"), End(w, "release")}
  IN  IF MayContinue(v.goal) THEN Projected(v)
      ELSE OnRpc(Rpc(v, GoalSet(v, "active", g)), Projected, NoLocal)

LEMMA ActivationEnds ==
  ASSUME BoundsAssumption, NEW u \in UpRecord, NEW g \in Nat, NEW e \in Activation(u, g)
  PROVE  Possible(u, g, e)
<1> DEFINE After(x) == CASE x.r = "ok" -> {End(x.u, "unknown"), End(x.u, "release")}
                         [] x.r = "local" -> {End(x.u, "release")}
                         [] x.r = "rejected" -> {End(x.u, "release")}
                         [] x.r = "unknown" -> {End(x.u, "unknown")}
<1>1. \/ e \in {End(u, "unknown"), End(u, "release")}
      \/ \E x \in Rpc(u, GoalSet(u, "active", g)) : e \in After(x)
  BY DEF Activation, OnRpc, NoLocal
<1>2. CASE e \in {End(u, "unknown"), End(u, "release")}
  BY <1>2, MovedNot, EndIs
<1>3. ASSUME NEW x \in Rpc(u, GoalSet(u, "active", g)), e \in After(x)
      PROVE  Possible(u, g, e)
  <2>1. x.r \in {"ok", "rejected", "unknown"} /\ Moved(u, x.u, g)
    BY GoalOutcomes
  <2>2. x.u \in UpRecord
    BY <2>1 DEF Moved
  <2>3. \E k \in {"release", "unknown"} : e = End(x.u, k)
    BY <1>3, <2>1
  <2> QED BY <2>1, <2>2, <2>3, EndIs
<1> QED BY <1>1, <1>2, <1>3

LEMMA GoalResumeEndsPossible ==
  ASSUME BoundsAssumption, NEW u \in UpRecord, NEW g \in Nat, NEW attach,
         NEW e \in GoalResumeEnds(u, g, attach)
  PROVE  Possible(u, g, e)
<1> DEFINE ColdSet(y) == UNION {AfterCold(x.u, x.r, g, Activation(x.u, g)) : x \in ResumeRpc(y.u, g)}
<1>1. CASE \E y \in Rpc(u, {[u EXCEPT !.goal = "paused"]}) : e \in AfterPause(y, g, ColdSet(y))
  <2>1. PICK y \in Rpc(u, {[u EXCEPT !.goal = "paused"]}) : e \in AfterPause(y, g, ColdSet(y))
    BY <1>1
  <2>2. y.u \in UpRecord
    BY PausedRecord
  <2>3. ASSUME NEW d \in ColdSet(y) PROVE Possible(y.u, g, d)
    <3>1. PICK x \in ResumeRpc(y.u, g) : d \in AfterCold(x.u, x.r, g, Activation(x.u, g))
      BY <2>3
    <3>2. x.u \in UpRecord
      BY <2>2, ResumeOutcomes DEF Moved
    <3>3. \A c \in Activation(x.u, g) : Possible(x.u, g, c)
      BY <3>2, ActivationEnds
    <3> QED BY <2>2, <3>1, <3>3, AfterResumeEnds
  <2> HIDE DEF ColdSet
  <2> QED BY <2>1, <2>3, AfterPauseEnds
<1>2. CASE \E x \in ResumeRpc(u, g) : e \in AfterWarm(x.u, x.r, u.goal, g, Activation(x.u, g))
  <2>1. PICK x \in ResumeRpc(u, g) : e \in AfterWarm(x.u, x.r, u.goal, g, Activation(x.u, g))
    BY <1>2
  <2>2. x.u \in UpRecord
    BY ResumeOutcomes DEF Moved
  <2>3. \A c \in Activation(x.u, g) : Possible(x.u, g, c)
    BY <2>2, ActivationEnds
  <2> QED BY <2>1, <2>3, AfterResumeEnds
<1>3. CASE Cold(u)
  BY <1>1, <1>3
     DEF GoalResumeEnds, ColdResume, OnRpc, NoLocal, Settings, SettingsFails, AfterCold, AfterPause,
         Activation
<1>4. CASE ~Cold(u) /\ (attach \/ ~u.loaded)
  BY <1>2, <1>4
     DEF GoalResumeEnds, WarmResume, OnRpc, NoLocal, Settings, SettingsFails, AfterWarm, Activation
<1>5. CASE ~Cold(u) /\ ~(attach \/ ~u.loaded)
  <2>1. e \in Activation(u, g) \cup SettingsFails(u, g, FALSE)
    BY <1>5 DEF GoalResumeEnds, OnRpc, NoLocal, Settings, SettingsFails, Activation
  <2> QED BY <2>1, ActivationEnds, SettingsFailsEnds
<1> QED BY <1>3, <1>4, <1>5

-----------------------------------------------------------------------------
(* The inductive invariant.                                                 *)

Excepted == misbound \cup closedLate \cup letgo

\* What the notifications on their way say of turns is not of the future.
WireIsHonest(u) ==
  \A i \in 1..Len(u.wire) :
    /\ u.wire[i].m \in {"started", "item"} => u.wire[i].t \in 1..u.turns
    /\ u.wire[i].m = "completed" => u.wire[i].t \in 1..EndedTurns(u)

\* The app-server, when n generations were created: a turn that runs is the last
\* one, and a turn or a queued compaction keeps its thread loaded.
Served(u, n) ==
  /\ u \in UpRecord
  /\ u.turn \in {0, u.turns} /\ Len(u.made) = u.turns
  /\ \A i \in 1..u.turns : u.made[i] <= n
  /\ u.queued <= n
  /\ (u.turn # 0 \/ u.queued # 0) => u.loaded
  /\ WireIsHonest(u)

Shapes ==
  /\ mainLease \in [holder : Chats \cup {Other, NoOne}, gen : 0..gens, turn : Turn]
  /\ adm \in [holder : Chats \cup {NoOne}, gen : 0..gens, kind : Kind,
              awaiting : BOOLEAN, unknown : BOOLEAN, cand : Turn]
  /\ gens \in Generation /\ floor \in Turn
  /\ mainLease # NoLease => mainLease.gen # 0 /\ mainLease.holder # NoOne
  /\ adm # NoAdm => adm.gen # 0 /\ adm.holder \in Chats

\* A turn that a Feishu submission produced is the first after its admission,
\* and its lease waits for the identity or is bound to exactly this turn.
OwnTurn ==
  Own(up) \notin Excepted \cup {0} =>
    /\ mainLease.gen = Own(up) /\ floor = up.turn - 1
    /\ (mainLease.turn = 0 /\ adm.gen = Own(up)) \/ mainLease.turn = up.turn

\* A queued compaction is awaited by its admission, and no turn began since.
QueuedTurn ==
  up.queued \notin Excepted \cup {0} =>
    /\ mainLease.gen = up.queued /\ mainLease.turn = 0
    /\ adm.gen = up.queued /\ adm.kind = "compact"
    /\ up.turn = 0 /\ floor = up.turns

RootInd ==
  /\ Shapes /\ Served(up, gens)
  /\ AdmissionHasLease /\ BlankHasAdmission
  /\ OwnTurn /\ QueuedTurn

LEMMA Bounds == BoundsAssumption => MaxGens \in Nat /\ MaxTurns \in Nat /\ 0 \in Turn /\ 0 \in Generation
BY DEF BoundsAssumption, Turn, Generation

\* The inductive invariant contains the property.
LEMMA RootIndImplies ==
  ASSUME BoundsAssumption, RootInd
  PROVE  RootInvariant
<1>1. RootTypeOK
  <2>1. up.turn \in 0..up.turns /\ Len(up.made) = up.turns
    BY DEF RootInd, Served, UpRecord, Turn
  <2>2. \A i \in 1..Len(up.wire) : up.wire[i] \in Message
    BY DEF RootInd, Served, UpRecord
  <2> QED BY <2>1, <2>2 DEF RootInd, Shapes, RootTypeOK
<1>2. OwnTurnKeepsLease
  BY DEF RootInd, OwnTurn, OwnTurnKeepsLease, Keeps, Excepted
<1> QED BY <1>1, <1>2 DEF RootInd, RootInvariant

-----------------------------------------------------------------------------
(* Steps of the app-server.                                                 *)

LEMMA SameServed ==
  ASSUME NEW u, NEW n \in Nat, NEW m \in Nat, n <= m, Served(u, n),
         NEW v \in UpRecord, Same(u, v), v.queued = u.queued, u.loaded => v.loaded
  PROVE  Served(v, m) /\ Own(v) = Own(u) /\ EndedTurns(v) = EndedTurns(u)
<1>1. Own(v) = Own(u) /\ EndedTurns(v) = EndedTurns(u)
  BY DEF Same, Own, EndedTurns
<1>2. WireIsHonest(v)
  BY <1>1 DEF Served, WireIsHonest, Same
<1>3. \A i \in 1..v.turns : v.made[i] <= m
  <2>1. \A i \in 1..u.turns : u.made[i] \in Nat
    BY DEF Served, UpRecord
  <2> QED BY <2>1 DEF Served, Same
<1>4. v.queued <= m
  BY DEF Served, UpRecord
<1> QED BY <1>1, <1>2, <1>3, <1>4 DEF Served, Same

LEMMA StartedServed ==
  ASSUME NEW u, NEW n \in Nat, NEW m \in Nat, n <= m, Served(u, n), NEW g \in Nat, g <= m,
         NEW v \in UpRecord, StartedBy(u, v, g), v.queued = u.queued
  PROVE  /\ Served(v, m) /\ Own(v) = g
         /\ EndedTurns(v) = EndedTurns(u) /\ EndedTurns(u) = v.turn - 1
<1>1. /\ u.turn = 0 /\ u.turns \in Nat /\ v.loaded /\ v.turn = u.turns + 1 /\ v.turns = u.turns + 1
      /\ v.made = Append(u.made, g) /\ v.wire = Append(u.wire, [m |-> "started", t |-> u.turns + 1])
      /\ u.made \in Seq(Nat) /\ Len(u.made) = u.turns /\ u.wire \in Seq(Message)
  BY DEF StartedBy, Served, UpRecord, Turn
<1>2. Len(v.made) = v.turns /\ v.made[v.turn] = g
  BY <1>1
<1>3. \A i \in 1..v.turns : v.made[i] <= m
  <2>1. \A i \in 1..u.turns : v.made[i] = u.made[i] /\ u.made[i] \in Nat /\ u.made[i] <= n
    BY <1>1 DEF Served
  <2>2. \A i \in 1..v.turns : i \in 1..u.turns \/ i = v.turn
    BY <1>1
  <2> QED BY <1>2, <2>1, <2>2
<1>4. EndedTurns(u) = u.turns /\ EndedTurns(v) = u.turns /\ Own(v) = g
  BY <1>1, <1>2 DEF EndedTurns, Own
<1>5. WireIsHonest(v)
  <2> DEFINE s == [m |-> "started", t |-> u.turns + 1]
  <2> SUFFICES ASSUME NEW i \in 1..Len(v.wire)
               PROVE  /\ v.wire[i].m \in {"started", "item"} => v.wire[i].t \in 1..v.turns
                      /\ v.wire[i].m = "completed" => v.wire[i].t \in 1..EndedTurns(v)
    BY DEF WireIsHonest
  <2>1. CASE i \in 1..Len(u.wire)
    <3>1. v.wire[i] = u.wire[i]
      BY <1>1, <2>1
    <3>2. /\ u.wire[i].m \in {"started", "item"} => u.wire[i].t \in 1..u.turns
          /\ u.wire[i].m = "completed" => u.wire[i].t \in 1..u.turns
      BY <1>4, <2>1 DEF Served, WireIsHonest
    <3> QED BY <1>1, <1>4, <3>1, <3>2
  <2>2. CASE i = Len(u.wire) + 1
    <3>1. v.wire[i] = s
      BY <1>1, <2>2
    <3>2. s.m = "started" /\ s.t = v.turns
      BY <1>1
    <3>3. v.turns \in 1..v.turns
      BY <1>1
    <3> HIDE DEF s
    <3> QED BY <3>1, <3>2, <3>3
  <2> QED BY <1>1, <2>1, <2>2
<1>6. v.queued <= m
  BY DEF Served, UpRecord
<1> QED BY <1>1, <1>2, <1>3, <1>4, <1>5, <1>6 DEF Served

LEMMA TailServed ==
  ASSUME NEW u, NEW n \in Nat, Served(u, n), u.wire # <<>>,
         NEW v, v = [u EXCEPT !.wire = Tail(@)]
  PROVE  /\ Served(v, n) /\ Own(v) = Own(u)
         /\ v.turn = u.turn /\ v.turns = u.turns /\ v.queued = u.queued /\ v.loaded = u.loaded
<1>1. u \in UpRecord /\ u.wire \in Seq(Message) /\ Tail(u.wire) \in Seq(Message)
  BY DEF Served, UpRecord
<1>2. v \in UpRecord
  BY <1>1 DEF UpRecord
<1>3. /\ v.turn = u.turn /\ v.turns = u.turns /\ v.queued = u.queued /\ v.loaded = u.loaded
      /\ v.made = u.made /\ v.wire = Tail(u.wire)
  BY <1>1 DEF UpRecord
<1>4. Own(v) = Own(u) /\ EndedTurns(v) = EndedTurns(u)
  BY <1>3 DEF Own, EndedTurns
<1>5. \A i \in 1..Len(v.wire) : i + 1 \in 1..Len(u.wire) /\ v.wire[i] = u.wire[i + 1]
  BY <1>1, <1>3
<1>6. WireIsHonest(v)
  BY <1>3, <1>4, <1>5 DEF Served, WireIsHonest
<1> QED BY <1>2, <1>3, <1>4, <1>6 DEF Served

LEMMA HeadServed ==
  ASSUME NEW u, NEW n, Served(u, n), u.wire # <<>>
  PROVE  /\ Head(u.wire).m \in {"started", "item"} => Head(u.wire).t \in 1..u.turns
         /\ Head(u.wire).m = "completed" => Head(u.wire).t \in 1..EndedTurns(u)
<1>1. 1 \in 1..Len(u.wire) /\ Head(u.wire) = u.wire[1]
  BY DEF Served, UpRecord
<1> QED BY <1>1 DEF Served, WireIsHonest

LEMMA TurnOverServed ==
  ASSUME BoundsAssumption, NEW u, NEW n \in Nat, Served(u, n), u.turn # 0
  PROVE  LET v == TurnOver(u)
         IN  Served(v, n) /\ v.turn = 0 /\ v.turns = u.turns /\ v.queued = u.queued
<1> DEFINE v == TurnOver(u)
           w == <<[m |-> "completed", t |-> u.turn], [m |-> "status"]>>
<1>1. u \in UpRecord /\ u.turn = u.turns /\ u.turns \in Turn /\ u.turns \in Nat /\ u.wire \in Seq(Message)
  BY DEF Served, UpRecord, Turn
<1>2. w \in Seq(Message) /\ Len(w) = 2 /\ w[1] = [m |-> "completed", t |-> u.turn] /\ w[2] = [m |-> "status"]
  BY <1>1 DEF Message
<1>3. v = [u EXCEPT !.turn = 0, !.wire = u.wire \o w]
  BY DEF TurnOver
<1> HIDE DEF w
<1>4. u.wire \o w \in Seq(Message) /\ Len(u.wire \o w) = Len(u.wire) + 2
  <2>1. u.wire \o w \in Seq(Message) /\ Len(u.wire \o w) = Len(u.wire) + Len(w)
    BY <1>1, <1>2, ConcatProperties
  <2> QED BY <1>2, <2>1
<1>5. v \in UpRecord
  BY <1>1, <1>3, <1>4, Bounds DEF UpRecord
<1>6. /\ v.turn = 0 /\ v.turns = u.turns /\ v.queued = u.queued /\ v.loaded = u.loaded
      /\ v.made = u.made /\ v.wire = u.wire \o w
  BY <1>1, <1>3 DEF UpRecord
<1> HIDE DEF v
<1>7. EndedTurns(v) = u.turns /\ EndedTurns(u) = u.turns - 1
  BY <1>1, <1>6 DEF EndedTurns
<1>8. WireIsHonest(v)
  <2> SUFFICES ASSUME NEW i \in 1..Len(v.wire)
               PROVE  /\ v.wire[i].m \in {"started", "item"} => v.wire[i].t \in 1..v.turns
                      /\ v.wire[i].m = "completed" => v.wire[i].t \in 1..EndedTurns(v)
    BY DEF WireIsHonest
  <2>1. CASE i \in 1..Len(u.wire)
    <3>1. v.wire[i] = u.wire[i]
      BY <1>1, <1>2, <1>6, <2>1
    <3>2. /\ u.wire[i].m \in {"started", "item"} => u.wire[i].t \in 1..u.turns
          /\ u.wire[i].m = "completed" => u.wire[i].t \in 1..(u.turns - 1)
      BY <1>7, <2>1 DEF Served, WireIsHonest
    <3> QED BY <1>1, <1>6, <1>7, <3>1, <3>2
  <2>2. CASE i = Len(u.wire) + 1
    <3>1. v.wire[i] = w[1]
      BY <1>1, <1>2, <1>6, <2>2
    <3>2. w[1].m = "completed" /\ w[1].t = u.turns
      BY <1>1, <1>2
    <3> QED BY <1>1, <1>7, <3>1, <3>2
  <2>3. CASE i = Len(u.wire) + 2
    <3>1. v.wire[i] = w[2]
      BY <1>1, <1>2, <1>6, <2>3
    <3>2. w[2].m = "status"
      BY <1>2
    <3> QED BY <3>1, <3>2
  <2> QED BY <1>1, <1>4, <1>6, <2>1, <2>2, <2>3
<1>9. Served(v, n)
  BY <1>5, <1>6, <1>8 DEF Served
<1> QED BY <1>6, <1>9 DEF v

-----------------------------------------------------------------------------
(* The end of a handler.                                                    *)

\* The admitted handler may take the lease: nothing is open under it.
LEMMA AdmittedIsQuiet ==
  ASSUME BoundsAssumption, HoldersAssumption, RootInd, NEW b \in Chats, Admits(b)
  PROVE  /\ Own(up) \in Excepted \cup {0} /\ up.queued \in Excepted \cup {0}
         /\ Taken(b) = [holder |-> b, gen |-> Taken(b).gen, turn |-> 0]
         /\ Taken(b).gen \in Nat /\ Taken(b).gen # 0
         /\ Acquired => gens' \in Generation /\ gens <= gens' /\ Taken(b).gen <= gens' /\ floor' \in Turn
<1>1. adm.gen = 0 /\ gens \in Nat /\ gens <= MaxGens
  BY DEF Admits, NoAdm, RootInd, Shapes, Generation
<1>2. Own(up) # 0 => up.turn # 0
  BY DEF Own
<1>3. CASE mainLease = NoLease
  <2>1. mainLease.gen = 0 /\ gens < MaxGens
    BY <1>3 DEF NoLease, Admits
  <2>2. Taken(b) = [holder |-> b, gen |-> gens + 1, turn |-> 0]
    BY <1>3 DEF Taken
  <2>3. Own(up) \in Excepted \cup {0} /\ up.queued \in Excepted \cup {0}
    BY <2>1 DEF RootInd, OwnTurn, QueuedTurn
  <2>4. Acquired => gens' = gens + 1
    BY <1>3 DEF Acquired
  <2>5. Acquired => floor' \in Turn
    BY Bounds DEF Acquired, EndedTurns, RootInd, Served, UpRecord, Turn, BoundsAssumption
  <2> QED BY <1>1, <2>1, <2>2, <2>3, <2>4, <2>5 DEF Generation, BoundsAssumption
<1>4. CASE mainLease # NoLease
  <2>1. mainLease.holder = b /\ mainLease.turn = 0 /\ mainLease.gen # 0 /\ mainLease.gen \in 0..gens
    BY <1>4 DEF Admits, RootInd, Shapes
  <2>2. Taken(b) = mainLease
    BY <1>4 DEF Taken
  <2>3. mainLease = [holder |-> b, gen |-> mainLease.gen, turn |-> 0]
    BY <2>1 DEF RootInd, Shapes
  <2>4. Own(up) \in Excepted \cup {0}
    BY <1>1, <1>2, <2>1 DEF RootInd, OwnTurn
  <2>5. up.queued \in Excepted \cup {0}
    BY <1>1 DEF RootInd, QueuedTurn
  <2>6. Acquired => gens' = gens
    BY <1>4 DEF Acquired
  <2>7. Acquired => floor' \in Turn
    BY Bounds DEF Acquired, EndedTurns, RootInd, Served, UpRecord, Turn, BoundsAssumption
  <2> QED BY <1>1, <2>1, <2>2, <2>3, <2>4, <2>5, <2>6, <2>7 DEF Generation
<1> QED BY <1>3, <1>4

\* What the lease and the admission of b are when its handler has ended.
LEMMA SettledLease ==
  ASSUME BoundsAssumption, HoldersAssumption, RootInd, NEW b \in Chats, NEW k \in Kind,
         Admits(b), NEW e \in EndRecord, Settle(b, k, e)
  PROVE  /\ Shapes' /\ AdmissionHasLease' /\ BlankHasAdmission'
         /\ e.end # "release" =>
              /\ mainLease' = Taken(b) /\ adm'.gen = Taken(b).gen /\ adm'.kind = k
<1> DEFINE l == Taken(b)
<1>1. /\ l = [holder |-> b, gen |-> l.gen, turn |-> 0]
      /\ l.gen \in Nat /\ l.gen # 0
      /\ gens' \in Generation /\ gens <= gens' /\ l.gen <= gens' /\ floor' \in Turn
  BY AdmittedIsQuiet DEF Settle
<1>2. b # NoOne /\ 0 \in Turn
  BY Bounds DEF HoldersAssumption
<1>3. l.holder = b /\ l.turn = 0 /\ gens' \in Nat
  BY <1>1 DEF Generation
<1>4. NoLease \in [holder : Chats \cup {Other, NoOne}, gen : 0..gens', turn : Turn]
  BY <1>2, <1>3 DEF NoLease
<1>5. l \in [holder : Chats \cup {Other, NoOne}, gen : 0..gens', turn : Turn]
  BY <1>1, <1>2, <1>3
<1>6. NoAdm \in [holder : Chats \cup {NoOne}, gen : 0..gens', kind : Kind,
                 awaiting : BOOLEAN, unknown : BOOLEAN, cand : Turn]
  BY <1>2, <1>3 DEF NoAdm, Kind
<1>a. NoLease.holder = NoOne /\ NoOne \notin Chats
  BY DEF NoLease, HoldersAssumption
<1> HIDE DEF l
<1>7. CASE e.end = "release"
  <2>1. /\ adm' = NoAdm
        /\ mainLease' = NoLease \/ (mainLease' = l /\ l.gen \in orphans')
    BY <1>7 DEF Settle, Released, l
  <2>2. Shapes'
    BY <1>1, <1>2, <1>3, <1>4, <1>5, <1>6, <2>1 DEF Shapes
  <2>3. AdmissionHasLease' /\ BlankHasAdmission'
    BY <1>a, <2>1 DEF AdmissionHasLease, BlankHasAdmission
  <2> QED BY <1>7, <2>2, <2>3
<1>8. CASE e.end # "release"
  <2> DEFINE c == IF k = "prompt" THEN e.id ELSE 0
             a == [holder |-> b, gen |-> l.gen, kind |-> k,
                   awaiting |-> e.end = "awaiting", unknown |-> e.end = "unknown", cand |-> c]
  <2>1. mainLease' = l /\ adm' = a
    BY <1>8 DEF Settle, l
  <2>2. c \in Turn
    BY <1>2 DEF EndRecord
  <2>3. a \in [holder : Chats \cup {NoOne}, gen : 0..gens', kind : Kind,
               awaiting : BOOLEAN, unknown : BOOLEAN, cand : Turn]
    BY <1>1, <1>3, <2>2
  <2>4. a.holder = b /\ a.gen = l.gen /\ a.kind = k
    OBVIOUS
  <2> HIDE DEF a
  <2>5. Shapes'
    BY <1>1, <1>2, <1>3, <1>5, <2>1, <2>3, <2>4 DEF Shapes
  <2>6. AdmissionHasLease' /\ BlankHasAdmission'
    BY <1>1, <2>1, <2>4 DEF AdmissionHasLease, BlankHasAdmission
  <2> QED BY <2>1, <2>4, <2>5, <2>6 DEF l
<1> QED BY <1>7, <1>8

\* A handler that ends keeps the invariant if a release under a turn of its own
\* is recorded.
LEMMA SettleKeepsInvariant ==
  ASSUME BoundsAssumption, HoldersAssumption, RootInd, NEW b \in Chats, NEW k \in Kind,
         Admits(b), NEW e \in EndRecord, Settle(b, k, e), letgo \subseteq letgo',
         Moved(up, e.u, Taken(b).gen) \/ (CompactionQueued(up, Taken(b).gen, e) /\ k = "compact"),
         /\ e.end = "release" /\ StartedBy(up, e.u, Taken(b).gen)
            => Taken(b).gen \in letgo'
  PROVE  RootInd'
<1> DEFINE g == Taken(b).gen
<1>1. /\ Own(up) \in Excepted \cup {0} /\ up.queued \in Excepted \cup {0}
      /\ g \in Nat /\ g # 0 /\ gens' \in Generation /\ gens <= gens' /\ g <= gens'
      /\ Taken(b).turn = 0
  BY AdmittedIsQuiet DEF Settle
<1>2. /\ Shapes' /\ AdmissionHasLease' /\ BlankHasAdmission'
      /\ e.end # "release" => mainLease' = Taken(b) /\ adm'.gen = g /\ adm'.kind = k
  BY SettledLease
<1>3. /\ up' = e.u /\ e.u \in UpRecord /\ floor' = EndedTurns(up)
      /\ Excepted \subseteq Excepted' /\ letgo' \subseteq Excepted'
  BY DEF Settle, Acquired, EndRecord, Excepted
<1>4. gens \in Nat /\ gens' \in Nat /\ Served(up, gens)
  BY <1>1 DEF RootInd, Shapes, Generation
<1> HIDE DEF g
<1>5. CASE Moved(up, e.u, g) /\ Same(up, e.u)
  <2>1. Served(up', gens') /\ Own(up') = Own(up) /\ up'.queued = up.queued
    BY <1>1, <1>3, <1>4, <1>5, SameServed DEF Moved
  <2> QED BY <1>1, <1>2, <1>3, <2>1 DEF RootInd, OwnTurn, QueuedTurn
<1>6. CASE Moved(up, e.u, g) /\ StartedBy(up, e.u, g)
  <2>1. /\ Served(up', gens') /\ Own(up') = g /\ up'.queued = up.queued
        /\ floor' = up'.turn - 1
    BY <1>1, <1>3, <1>4, <1>6, StartedServed DEF Moved
  <2>2. OwnTurn'
    BY <1>1, <1>2, <1>3, <1>6, <2>1 DEF OwnTurn, g
  <2>3. QueuedTurn'
    BY <1>1, <1>3, <2>1 DEF QueuedTurn
  <2> QED BY <1>2, <2>1, <2>2, <2>3 DEF RootInd
<1>7. CASE CompactionQueued(up, g, e) /\ k = "compact"
  <2>1. /\ e.end # "release" /\ up.loaded /\ up.turn = 0 /\ up \in UpRecord
        /\ up' = [up EXCEPT !.queued = g]
    BY <1>3, <1>7 DEF CompactionQueued, RootInd, Served
  <2>2. /\ up'.queued = g /\ Same(up, up') /\ up'.loaded
    BY <2>1 DEF Same, UpRecord
  <2>3. \A i \in 1..up'.turns : up'.made[i] <= gens'
    <3>1. \A i \in 1..up.turns : up.made[i] \in Nat
      BY <1>4 DEF Served, UpRecord
    <3> QED BY <1>1, <1>4, <2>2, <3>1 DEF Served, Same
  <2>4. Own(up') = 0 /\ EndedTurns(up') = EndedTurns(up) /\ EndedTurns(up) = up'.turns
    BY <2>1, <2>2 DEF Own, EndedTurns, Same
  <2>5. WireIsHonest(up')
    BY <1>4, <2>2, <2>4 DEF WireIsHonest, Served, Same
  <2>6. Served(up', gens')
    BY <1>1, <1>3, <1>4, <2>1, <2>2, <2>3, <2>5 DEF Served, Same
  <2>7. OwnTurn' /\ QueuedTurn'
    BY <1>1, <1>2, <1>3, <1>7, <2>1, <2>2, <2>4 DEF OwnTurn, QueuedTurn, Same, g
  <2> QED BY <1>2, <2>6, <2>7 DEF RootInd
<1> QED BY <1>5, <1>6, <1>7 DEF Moved, g

SettlesAs(g, k, e) == Honest(up, g, e) \/ (CompactionQueued(up, g, e) /\ k = "compact")

LEMMA OperationKeepsInvariant ==
  ASSUME BoundsAssumption, HoldersAssumption, RootInd, NEW b \in Chats, NEW k \in Kind, NEW E,
         Operation(b, k, E),
         \A e \in E : SettlesAs(Taken(b).gen, k, e)
  PROVE  RootInd'
<1>1. PICK e \in E : Settle(b, k, e) /\ UNCHANGED letgo
  BY DEF Operation
<1>2. e \in EndRecord /\ Admits(b)
  BY DEF SettlesAs, Honest, Possible, CompactionQueued, Operation
<1>3. CASE Honest(up, Taken(b).gen, e)
  <2>1. up.turns \in Nat /\ ~(Same(up, e.u) /\ StartedBy(up, e.u, Taken(b).gen))
    BY DEF RootInd, Served, UpRecord, Turn, Same, StartedBy
  <2> QED BY <1>1, <1>2, <1>3, <2>1, SettleKeepsInvariant DEF Honest, Possible
<1>4. CASE CompactionQueued(up, Taken(b).gen, e) /\ k = "compact"
  <2>1. e.end # "release"
    BY <1>4 DEF CompactionQueued
  <2> QED BY <1>1, <1>2, <1>4, <2>1, SettleKeepsInvariant
<1> QED BY <1>3, <1>4 DEF SettlesAs

LEMMA ResumeKeepsInvariant ==
  ASSUME BoundsAssumption, HoldersAssumption, RootInd, NEW b \in Chats, NEW E,
         ResumeOperation(b, E), \A e \in E : Possible(up, Taken(b).gen, e)
  PROVE  RootInd'
<1> DEFINE g == Taken(b).gen
<1>1. PICK e \in E : /\ Settle(b, "mutation", e)
                     /\ letgo' = letgo \cup (IF e.end = "release" /\ Own(e.u) = g THEN {g} ELSE {})
  BY DEF ResumeOperation
<1>2. e \in EndRecord /\ Admits(b) /\ Moved(up, e.u, g) /\ e.u \in UpRecord /\ "mutation" \in Kind
  BY DEF Possible, ResumeOperation, Moved, Kind
<1>3. gens \in Nat /\ gens' \in Nat /\ gens <= gens' /\ g \in Nat /\ g <= gens' /\ Served(up, gens)
  BY <1>1, <1>2, AdmittedIsQuiet DEF Settle, RootInd, Shapes, Generation
<1>4. StartedBy(up, e.u, g) => Own(e.u) = g
  BY <1>2, <1>3, StartedServed DEF Moved
<1> HIDE DEF g
<1>5. e.end = "release" /\ StartedBy(up, e.u, g) => g \in letgo'
  BY <1>1, <1>4
<1>6. letgo \subseteq letgo'
  BY <1>1
<1> QED BY <1>1, <1>2, <1>5, <1>6, SettleKeepsInvariant DEF g

\* Every handler that takes the lease.
LEMMA HandlerKeepsInvariant ==
  ASSUME BoundsAssumption, HoldersAssumption, RootInd, NEW b \in Chats,
         \/ Prompt(b) \/ Compact(b) \/ ClearGoal(b) \/ AttachBinding(b)
         \/ \E s \in {"active", "paused"} : MutateGoal(b, s)
         \/ \E p \in BOOLEAN : ResumeThread(b, p) \/ ResumeGoal(b, p)
  PROVE  RootInd'
<1> DEFINE g == Taken(b).gen
<1>1. up \in UpRecord /\ {"prompt", "compact", "mutation"} \subseteq Kind
  BY DEF RootInd, Served, Kind
<1>2. Admits(b)
  BY DEF Prompt, Compact, ClearGoal, AttachBinding, MutateGoal, ResumeThread, ResumeGoal,
         Operation, ResumeOperation
<1>3. g \in Nat
  BY <1>2, AdmittedIsQuiet
<1>4. CASE Prompt(b)
  <2>1. \A e \in PromptEnds(up, g) : SettlesAs(g, "prompt", e)
    BY <1>1, <1>3, PromptEndsHonestly DEF SettlesAs
  <2> QED BY <1>1, <1>4, <2>1, OperationKeepsInvariant DEF Prompt
<1>5. CASE Compact(b)
  <2>1. \A e \in CompactEnds(up, g) : SettlesAs(g, "compact", e)
    BY <1>1, <1>3, CompactEndsHonestly DEF SettlesAs
  <2> QED BY <1>1, <1>5, <2>1, OperationKeepsInvariant DEF Compact
<1>6. CASE ClearGoal(b)
  <2>1. \A e \in ClearEnds(up) : SettlesAs(g, "mutation", e)
    BY <1>1, <1>3, ClearEndsHonestly DEF SettlesAs
  <2> QED BY <1>1, <1>6, <2>1, OperationKeepsInvariant DEF ClearGoal
<1>7. CASE AttachBinding(b)
  <2>1. \A e \in AttachEnds(up, g) : SettlesAs(g, "mutation", e)
    BY <1>1, <1>3, AttachEndsHonestly DEF SettlesAs
  <2> QED BY <1>1, <1>7, <2>1, OperationKeepsInvariant DEF AttachBinding
<1>8. ASSUME NEW s \in {"active", "paused"}, MutateGoal(b, s)
      PROVE  RootInd'
  <2>1. \A e \in GoalEnds(up, g, s) : SettlesAs(g, "mutation", e)
    BY <1>1, <1>3, GoalEndsHonestly DEF SettlesAs
  <2> QED BY <1>1, <1>8, <2>1, OperationKeepsInvariant DEF MutateGoal
<1>9. ASSUME NEW p \in BOOLEAN, ResumeThread(b, p)
      PROVE  RootInd'
  <2>1. \A e \in ExplicitEnds(up, g, p) : Possible(up, g, e)
    BY <1>1, <1>3, ExplicitEndsPossible
  <2> QED BY <1>9, <2>1, ResumeKeepsInvariant DEF ResumeThread
<1>10. ASSUME NEW p \in BOOLEAN, ResumeGoal(b, p)
       PROVE  RootInd'
  <2>1. \A e \in GoalResumeEnds(up, g, p) : Possible(up, g, e)
    BY <1>1, <1>3, GoalResumeEndsPossible
  <2> QED BY <1>10, <2>1, ResumeKeepsInvariant DEF ResumeGoal
<1> QED BY <1>4, <1>5, <1>6, <1>7, <1>8, <1>9, <1>10

-----------------------------------------------------------------------------
(* The app-server's own steps.                                              *)

\* A step of the app-server alone keeps the bookkeeping of the service.
LEMMA UpstreamFrame ==
  ASSUME NEW v, Upstream(v), RootInd
  PROVE  /\ up' = v /\ Shapes' /\ AdmissionHasLease' /\ BlankHasAdmission'
         /\ Excepted' = Excepted /\ mainLease' = mainLease /\ adm' = adm /\ gens' = gens /\ floor' = floor
         /\ gens \in Nat /\ Served(up, gens)
BY DEF Upstream, NoHistory, RootInd, Shapes, AdmissionHasLease, BlankHasAdmission, Excepted, Generation

LEMMA EndTurnKeepsInvariant ==
  ASSUME BoundsAssumption, RootInd, EndTurn
  PROVE  RootInd'
<1>1. up.turn # 0 /\ Upstream(TurnOver(up))
  BY DEF EndTurn
<1>2. /\ up' = TurnOver(up) /\ Shapes' /\ AdmissionHasLease' /\ BlankHasAdmission'
      /\ Excepted' = Excepted /\ gens' = gens /\ gens \in Nat /\ Served(up, gens)
  BY <1>1, UpstreamFrame
<1>3. Served(up', gens') /\ up'.turn = 0 /\ up'.queued = up.queued
  BY <1>1, <1>2, TurnOverServed
<1>4. OwnTurn' /\ QueuedTurn'
  BY <1>1, <1>2, <1>3 DEF RootInd, OwnTurn, QueuedTurn, Own
<1> QED BY <1>2, <1>3, <1>4 DEF RootInd

LEMMA StartElsewhereKeepsInvariant ==
  ASSUME BoundsAssumption, RootInd, StartElsewhere
  PROVE  RootInd'
<1>1. CanStart(up) /\ up.queued = 0 /\ Upstream(NewTurn(up, 0))
  BY DEF StartElsewhere
<1>2. /\ up' = NewTurn(up, 0) /\ Shapes' /\ AdmissionHasLease' /\ BlankHasAdmission'
      /\ gens' = gens /\ gens \in Nat /\ Served(up, gens)
  BY <1>1, UpstreamFrame
<1>3. Moved(up, up', 0) /\ StartedBy(up, up', 0)
  BY <1>1, <1>2, NewTurnMoves DEF Served
<1>4. Served(up', gens') /\ Own(up') = 0 /\ up'.queued = 0
  BY <1>1, <1>2, <1>3, StartedServed DEF Moved
<1>5. OwnTurn' /\ QueuedTurn'
  BY <1>4 DEF OwnTurn, QueuedTurn
<1> QED BY <1>2, <1>4, <1>5 DEF RootInd

LEMMA CompactBeginsKeepsInvariant ==
  ASSUME BoundsAssumption, RootInd, CompactBegins
  PROVE  RootInd'
<1> DEFINE q == up.queued
           w == NewTurn(up, q)
           n == [m |-> "item", t |-> up.turns + 1]
           v == [w EXCEPT !.queued = 0, !.wire = Append(@, n)]
<1>1. q # 0 /\ CanStart(up) /\ Upstream(v)
  BY DEF CompactBegins
<1>2. /\ up' = v /\ Shapes' /\ AdmissionHasLease' /\ BlankHasAdmission'
      /\ Excepted' = Excepted /\ mainLease' = mainLease /\ adm' = adm /\ gens' = gens /\ floor' = floor
      /\ gens \in Nat /\ Served(up, gens)
  BY <1>1, UpstreamFrame
<1>3. up \in UpRecord /\ q \in Nat /\ q <= gens /\ up.turns \in Nat
  BY <1>2 DEF Served, UpRecord, Turn
<1>4. Moved(up, w, q) /\ StartedBy(up, w, q)
  BY <1>1, <1>3, NewTurnMoves
<1> HIDE DEF w
<1>5. /\ Served(w, gens) /\ Own(w) = q /\ w \in UpRecord
      /\ EndedTurns(up) = w.turn - 1 /\ w.turn = w.turns /\ w.turn = up.turns + 1 /\ w.loaded
  <2>1. w \in UpRecord /\ w.queued = q
    BY <1>4 DEF Moved
  <2>2. /\ Served(w, gens) /\ Own(w) = q /\ EndedTurns(up) = w.turn - 1
    BY <1>2, <1>3, <1>4, <2>1, StartedServed
  <2> QED BY <1>4, <2>1, <2>2 DEF StartedBy
<1>6. n \in Message /\ n.m = "item" /\ n.t = w.turns
  BY <1>3, <1>5 DEF Message, UpRecord
<1> HIDE DEF n
<1>7. w.wire \in Seq(Message) /\ Append(w.wire, n) \in Seq(Message)
  BY <1>5, <1>6 DEF UpRecord
<1>8. /\ v \in UpRecord /\ v.queued = 0 /\ v.wire = Append(w.wire, n) /\ v.turn = w.turn
      /\ v.turns = w.turns /\ v.made = w.made /\ v.loaded
  BY <1>5, <1>7 DEF UpRecord
<1> HIDE DEF v
<1>9. Own(v) = q /\ EndedTurns(v) = EndedTurns(w)
  BY <1>5, <1>8 DEF Own, EndedTurns
<1>10. WireIsHonest(v)
  <2> SUFFICES ASSUME NEW i \in 1..Len(v.wire)
               PROVE  /\ v.wire[i].m \in {"started", "item"} => v.wire[i].t \in 1..v.turns
                      /\ v.wire[i].m = "completed" => v.wire[i].t \in 1..EndedTurns(v)
    BY DEF WireIsHonest
  <2>1. CASE i \in 1..Len(w.wire)
    <3>1. v.wire[i] = w.wire[i]
      BY <1>7, <1>8, <2>1
    <3> QED BY <1>5, <1>8, <1>9, <2>1, <3>1 DEF Served, WireIsHonest
  <2>2. CASE i = Len(w.wire) + 1
    <3>1. v.wire[i] = n
      BY <1>7, <1>8, <2>2
    <3>2. w.turns \in 1..w.turns
      BY <1>3, <1>5
    <3> QED BY <1>6, <1>8, <3>1, <3>2
  <2> QED BY <1>7, <1>8, <2>1, <2>2
<1>11. Served(v, gens)
  <2>1. /\ v.turn \in {0, v.turns} /\ Len(v.made) = v.turns
        /\ \A i \in 1..v.turns : v.made[i] <= gens
    BY <1>5, <1>8 DEF Served
  <2>2. v.queued <= gens
    BY <1>2, <1>8
  <2> QED BY <1>8, <1>10, <2>1, <2>2 DEF Served
<1>12. OwnTurn'
  <2>1. EndedTurns(up) = up.turns
    BY <1>1 DEF CanStart, EndedTurns
  <2> QED BY <1>1, <1>2, <1>5, <1>8, <1>9, <2>1 DEF RootInd, OwnTurn, QueuedTurn
<1>13. QueuedTurn'
  BY <1>2, <1>8 DEF QueuedTurn
<1> QED BY <1>2, <1>11, <1>12, <1>13 DEF RootInd

\* The app-server forgets the queued compaction, unloads the idle thread, or is
\* disconnected: no turn begins or ends.
LEMMA QuietUpstreamKeepsInvariant ==
  ASSUME BoundsAssumption, RootInd, CompactDropped \/ ThreadUnloaded \/ LoseConnection
  PROVE  RootInd'
<1>0. up \in UpRecord /\ Served(up, gens) /\ gens \in Nat
  BY DEF RootInd, Served, Shapes, Generation
<1>1. CASE CompactDropped
  <2> DEFINE v == [up EXCEPT !.queued = 0]
  <2>1. Upstream(v)
    BY <1>1 DEF CompactDropped
  <2>2. /\ v \in UpRecord /\ v.queued = 0 /\ v.turn = up.turn /\ v.turns = up.turns
        /\ v.made = up.made /\ v.wire = up.wire /\ v.loaded = up.loaded
    BY <1>0 DEF UpRecord
  <2> HIDE DEF v
  <2>3. Own(v) = Own(up) /\ EndedTurns(v) = EndedTurns(up)
    BY <2>2 DEF Own, EndedTurns
  <2>4. Served(v, gens)
    BY <1>0, <2>2, <2>3 DEF Served, WireIsHonest
  <2> QED BY <2>1, <2>2, <2>3, <2>4, UpstreamFrame DEF RootInd, OwnTurn, QueuedTurn
<1>2. CASE ThreadUnloaded
  <2> DEFINE n == [m |-> "closed"]
             v == [up EXCEPT !.loaded = FALSE, !.closes = @ + 1, !.wire = Append(@, n)]
  <2>1. Upstream(v) /\ up.turn = 0 /\ up.queued = 0
    BY <1>2 DEF ThreadUnloaded
  <2>2. n \in Message /\ n.m = "closed"
    BY DEF Message
  <2> HIDE DEF n
  <2>3. up.wire \in Seq(Message) /\ Append(up.wire, n) \in Seq(Message)
    BY <1>0, <2>2 DEF UpRecord
  <2>4. /\ v \in UpRecord /\ v.queued = 0 /\ v.turn = 0 /\ v.turns = up.turns
        /\ v.made = up.made /\ v.wire = Append(up.wire, n)
    <3>1. up.closes + 1 \in Nat
      BY <1>0 DEF UpRecord
    <3>2. v = [up EXCEPT !.loaded = FALSE, !.closes = up.closes + 1, !.wire = Append(up.wire, n)]
      OBVIOUS
    <3>3. v \in UpRecord
      BY <1>0, <2>3, <3>1, <3>2 DEF UpRecord
    <3>4. /\ v.queued = up.queued /\ v.turn = up.turn /\ v.turns = up.turns /\ v.made = up.made
          /\ v.wire = Append(up.wire, n)
      BY <1>0, <3>2 DEF UpRecord
    <3> QED BY <2>1, <3>3, <3>4
  <2> HIDE DEF v
  <2>5. Own(v) = 0 /\ EndedTurns(v) = EndedTurns(up)
    BY <2>1, <2>4 DEF Own, EndedTurns
  <2>6. WireIsHonest(v)
    <3> SUFFICES ASSUME NEW i \in 1..Len(v.wire)
                 PROVE  /\ v.wire[i].m \in {"started", "item"} => v.wire[i].t \in 1..v.turns
                        /\ v.wire[i].m = "completed" => v.wire[i].t \in 1..EndedTurns(v)
      BY DEF WireIsHonest
    <3>1. CASE i \in 1..Len(up.wire)
      <4>1. v.wire[i] = up.wire[i]
        BY <2>3, <2>4, <3>1
      <4> QED BY <1>0, <2>4, <2>5, <3>1, <4>1 DEF Served, WireIsHonest
    <3>2. CASE i = Len(up.wire) + 1
      <4>1. v.wire[i] = n
        BY <2>3, <2>4, <3>2
      <4> QED BY <2>2, <4>1
    <3> QED BY <2>3, <2>4, <3>1, <3>2
  <2>7. Served(v, gens)
    BY <1>0, <2>4, <2>6 DEF Served
  <2> QED BY <2>1, <2>4, <2>5, <2>7, UpstreamFrame DEF RootInd, OwnTurn, QueuedTurn
<1>3. CASE LoseConnection
  <2> DEFINE v == [up EXCEPT !.wire = <<>>]
  <2>1. Upstream(v)
    BY <1>3 DEF LoseConnection
  <2>a. <<>> \in Seq(Message)
    OBVIOUS
  <2>b. v \in UpRecord
    BY <1>0, <2>a DEF UpRecord
  <2>2. /\ v \in UpRecord /\ v.queued = up.queued /\ v.turn = up.turn /\ v.turns = up.turns
        /\ v.made = up.made /\ v.wire = <<>> /\ v.loaded = up.loaded
    BY <1>0, <2>b DEF UpRecord
  <2> HIDE DEF v
  <2>3. Own(v) = Own(up)
    BY <2>2 DEF Own
  <2>4. Served(v, gens)
    BY <1>0, <2>2 DEF Served, WireIsHonest
  <2> QED BY <2>1, <2>2, <2>3, <2>4, UpstreamFrame DEF RootInd, OwnTurn, QueuedTurn
<1> QED BY <1>1, <1>2, <1>3

-----------------------------------------------------------------------------
(* What the service does between the handlers.                              *)

\* Under an open turn the lease is its own: nothing that stops short of a
\* recorded exception may take it.
LEMMA OpenTurn ==
  ASSUME HoldersAssumption, RootInd
  PROVE  /\ Own(up) \notin Excepted \cup {0} =>
              /\ up.turn # 0 /\ up.turn = up.turns /\ up.loaded /\ mainLease.gen # 0
              /\ mainLease.turn = 0 => adm # NoAdm /\ adm.gen = Own(up)
              /\ mainLease.turn # 0 => mainLease.turn = up.turn /\ adm = NoAdm
         /\ up.queued \notin Excepted \cup {0} => up.loaded /\ adm # NoAdm /\ mainLease.gen # 0
         /\ adm # NoAdm =>
              /\ mainLease = [holder |-> adm.holder, gen |-> adm.gen, turn |-> 0]
              /\ mainLease.holder = adm.holder /\ mainLease.gen = adm.gen /\ mainLease.turn = 0
              /\ mainLease # NoLease /\ mainLease.holder # Other
         /\ NoAdm.gen = 0 /\ NoLease.gen = 0 /\ NoLease.turn = 0 /\ NoLease.holder = NoOne
         /\ ~NoAdm.awaiting /\ ~NoAdm.unknown
<1>1. NoAdm.gen = 0 /\ NoLease.gen = 0 /\ NoLease.turn = 0 /\ NoLease.holder = NoOne
      /\ ~NoAdm.awaiting /\ ~NoAdm.unknown
  BY DEF NoAdm, NoLease
<1>2. ASSUME adm # NoAdm
      PROVE  /\ mainLease = [holder |-> adm.holder, gen |-> adm.gen, turn |-> 0]
             /\ mainLease.holder = adm.holder /\ mainLease.gen = adm.gen /\ mainLease.turn = 0
             /\ mainLease # NoLease /\ mainLease.holder # Other
  <2>1. mainLease = [holder |-> adm.holder, gen |-> adm.gen, turn |-> 0] /\ adm.gen # 0 /\ adm.holder \in Chats
    BY <1>2 DEF RootInd, AdmissionHasLease, Shapes
  <2>2. mainLease.holder = adm.holder /\ mainLease.gen = adm.gen /\ mainLease.turn = 0
    BY <2>1
  <2> QED BY <1>1, <2>1, <2>2 DEF HoldersAssumption
<1>3. ASSUME Own(up) \notin Excepted \cup {0}
      PROVE  /\ up.turn # 0 /\ up.turn = up.turns /\ up.loaded /\ mainLease.gen # 0
             /\ mainLease.turn = 0 => adm # NoAdm /\ adm.gen = Own(up)
             /\ mainLease.turn # 0 => mainLease.turn = up.turn /\ adm = NoAdm
  <2>1. up.turn # 0 /\ up.turn = up.turns /\ up.loaded
    BY <1>3 DEF Own, RootInd, Served
  <2>2. /\ mainLease.gen = Own(up)
        /\ (mainLease.turn = 0 /\ adm.gen = Own(up)) \/ mainLease.turn = up.turn
    BY <1>3 DEF RootInd, OwnTurn
  <2> QED BY <1>1, <1>2, <1>3, <2>1, <2>2
<1>4. ASSUME up.queued \notin Excepted \cup {0}
      PROVE  up.loaded /\ adm # NoAdm /\ mainLease.gen # 0
  BY <1>1, <1>4 DEF RootInd, QueuedTurn, Served
<1> QED BY <1>1, <1>2, <1>3, <1>4

\* A lease given up or bound while nothing is open under it.
LEMMA QuietKeepsTurns ==
  ASSUME Own(up) \in Excepted \cup {0}, up.queued \in Excepted \cup {0},
         Excepted \subseteq Excepted', Own(up)' = Own(up), up'.queued = up.queued
  PROVE  OwnTurn' /\ QueuedTurn'
BY DEF OwnTurn, QueuedTurn

\* Cancelling ends exactly the accepted turn and keeps the admission.
LEMMA CancelKeepsInvariant ==
  ASSUME BoundsAssumption, HoldersAssumption, RootInd, NEW b \in Chats, Cancel(b)
  PROVE  RootInd'
<1>1. /\ adm.kind = "prompt" /\ mainLease' = mainLease /\ adm' = [adm EXCEPT !.cand = 0]
      /\ gens' = gens /\ floor' = floor /\ orphans' = orphans /\ Excepted' = Excepted
      /\ adm # NoAdm
  BY DEF Cancel, NoHistory, Excepted, NoAdm
<1>2. /\ adm'.holder = adm.holder /\ adm'.gen = adm.gen /\ adm'.kind = adm.kind
      /\ adm' \in [holder : Chats \cup {NoOne}, gen : 0..gens, kind : Kind,
                   awaiting : BOOLEAN, unknown : BOOLEAN, cand : Turn]
      /\ adm.gen # 0 /\ adm.holder \in Chats
  BY <1>1, Bounds DEF RootInd, Shapes
<1>3. Shapes' /\ AdmissionHasLease' /\ BlankHasAdmission'
  <2>1. Shapes'
    BY <1>1, <1>2 DEF RootInd, Shapes
  <2>2. AdmissionHasLease'
    BY <1>1, <1>2 DEF RootInd, AdmissionHasLease
  <2>3. mainLease = [holder |-> adm.holder, gen |-> adm.gen, turn |-> 0]
    BY <1>1, OpenTurn
  <2>4. BlankHasAdmission'
    BY <1>1, <1>2, <2>3 DEF BlankHasAdmission
  <2> QED BY <2>1, <2>2, <2>4
<1>4. CASE up' = up
  BY <1>1, <1>2, <1>3, <1>4 DEF RootInd, OwnTurn, QueuedTurn
<1>5. CASE adm.cand = up.turn /\ up' = TurnOver(up)
  <2>1. up.turn # 0 /\ gens \in Nat
    BY <1>5 DEF Cancel, RootInd, Shapes, Generation
  <2>2. Served(up', gens') /\ up'.turn = 0 /\ up'.queued = up.queued
    BY <1>1, <1>5, <2>1, TurnOverServed DEF RootInd
  <2>3. Own(up') = 0
    BY <2>2 DEF Own
  <2>4. OwnTurn' /\ QueuedTurn'
    BY <1>1, <2>2, <2>3 DEF RootInd, OwnTurn, QueuedTurn
  <2> QED BY <1>3, <2>2, <2>4 DEF RootInd
<1> QED BY <1>4, <1>5 DEF Cancel

\* Steps that leave the app-server alone and end with a blank or free lease.
FreeLease == mainLease' = NoLease /\ adm' = NoAdm

LEMMA FreeShapes ==
  ASSUME BoundsAssumption, HoldersAssumption, RootInd, FreeLease, gens' = gens, floor' = floor
  PROVE  Shapes' /\ AdmissionHasLease' /\ BlankHasAdmission'
<1>1. gens \in Nat /\ 0 \in Turn
  BY Bounds DEF RootInd, Shapes, Generation
<1>2. NoLease \in [holder : Chats \cup {Other, NoOne}, gen : 0..gens, turn : Turn]
  BY <1>1 DEF NoLease
<1>3. NoAdm \in [holder : Chats \cup {NoOne}, gen : 0..gens, kind : Kind,
                 awaiting : BOOLEAN, unknown : BOOLEAN, cand : Turn]
  BY <1>1 DEF NoAdm, Kind
<1>4. NoLease.holder \notin Chats
  BY DEF NoLease, HoldersAssumption
<1> QED BY <1>2, <1>3, <1>4 DEF FreeLease, RootInd, Shapes, AdmissionHasLease, BlankHasAdmission

\* A lost owner gives up its candidate, or a blank that has no admission.
LEMMA OwnerLossKeepsInvariant ==
  ASSUME BoundsAssumption, HoldersAssumption, RootInd, NEW b \in Chats, OwnerLoss(b)
  PROVE  RootInd'
<1>0. /\ up' = up /\ gens' = gens /\ floor' = floor /\ Excepted' = Excepted /\ Served(up', gens')
  BY DEF OwnerLoss, Excepted, RootInd
<1>1. CASE adm.holder = b /\ adm' = [adm EXCEPT !.cand = 0] /\ UNCHANGED <<mainLease, orphans>>
  <2>1. adm # NoAdm /\ b # NoOne
    BY <1>1 DEF NoAdm, HoldersAssumption
  <2>2. /\ adm'.holder = adm.holder /\ adm'.gen = adm.gen /\ adm'.kind = adm.kind
        /\ adm' \in [holder : Chats \cup {NoOne}, gen : 0..gens, kind : Kind,
                     awaiting : BOOLEAN, unknown : BOOLEAN, cand : Turn]
        /\ adm.gen # 0
    BY <1>1, <2>1, Bounds DEF RootInd, Shapes
  <2>3. Shapes'
    BY <1>0, <1>1, <2>2 DEF RootInd, Shapes
  <2>4. AdmissionHasLease'
    BY <1>1, <2>1, <2>2 DEF RootInd, AdmissionHasLease
  <2>5. mainLease = [holder |-> adm.holder, gen |-> adm.gen, turn |-> 0]
    BY <2>1, OpenTurn
  <2>6. BlankHasAdmission'
    BY <1>1, <2>2, <2>5 DEF BlankHasAdmission
  <2>7. OwnTurn' /\ QueuedTurn'
    BY <1>0, <1>1, <2>2 DEF RootInd, OwnTurn, QueuedTurn
  <2> QED BY <1>0, <2>3, <2>4, <2>6, <2>7 DEF RootInd
<1>2. CASE adm = NoAdm /\ Released(mainLease) /\ UNCHANGED adm
  <2>1. mainLease.turn = 0
    BY <1>2 DEF OwnerLoss, NoAdm, HoldersAssumption
  <2>2. Own(up) \in Excepted \cup {0} /\ up.queued \in Excepted \cup {0}
    BY <1>2, <2>1, OpenTurn
  <2>3. OwnTurn' /\ QueuedTurn'
    BY <1>0, <2>2, QuietKeepsTurns
  <2>4. CASE mainLease' = NoLease
    BY <1>0, <1>2, <2>3, <2>4, FreeShapes DEF FreeLease, RootInd
  <2>5. CASE mainLease' = mainLease /\ orphans' = orphans \cup {mainLease.gen}
    <3>1. Shapes' /\ AdmissionHasLease' /\ BlankHasAdmission'
      BY <1>0, <1>2, <2>5 DEF RootInd, Shapes, AdmissionHasLease, BlankHasAdmission
    <3> QED BY <1>0, <2>3, <3>1 DEF RootInd
  <2> QED BY <1>2, <2>4, <2>5 DEF Released
<1> QED BY <1>1, <1>2 DEF OwnerLoss

LEMMA CompactTimeoutKeepsInvariant ==
  ASSUME BoundsAssumption, HoldersAssumption, RootInd, CompactTimeout
  PROVE  RootInd'
<1>1. /\ adm.kind = "compact" /\ mainLease' = mainLease /\ adm' = [adm EXCEPT !.unknown = TRUE]
      /\ gens' = gens /\ floor' = floor /\ orphans' = orphans /\ Excepted' = Excepted
      /\ adm # NoAdm /\ up' = up
  BY DEF CompactTimeout, NoHistory, Excepted, NoAdm
<1>2. /\ adm'.holder = adm.holder /\ adm'.gen = adm.gen /\ adm'.kind = adm.kind
      /\ adm' \in [holder : Chats \cup {NoOne}, gen : 0..gens, kind : Kind,
                   awaiting : BOOLEAN, unknown : BOOLEAN, cand : Turn]
      /\ adm.gen # 0 /\ adm.holder \in Chats
  BY <1>1 DEF RootInd, Shapes
<1>3. Shapes'
  BY <1>1, <1>2 DEF RootInd, Shapes
<1>4. AdmissionHasLease'
  BY <1>1, <1>2 DEF RootInd, AdmissionHasLease
<1>5. mainLease = [holder |-> adm.holder, gen |-> adm.gen, turn |-> 0]
  BY <1>1, OpenTurn
<1>6. BlankHasAdmission'
  BY <1>1, <1>2, <1>5 DEF BlankHasAdmission
<1>7. OwnTurn' /\ QueuedTurn'
  BY <1>1, <1>2 DEF RootInd, OwnTurn, QueuedTurn
<1> QED BY <1>1, <1>3, <1>4, <1>6, <1>7 DEF RootInd

\* Reconciliation releases only an idle root, and records a compaction that is
\* still queued.
LEMMA ReconcileEffect ==
  ASSUME HoldersAssumption, RootInd, ReconciledTerminal
  PROVE  /\ letgo \subseteq letgo'
         /\ \/ mainLease' = mainLease /\ adm' = adm
            \/ /\ FreeLease /\ up.turn = 0
               /\ up.queued \in Excepted \cup letgo' \cup {0}
<1>1. CASE Reconcilable /\ Inactive /\ mainLease.gen = adm.gen /\ mainLease.turn = 0
  <2>1. letgo' = letgo \cup (IF up.queued = adm.gen /\ adm.unknown THEN {adm.gen} ELSE {})
    BY <1>1 DEF ReconciledTerminal
  <2>2. up.queued \notin Excepted \cup {0} => up.queued = adm.gen /\ adm.unknown
    BY <1>1 DEF Reconcilable, RootInd, QueuedTurn
  <2>3. up.queued \in Excepted \cup letgo' \cup {0}
    BY <2>1, <2>2
  <2>4. (mainLease' = mainLease /\ adm' = adm) \/ FreeLease
    BY <1>1 DEF ReconciledTerminal, FreeLease, Finished
  <2> QED BY <1>1, <2>1, <2>3, <2>4 DEF Inactive
<1>2. CASE ~(Reconcilable /\ Inactive /\ mainLease.gen = adm.gen /\ mainLease.turn = 0)
  BY <1>2 DEF ReconciledTerminal
<1> QED BY <1>1, <1>2

\* The effect of a step on the lease and the admission that keeps the rest of
\* the invariant, when the app-server's turns stay as they are.
LEMMA UnchangedKeepsInvariant ==
  ASSUME RootInd, mainLease' = mainLease, adm' = adm, gens' = gens, floor' = floor,
         orphans \cap {mainLease.gen} \subseteq orphans', Excepted \subseteq Excepted',
         Served(up', gens), Own(up') = Own(up), up'.turn = up.turn, up'.turns = up.turns,
         up'.queued = up.queued
  PROVE  RootInd'
<1>1. Shapes' /\ AdmissionHasLease'
  BY DEF RootInd, Shapes, AdmissionHasLease
<1>2. BlankHasAdmission'
  BY DEF RootInd, BlankHasAdmission
<1>3. OwnTurn' /\ QueuedTurn'
  BY DEF RootInd, OwnTurn, QueuedTurn
<1> QED BY <1>1, <1>2, <1>3 DEF RootInd

\* A lease may end with its admission when nothing unexcepted is open under it.
LEMMA FreeKeepsInvariant ==
  ASSUME BoundsAssumption, HoldersAssumption, RootInd, FreeLease, gens' = gens, floor' = floor,
         Served(up', gens), Own(up') \in Excepted' \cup {0}, up'.queued \in Excepted' \cup {0}
  PROVE  RootInd'
<1>1. Shapes' /\ AdmissionHasLease' /\ BlankHasAdmission'
  BY FreeShapes
<1>2. OwnTurn' /\ QueuedTurn'
  BY DEF OwnTurn, QueuedTurn
<1> QED BY <1>1, <1>2 DEF RootInd

LEMMA QueueReconcileKeepsInvariant ==
  ASSUME BoundsAssumption, HoldersAssumption, RootInd, QueueReconcile
  PROVE  RootInd'
<1>1. /\ up' = up /\ gens' = gens /\ floor' = floor /\ orphans' = orphans
      /\ misbound' = misbound /\ closedLate' = closedLate /\ ReconciledTerminal
  BY DEF QueueReconcile
<1>2. Excepted \subseteq Excepted' /\ letgo' \subseteq Excepted'
  BY <1>1, ReconcileEffect DEF Excepted
<1>3. Served(up', gens)
  BY <1>1 DEF RootInd
<1>4. CASE mainLease' = mainLease /\ adm' = adm
  BY <1>1, <1>2, <1>3, <1>4, UnchangedKeepsInvariant
<1>5. CASE FreeLease /\ up.turn = 0 /\ up.queued \in Excepted \cup letgo' \cup {0}
  <2>1. Own(up') = 0
    BY <1>1, <1>5 DEF Own
  <2> QED BY <1>1, <1>2, <1>3, <1>5, <2>1, FreeKeepsInvariant
<1> QED BY <1>1, <1>4, <1>5, ReconcileEffect

\* Recovery retires a lease only under a turn that is over.
LEMMA RetireKeepsInvariant ==
  ASSUME BoundsAssumption, HoldersAssumption, RootInd, Retire
  PROVE  RootInd'
<1>1. /\ mainLease.turn # 0 /\ mainLease.turn <= EndedTurns(up) /\ mainLease' = NoLease /\ adm' = adm
      /\ up' = up /\ gens' = gens /\ floor' = floor /\ Excepted' = Excepted
  BY DEF Retire, NoHistory, Excepted
<1>2. adm = NoAdm
  BY <1>1, OpenTurn
<1>3. Served(up', gens) /\ up.turns \in Nat
  BY <1>1 DEF RootInd, Served, UpRecord, Turn
<1>4. Own(up) \in Excepted \cup {0}
  <2> SUFFICES ASSUME Own(up) \notin Excepted \cup {0} PROVE FALSE
    OBVIOUS
  <2>1. up.turn # 0 /\ up.turn = up.turns /\ mainLease.turn = up.turn
    BY <1>1, OpenTurn
  <2>2. EndedTurns(up) = up.turns - 1
    BY <2>1 DEF EndedTurns
  <2> QED BY <1>1, <1>3, <2>1, <2>2
<1>5. up.queued \in Excepted \cup {0}
  BY <1>2, OpenTurn
<1>6. FreeLease
  BY <1>1, <1>2 DEF FreeLease
<1> QED BY <1>1, <1>3, <1>4, <1>5, <1>6, FreeKeepsInvariant

LEMMA OtherKeepsInvariant ==
  ASSUME BoundsAssumption, HoldersAssumption, RootInd, OtherAcquires \/ OtherReleases
  PROVE  RootInd'
<1>1. CASE OtherAcquires
  <2> DEFINE l == [holder |-> Other, gen |-> gens + 1, turn |-> 0]
  <2>1. /\ mainLease = NoLease /\ gens < MaxGens /\ mainLease' = l /\ gens' = gens + 1
        /\ floor' = EndedTurns(up) /\ adm' = adm /\ up' = up /\ Excepted' = Excepted
    BY <1>1 DEF OtherAcquires, Excepted
  <2>2. adm = NoAdm /\ gens \in Nat /\ Served(up, gens) /\ MaxGens \in Nat
    BY <2>1, OpenTurn DEF RootInd, Shapes, Generation, BoundsAssumption
  <2>3. Own(up) \in Excepted \cup {0} /\ up.queued \in Excepted \cup {0}
    BY <2>1, <2>2, OpenTurn
  <2>4. OwnTurn' /\ QueuedTurn'
    BY <2>1, <2>3 DEF OwnTurn, QueuedTurn
  <2>5. floor' \in Turn
    BY <2>1, <2>2, Bounds DEF EndedTurns, Served, UpRecord, Turn, BoundsAssumption
  <2>6. gens' \in Nat /\ gens' \in Generation
    BY <2>1, <2>2 DEF Generation
  <2>7. mainLease' \in [holder : Chats \cup {Other, NoOne}, gen : 0..gens', turn : Turn]
    BY <2>1, <2>2, Bounds
  <2>8. adm' \in [holder : Chats \cup {NoOne}, gen : 0..gens', kind : Kind,
                 awaiting : BOOLEAN, unknown : BOOLEAN, cand : Turn]
    BY <2>1, <2>2, <2>6, Bounds DEF NoAdm, Kind
  <2>9. mainLease'.gen # 0 /\ mainLease'.holder = Other
    BY <2>1, <2>2
  <2>10. Shapes' /\ AdmissionHasLease' /\ BlankHasAdmission'
    BY <2>1, <2>2, <2>5, <2>6, <2>7, <2>8, <2>9
       DEF Shapes, AdmissionHasLease, BlankHasAdmission, HoldersAssumption
  <2>11. Served(up', gens')
    BY <2>1, <2>2, SameServed DEF Same, Served
  <2> QED BY <2>4, <2>10, <2>11 DEF RootInd
<1>2. CASE OtherReleases
  <2>1. /\ mainLease.holder = Other /\ mainLease.turn = 0 /\ mainLease' = NoLease /\ adm' = adm
        /\ up' = up /\ gens' = gens /\ floor' = floor /\ Excepted' = Excepted
    BY <1>2 DEF OtherReleases, NoHistory, Excepted
  <2>2. adm = NoAdm
    BY <2>1, OpenTurn
  <2>3. Own(up) \in Excepted \cup {0} /\ up.queued \in Excepted \cup {0}
    BY <2>1, <2>2, OpenTurn
  <2>4. FreeLease /\ Served(up', gens)
    BY <2>1, <2>2 DEF FreeLease, RootInd
  <2> QED BY <2>1, <2>3, <2>4, FreeKeepsInvariant
<1> QED BY <1>1, <1>2

LEMMA BackendResetKeepsInvariant ==
  ASSUME BoundsAssumption, HoldersAssumption, RootInd, RetireBackendEpoch
  PROVE  RootInd'
<1> DEFINE v == [up EXCEPT !.turn = 0, !.queued = 0, !.loaded = FALSE, !.wire = <<>>]
<1>1. FreeLease /\ up' = v /\ gens' = gens /\ floor' = floor
  BY DEF RetireBackendEpoch, NoHistory, FreeLease, Finished
<1>2. up \in UpRecord /\ Served(up, gens) /\ gens \in Nat /\ <<>> \in Seq(Message) /\ 0 \in Turn
  BY Bounds DEF RootInd, Served, Shapes, Generation
<1>3. v \in UpRecord
  BY <1>2 DEF UpRecord
<1>4. v.turn = 0 /\ v.queued = 0 /\ v.turns = up.turns /\ v.made = up.made /\ v.wire = <<>>
  BY <1>2 DEF UpRecord
<1> HIDE DEF v
<1>5. Served(v, gens) /\ Own(v) = 0
  BY <1>2, <1>3, <1>4 DEF Served, WireIsHonest, Own
<1> QED BY <1>1, <1>4, <1>5, FreeKeepsInvariant

-----------------------------------------------------------------------------
(* Notifications.                                                           *)

\* A start binds the blank that waits for it.  If the turn was over at the
\* admission the generation is recorded as misbound.
LEMMA ActivationKeepsInvariant ==
  ASSUME BoundsAssumption, HoldersAssumption, RootInd, NEW t \in Turn, NEW kinds,
         t \in 1..up.turns, ActivateWaiting(t, kinds), gens' = gens, floor' = floor,
         closedLate' = closedLate, letgo' = letgo, orphans' = orphans \cap {mainLease'.gen},
         Served(up', gens), Own(up') = Own(up), up'.turn = up.turn, up'.turns = up.turns,
         up'.queued = up.queued
  PROVE  RootInd'
<1>0. up.turns \in Nat /\ floor \in Nat /\ t # 0
  BY DEF RootInd, Served, UpRecord, Shapes, Turn
<1>1. CASE Waiting /\ adm.kind \in kinds /\ mainLease.gen = adm.gen /\ mainLease.turn = 0
  <2>1. /\ mainLease' = [mainLease EXCEPT !.turn = t] /\ adm' = NoAdm
        /\ misbound' = misbound \cup (IF t <= floor THEN {adm.gen} ELSE {})
    BY <1>1 DEF ActivateWaiting, Finished
  <2>2. /\ Excepted \subseteq Excepted'
        /\ t <= floor => mainLease.gen \in Excepted'
    BY <1>1, <2>1 DEF Excepted
  <2>3. adm # NoAdm
    BY <1>1 DEF Waiting, NoAdm
  <2>4. /\ mainLease'.turn = t /\ mainLease'.gen = mainLease.gen /\ mainLease'.holder = mainLease.holder
        /\ mainLease' \in [holder : Chats \cup {Other, NoOne}, gen : 0..gens, turn : Turn]
    BY <2>1 DEF RootInd, Shapes
  <2>5. mainLease.gen # 0 /\ mainLease.holder # NoOne
    BY <2>3, OpenTurn DEF RootInd, Shapes
  <2>6. adm' \in [holder : Chats \cup {NoOne}, gen : 0..gens, kind : Kind,
                 awaiting : BOOLEAN, unknown : BOOLEAN, cand : Turn]
    <3>1. gens \in Nat
      BY DEF RootInd, Shapes, Generation
    <3> QED BY <2>1, <3>1, Bounds DEF NoAdm, Kind
  <2>7. Shapes'
    BY <2>1, <2>4, <2>5, <2>6 DEF RootInd, Shapes
  <2>8. AdmissionHasLease' /\ BlankHasAdmission'
    BY <1>0, <2>1, <2>4 DEF AdmissionHasLease, BlankHasAdmission
  <2>9. OwnTurn'
    <3> SUFFICES ASSUME Own(up') \notin Excepted' \cup {0}
                 PROVE  mainLease'.gen = Own(up') /\ floor' = up'.turn - 1 /\ mainLease'.turn = up'.turn
      BY DEF OwnTurn
    <3>1. /\ mainLease.gen = Own(up) /\ floor = up.turn - 1 /\ up.turn = up.turns
      BY <2>2, OpenTurn DEF RootInd, OwnTurn
    <3>2. t > floor
      BY <1>0, <2>2, <3>1
    <3> QED BY <1>0, <2>4, <3>1, <3>2
  <2>10. QueuedTurn'
    <3> SUFFICES ASSUME up'.queued \notin Excepted' \cup {0} PROVE FALSE
      BY DEF QueuedTurn
    <3>1. mainLease.gen = up.queued /\ floor = up.turns
      BY <2>2 DEF RootInd, QueuedTurn
    <3> QED BY <1>0, <2>2, <3>1
  <2> QED BY <2>7, <2>8, <2>9, <2>10 DEF RootInd
<1>2. CASE /\ ~(Waiting /\ adm.kind \in kinds /\ mainLease.gen = adm.gen /\ mainLease.turn = 0)
           /\ mainLease.holder = Other /\ mainLease.turn = 0 /\ "prompt" \in kinds
  <2>1. mainLease' = [mainLease EXCEPT !.turn = t] /\ adm' = adm /\ Excepted' = Excepted
    BY <1>2 DEF ActivateWaiting, Excepted
  <2>2. adm = NoAdm
    BY <1>2, OpenTurn
  <2>3. Own(up) \in Excepted \cup {0} /\ up.queued \in Excepted \cup {0}
    BY <1>2, <2>2, OpenTurn
  <2>4. /\ mainLease'.gen = mainLease.gen /\ mainLease'.holder = Other
        /\ mainLease' \in [holder : Chats \cup {Other, NoOne}, gen : 0..gens, turn : Turn]
    BY <1>2, <2>1 DEF RootInd, Shapes
  <2>5. mainLease.gen # 0 /\ Other # NoOne /\ Other \notin Chats
    BY <1>2 DEF RootInd, Shapes, NoLease, HoldersAssumption
  <2>6. Shapes' /\ AdmissionHasLease' /\ BlankHasAdmission'
    BY <2>1, <2>2, <2>4, <2>5 DEF RootInd, Shapes, AdmissionHasLease, BlankHasAdmission
  <2>7. OwnTurn' /\ QueuedTurn'
    BY <2>1, <2>3, QuietKeepsTurns
  <2> QED BY <2>6, <2>7 DEF RootInd
<1>3. CASE /\ ~(Waiting /\ adm.kind \in kinds /\ mainLease.gen = adm.gen /\ mainLease.turn = 0)
           /\ ~(mainLease.holder = Other /\ mainLease.turn = 0 /\ "prompt" \in kinds)
  <2>1. mainLease' = mainLease /\ adm' = adm /\ Excepted' = Excepted
    BY <1>3 DEF ActivateWaiting, Excepted
  <2> QED BY <2>1, UnchangedKeepsInvariant
<1> QED BY <1>1, <1>2, <1>3

\* The completion of an older turn finds a lease of its own or none.
LEMMA CompletionKeepsInvariant ==
  ASSUME BoundsAssumption, HoldersAssumption, RootInd, NEW t, t \in 1..EndedTurns(up), Completed(t),
         gens' = gens, floor' = floor, closedLate' = closedLate, letgo' = letgo,
         orphans' = orphans \cap {mainLease'.gen},
         Served(up', gens), Own(up') = Own(up), up'.turn = up.turn, up'.turns = up.turns,
         up'.queued = up.queued
  PROVE  RootInd'
<1>1. adm' = adm /\ Excepted' = Excepted
  BY DEF Completed, Excepted
<1>2. CASE mainLease.turn = t
  <2>1. up.turns \in Nat /\ t # 0 /\ mainLease' = NoLease
    BY <1>2 DEF RootInd, Served, UpRecord, Turn, Completed
  <2>2. adm = NoAdm
    BY <1>2, <2>1, OpenTurn
  <2>3. Own(up) \in Excepted \cup {0}
    <3> SUFFICES ASSUME Own(up) \notin Excepted \cup {0} PROVE FALSE
      OBVIOUS
    <3>1. up.turn # 0 /\ up.turn = up.turns /\ mainLease.turn = up.turn
      BY <1>2, <2>1, OpenTurn
    <3>2. EndedTurns(up) = up.turns - 1
      BY <3>1 DEF EndedTurns
    <3> QED BY <1>2, <2>1, <3>1, <3>2
  <2>4. up.queued \in Excepted \cup {0}
    BY <2>2, OpenTurn
  <2>5. FreeLease
    BY <1>1, <2>1, <2>2 DEF FreeLease
  <2> QED BY <1>1, <2>3, <2>4, <2>5, FreeKeepsInvariant
<1>3. CASE mainLease.turn # t
  <2>1. mainLease' = mainLease
    BY <1>3 DEF Completed
  <2> QED BY <1>1, <2>1, UnchangedKeepsInvariant
<1> QED BY <1>2, <1>3

LEMMA DeliverKeepsInvariant ==
  ASSUME BoundsAssumption, HoldersAssumption, RootInd, Deliver
  PROVE  RootInd'
<1> DEFINE n == Head(up.wire)
<1>1. /\ up.wire # <<>> /\ up' = [up EXCEPT !.wire = Tail(@)]
      /\ orphans' = orphans \cap {mainLease'.gen} /\ gens' = gens /\ floor' = floor
      /\ Served(up, gens) /\ gens \in Nat
  BY DEF Deliver, RootInd, Shapes, Generation
<1>2. /\ Served(up', gens) /\ Own(up') = Own(up) /\ up'.turn = up.turn /\ up'.turns = up.turns
      /\ up'.queued = up.queued
  BY <1>1, TailServed
<1>3. /\ n.m \in {"started", "item"} => n.t \in 1..up.turns
      /\ n.m = "completed" => n.t \in 1..EndedTurns(up)
  BY <1>1, HeadServed
<1>4. up.turns \in Nat /\ up.turns \in Turn /\ \A t \in 1..up.turns : t \in Turn
  BY <1>1 DEF Served, UpRecord, Turn, BoundsAssumption
<1> HIDE DEF n
<1>5. CASE n.m = "started" /\ ActivateWaiting(n.t, Kind) /\ UNCHANGED <<closedLate, letgo>>
  BY <1>1, <1>2, <1>3, <1>4, <1>5, ActivationKeepsInvariant
<1>6. CASE n.m = "item" /\ ActivateWaiting(n.t, {"compact"}) /\ UNCHANGED <<closedLate, letgo>>
  BY <1>1, <1>2, <1>3, <1>4, <1>6, ActivationKeepsInvariant
<1>7. CASE n.m = "completed" /\ Completed(n.t) /\ UNCHANGED <<closedLate, letgo>>
  BY <1>1, <1>2, <1>3, <1>7, CompletionKeepsInvariant
<1>8. CASE n.m = "status" /\ (ReconciledTerminal \/ ReadFails) /\ UNCHANGED <<misbound, closedLate>>
  <2>1. CASE ReadFails
    <3>1. mainLease' = mainLease /\ adm' = adm /\ Excepted' = Excepted
      BY <1>8, <2>1 DEF ReadFails, Excepted
    <3> QED BY <1>1, <1>2, <3>1, UnchangedKeepsInvariant
  <2>2. CASE ReconciledTerminal
    <3>1. Excepted \subseteq Excepted' /\ letgo' \subseteq Excepted'
      BY <1>8, <2>2, ReconcileEffect DEF Excepted
    <3>2. CASE mainLease' = mainLease /\ adm' = adm
      BY <1>1, <1>2, <3>1, <3>2, UnchangedKeepsInvariant
    <3>3. CASE FreeLease /\ up.turn = 0 /\ up.queued \in Excepted \cup letgo' \cup {0}
      <4>1. Own(up') = 0
        BY <1>2, <3>3 DEF Own
      <4> QED BY <1>1, <1>2, <3>1, <3>3, <4>1, FreeKeepsInvariant
    <3> QED BY <2>2, <3>2, <3>3, ReconcileEffect
  <2> QED BY <1>8, <2>1, <2>2
<1>9. CASE n.m = "closed" /\ ThreadClosed /\ UNCHANGED <<misbound, letgo>>
  <2>1. FreeLease /\ closedLate' = closedLate \cup (IF up.loaded THEN {mainLease.gen} \ {0} ELSE {})
    BY <1>9 DEF ThreadClosed, FreeLease, Finished
  <2>2. Excepted \subseteq Excepted' /\ (up.loaded /\ mainLease.gen # 0 => mainLease.gen \in Excepted')
    BY <1>9, <2>1 DEF Excepted
  <2>3. Own(up) \in Excepted' \cup {0}
    <3>1. Own(up) \notin Excepted \cup {0} => up.loaded /\ mainLease.gen # 0 /\ mainLease.gen = Own(up)
      BY OpenTurn DEF RootInd, OwnTurn
    <3> QED BY <2>2, <3>1
  <2>4. up.queued \in Excepted' \cup {0}
    <3>1. up.queued \notin Excepted \cup {0} => up.loaded /\ mainLease.gen # 0 /\ mainLease.gen = up.queued
      BY OpenTurn DEF RootInd, QueuedTurn
    <3> QED BY <2>2, <3>1
  <2> QED BY <1>1, <1>2, <2>1, <2>3, <2>4, FreeKeepsInvariant
<1>10. CASE ReleaseRaises /\ UNCHANGED <<misbound, closedLate, letgo>>
  <2>1. mainLease' = mainLease /\ adm' = adm /\ Excepted' = Excepted
    BY <1>10 DEF ReleaseRaises, Excepted
  <2> QED BY <1>1, <1>2, <2>1, UnchangedKeepsInvariant
<1> QED BY <1>5, <1>6, <1>7, <1>8, <1>9, <1>10 DEF Deliver, n

-----------------------------------------------------------------------------
LEMMA InitKeepsInvariant == BoundsAssumption /\ HoldersAssumption /\ RootInit => RootInd
<1> SUFFICES ASSUME BoundsAssumption, HoldersAssumption, RootInit PROVE RootInd
  OBVIOUS
<1>1. /\ mainLease = NoLease /\ adm = NoAdm /\ gens = 0 /\ floor = 0
      /\ up \in [turn : {0}, turns : {0}, made : {<<>>}, queued : {0}, closes : {0},
                 loaded : BOOLEAN, goal : {"none", "paused", "active"}, wire : {<<>>}]
  BY DEF RootInit
<1>2. /\ up.turn = 0 /\ up.turns = 0 /\ up.made = <<>> /\ up.queued = 0 /\ up.wire = <<>>
  BY <1>1
<1>3. <<>> \in Seq(Nat) /\ <<>> \in Seq(Message) /\ 0 \in Turn /\ 0 \in Generation /\ 0 \in 0..0
  BY Bounds
<1>4. up \in UpRecord
  <2>1. /\ {0} \subseteq Turn /\ {0} \subseteq Nat
        /\ {<<>>} \subseteq Seq(Nat) /\ {<<>>} \subseteq Seq(Message)
    BY <1>3
  <2> QED BY <1>1, <2>1, Zenon DEF UpRecord
<1>5. Served(up, gens)
  BY <1>1, <1>2, <1>4 DEF Served, WireIsHonest
<1>6. Shapes
  BY <1>1, <1>3 DEF Shapes, NoLease, NoAdm, Kind
<1>7. OwnTurn /\ QueuedTurn
  BY <1>2 DEF OwnTurn, QueuedTurn, Own
<1>8. AdmissionHasLease /\ BlankHasAdmission
  BY <1>1 DEF AdmissionHasLease, BlankHasAdmission, NoLease, HoldersAssumption
<1> QED BY <1>5, <1>6, <1>7, <1>8 DEF RootInd

LEMMA StutterKeepsInvariant ==
  ASSUME RootInd, UNCHANGED rootVars
  PROVE  RootInd'
<1>1. /\ mainLease' = mainLease /\ adm' = adm /\ up' = up /\ gens' = gens /\ floor' = floor
      /\ orphans' = orphans /\ Excepted' = Excepted
  BY DEF rootVars, Excepted
<1> QED BY <1>1, UnchangedKeepsInvariant DEF RootInd

LEMMA NextKeepsInvariant ==
  ASSUME BoundsAssumption, HoldersAssumption, RootInd, [RootNext]_rootVars
  PROVE  RootInd'
<1>1. ASSUME NEW b \in Chats,
             \/ Prompt(b) \/ Compact(b) \/ ClearGoal(b) \/ AttachBinding(b)
             \/ \E s \in {"active", "paused"} : MutateGoal(b, s)
             \/ \E p \in BOOLEAN : ResumeThread(b, p) \/ ResumeGoal(b, p)
      PROVE  RootInd'
  BY <1>1, HandlerKeepsInvariant
<1>2. ASSUME NEW b \in Chats, Cancel(b) \/ OwnerLoss(b)
      PROVE  RootInd'
  BY <1>2, CancelKeepsInvariant, OwnerLossKeepsInvariant
<1>3. CASE Handler
  BY <1>1, <1>2, <1>3 DEF Handler
<1>4. CASE CompactTimeout \/ QueueReconcile \/ Retire \/ Deliver
  BY <1>4, CompactTimeoutKeepsInvariant, QueueReconcileKeepsInvariant, RetireKeepsInvariant,
     DeliverKeepsInvariant
<1>5. CASE EndTurn \/ StartElsewhere \/ CompactBegins
  BY <1>5, EndTurnKeepsInvariant, StartElsewhereKeepsInvariant, CompactBeginsKeepsInvariant
<1>6. CASE CompactDropped \/ ThreadUnloaded \/ LoseConnection
  BY <1>6, QuietUpstreamKeepsInvariant
<1>7. CASE OtherAcquires \/ OtherReleases \/ RetireBackendEpoch
  BY <1>7, OtherKeepsInvariant, BackendResetKeepsInvariant
<1>8. CASE UNCHANGED rootVars
  BY <1>8, StutterKeepsInvariant
<1> QED BY <1>3, <1>4, <1>5, <1>6, <1>7, <1>8 DEF RootNext

\* A submission of a Feishu binding and its lease live and end together: what
\* FeishuRootOperationController promises of admissions, blank leases and the
\* turns they produce, whatever RPCs fail, notifications are late or lost, and
\* releases cannot be confirmed.
THEOREM RootSafety ==
  ASSUME BoundsAssumption, HoldersAssumption
  PROVE  RootSpec => []RootInvariant
<1>1. RootInit => RootInd
  BY InitKeepsInvariant
<1>2. RootInd /\ [RootNext]_rootVars => RootInd'
  BY NextKeepsInvariant
<1>3. RootInd => RootInvariant
  BY RootIndImplies
<1> QED BY <1>1, <1>2, <1>3, PTL DEF RootSpec

-----------------------------------------------------------------------------
(* Bindings: the inductive invariant.  What the owner transaction keeps     *)
(* (OwnerInv) is separated from what it means for the runtime of a thread. *)

ResidentRecord == [in : BOOLEAN, th : Threads \cup {NoThread}, att : BOOLEAN, turn : BOOLEAN]
StoredRecord == [th : Threads \cup {NoThread}, att : BOOLEAN]
SessionRecord == [b : Bindings \cup {NoThread}, th : Threads \cup {NoThread}, att : BOOLEAN]

\* A binding that is not resident is blank, an attached one has a thread.
Well(r) ==
  /\ r \in ResidentRecord
  /\ ~r.in => r.th = NoThread /\ ~r.att /\ ~r.turn
  /\ r.att => r.th # NoThread

\* A reserved owner loss has its subject.
Subject(b) ==
  /\ reserved[b] # "" => res[b].in
  /\ reserved[b] = "detached" => res[b].att
  /\ reserved[b] = "terminal" => res[b].th # NoThread

\* The bindings S may lose their owner for this reason.
HasSubjects(S, reason) ==
  \A b \in S : /\ res[b].in
               /\ reason = "detached" => res[b].att
               /\ reason = "terminal" => res[b].th # NoThread

OwnerTypes ==
  /\ res \in [Bindings -> ResidentRecord] /\ \A b \in Bindings : Well(res[b])
  /\ disk \in [Bindings -> StoredRecord] /\ torn \subseteq Bindings
  /\ subs \in [Threads -> SUBSET Bindings] /\ reserved \in [Bindings -> Reasons \cup {""}]
  /\ held \in SessionRecord /\ (held # NoSession => held.b \in Bindings)

OwnerInv ==
  /\ OwnerTypes
  /\ SubscribersAreAttached /\ DiskMatches /\ HeldIsExact
  /\ \A b \in Bindings : Subject(b)

OutsideTypes ==
  /\ serving \in BOOLEAN /\ conn \in BOOLEAN
  /\ live \subseteq Threads /\ leased \subseteq Threads /\ web \subseteq Threads
  /\ kept \subseteq Threads /\ status \in [Threads -> {"live", "archived", "deleted"}]

\* A terminal loss is about a thread that has ended.
TerminalIsOver == \A b \in Bindings : reserved[b] = "terminal" => status[res[b].th] # "live"

RuntimeInv == OutsideTypes /\ AttachedIsCovered /\ LeaseHasReason /\ TerminalIsOver

\* Nothing is resident while the service is down.
Rested ==
  ~serving =>
    /\ ~conn /\ torn = {} /\ held = NoSession
    /\ res = [b \in Bindings |-> NoRes] /\ subs = [t \in Threads |-> {}]
    /\ reserved = [b \in Bindings |-> ""]
    /\ live = {} /\ leased = {} /\ web = {} /\ kept = {}

BindingsInd == OwnerInv /\ RuntimeInv /\ Rested

-----------------------------------------------------------------------------
(* The records of the model *)

\* The blank records are what their fields say.
LEMMA BlankRecords ==
  ASSUME BindingConstants
  PROVE  /\ NoRes \in ResidentRecord /\ Default \in ResidentRecord
         /\ ~NoRes.in /\ NoRes.th = NoThread /\ ~NoRes.att /\ ~NoRes.turn
         /\ Default.in /\ Default.th = NoThread /\ ~Default.att /\ ~Default.turn
         /\ Well(NoRes) /\ Well(Default)
         /\ NoRecord \in StoredRecord /\ NoSession \in SessionRecord
<1>1. /\ NoRes \in ResidentRecord /\ Default \in ResidentRecord
      /\ ~NoRes.in /\ NoRes.th = NoThread /\ ~NoRes.att /\ ~NoRes.turn
      /\ Default.in /\ Default.th = NoThread /\ ~Default.att /\ ~Default.turn
  BY DEF NoRes, Default, ResidentRecord
<1>2. Well(NoRes) /\ Well(Default)
  BY <1>1 DEF Well
<1>3. NoRecord \in StoredRecord /\ NoSession \in SessionRecord
  BY DEF NoRecord, NoSession, StoredRecord, SessionRecord
<1> QED BY <1>1, <1>2, <1>3

\* What is stored of a resident record is a record, and depends on it alone.
LEMMA StoredRecords ==
  ASSUME NEW r \in ResidentRecord
  PROVE  StoredOf(r) \in StoredRecord /\ StoredOf(r).th = r.th /\ StoredOf(r).att = r.att
BY DEF StoredOf, StoredRecord, ResidentRecord

\* A record that loses its attachment, or ends its turn, is still one.
LEMMA DetachedRecords ==
  ASSUME NEW r, Well(r)
  PROVE  LET d == [r EXCEPT !.att = FALSE]
         IN  Well(d) /\ d.in = r.in /\ d.th = r.th /\ d.att = FALSE /\ d.turn = r.turn
<1> DEFINE d == [r EXCEPT !.att = FALSE]
<1>1. d \in ResidentRecord /\ d.in = r.in /\ d.th = r.th /\ d.att = FALSE /\ d.turn = r.turn
  BY DEF Well, ResidentRecord
<1>2. Well(d)
  BY <1>1 DEF Well
<1> QED BY <1>1, <1>2

\* The record of a binding that is bound and attached.
LEMMA BoundRecords ==
  ASSUME NEW b, NEW t \in Threads, NEW turn \in BOOLEAN, BindingConstants
  PROVE  LET r == BoundRes(b, t, turn)
         IN  Well(r) /\ r.in /\ r.th = t /\ r.att /\ r.turn = turn
<1> DEFINE r == BoundRes(b, t, turn)
<1>1. r \in ResidentRecord /\ r.in /\ r.th = t /\ r.att /\ r.turn = turn
  BY DEF BoundRes, Default, NoRes, ResidentRecord
<1>2. t # NoThread
  BY DEF BindingConstants
<1>3. Well(r)
  BY <1>1, <1>2 DEF Well
<1> QED BY <1>1, <1>3

-----------------------------------------------------------------------------
(* The owner transaction *)

\* A committed transaction leaves its bindings as it says, unreserved and
\* registered, and every other one as it was.
LEMMA CommitKeeps ==
  ASSUME BindingConstants, OwnerInv, UNCHANGED serving,
         NEW S \in SUBSET Bindings, NEW r, \A b \in S : Well(r[b]), Commit(S, r)
  PROVE  /\ OwnerInv'
         /\ \A b \in Bindings : res'[b] = IF b \in S THEN r[b] ELSE res[b]
         /\ \A b \in Bindings : reserved'[b] = IF b \in S THEN "" ELSE reserved[b]
         /\ \A t \in Threads : subs[t] \ S \subseteq subs'[t]
         /\ \A t \in Threads, b \in S : r[b].att /\ r[b].th = t => b \in subs'[t]
<1>0. /\ res \in [Bindings -> ResidentRecord] /\ \A b \in Bindings : Well(res[b])
      /\ disk \in [Bindings -> StoredRecord] /\ torn \subseteq Bindings
      /\ subs \in [Threads -> SUBSET Bindings] /\ reserved \in [Bindings -> Reasons \cup {""}]
      /\ held \in SessionRecord /\ (held # NoSession => held.b \in Bindings)
      /\ SubscribersAreAttached /\ DiskMatches /\ HeldIsExact
      /\ \A b \in Bindings : Subject(b)
  BY DEF OwnerInv, OwnerTypes
<1>disk. \A b \in Bindings : disk'[b] = IF b \in S THEN StoredOf(r[b]) ELSE disk[b]
  BY DEF Commit
<1>res. \A b \in Bindings : res'[b] = IF b \in S THEN r[b] ELSE res[b]
  BY DEF Commit
<1>pin. \A b \in Bindings : reserved'[b] = IF b \in S THEN "" ELSE reserved[b]
  BY DEF Commit, Advance
<1>subs. \A t \in Threads : subs'[t] = (subs[t] \ S) \cup {b \in S : r[b].att /\ r[b].th = t}
  BY DEF Commit, Registry
<1>held. held' = IF held.b \in S THEN NoSession ELSE held
  BY DEF Commit, Advance
<1>torn. torn' = torn \ S
  BY DEF Commit
<1>2. \A b \in S : r[b] \in ResidentRecord /\ StoredOf(r[b]) \in StoredRecord
  BY StoredRecords DEF Well
<1>3. /\ disk' = [b \in Bindings |-> disk'[b]] /\ res' = [b \in Bindings |-> res'[b]]
      /\ reserved' = [b \in Bindings |-> reserved'[b]] /\ subs' = [t \in Threads |-> subs'[t]]
  BY DEF Commit, Advance, Registry
<1>4. OwnerTypes'
  <2>1. res' \in [Bindings -> ResidentRecord] /\ \A b \in Bindings : Well(res'[b])
    BY <1>0, <1>res, <1>pin, <1>subs, <1>disk, <1>held, <1>torn, <1>2, <1>3
  <2>2. disk' \in [Bindings -> StoredRecord] /\ torn' \subseteq Bindings
    <3>1. \A b \in Bindings : disk'[b] \in StoredRecord
      BY <1>0, <1>disk, <1>2
    <3> QED BY <3>1, <1>0, <1>res, <1>pin, <1>subs, <1>disk, <1>held, <1>torn, <1>3
  <2>3. subs' \in [Threads -> SUBSET Bindings]
    <3>1. \A t \in Threads : subs'[t] \subseteq Bindings
      BY <1>0, <1>res, <1>pin, <1>subs, <1>disk, <1>held, <1>torn
    <3> QED BY <3>1, <1>3
  <2>4. reserved' \in [Bindings -> Reasons \cup {""}]
    <3>1. \A b \in Bindings : reserved'[b] \in Reasons \cup {""}
      BY <1>0, <1>res, <1>pin, <1>subs, <1>disk, <1>held, <1>torn
    <3> QED BY <3>1, <1>3
  <2>5. held' \in SessionRecord /\ (held' # NoSession => held'.b \in Bindings)
    BY <1>0, <1>res, <1>pin, <1>subs, <1>disk, <1>held, <1>torn, BlankRecords
  <2> QED BY <2>1, <2>2, <2>3, <2>4, <2>5 DEF OwnerTypes
<1>5. SubscribersAreAttached'
  <2>1. ASSUME NEW t \in Threads, NEW b \in Bindings
        PROVE  b \in subs'[t] <=> res'[b].att /\ res'[b].th = t
    <3>1. b \in subs[t] <=> res[b].att /\ res[b].th = t
      BY <1>0 DEF SubscribersAreAttached, Attached
    <3>2. CASE b \in S
      BY <3>2, <1>res, <1>subs
    <3>3. CASE b \notin S
      BY <3>1, <3>3, <1>res, <1>subs
    <3> QED BY <3>2, <3>3
  <2>2. \A t \in Threads : subs'[t] \subseteq Bindings
    BY <1>4 DEF OwnerTypes
  <2> QED BY <2>1, <2>2 DEF SubscribersAreAttached, Attached
<1>6. DiskMatches'
  BY <1>0, <1>res, <1>pin, <1>subs, <1>disk, <1>held, <1>torn DEF DiskMatches
<1>7. HeldIsExact'
  BY <1>0, <1>res, <1>pin, <1>subs, <1>disk, <1>held, <1>torn DEF HeldIsExact
<1>8. \A b \in Bindings : Subject(b)'
  BY <1>0, <1>res, <1>pin, <1>subs, <1>disk, <1>held, <1>torn DEF Subject
<1> QED BY <1>res, <1>pin, <1>subs, <1>disk, <1>held, <1>torn, <1>4, <1>5, <1>6, <1>7, <1>8 DEF OwnerInv

\* A failed transaction reserves bindings for its reason and may write
\* records that are known to be wrong.
LEMMA PinKeeps ==
  ASSUME OwnerInv, UNCHANGED <<serving, res, subs, held>>,
         NEW S \in SUBSET Bindings, NEW reason \in Reasons, Pin(S, reason),
         HasSubjects(S, reason),
         disk' \in [Bindings -> StoredRecord], torn' \subseteq Bindings,
         serving => \A b \in Bindings \ torn' : disk'[b] = StoredOf(res[b])
  PROVE  /\ OwnerInv'
         /\ \A b \in Bindings : reserved'[b] = IF b \in S THEN reason ELSE reserved[b]
<1> USE DEF OwnerInv, OwnerTypes
<1>1. /\ \A b \in Bindings : reserved'[b] = IF b \in S THEN reason ELSE reserved[b]
      /\ reserved' = [b \in Bindings |-> reserved'[b]]
  BY DEF Pin
<1>2. reserved' \in [Bindings -> Reasons \cup {""}]
  <2>1. \A b \in Bindings : reserved'[b] \in Reasons \cup {""}
    BY <1>1
  <2> QED BY <2>1, <1>1
<1>3. OwnerTypes'
  BY <1>2
<1>4. SubscribersAreAttached' /\ HeldIsExact'
  BY DEF SubscribersAreAttached, Attached, HeldIsExact
<1>5. DiskMatches'
  BY DEF DiskMatches
<1>6. \A b \in Bindings : Subject(b)'
  BY <1>1 DEF Subject, HasSubjects, Reasons
<1> QED BY <1>1, <1>3, <1>4, <1>5, <1>6

\* At most bindings of S are newly reserved, and for the reason.
PinnedFor(S, reason) ==
  \A b \in Bindings : \/ reserved'[b] = reserved[b]
                      \/ b \in S /\ reserved'[b] = reason /\ reserved[b] \in {"", reason}

\* The two ways a settlement of several bindings fails.
LEMMA SettleFailsKeeps ==
  ASSUME OwnerInv, UNCHANGED serving, NEW S \in SUBSET Bindings, NEW reason \in Reasons,
         SettleFails(S, reason),
         HasSubjects(S, reason)
  PROVE  /\ OwnerInv' /\ UNCHANGED <<res, disk, torn, subs, held>>
         /\ PinnedFor(S, reason)
<1>1. PICK P \in SUBSET {b \in S : reserved[b] \in {"", reason}} : Pin(P, reason)
  BY DEF SettleFails
<1>2. UNCHANGED <<res, disk, torn, subs, held>>
  BY DEF SettleFails
<1>3. /\ OwnerInv'
      /\ \A b \in Bindings : reserved'[b] = IF b \in P THEN reason ELSE reserved[b]
  <2>1. disk' \in [Bindings -> StoredRecord] /\ torn' \subseteq Bindings
    BY <1>2 DEF OwnerInv, OwnerTypes
  <2>2. serving => \A b \in Bindings \ torn' : disk'[b] = StoredOf(res[b])
    BY <1>2 DEF OwnerInv, DiskMatches
  <2>3. P \in SUBSET Bindings /\ P \subseteq S
    OBVIOUS
  <2>4. HasSubjects(P, reason)
    BY <2>3 DEF HasSubjects
  <2>5. UNCHANGED <<serving, res, subs, held>>
    BY <1>2
  <2> QED BY <1>1, <2>1, <2>2, <2>3, <2>4, <2>5, PinKeeps
<1> QED BY <1>1, <1>2, <1>3 DEF PinnedFor

LEMMA SaveFailsKeeps ==
  ASSUME OwnerInv, UNCHANGED serving, NEW S \in SUBSET Bindings, NEW reason \in Reasons,
         NEW record \in [Bindings -> StoredRecord], SaveFails(S, reason, record),
         HasSubjects(S, reason)
  PROVE  /\ OwnerInv' /\ UNCHANGED <<res, subs, held>>
         /\ PinnedFor(S, reason)
<1>1. UNCHANGED <<res, subs, held>> /\ Pin(S, reason) /\ Settles(S, reason)
  BY DEF SaveFails
<1>2. PICK A \in SUBSET S : \E R \in SUBSET (IF Cardinality(S) > 1 THEN A ELSE {}) :
        /\ disk' = [b \in Bindings |-> IF b \in R THEN record[b]
                                       ELSE IF b \in A THEN StoredOf(res[b]) ELSE disk[b]]
        /\ torn' = (torn \ A) \cup R
  BY DEF SaveFails
<1>3. PICK R \in SUBSET (IF Cardinality(S) > 1 THEN A ELSE {}) :
        /\ disk' = [b \in Bindings |-> IF b \in R THEN record[b]
                                       ELSE IF b \in A THEN StoredOf(res[b]) ELSE disk[b]]
        /\ torn' = (torn \ A) \cup R
  BY <1>2
<1>4. R \subseteq Bindings
  <2>1. R \subseteq A
    OBVIOUS
  <2> QED BY <2>1
<1>5. \A b \in Bindings : StoredOf(res[b]) \in StoredRecord
  BY StoredRecords DEF OwnerInv, OwnerTypes
<1>6. disk' \in [Bindings -> StoredRecord] /\ torn' \subseteq Bindings
  BY <1>3, <1>4, <1>5 DEF OwnerInv, OwnerTypes
<1>7. serving => \A b \in Bindings \ torn' : disk'[b] = StoredOf(res[b])
  BY <1>3 DEF OwnerInv, DiskMatches
<1>8. /\ OwnerInv'
      /\ \A b \in Bindings : reserved'[b] = IF b \in S THEN reason ELSE reserved[b]
  BY <1>1, <1>6, <1>7, PinKeeps
<1> QED BY <1>1, <1>8 DEF Settles, PinnedFor

-----------------------------------------------------------------------------
(* What a step leaves of the runtime of a thread *)

\* The threads T may be lost once the bindings S have moved: nobody else is
\* attached to one that goes on.
LEMMA CommitCovers ==
  ASSUME BindingConstants, OwnerInv, RuntimeInv, UNCHANGED serving, conn' => conn,
         NEW S \in SUBSET Bindings, NEW r, \A b \in S : Well(r[b]), Commit(S, r),
         NEW T, live \ T \subseteq live', leased \ T \subseteq leased',
         \A t \in Threads : status[t] # "live" => status'[t] # "live",
         \A b \in S : r[b].att => r[b].th \in live' \cap leased',
         \A b \in Bindings \ S : res[b].att /\ res[b].th \in T => status'[res[b].th] # "live"
  PROVE  AttachedIsCovered' /\ TerminalIsOver'
<1>1. /\ \A b \in Bindings : res'[b] = IF b \in S THEN r[b] ELSE res[b]
      /\ \A b \in Bindings : reserved'[b] = IF b \in S THEN "" ELSE reserved[b]
  BY CommitKeeps
<1>2. \A b \in Bindings : /\ res[b].th \in Threads \cup {NoThread}
                          /\ res[b].att => res[b].th # NoThread
                          /\ reserved[b] = "terminal" => res[b].th # NoThread
  BY DEF OwnerInv, OwnerTypes, Well, ResidentRecord, Subject
<1>3. AttachedIsCovered'
  <2> SUFFICES ASSUME NEW b \in Bindings, res'[b].att, conn', status'[res'[b].th] = "live",
                      reserved'[b] # "detached"
               PROVE  res'[b].th \in live' \cap leased'
    BY DEF AttachedIsCovered
  <2>1. CASE b \in S
    BY <2>1, <1>1
  <2>2. CASE b \notin S
    <3>1. res'[b] = res[b] /\ reserved'[b] = reserved[b]
      BY <2>2, <1>1
    <3>2. res[b].th \in Threads /\ res[b].att /\ res[b].th \notin T
      BY <2>2, <3>1, <1>2
    <3>3. status[res[b].th] = "live"
      BY <3>1, <3>2
    <3>4. res[b].th \in live \cap leased
      BY <3>1, <3>2, <3>3 DEF RuntimeInv, AttachedIsCovered
    <3> QED BY <3>1, <3>2, <3>4
  <2> QED BY <2>1, <2>2
<1>4. TerminalIsOver'
  BY <1>1, <1>2 DEF TerminalIsOver, RuntimeInv
<1> QED BY <1>3, <1>4

\* The same for a step after which a binding is where it was: it may lose its
\* thread once a detach of it has begun, and a detach that began stays so.
LEMMA PinCovers ==
  ASSUME BindingConstants, OwnerInv, RuntimeInv, UNCHANGED res, conn' => conn,
         NEW T, live \ T \subseteq live', leased \ T \subseteq leased',
         \A t \in Threads : status[t] # "live" => status'[t] # "live",
         \A b \in Bindings : reserved[b] = "detached" => reserved'[b] = "detached",
         \A b \in Bindings : reserved'[b] = "terminal" => \/ reserved[b] = "terminal"
                                                          \/ status'[res[b].th] # "live",
         \A b \in Bindings : res[b].att /\ res[b].th \in T
                               => reserved'[b] = "detached" \/ status'[res[b].th] # "live"
  PROVE  AttachedIsCovered' /\ TerminalIsOver'
<1>2. \A b \in Bindings : /\ res[b].th \in Threads \cup {NoThread}
                          /\ res[b].att => res[b].th # NoThread
                          /\ reserved[b] = "terminal" => res[b].th # NoThread
  BY DEF OwnerInv, OwnerTypes, Well, ResidentRecord, Subject
<1>3. AttachedIsCovered'
  <2> SUFFICES ASSUME NEW b \in Bindings, res[b].att, conn', status'[res[b].th] = "live",
                      reserved'[b] # "detached"
               PROVE  res[b].th \in live' \cap leased'
    BY DEF AttachedIsCovered
  <2>1. res[b].th \in Threads /\ res[b].th \notin T /\ reserved[b] # "detached"
    BY <1>2
  <2>2. status[res[b].th] = "live"
    BY <2>1
  <2>3. res[b].th \in live \cap leased
    BY <2>1, <2>2 DEF RuntimeInv, AttachedIsCovered
  <2> QED BY <2>1, <2>3
<1>4. TerminalIsOver'
  BY <1>2 DEF TerminalIsOver, RuntimeInv
<1> QED BY <1>3, <1>4

\* A binding that stays where it is, resident, and a session that is exact.
LEMMA TouchKeeps ==
  ASSUME OwnerInv, RuntimeInv, UNCHANGED <<disk, torn, subs, reserved, runtime, outside>>,
         res' \in [Bindings -> ResidentRecord],
         \A b \in Bindings : /\ Well(res'[b]) /\ (res[b].in => res'[b].in)
                             /\ res'[b].th = res[b].th /\ res'[b].att = res[b].att,
         \/ held' = held
         \/ \E b \in Bindings : /\ res'[b].in
                                /\ held' = [b |-> b, th |-> res[b].th, att |-> res[b].att]
  PROVE  OwnerInv' /\ RuntimeInv'
<1>1. UNCHANGED <<disk, torn, subs, reserved, live, leased, kept, serving, conn, web, status>>
  BY DEF runtime, outside
<1>2. held' \in SessionRecord /\ (held' # NoSession => held'.b \in Bindings) /\ HeldIsExact'
  <2>1. CASE held' = held
    BY <2>1 DEF OwnerInv, OwnerTypes, HeldIsExact
  <2>2. ASSUME NEW b \in Bindings, res'[b].in,
               held' = [b |-> b, th |-> res[b].th, att |-> res[b].att]
        PROVE  held' \in SessionRecord /\ (held' # NoSession => held'.b \in Bindings) /\ HeldIsExact'
    <3>1. res[b] \in ResidentRecord
      BY DEF OwnerInv, OwnerTypes
    <3>2. /\ held' \in SessionRecord /\ held'.b = b
          /\ held'.th = res[b].th /\ held'.att = res[b].att
      BY <2>2, <3>1 DEF SessionRecord, ResidentRecord
    <3> QED BY <2>2, <3>2 DEF HeldIsExact
  <2> QED BY <2>1, <2>2
<1>3. OwnerTypes'
  BY <1>1, <1>2 DEF OwnerInv, OwnerTypes
<1>4. SubscribersAreAttached'
  BY <1>1 DEF OwnerInv, SubscribersAreAttached, Attached
<1>5. DiskMatches'
  BY <1>1 DEF OwnerInv, DiskMatches, StoredOf
<1>6. \A b \in Bindings : Subject(b)'
  BY <1>1 DEF OwnerInv, Subject
<1>7. OutsideTypes'
  BY <1>1 DEF RuntimeInv, OutsideTypes
<1>8. AttachedIsCovered' /\ TerminalIsOver'
  BY <1>1 DEF RuntimeInv, AttachedIsCovered, TerminalIsOver
<1>9. LeaseHasReason'
  BY <1>1 DEF RuntimeInv, LeaseHasReason
<1> QED BY <1>2, <1>3, <1>4, <1>5, <1>6, <1>7, <1>8, <1>9 DEF OwnerInv, RuntimeInv

-----------------------------------------------------------------------------
(* The service, the connection and the Web *)

LEMMA BindInitial ==
  ASSUME BindingConstants, BindingsInit
  PROVE  BindingsInd
<1>1. \A b \in Bindings : res[b] = NoRes /\ disk[b] = NoRecord /\ reserved[b] = ""
  BY DEF BindingsInit
<1>2. OwnerTypes
  <2>1. res \in [Bindings -> ResidentRecord] /\ \A b \in Bindings : Well(res[b])
    BY BlankRecords DEF BindingsInit
  <2>2. disk \in [Bindings -> StoredRecord]
    BY BlankRecords DEF BindingsInit
  <2>3. held \in SessionRecord /\ (held # NoSession => held.b \in Bindings)
    BY BlankRecords DEF BindingsInit
  <2> QED BY <2>1, <2>2, <2>3 DEF BindingsInit, OwnerTypes
<1>3. SubscribersAreAttached
  BY <1>1, BlankRecords DEF BindingsInit, SubscribersAreAttached, Attached
<1>4. DiskMatches /\ HeldIsExact /\ \A b \in Bindings : Subject(b)
  BY <1>1 DEF BindingsInit, DiskMatches, HeldIsExact, Subject
<1>5. OutsideTypes
  BY DEF BindingsInit, OutsideTypes
<1>6. AttachedIsCovered /\ LeaseHasReason /\ TerminalIsOver
  BY <1>1 DEF BindingsInit, AttachedIsCovered, LeaseHasReason, TerminalIsOver
<1>7. Rested
  BY <1>1 DEF BindingsInit, Rested
<1> QED BY <1>2, <1>3, <1>4, <1>5, <1>6, <1>7 DEF BindingsInd, OwnerInv, RuntimeInv

\* A record read at the start becomes a detached binding.
LEMMA StartedRecords ==
  ASSUME BindingConstants, NEW d \in StoredRecord
  PROVE  LET r == IF d.th # NoThread THEN [Default EXCEPT !.th = d.th] ELSE NoRes
             e == [d EXCEPT !.att = FALSE]
         IN  Well(r) /\ ~r.att /\ e \in StoredRecord /\ e = StoredOf(r)
<1> DEFINE r == IF d.th # NoThread THEN [Default EXCEPT !.th = d.th] ELSE NoRes
<1> DEFINE e == [d EXCEPT !.att = FALSE]
<1>1. e \in StoredRecord /\ e = [th |-> d.th, att |-> FALSE]
  <2>1. e \in StoredRecord
    BY DEF StoredRecord
  <2>2. e.th = d.th /\ e.att = FALSE
    BY DEF StoredRecord
  <2>3. e = [th |-> e.th, att |-> e.att]
    <3> HIDE DEF e
    <3> QED BY <2>1 DEF StoredRecord
  <2> QED BY <2>1, <2>2, <2>3
<1>2. r \in ResidentRecord /\ r.th = d.th /\ r.att = FALSE /\ (~r.in => r.th = NoThread /\ ~r.turn)
  BY DEF NoRes, Default, ResidentRecord, StoredRecord
<1>3. Well(r)
  BY <1>2 DEF Well
<1>4. e = StoredOf(r)
  BY <1>1, <1>2 DEF StoredOf
<1> QED BY <1>1, <1>2, <1>3, <1>4

LEMMA StartStep ==
  ASSUME BindingConstants, BindingsInd, Start
  PROVE  BindingsInd'
<1> DEFINE r(b) == IF disk[b].th # NoThread THEN [Default EXCEPT !.th = disk[b].th] ELSE NoRes
<1>1. /\ ~serving /\ serving' = TRUE /\ conn' = TRUE
      /\ UNCHANGED <<torn, subs, reserved, held, live, leased, kept, web, status>>
  BY DEF Start, runtime
<1>2. /\ torn = {} /\ held = NoSession /\ subs = [t \in Threads |-> {}]
      /\ reserved = [b \in Bindings |-> ""] /\ leased = {}
  BY <1>1 DEF BindingsInd, Rested
<1>3. \A b \in Bindings : disk[b] \in StoredRecord
  BY DEF BindingsInd, OwnerInv, OwnerTypes
<1>4. /\ disk' = [b \in Bindings |-> [disk[b] EXCEPT !.att = FALSE]]
      /\ res' = [b \in Bindings |-> r(b)]
  BY DEF Start, Downgraded
<1>5. \A b \in Bindings : /\ res'[b] = r(b) /\ disk'[b] = [disk[b] EXCEPT !.att = FALSE]
  BY <1>4
<1>6. \A b \in Bindings : /\ Well(res'[b]) /\ ~res'[b].att
                          /\ disk'[b] \in StoredRecord /\ disk'[b] = StoredOf(res'[b])
  <2> TAKE b \in Bindings
  <2>1. disk[b] \in StoredRecord
    BY <1>3
  <2>2. /\ Well(r(b)) /\ ~r(b).att /\ [disk[b] EXCEPT !.att = FALSE] \in StoredRecord
        /\ [disk[b] EXCEPT !.att = FALSE] = StoredOf(r(b))
    BY <2>1, StartedRecords
  <2>3. res'[b] = r(b) /\ disk'[b] = [disk[b] EXCEPT !.att = FALSE]
    BY <1>5
  <2> QED BY <2>2, <2>3
<1> HIDE DEF r
<1>7. OwnerTypes'
  <2>1. res' \in [Bindings -> ResidentRecord]
    BY <1>4, <1>5, <1>6 DEF Well
  <2>2. disk' \in [Bindings -> StoredRecord]
    BY <1>4, <1>5, <1>6
  <2> QED BY <2>1, <2>2, <1>1, <1>6 DEF BindingsInd, OwnerInv, OwnerTypes
<1>8. SubscribersAreAttached'
  BY <1>1, <1>2, <1>6 DEF SubscribersAreAttached, Attached
<1>9. DiskMatches' /\ HeldIsExact' /\ \A b \in Bindings : Subject(b)'
  BY <1>1, <1>2, <1>6 DEF DiskMatches, HeldIsExact, Subject
<1>10. OutsideTypes'
  BY <1>1 DEF BindingsInd, RuntimeInv, OutsideTypes
<1>11. AttachedIsCovered' /\ LeaseHasReason' /\ TerminalIsOver'
  BY <1>1, <1>2, <1>6 DEF AttachedIsCovered, LeaseHasReason, TerminalIsOver
<1>12. Rested'
  BY <1>1 DEF Rested
<1> QED BY <1>7, <1>8, <1>9, <1>10, <1>11, <1>12 DEF BindingsInd, OwnerInv, RuntimeInv

LEMMA StartFailsStep ==
  ASSUME BindingConstants, BindingsInd, StartFails
  PROVE  BindingsInd'
<1>1. PICK S \in SUBSET Bindings : disk' = Downgraded(S)
  BY DEF StartFails
<1>2. /\ ~serving
      /\ UNCHANGED <<serving, conn, res, torn, subs, reserved, held, live, leased, kept, web, status>>
  BY DEF StartFails, runtime
<1>3. disk' \in [Bindings -> StoredRecord]
  BY <1>1 DEF Downgraded, StoredRecord, BindingsInd, OwnerInv, OwnerTypes
<1>4. OwnerTypes'
  BY <1>2, <1>3 DEF BindingsInd, OwnerInv, OwnerTypes
<1>5. SubscribersAreAttached' /\ DiskMatches' /\ HeldIsExact' /\ \A b \in Bindings : Subject(b)'
  BY <1>2 DEF BindingsInd, OwnerInv, SubscribersAreAttached, Attached, DiskMatches, HeldIsExact, Subject
<1>6. RuntimeInv'
  BY <1>2 DEF BindingsInd, RuntimeInv, OutsideTypes, AttachedIsCovered, LeaseHasReason, TerminalIsOver
<1>7. Rested'
  BY <1>2 DEF BindingsInd, Rested
<1> QED BY <1>4, <1>5, <1>6, <1>7 DEF BindingsInd, OwnerInv

LEMMA CrashStep ==
  ASSUME BindingConstants, BindingsInd, Crash
  PROVE  BindingsInd'
<1>1. /\ serving' = FALSE /\ conn' = FALSE /\ torn' = {} /\ held' = NoSession
      /\ res' = [b \in Bindings |-> NoRes] /\ subs' = [t \in Threads |-> {}]
      /\ reserved' = [b \in Bindings |-> ""]
      /\ live' = {} /\ leased' = {} /\ web' = {} /\ kept' = {}
      /\ UNCHANGED <<disk, status>>
  BY DEF Crash
<1>2. \A b \in Bindings : res'[b] = NoRes /\ reserved'[b] = ""
  BY <1>1
<1>3. OwnerTypes'
  <2>1. res' \in [Bindings -> ResidentRecord] /\ \A b \in Bindings : Well(res'[b])
    BY <1>1, <1>2, BlankRecords
  <2>2. held' \in SessionRecord /\ (held' # NoSession => held'.b \in Bindings)
    BY <1>1, BlankRecords
  <2> QED BY <2>1, <2>2, <1>1 DEF BindingsInd, OwnerInv, OwnerTypes
<1>4. SubscribersAreAttached'
  BY <1>1, <1>2, BlankRecords DEF SubscribersAreAttached, Attached
<1>5. DiskMatches' /\ HeldIsExact' /\ \A b \in Bindings : Subject(b)'
  BY <1>1, <1>2 DEF DiskMatches, HeldIsExact, Subject
<1>6. OutsideTypes'
  BY <1>1 DEF BindingsInd, RuntimeInv, OutsideTypes
<1>7. AttachedIsCovered' /\ LeaseHasReason' /\ TerminalIsOver'
  BY <1>1, <1>2 DEF AttachedIsCovered, LeaseHasReason, TerminalIsOver
<1>8. Rested'
  BY <1>1 DEF Rested
<1> QED BY <1>3, <1>4, <1>5, <1>6, <1>7, <1>8 DEF BindingsInd, OwnerInv, RuntimeInv

\* A step that leaves the owners alone.
LEMMA OwnerRests ==
  ASSUME OwnerInv, UNCHANGED owner, UNCHANGED serving
  PROVE  /\ OwnerInv' /\ UNCHANGED <<res, disk, torn, subs, reserved, held>>
<1>1. UNCHANGED <<res, disk, torn, subs, reserved, held>>
  BY DEF owner
<1>2. OwnerTypes'
  BY <1>1 DEF OwnerInv, OwnerTypes
<1>3. SubscribersAreAttached' /\ DiskMatches' /\ HeldIsExact' /\ \A b \in Bindings : Subject(b)'
  BY <1>1 DEF OwnerInv, SubscribersAreAttached, Attached, DiskMatches, HeldIsExact, Subject
<1> QED BY <1>1, <1>2, <1>3 DEF OwnerInv

LEMMA ConnectionDiesStep ==
  ASSUME BindingConstants, BindingsInd, ConnectionDies
  PROVE  BindingsInd'
<1>1. /\ serving /\ conn' = FALSE /\ live' = {} /\ UNCHANGED owner
      /\ UNCHANGED <<leased, kept, serving, web, status>>
  BY DEF ConnectionDies
<1>2. OwnerInv' /\ UNCHANGED <<res, disk, torn, subs, reserved, held>>
  BY <1>1, OwnerRests DEF BindingsInd
<1>3. OutsideTypes'
  BY <1>1 DEF BindingsInd, RuntimeInv, OutsideTypes
<1>4. AttachedIsCovered' /\ LeaseHasReason' /\ TerminalIsOver'
  BY <1>1, <1>2 DEF BindingsInd, RuntimeInv, AttachedIsCovered, LeaseHasReason, TerminalIsOver
<1>5. Rested'
  BY <1>1 DEF Rested
<1> QED BY <1>2, <1>3, <1>4, <1>5 DEF BindingsInd, RuntimeInv

LEMMA WebOpensStep ==
  ASSUME BindingConstants, BindingsInd, NEW t \in Threads, WebOpens(t)
  PROVE  BindingsInd'
<1>1. /\ serving /\ conn /\ web' = web \cup {t} /\ live' = live \cup {t} /\ leased' = leased \cup {t}
      /\ UNCHANGED owner /\ UNCHANGED <<kept, serving, conn, status>>
  BY DEF WebOpens
<1>2. OwnerInv' /\ UNCHANGED <<res, disk, torn, subs, reserved, held>>
  BY <1>1, OwnerRests DEF BindingsInd
<1>3. OutsideTypes'
  BY <1>1 DEF BindingsInd, RuntimeInv, OutsideTypes
<1>4. AttachedIsCovered' /\ LeaseHasReason' /\ TerminalIsOver'
  BY <1>1, <1>2 DEF BindingsInd, RuntimeInv, AttachedIsCovered, LeaseHasReason, TerminalIsOver
<1>5. Rested'
  BY <1>1 DEF Rested
<1> QED BY <1>2, <1>3, <1>4, <1>5 DEF BindingsInd, RuntimeInv

LEMMA WebClosesStep ==
  ASSUME BindingConstants, BindingsInd, NEW t \in Threads, WebCloses(t)
  PROVE  BindingsInd'
<1>1. /\ serving /\ web' = web \ {t} /\ UNCHANGED owner /\ UNCHANGED <<serving, conn, status>>
  BY DEF WebCloses
<1>2. OwnerInv' /\ UNCHANGED <<res, disk, torn, subs, reserved, held>>
  BY <1>1, OwnerRests DEF BindingsInd
<1>3. \/ subs[t] = {} /\ live' = live \ {t} /\ leased' = leased \ {t} /\ kept' = kept \ {t}
      \/ subs[t] # {} /\ UNCHANGED <<live, leased, kept>>
  BY DEF WebCloses, runtime
<1>4. OutsideTypes'
  BY <1>1, <1>3 DEF BindingsInd, RuntimeInv, OutsideTypes
<1>5. subs[t] = {} => \A b \in Bindings : ~(res[b].att /\ res[b].th = t)
  BY DEF BindingsInd, OwnerInv, SubscribersAreAttached, Attached
<1>6. AttachedIsCovered' /\ TerminalIsOver'
  BY <1>1, <1>2, <1>3, <1>5 DEF BindingsInd, RuntimeInv, AttachedIsCovered, TerminalIsOver
<1>7. LeaseHasReason'
  BY <1>1, <1>2, <1>3 DEF BindingsInd, RuntimeInv, LeaseHasReason
<1>8. Rested'
  BY <1>1 DEF Rested
<1> QED BY <1>2, <1>4, <1>6, <1>7, <1>8 DEF BindingsInd, RuntimeInv

\* A lease whose subscribers left was knowingly kept, or is released.
LEMMA LeftHasReason ==
  ASSUME RuntimeInv, UNCHANGED web, NEW T,
         \A t \in leased' : t \in kept \cup T => t \in kept',
         \A t \in Threads : subs[t] # {} => subs'[t] # {} \/ t \in T,
         \A t \in leased' : t \in leased \/ subs'[t] # {} \/ t \in kept'
  PROVE  LeaseHasReason'
BY DEF RuntimeInv, OutsideTypes, LeaseHasReason

\* What the end of a subscription leaves: it may lose the threads T that the
\* Web does not need, and nothing else.
LEMMA FinishLeftParts ==
  ASSUME NEW T, NEW L, NEW G, FinishLeft(T, L, G)
  PROVE  /\ live' = L \ (T \ web) /\ leased' \subseteq G /\ G \ (T \ web) \subseteq leased'
         /\ kept' = (kept \cup T) \cap leased'
<1>1. PICK D \in SUBSET (T \ web) : /\ live' = L \ (T \ web) /\ leased' = G \ D
                                    /\ kept' = (kept \cup T) \cap leased'
  BY DEF FinishLeft
<1> QED BY <1>1

LEMMA FailCloseStep ==
  ASSUME BindingConstants, BindingsInd, FailClose
  PROVE  BindingsInd'
<1> DEFINE S == UNION {Attached(t) : t \in AttachedThreads}
<1> DEFINE r == [b \in Bindings |-> [DetachedRes(S)[b] EXCEPT !.turn = @ /\ b \notin S]]
<1>1. /\ serving /\ conn' = TRUE /\ Commit(S, r)
      /\ leased' = leased \ (AttachedThreads \ web)
      /\ kept' = (kept \cup AttachedThreads) \cap leased'
      /\ UNCHANGED <<live, serving, web, status>>
  BY DEF FailClose
<1>2. \A b \in Bindings : Well(res[b])
  BY DEF BindingsInd, OwnerInv, OwnerTypes
<1>3. S \in SUBSET Bindings
  BY DEF Attached
<1>4. \A b \in Bindings : res[b].att => b \in S
  <2> TAKE b \in Bindings
  <2> HAVE res[b].att
  <2>1. res[b].th \in Threads /\ b \in Attached(res[b].th)
    BY <1>2 DEF Well, ResidentRecord, Attached
  <2>2. res[b].th \in AttachedThreads
    BY <2>1 DEF AttachedThreads
  <2> QED BY <2>1, <2>2
<1> HIDE DEF S
<1>5. \A b \in S : Well(r[b]) /\ ~r[b].att
  <2> TAKE b \in S
  <2> DEFINE d == [res[b] EXCEPT !.att = FALSE]
  <2>1. Well(d) /\ d.att = FALSE
    BY <1>2, <1>3, DetachedRecords
  <2>2. r[b] = [d EXCEPT !.turn = @ /\ b \notin S]
    BY <1>3 DEF DetachedRes
  <2> HIDE DEF d
  <2>3. /\ r[b] \in ResidentRecord /\ r[b].in = d.in /\ r[b].th = d.th
        /\ r[b].att = d.att /\ r[b].turn = FALSE
    BY <2>1, <2>2 DEF Well, ResidentRecord
  <2> QED BY <2>1, <2>3 DEF Well
<1> HIDE DEF r
<1>6. /\ OwnerInv'
      /\ \A b \in Bindings : res'[b] = IF b \in S THEN r[b] ELSE res[b]
      /\ \A b \in Bindings : reserved'[b] = IF b \in S THEN "" ELSE reserved[b]
  BY <1>1, <1>3, <1>5, CommitKeeps DEF BindingsInd
<1>7. \A b \in Bindings : ~res'[b].att
  BY <1>4, <1>5, <1>6
<1>8. OutsideTypes'
  BY <1>1 DEF BindingsInd, RuntimeInv, OutsideTypes
<1>9. AttachedIsCovered'
  BY <1>7 DEF AttachedIsCovered
<1>10. TerminalIsOver'
  BY <1>1, <1>6 DEF BindingsInd, RuntimeInv, TerminalIsOver
<1>11. LeaseHasReason'
  <2>1. \A t \in Threads : subs[t] # {} => t \in AttachedThreads
    BY DEF BindingsInd, OwnerInv, SubscribersAreAttached, AttachedThreads
  <2> QED BY <1>1, <2>1, LeftHasReason DEF BindingsInd
<1>12. Rested'
  BY <1>1 DEF Rested
<1> QED BY <1>6, <1>8, <1>9, <1>10, <1>11, <1>12 DEF BindingsInd, RuntimeInv

LEMMA FailCloseFailsStep ==
  ASSUME BindingConstants, BindingsInd, FailCloseFails
  PROVE  BindingsInd'
<1>1. PICK T \in SUBSET AttachedThreads, t \in AttachedThreads :
        LET S == UNION {Attached(u) : u \in T} IN
        /\ t \notin T
        /\ disk' = [b \in Bindings |-> IF b \in S THEN StoredOf(DetachedRes(S)[b]) ELSE disk[b]]
        /\ torn' = torn \ S
        /\ res' = DetachedRes(S)
        /\ subs' = Registry(S, DetachedRes(S))
        /\ held' = IF held.b \in S THEN NoSession ELSE held
        /\ \E P \in SUBSET {b \in Attached(t) : reserved[b] \in {"", "detached"}} :
             reserved' = [b \in Bindings |-> IF b \in S THEN ""
                                             ELSE IF b \in P THEN "detached" ELSE reserved[b]]
        /\ kept' = kept \cup T
  BY DEF FailCloseFails
<1> DEFINE S == UNION {Attached(u) : u \in T}
<1>2. PICK P \in SUBSET {b \in Attached(t) : reserved[b] \in {"", "detached"}} :
        reserved' = [b \in Bindings |-> IF b \in S THEN ""
                                        ELSE IF b \in P THEN "detached" ELSE reserved[b]]
  BY <1>1
<1>3. /\ serving /\ ~conn /\ UNCHANGED <<live, leased, serving, conn, web, status>>
  BY DEF FailCloseFails, outside
<1>4. /\ S \in SUBSET Bindings /\ P \in SUBSET Bindings
      /\ \A b \in P : res[b].att /\ b \notin S
  <2>1. S \in SUBSET Bindings
    BY DEF Attached
  <2>2. P \in SUBSET Bindings
    BY DEF Attached
  <2>3. ASSUME NEW b \in P PROVE res[b].att /\ b \notin S
    <3>1. res[b].att /\ res[b].th = t
      BY DEF Attached
    <3>2. ASSUME NEW u \in T, b \in Attached(u) PROVE FALSE
      BY <1>1, <3>1, <3>2 DEF Attached
    <3> QED BY <3>1, <3>2
  <2> QED BY <2>1, <2>2, <2>3
<1>5. \A u \in Threads, b \in Bindings : b \in S /\ res[b].th = u => u \in T
  <2> TAKE u \in Threads, b \in Bindings
  <2> HAVE b \in S /\ res[b].th = u
  <2>1. PICK v \in T : b \in Attached(v)
    OBVIOUS
  <2> QED BY <2>1 DEF Attached
<1>6. /\ \A b \in Bindings : disk'[b] = IF b \in S THEN StoredOf(res'[b]) ELSE disk[b]
      /\ disk' = [b \in Bindings |-> disk'[b]] /\ torn' = torn \ S
  BY <1>1
<1>7. /\ \A b \in Bindings : res'[b] = IF b \in S THEN [res[b] EXCEPT !.att = FALSE] ELSE res[b]
      /\ res' = [b \in Bindings |-> res'[b]]
  BY <1>1 DEF DetachedRes
<1>8. /\ \A u \in Threads : subs'[u] = (subs[u] \ S) \cup {b \in S : res'[b].att /\ res'[b].th = u}
      /\ subs' = [u \in Threads |-> subs'[u]]
  BY <1>1 DEF Registry
<1>9. /\ held' = (IF held.b \in S THEN NoSession ELSE held) /\ kept' = kept \cup T
  BY <1>1
<1> HIDE DEF S
<1>10. \A b \in Bindings : /\ Well(res'[b]) /\ res'[b].in = res[b].in /\ res'[b].th = res[b].th
                           /\ b \in S => res'[b].att = FALSE
                           /\ b \notin S => res'[b] = res[b]
  <2> TAKE b \in Bindings
  <2>1. Well(res[b])
    BY DEF BindingsInd, OwnerInv, OwnerTypes
  <2> DEFINE d == [res[b] EXCEPT !.att = FALSE]
  <2>2. Well(d) /\ d.in = res[b].in /\ d.th = res[b].th /\ d.att = FALSE
    BY <2>1, DetachedRecords
  <2>3. res'[b] = IF b \in S THEN d ELSE res[b]
    BY <1>7
  <2> HIDE DEF d
  <2> QED BY <2>1, <2>2, <2>3
<1>11. OwnerTypes'
  <2>1. res' \in [Bindings -> ResidentRecord]
    BY <1>7, <1>10 DEF Well
  <2>2. disk' \in [Bindings -> StoredRecord]
    <3>1. \A b \in Bindings : StoredOf(res'[b]) \in StoredRecord /\ disk[b] \in StoredRecord
      BY <1>10, StoredRecords DEF Well, BindingsInd, OwnerInv, OwnerTypes
    <3> QED BY <3>1, <1>6
  <2>3. subs' \in [Threads -> SUBSET Bindings]
    <3>1. \A u \in Threads : subs'[u] \subseteq Bindings
      BY <1>4, <1>8 DEF BindingsInd, OwnerInv, OwnerTypes
    <3> QED BY <3>1, <1>8
  <2>4. reserved' \in [Bindings -> Reasons \cup {""}]
    BY <1>2 DEF BindingsInd, OwnerInv, OwnerTypes, Reasons
  <2>5. held' \in SessionRecord /\ (held' # NoSession => held'.b \in Bindings)
    BY <1>9, BlankRecords DEF BindingsInd, OwnerInv, OwnerTypes
  <2>6. torn' \subseteq Bindings
    BY <1>6 DEF BindingsInd, OwnerInv, OwnerTypes
  <2> QED BY <2>1, <2>2, <2>3, <2>4, <2>5, <2>6, <1>10 DEF OwnerTypes
<1>12. SubscribersAreAttached'
  <2>1. ASSUME NEW u \in Threads, NEW b \in Bindings
        PROVE  b \in subs'[u] <=> res'[b].att /\ res'[b].th = u
    <3>1. b \in subs[u] <=> res[b].att /\ res[b].th = u
      BY DEF BindingsInd, OwnerInv, SubscribersAreAttached, Attached
    <3>2. CASE b \in S
      BY <3>2, <1>8
    <3>3. CASE b \notin S
      BY <3>1, <3>3, <1>8, <1>10
    <3> QED BY <3>2, <3>3
  <2>2. \A u \in Threads : subs'[u] \subseteq Bindings
    BY <1>11 DEF OwnerTypes
  <2>3. \A u \in Threads : subs'[u] = {b \in Bindings : res'[b].att /\ res'[b].th = u}
    BY <2>1, <2>2
  <2> QED BY <2>3 DEF SubscribersAreAttached, Attached
<1>13. DiskMatches'
  BY <1>3, <1>6, <1>10 DEF BindingsInd, OwnerInv, DiskMatches
<1>14. HeldIsExact'
  BY <1>9, <1>10 DEF BindingsInd, OwnerInv, OwnerTypes, HeldIsExact
<1>15. /\ \A b \in Bindings : reserved'[b] = IF b \in S THEN ""
                                             ELSE IF b \in P THEN "detached" ELSE reserved[b]
  BY <1>2
<1>16. \A b \in Bindings : Subject(b)'
  <2> TAKE b \in Bindings
  <2>1. CASE b \in S
    BY <2>1, <1>15 DEF Subject
  <2>2. CASE b \notin S /\ b \in P
    BY <2>2, <1>4, <1>10, <1>15 DEF Subject, Well, BindingsInd, OwnerInv, OwnerTypes
  <2>3. CASE b \notin S /\ b \notin P
    BY <2>3, <1>10, <1>15 DEF Subject, BindingsInd, OwnerInv
  <2> QED BY <2>1, <2>2, <2>3
<1>17. OutsideTypes'
  BY <1>1, <1>3, <1>9 DEF BindingsInd, RuntimeInv, OutsideTypes, AttachedThreads
<1>18. AttachedIsCovered' /\ TerminalIsOver'
  BY <1>3, <1>10, <1>15 DEF BindingsInd, RuntimeInv, AttachedIsCovered, TerminalIsOver
<1>19. LeaseHasReason'
  <2>1. \A u \in Threads : subs[u] # {} => subs'[u] # {} \/ u \in T
    <3> TAKE u \in Threads
    <3> HAVE subs[u] # {}
    <3>1. subs[u] = Attached(u)
      BY DEF BindingsInd, OwnerInv, SubscribersAreAttached
    <3>2. PICK b \in subs[u] : b \in Bindings /\ res[b].th = u
      BY <3>1 DEF Attached
    <3> QED BY <3>2, <1>5, <1>8
  <2> QED BY <1>3, <1>9, <2>1, LeftHasReason DEF BindingsInd
<1>20. Rested'
  BY <1>3 DEF Rested
<1> QED BY <1>11, <1>12, <1>13, <1>14, <1>16, <1>17, <1>18, <1>19, <1>20
        DEF BindingsInd, OwnerInv, RuntimeInv

-----------------------------------------------------------------------------
(* Steps after which every binding is where it was *)

\* The end or the beginning of a turn changes nothing else of a binding.
LEMMA TurnRecords ==
  ASSUME NEW r, Well(r), r.in, NEW v \in BOOLEAN
  PROVE  LET e == [r EXCEPT !.turn = v]
         IN  Well(e) /\ e.in = r.in /\ e.th = r.th /\ e.att = r.att
<1> DEFINE e == [r EXCEPT !.turn = v]
<1>1. e \in ResidentRecord /\ e.in = r.in /\ e.th = r.th /\ e.att = r.att
  BY DEF Well, ResidentRecord
<1>2. Well(e)
  <2> HIDE DEF e
  <2> QED BY <1>1 DEF Well
<1> QED BY <1>1, <1>2

LEMMA TurnStep ==
  ASSUME BindingsInd, serving, NEW c \in Bindings, res[c].in, NEW v \in BOOLEAN,
         res' = [res EXCEPT ![c].turn = v],
         UNCHANGED <<disk, torn, subs, reserved, runtime, outside>>,
         held' \in {held, [b |-> c, th |-> res[c].th, att |-> res[c].att]}
  PROVE  BindingsInd'
<1>1. res \in [Bindings -> ResidentRecord] /\ \A b \in Bindings : Well(res[b])
  BY DEF BindingsInd, OwnerInv, OwnerTypes
<1> DEFINE e == [res[c] EXCEPT !.turn = v]
<1>2. Well(e) /\ e.in = res[c].in /\ e.th = res[c].th /\ e.att = res[c].att
  BY <1>1, TurnRecords
<1>3. \A b \in Bindings : res'[b] = IF b = c THEN e ELSE res[b]
  BY <1>1
<1>4. res' = [b \in Bindings |-> res'[b]]
  BY <1>1
<1> HIDE DEF e
<1>5. \A b \in Bindings : /\ Well(res'[b]) /\ (res[b].in => res'[b].in)
                          /\ res'[b].th = res[b].th /\ res'[b].att = res[b].att
  BY <1>1, <1>2, <1>3
<1>6. res' \in [Bindings -> ResidentRecord]
  BY <1>4, <1>5 DEF Well
<1>7. \/ held' = held
      \/ \E b \in Bindings : /\ res'[b].in
                             /\ held' = [b |-> b, th |-> res[b].th, att |-> res[b].att]
  BY <1>5
<1>8. OwnerInv' /\ RuntimeInv'
  BY <1>5, <1>6, <1>7, TouchKeeps DEF BindingsInd
<1>9. Rested'
  BY DEF Rested, outside
<1> QED BY <1>8, <1>9 DEF BindingsInd

LEMMA TurnEndsStep ==
  ASSUME BindingsInd, NEW b \in Bindings, TurnEnds(b)
  PROVE  BindingsInd'
<1>1. res[b].in
  BY DEF TurnEnds, BindingsInd, OwnerInv, OwnerTypes, Well
<1> QED BY <1>1, TurnStep DEF TurnEnds

LEMMA RetireHeldStep ==
  ASSUME BindingsInd, RetireHeld
  PROVE  BindingsInd'
<1>1. held.b \in Bindings
  BY DEF RetireHeld, BindingsInd, OwnerInv, OwnerTypes
<1>2. res[held.b].in
  BY <1>1 DEF RetireHeld, BindingsInd, OwnerInv, OwnerTypes, Well
<1> QED BY <1>1, <1>2, TurnStep DEF RetireHeld

LEMMA PrimeStep ==
  ASSUME BindingsInd, NEW b \in Bindings, Prime(b)
  PROVE  BindingsInd'
<1>1. res[b].in /\ res[b].att = TRUE
  <2>1. Well(res[b])
    BY DEF BindingsInd, OwnerInv, OwnerTypes
  <2>2. res[b].att \in BOOLEAN
    BY <2>1 DEF Well, ResidentRecord
  <2> QED BY <2>1, <2>2 DEF Prime, Well
<1>2. /\ serving /\ res' = [res EXCEPT ![b].turn = TRUE]
      /\ held' = [b |-> b, th |-> res[b].th, att |-> res[b].att]
      /\ UNCHANGED <<disk, torn, subs, reserved, runtime, outside>>
  BY <1>1 DEF Prime
<1> QED BY <1>1, <1>2, TurnStep

LEMMA ResolveStep ==
  ASSUME BindingConstants, BindingsInd, NEW b \in Bindings, Resolve(b)
  PROVE  BindingsInd'
<1>1. res \in [Bindings -> ResidentRecord] /\ \A c \in Bindings : Well(res[c])
  BY DEF BindingsInd, OwnerInv, OwnerTypes
<1>2. /\ serving /\ ~res[b].in /\ res' = [res EXCEPT ![b] = Default]
      /\ UNCHANGED <<disk, torn, subs, reserved, held, runtime, outside>>
  BY DEF Resolve
<1>3. \A c \in Bindings : res'[c] = IF c = b THEN Default ELSE res[c]
  BY <1>1, <1>2
<1>4. res[b].th = NoThread /\ res[b].att = FALSE /\ Default.att = FALSE /\ Default.th = NoThread
  <2>1. res[b].att \in BOOLEAN
    BY <1>1 DEF ResidentRecord
  <2> QED BY <2>1, <1>1, <1>2, BlankRecords DEF Well, ResidentRecord
<1>5. \A c \in Bindings : /\ Well(res'[c]) /\ (res[c].in => res'[c].in)
                          /\ res'[c].th = res[c].th /\ res'[c].att = res[c].att
  BY <1>1, <1>3, <1>4, BlankRecords
<1>6. res' \in [Bindings -> ResidentRecord]
  BY <1>1, <1>2, BlankRecords
<1>7. OwnerInv' /\ RuntimeInv'
  BY <1>2, <1>5, <1>6, TouchKeeps DEF BindingsInd
<1>8. Rested'
  BY <1>2 DEF Rested, outside
<1> QED BY <1>7, <1>8 DEF BindingsInd

LEMMA CaptureStep ==
  ASSUME BindingsInd, NEW b \in Bindings, Capture(b)
  PROVE  BindingsInd'
<1>1. /\ serving /\ res[b].in /\ held' = [b |-> b, th |-> res[b].th, att |-> res[b].att]
      /\ UNCHANGED <<res, disk, torn, subs, reserved, runtime, outside>>
  BY DEF Capture
<1>2. /\ res' \in [Bindings -> ResidentRecord]
      /\ \A c \in Bindings : /\ Well(res'[c]) /\ (res[c].in => res'[c].in)
                             /\ res'[c].th = res[c].th /\ res'[c].att = res[c].att
  BY <1>1 DEF BindingsInd, OwnerInv, OwnerTypes
<1>3. OwnerInv' /\ RuntimeInv'
  BY <1>1, <1>2, TouchKeeps DEF BindingsInd
<1>4. Rested'
  BY <1>1 DEF Rested, outside
<1> QED BY <1>3, <1>4 DEF BindingsInd

\* Only what the store says changes.
LEMMA PersistSessionStep ==
  ASSUME BindingsInd, NEW b \in Bindings, PersistSession(b)
  PROVE  BindingsInd'
<1>1. /\ serving /\ disk' = [disk EXCEPT ![b] = StoredOf(res[b])] /\ torn' = torn \ {b}
      /\ UNCHANGED <<res, subs, reserved, held, live, leased, kept, serving, conn, web, status>>
  BY DEF PersistSession, runtime, outside
<1>2. disk' \in [Bindings -> StoredRecord]
  BY <1>1, StoredRecords DEF BindingsInd, OwnerInv, OwnerTypes
<1>3. OwnerTypes'
  BY <1>1, <1>2 DEF BindingsInd, OwnerInv, OwnerTypes
<1>4. DiskMatches'
  BY <1>1 DEF BindingsInd, OwnerInv, OwnerTypes, DiskMatches
<1>5. SubscribersAreAttached' /\ HeldIsExact' /\ \A c \in Bindings : Subject(c)'
  BY <1>1 DEF BindingsInd, OwnerInv, SubscribersAreAttached, Attached, HeldIsExact, Subject
<1>6. RuntimeInv'
  BY <1>1 DEF BindingsInd, RuntimeInv, OutsideTypes, AttachedIsCovered, LeaseHasReason, TerminalIsOver
<1>7. Rested'
  BY <1>1 DEF Rested
<1> QED BY <1>3, <1>4, <1>5, <1>6, <1>7 DEF BindingsInd, OwnerInv

-----------------------------------------------------------------------------
(* Steps that leave threads, and settlements that fail *)

LEMMA SubscribersAre ==
  ASSUME OwnerInv, NEW t \in Threads
  PROVE  /\ subs[t] \subseteq Bindings
         /\ \A b \in Bindings : b \in subs[t] <=> res[b].att /\ res[b].th = t
BY DEF OwnerInv, SubscribersAreAttached, Attached

\* The bindings S give up their attachment: the threads T that lose their last
\* subscriber may lose their subscription and their lease, and a lease that
\* is not released is one that was knowingly kept.
LEMMA LeaveStep ==
  ASSUME BindingConstants, BindingsInd, serving, UNCHANGED <<serving, conn, web>>,
         NEW S \in SUBSET Bindings, NEW r, \A b \in S : Well(r[b]) /\ ~r[b].att, Commit(S, r),
         NEW T,
         \A t \in Threads : subs[t] # {} /\ subs[t] \subseteq S => t \in T,
         \A b \in Bindings \ S : res[b].att /\ res[b].th \in T => status'[res[b].th] # "live",
         status' \in [Threads -> {"live", "archived", "deleted"}],
         \A t \in Threads : status[t] # "live" => status'[t] # "live",
         live' \subseteq live, live \ T \subseteq live',
         leased' \subseteq leased, leased \ T \subseteq leased',
         kept' = (kept \cup T) \cap leased'
  PROVE  BindingsInd'
<1>1. /\ OwnerInv'
      /\ \A t \in Threads : subs[t] \ S \subseteq subs'[t]
  <2>1. (\A b \in S : Well(r[b])) /\ UNCHANGED serving
    OBVIOUS
  <2>2. OwnerInv
    BY DEF BindingsInd
  <2> QED BY <2>1, <2>2, CommitKeeps
<1>2. AttachedIsCovered' /\ TerminalIsOver'
  <2>1. /\ \A b \in S : Well(r[b])
        /\ \A b \in S : r[b].att => r[b].th \in live' \cap leased'
        /\ UNCHANGED serving /\ (conn' => conn)
    OBVIOUS
  <2> QED BY <2>1, CommitCovers DEF BindingsInd
<1>3. LeaseHasReason'
  <2>1. \A t \in Threads : subs[t] # {} => subs'[t] # {} \/ t \in T
    BY <1>1
  <2>2. \A t \in leased' : /\ t \in kept \cup T => t \in kept'
                           /\ t \in leased
    OBVIOUS
  <2> QED BY <2>1, <2>2, LeftHasReason DEF BindingsInd
<1>4. OutsideTypes'
  BY DEF BindingsInd, RuntimeInv, OutsideTypes
<1>5. Rested'
  BY DEF Rested
<1> QED BY <1>1, <1>2, <1>3, <1>4, <1>5 DEF BindingsInd, RuntimeInv

\* Some bindings of S are reserved for the reason; the threads T may lose
\* their subscription, and what is leased more is knowingly kept.
LEMMA FailStep ==
  ASSUME BindingConstants, BindingsInd, serving, UNCHANGED <<serving, conn, web, res, subs>>, OwnerInv',
         NEW S, NEW reason, PinnedFor(S, reason),
         NEW T,
         \A b \in Bindings : res[b].att /\ res[b].th \in T
                               => reserved'[b] = "detached" \/ status'[res[b].th] # "live",
         reason = "terminal" => \A b \in S : status'[res[b].th] # "live",
         status' \in [Threads -> {"live", "archived", "deleted"}],
         \A t \in Threads : status[t] # "live" => status'[t] # "live",
         live' \subseteq live, live \ T \subseteq live',
         leased \subseteq leased', leased' \subseteq Threads, leased' \ leased \subseteq kept',
         kept \subseteq kept', kept' \subseteq Threads
  PROVE  BindingsInd'
<1>1. AttachedIsCovered' /\ TerminalIsOver'
  <2>1. \A b \in Bindings : reserved[b] = "detached" => reserved'[b] = "detached"
    BY DEF PinnedFor
  <2>2. \A b \in Bindings : reserved'[b] = "terminal" => \/ reserved[b] = "terminal"
                                                         \/ status'[res[b].th] # "live"
    BY DEF PinnedFor
  <2>3. leased \ T \subseteq leased'
    OBVIOUS
  <2> QED BY <2>1, <2>2, <2>3, PinCovers DEF BindingsInd
<1>2. LeaseHasReason'
  BY DEF BindingsInd, RuntimeInv, OutsideTypes, LeaseHasReason
<1>3. OutsideTypes'
  BY DEF BindingsInd, RuntimeInv, OutsideTypes
<1>4. Rested'
  BY DEF Rested
<1> QED BY <1>1, <1>2, <1>3, <1>4 DEF BindingsInd, RuntimeInv

\* A settlement or a save that failed, and nothing else.
LEMMA PinnedStep ==
  ASSUME BindingConstants, BindingsInd, serving, UNCHANGED <<serving, conn, web, status>>,
         NEW S \in SUBSET Bindings, NEW reason \in Reasons \ {"terminal"}, HasSubjects(S, reason),
         \/ SettleFails(S, reason)
         \/ \E record \in [Bindings -> StoredRecord] : SaveFails(S, reason, record),
         NEW T, \A b \in Bindings : res[b].att /\ res[b].th \in T => reserved'[b] = "detached",
         live' \subseteq live, live \ T \subseteq live', UNCHANGED <<leased, kept>>
  PROVE  BindingsInd'
<1>1. OwnerInv' /\ UNCHANGED <<res, subs>> /\ PinnedFor(S, reason)
  <2>1. CASE SettleFails(S, reason)
    BY <2>1, SettleFailsKeeps DEF BindingsInd
  <2>2. ASSUME NEW record \in [Bindings -> StoredRecord], SaveFails(S, reason, record)
        PROVE  OwnerInv' /\ UNCHANGED <<res, subs>> /\ PinnedFor(S, reason)
    BY <2>2, SaveFailsKeeps DEF BindingsInd
  <2> QED BY <2>1, <2>2
<1>2. /\ status' \in [Threads -> {"live", "archived", "deleted"}]
      /\ leased' \subseteq Threads /\ kept' \subseteq Threads
  BY DEF BindingsInd, RuntimeInv, OutsideTypes
<1>3. reason = "terminal" => \A b \in S : status'[res[b].th] # "live"
  OBVIOUS
<1>4. \A b \in Bindings : res[b].att /\ res[b].th \in T
                            => reserved'[b] = "detached" \/ status'[res[b].th] # "live"
  OBVIOUS
<1>5. /\ leased \subseteq leased' /\ leased' \ leased \subseteq kept' /\ kept \subseteq kept'
      /\ \A t \in Threads : status[t] # "live" => status'[t] # "live"
  OBVIOUS
<1>6. UNCHANGED <<serving, conn, web, res, subs>>
  BY <1>1
<1> QED BY <1>1, <1>2, <1>3, <1>4, <1>5, <1>6, FailStep

-----------------------------------------------------------------------------
(* Binding, clearing and detaching *)

LEMMA BindStep ==
  ASSUME BindingConstants, BindingsInd, NEW b \in Bindings, NEW t \in Threads, Bind(b, t)
  PROVE  BindingsInd'
<1> DEFINE T == IF res[b].th # t THEN LastSubscriber(b) ELSE {}
<1>1. PICK turn \in BOOLEAN : Commit({b}, [c \in Bindings |-> BoundRes(b, t, turn)])
  <2>1. res[b].turn \in BOOLEAN
    BY DEF BindingsInd, OwnerInv, OwnerTypes, ResidentRecord
  <2> QED BY <2>1 DEF Bind
<1> DEFINE r == [c \in Bindings |-> BoundRes(b, t, turn)]
<1>2. /\ serving /\ FinishLeft(T, live \cup {t}, leased \cup {t})
      /\ UNCHANGED <<serving, conn, web, status>>
  BY DEF Bind, outside
<1>3. Well(r[b]) /\ r[b].att /\ r[b].th = t
  BY BoundRecords
<1>4. \A u \in T : u # t /\ subs[u] = {b} /\ u = res[b].th
  BY DEF LastSubscriber
<1>5. \A u \in Threads : subs[u] # {} /\ u # t => u \in T \/ subs[u] \ {b} # {}
  <2> TAKE u \in Threads
  <2> HAVE subs[u] # {} /\ u # t
  <2>1. CASE subs[u] = {b}
    <3>1. res[b].th = u /\ u # NoThread
      BY <2>1, SubscribersAre DEF BindingsInd, BindingConstants
    <3> QED BY <2>1, <3>1 DEF LastSubscriber
  <2> QED BY <2>1
<1>6. T \subseteq Threads
  <2>1. res[b].th \in Threads \cup {NoThread}
    BY DEF BindingsInd, OwnerInv, OwnerTypes, ResidentRecord
  <2> QED BY <2>1 DEF LastSubscriber
<1> HIDE DEF T, r
<1>7. /\ live' = (live \cup {t}) \ (T \ web) /\ leased' \subseteq leased \cup {t}
      /\ (leased \cup {t}) \ (T \ web) \subseteq leased'
      /\ kept' = (kept \cup T) \cap leased'
  BY <1>2, FinishLeftParts
<1>8. /\ OwnerInv'
      /\ \A u \in Threads : subs[u] \ {b} \subseteq subs'[u]
      /\ b \in subs'[t]
  <2> DEFINE S == {b}
  <2>1. OwnerInv /\ Commit(S, r) /\ UNCHANGED serving /\ \A c \in S : Well(r[c])
    BY <1>1, <1>2, <1>3 DEF BindingsInd, r
  <2>2. S \in SUBSET Bindings
    OBVIOUS
  <2> HIDE DEF S
  <2>3. /\ OwnerInv'
        /\ \A u \in Threads : subs[u] \ S \subseteq subs'[u]
        /\ \A u \in Threads, c \in S : r[c].att /\ r[c].th = u => c \in subs'[u]
    BY <2>1, <2>2, CommitKeeps
  <2> QED BY <2>3, <1>3 DEF S
<1>9. AttachedIsCovered' /\ TerminalIsOver'
  <2>1. /\ OwnerInv /\ RuntimeInv /\ UNCHANGED serving /\ (conn' => conn) /\ Commit({b}, r)
        /\ \A c \in {b} : Well(r[c])
    BY <1>1, <1>2, <1>3 DEF BindingsInd, r
  <2>2. /\ live \ T \subseteq live' /\ leased \ T \subseteq leased'
        /\ \A u \in Threads : status[u] # "live" => status'[u] # "live"
    BY <1>2, <1>7
  <2>3. \A c \in {b} : r[c].att => r[c].th \in live' \cap leased'
    BY <1>3, <1>4, <1>7
  <2>4. \A c \in Bindings \ {b} : res[c].att /\ res[c].th \in T => status'[res[c].th] # "live"
    BY <1>4, <1>6, SubscribersAre DEF BindingsInd
  <2>5. {b} \in SUBSET Bindings
    OBVIOUS
  <2> QED BY <2>1, <2>2, <2>3, <2>4, <2>5, CommitCovers
<1>10. LeaseHasReason'
  <2>1. \A u \in Threads : subs[u] # {} => subs'[u] # {} \/ u \in T
    BY <1>5, <1>8
  <2>2. \A u \in leased' : /\ u \in kept \cup T => u \in kept'
                           /\ u \in leased \/ subs'[u] # {}
    BY <1>7, <1>8
  <2> QED BY <1>2, <2>1, <2>2, LeftHasReason DEF BindingsInd
<1>11. OutsideTypes'
  BY <1>2, <1>7 DEF BindingsInd, RuntimeInv, OutsideTypes
<1>12. Rested'
  BY <1>2 DEF Rested
<1> QED BY <1>8, <1>9, <1>10, <1>11, <1>12 DEF BindingsInd, RuntimeInv

LEMMA BindFailsStep ==
  ASSUME BindingConstants, BindingsInd, NEW b \in Bindings, NEW t \in Threads, BindFails(b, t)
  PROVE  BindingsInd'
<1>1. /\ serving /\ UNCHANGED <<res, disk, torn, subs, held, live, serving, conn, web, status>>
      /\ leased' \in {leased, leased \cup {t}} /\ kept' = kept \cup (leased' \ leased)
  BY DEF BindFails, outside
<1>2. OwnerInv' /\ PinnedFor({b}, "replaced")
  <2>1. CASE UNCHANGED reserved
    BY <1>1, <2>1, OwnerRests DEF owner, PinnedFor, BindingsInd
  <2>2. CASE res[b].th # t /\ ~res[b].turn /\ reserved[b] \in {"", "replaced"} /\ Pin({b}, "replaced")
    <3>1. HasSubjects({b}, "replaced")
      BY DEF BindFails, HasSubjects
    <3>2. /\ OwnerInv /\ UNCHANGED <<serving, res, subs, held>>
          /\ disk' \in [Bindings -> StoredRecord] /\ torn' \subseteq Bindings
      BY <1>1 DEF BindingsInd, OwnerInv, OwnerTypes
    <3>3. serving => \A c \in Bindings \ torn' : disk'[c] = StoredOf(res[c])
      BY <1>1 DEF BindingsInd, OwnerInv, DiskMatches
    <3>4. {b} \in SUBSET Bindings /\ "replaced" \in Reasons
      BY DEF Reasons
    <3>5. /\ OwnerInv'
          /\ \A c \in Bindings : reserved'[c] = IF c \in {b} THEN "replaced" ELSE reserved[c]
      BY <2>2, <3>1, <3>2, <3>3, <3>4, PinKeeps
    <3> QED BY <2>2, <3>5 DEF PinnedFor
  <2> QED BY <2>1, <2>2 DEF BindFails
<1>3. /\ UNCHANGED <<serving, conn, web, res, subs>>
      /\ status' \in [Threads -> {"live", "archived", "deleted"}]
      /\ live' \subseteq live /\ live \ {} \subseteq live'
      /\ leased \subseteq leased' /\ leased' \subseteq Threads /\ leased' \ leased \subseteq kept'
      /\ kept \subseteq kept' /\ kept' \subseteq Threads
  BY <1>1 DEF BindingsInd, RuntimeInv, OutsideTypes
<1>4. /\ \A c \in Bindings : res[c].att /\ res[c].th \in {}
                               => reserved'[c] = "detached" \/ status'[res[c].th] # "live"
      /\ \A u \in Threads : status[u] # "live" => status'[u] # "live"
  BY <1>1
<1> DEFINE T == {}
<1>5. /\ live \ T \subseteq live'
      /\ \A c \in Bindings : res[c].att /\ res[c].th \in T
                               => reserved'[c] = "detached" \/ status'[res[c].th] # "live"
  BY <1>3, <1>4
<1> DEFINE S == {b}
<1>6. PinnedFor(S, "replaced") /\ ("replaced" = "terminal" => \A c \in S : status'[res[c].th] # "live")
  BY <1>2
<1> HIDE DEF T, S
<1> QED BY <1>1, <1>2, <1>3, <1>4, <1>5, <1>6, FailStep

\* The thread that loses its last subscriber with b, and no other.
LEMMA LastSubscriberLeaves ==
  ASSUME BindingConstants, OwnerInv, NEW b \in Bindings
  PROVE  /\ \A t \in Threads : subs[t] # {} /\ subs[t] \subseteq {b} => t \in LastSubscriber(b)
         /\ \A c \in Bindings \ {b} : ~(res[c].att /\ res[c].th \in LastSubscriber(b))
<1>1. ASSUME NEW t \in Threads, subs[t] # {}, subs[t] \subseteq {b} PROVE t \in LastSubscriber(b)
  <2>1. subs[t] = {b}
    BY <1>1
  <2>2. res[b].th = t /\ t # NoThread
    BY <2>1, SubscribersAre DEF BindingConstants
  <2> QED BY <2>1, <2>2 DEF LastSubscriber
<1>2. ASSUME NEW c \in Bindings \ {b}, res[c].att, res[c].th \in LastSubscriber(b) PROVE FALSE
  <2>1. res[c].th \in Threads
    BY <1>2 DEF OwnerInv, OwnerTypes, Well, ResidentRecord
  <2>2. subs[res[c].th] = {b}
    BY <1>2 DEF LastSubscriber
  <2> QED BY <1>2, <2>1, <2>2, SubscribersAre
<1> QED BY <1>1, <1>2

\* A commit that only gives up what b is attached to.
LEMMA LeaveAlone ==
  ASSUME BindingConstants, BindingsInd, serving, UNCHANGED outside,
         NEW b \in Bindings, NEW r, Well(r[b]), ~r[b].att, Commit({b}, r),
         FinishLeft(LastSubscriber(b), live, leased)
  PROVE  BindingsInd'
<1> DEFINE T == LastSubscriber(b)
<1>1. /\ live' = live \ (T \ web) /\ leased' \subseteq leased /\ leased \ (T \ web) \subseteq leased'
      /\ kept' = (kept \cup T) \cap leased'
  BY FinishLeftParts
<1>2. /\ \A t \in Threads : subs[t] # {} /\ subs[t] \subseteq {b} => t \in T
      /\ \A c \in Bindings \ {b} : res[c].att /\ res[c].th \in T => status'[res[c].th] # "live"
  BY LastSubscriberLeaves DEF BindingsInd
<1> HIDE DEF T
<1>3. /\ UNCHANGED <<serving, conn, web>>
      /\ status' \in [Threads -> {"live", "archived", "deleted"}]
      /\ \A t \in Threads : status[t] # "live" => status'[t] # "live"
  BY DEF outside, BindingsInd, RuntimeInv, OutsideTypes
<1>4. /\ live' \subseteq live /\ live \ T \subseteq live'
      /\ leased' \subseteq leased /\ leased \ T \subseteq leased'
  BY <1>1
<1>5. {b} \in SUBSET Bindings /\ \A c \in {b} : Well(r[c]) /\ ~r[c].att
  OBVIOUS
<1> QED BY <1>1, <1>2, <1>3, <1>4, <1>5, LeaveStep

LEMMA ClearThreadStep ==
  ASSUME BindingConstants, BindingsInd, NEW b \in Bindings, ClearThread(b)
  PROVE  BindingsInd'
<1> DEFINE r == [c \in Bindings |-> Default]
<1>1. Well(r[b]) /\ ~r[b].att
  BY BlankRecords
<1>2. /\ serving /\ Commit({b}, r) /\ FinishLeft(LastSubscriber(b), live, leased)
      /\ UNCHANGED outside
  BY DEF ClearThread
<1> HIDE DEF r
<1> QED BY <1>1, <1>2, LeaveAlone

\* Bindings that are detached stay where they are.
LEMMA DetachedAll ==
  ASSUME OwnerInv, NEW S \in SUBSET Bindings, NEW b \in S
  PROVE  Well(DetachedRes(S)[b]) /\ ~DetachedRes(S)[b].att
<1>1. Well(res[b])
  BY DEF OwnerInv, OwnerTypes
<1> DEFINE d == [res[b] EXCEPT !.att = FALSE]
<1>2. Well(d) /\ d.att = FALSE
  BY <1>1, DetachedRecords
<1>3. DetachedRes(S)[b] = d
  BY DEF DetachedRes
<1> HIDE DEF d
<1> QED BY <1>2, <1>3

LEMMA DetachBindingStep ==
  ASSUME BindingConstants, BindingsInd, NEW b \in Bindings, DetachBinding(b)
  PROVE  BindingsInd'
<1>1. {b} \in SUBSET Bindings /\ b \in {b} /\ OwnerInv
  BY DEF BindingsInd
<1>2. Well(DetachedRes({b})[b]) /\ ~DetachedRes({b})[b].att
  BY <1>1, DetachedAll
<1>3. LastAttached(b) = LastSubscriber(b)
  <2>1. res[b].th \in Threads
    BY DEF DetachBinding, BindingsInd, OwnerInv, OwnerTypes, Well, ResidentRecord
  <2>2. subs[res[b].th] = Attached(res[b].th) /\ res[b].th # NoThread
    BY <2>1 DEF BindingsInd, OwnerInv, SubscribersAreAttached, BindingConstants
  <2> QED BY <2>2 DEF LastAttached, LastSubscriber
<1>4. /\ serving /\ Commit({b}, DetachedRes({b})) /\ UNCHANGED outside
      /\ FinishLeft(LastSubscriber(b), live, leased)
  BY <1>3 DEF DetachBinding
<1> QED BY <1>2, <1>4, LeaveAlone

\* All bindings that are attached to one thread.
LEMMA AttachedAll ==
  ASSUME OwnerInv, NEW t \in Threads
  PROVE  /\ Attached(t) \in SUBSET Bindings
         /\ \A u \in Threads : subs[u] # {} /\ subs[u] \subseteq Attached(t) => u = t
         /\ \A c \in Bindings \ Attached(t) : ~(res[c].att /\ res[c].th = t)
         /\ \A c \in Attached(t) : res[c].att /\ res[c].in /\ res[c].th = t
<1>1. Attached(t) \in SUBSET Bindings
  BY DEF Attached
<1>2. ASSUME NEW u \in Threads, subs[u] # {}, subs[u] \subseteq Attached(t) PROVE u = t
  <2>1. PICK c \in subs[u] : TRUE
    BY <1>2
  <2> QED BY <1>2, <2>1, SubscribersAre DEF Attached
<1>3. \A c \in Attached(t) : res[c].att /\ res[c].in /\ res[c].th = t
  BY DEF Attached, OwnerInv, OwnerTypes, Well
<1> QED BY <1>1, <1>2, <1>3 DEF Attached

LEMMA DetachThreadStep ==
  ASSUME BindingConstants, BindingsInd, NEW t \in Threads, DetachThread(t)
  PROVE  BindingsInd'
<1> DEFINE S == Attached(t)
<1>1. /\ S \in SUBSET Bindings
      /\ \A u \in Threads : subs[u] # {} /\ subs[u] \subseteq S => u \in {t}
      /\ \A c \in Bindings \ S : res[c].att /\ res[c].th \in {t} => status'[res[c].th] # "live"
  BY AttachedAll DEF BindingsInd
<1>2. \A b \in S : Well(DetachedRes(S)[b]) /\ ~DetachedRes(S)[b].att
  BY <1>1, DetachedAll DEF BindingsInd
<1>3. PICK D \in SUBSET ({t} \ web) : leased' = leased \ D /\ kept' = (kept \cup {t}) \cap leased'
  BY DEF DetachThread
<1>4. /\ serving /\ Commit(S, DetachedRes(S)) /\ live' = live \ ({t} \ web)
      /\ UNCHANGED <<serving, conn, web, status>>
  BY DEF DetachThread, MayDetachThread, outside
<1> HIDE DEF S
<1>5. /\ status' \in [Threads -> {"live", "archived", "deleted"}]
      /\ \A u \in Threads : status[u] # "live" => status'[u] # "live"
  BY <1>4 DEF BindingsInd, RuntimeInv, OutsideTypes
<1>6. /\ live' \subseteq live /\ live \ {t} \subseteq live'
      /\ leased' \subseteq leased /\ leased \ {t} \subseteq leased'
  BY <1>3, <1>4
<1> QED BY <1>1, <1>2, <1>3, <1>4, <1>5, <1>6, LeaveStep

\* Attaching what is detached: every thread that was left is not looked at.
LEMMA AttachManyStep ==
  ASSUME BindingConstants, BindingsInd, NEW S \in SUBSET Bindings,
         \A b \in S : res[b].th \in Threads /\ ~res[b].att, AttachMany(S)
  PROVE  BindingsInd'
<1> DEFINE X == {res[b].th : b \in S}
<1>1. PICK O \in SUBSET X :
        Commit(S, [b \in Bindings |-> BoundRes(b, res[b].th, res[b].turn \/ res[b].th \in O)])
  BY DEF AttachMany
<1> DEFINE r == [b \in Bindings |-> BoundRes(b, res[b].th, res[b].turn \/ res[b].th \in O)]
<1>2. /\ serving /\ live' = live \cup X /\ leased' = leased \cup X /\ kept' = kept \ X
      /\ UNCHANGED <<serving, conn, web, status>>
  BY DEF AttachMany, outside
<1>3. \A b \in S : Well(r[b]) /\ r[b].att /\ r[b].th = res[b].th
  <2> TAKE b \in S
  <2> DEFINE turn == res[b].turn \/ res[b].th \in O
  <2>1. turn \in BOOLEAN /\ res[b].th \in Threads
    OBVIOUS
  <2>2. r[b] = BoundRes(b, res[b].th, turn)
    OBVIOUS
  <2> HIDE DEF turn, r
  <2> QED BY <2>1, <2>2, BoundRecords
<1>4. Commit(S, r)
  BY <1>1
<1>5. X \subseteq Threads /\ \A b \in S : res[b].th \in X
  OBVIOUS
<1>6. \A t \in X : \E b \in S : res[b].th = t
  OBVIOUS
<1> HIDE DEF X, r
<1>7. /\ OwnerInv'
      /\ \A t \in Threads : subs[t] \ S \subseteq subs'[t]
      /\ \A t \in Threads, b \in S : r[b].att /\ r[b].th = t => b \in subs'[t]
  <2>1. OwnerInv /\ UNCHANGED serving /\ \A b \in S : Well(r[b])
    BY <1>2, <1>3 DEF BindingsInd
  <2> QED BY <2>1, <1>4, CommitKeeps
<1>8. AttachedIsCovered' /\ TerminalIsOver'
  <2> DEFINE T == {}
  <2>1. /\ OwnerInv /\ RuntimeInv /\ UNCHANGED serving /\ (conn' => conn)
        /\ \A b \in S : Well(r[b])
    BY <1>2, <1>3 DEF BindingsInd
  <2>2. /\ live \ T \subseteq live' /\ leased \ T \subseteq leased'
        /\ \A t \in Threads : status[t] # "live" => status'[t] # "live"
    BY <1>2
  <2>3. \A b \in S : r[b].att => r[b].th \in live' \cap leased'
    BY <1>2, <1>3, <1>5
  <2>4. \A b \in Bindings \ S : res[b].att /\ res[b].th \in T => status'[res[b].th] # "live"
    OBVIOUS
  <2> HIDE DEF T
  <2> QED BY <2>1, <2>2, <2>3, <2>4, <1>4, CommitCovers
<1>9. LeaseHasReason'
  <2>1. \A t \in Threads : subs[t] # {} => subs'[t] # {}
    <3> TAKE t \in Threads
    <3> HAVE subs[t] # {}
    <3>1. PICK b \in subs[t] : b \in Bindings /\ res[b].att
      BY SubscribersAre DEF BindingsInd
    <3> QED BY <3>1, <1>7
  <2>2. \A t \in X : subs'[t] # {}
    BY <1>3, <1>5, <1>6, <1>7
  <2> QED BY <1>2, <2>1, <2>2 DEF BindingsInd, RuntimeInv, OutsideTypes, LeaseHasReason
<1>10. OutsideTypes'
  BY <1>2, <1>5 DEF BindingsInd, RuntimeInv, OutsideTypes
<1>11. Rested'
  BY <1>2 DEF Rested
<1> QED BY <1>7, <1>8, <1>9, <1>10, <1>11 DEF BindingsInd, RuntimeInv

LEMMA AttachThreadStep ==
  ASSUME BindingConstants, BindingsInd, NEW t \in Threads, AttachThread(t)
  PROVE  BindingsInd'
<1>1. PICK S \in SUBSET DetachedOn(t) : AttachMany(S)
  BY DEF AttachThread
<1>2. S \in SUBSET Bindings /\ \A b \in S : res[b].th \in Threads /\ ~res[b].att
  BY DEF DetachedOn, Bound
<1> QED BY <1>1, <1>2, AttachManyStep

LEMMA AttachServiceStep ==
  ASSUME BindingConstants, BindingsInd, AttachService
  PROVE  BindingsInd'
<1>1. PICK S \in SUBSET UNION {DetachedOn(t) : t \in {u \in Threads : status[u] = "live"}} :
        AttachMany(S)
  BY DEF AttachService
<1>2. ASSUME NEW b \in S PROVE b \in Bindings /\ res[b].th \in Threads /\ ~res[b].att
  <2>1. PICK t \in {u \in Threads : status[u] = "live"} : b \in DetachedOn(t)
    OBVIOUS
  <2> QED BY <2>1 DEF DetachedOn, Bound
<1>3. S \in SUBSET Bindings /\ \A b \in S : res[b].th \in Threads /\ ~res[b].att
  BY <1>2
<1> QED BY <1>1, <1>3, AttachManyStep

-----------------------------------------------------------------------------
(* Settlements that fail *)

\* One that changes neither subscription nor lease.
LEMMA QuietFailStep ==
  ASSUME BindingConstants, BindingsInd, serving, UNCHANGED <<runtime, outside>>,
         NEW S \in SUBSET Bindings, NEW reason \in Reasons \ {"terminal"}, HasSubjects(S, reason),
         \/ SettleFails(S, reason)
         \/ \E record \in [Bindings -> StoredRecord] : SaveFails(S, reason, record)
  PROVE  BindingsInd'
<1> DEFINE T == {}
<1>1. /\ UNCHANGED <<serving, conn, web, status>> /\ UNCHANGED <<leased, kept>>
      /\ live' \subseteq live /\ live \ T \subseteq live'
  BY DEF runtime, outside
<1>2. \A b \in Bindings : res[b].att /\ res[b].th \in T => reserved'[b] = "detached"
  OBVIOUS
<1> HIDE DEF T
<1> QED BY <1>1, <1>2, PinnedStep

LEMMA ClearThreadFailsStep ==
  ASSUME BindingConstants, BindingsInd, NEW b \in Bindings, ClearThreadFails(b)
  PROVE  BindingsInd'
<1>1. /\ serving /\ UNCHANGED <<runtime, outside>> /\ {b} \in SUBSET Bindings
      /\ HasSubjects({b}, "cleared") /\ "cleared" \in Reasons \ {"terminal"}
  BY DEF ClearThreadFails, HasSubjects, Reasons
<1>2. [c \in Bindings |-> NoRecord] \in [Bindings -> StoredRecord]
  BY BlankRecords
<1>3. \/ SettleFails({b}, "cleared")
      \/ \E record \in [Bindings -> StoredRecord] : SaveFails({b}, "cleared", record)
  BY <1>2 DEF ClearThreadFails
<1> QED BY <1>1, <1>3, QuietFailStep

LEMMA DetachBindingFailsStep ==
  ASSUME BindingConstants, BindingsInd, NEW b \in Bindings, DetachBindingFails(b)
  PROVE  BindingsInd'
<1>1. res[b].in
  BY DEF DetachBindingFails, BindingsInd, OwnerInv, OwnerTypes, Well
<1>2. /\ serving /\ UNCHANGED <<runtime, outside>> /\ {b} \in SUBSET Bindings
      /\ HasSubjects({b}, "detached") /\ "detached" \in Reasons \ {"terminal"}
  BY <1>1 DEF DetachBindingFails, HasSubjects, Reasons
<1>3. [c \in Bindings |-> NoRecord] \in [Bindings -> StoredRecord]
  BY BlankRecords
<1>4. \/ SettleFails({b}, "detached")
      \/ \E record \in [Bindings -> StoredRecord] : SaveFails({b}, "detached", record)
  BY <1>3 DEF DetachBindingFails
<1> QED BY <1>2, <1>4, QuietFailStep

\* The subjects of a detach of a thread are the bindings attached to it.
LEMMA DetachSubjects ==
  ASSUME OwnerInv, NEW t \in Threads
  PROVE  /\ Attached(t) \in SUBSET Bindings /\ HasSubjects(Attached(t), "detached")
         /\ "detached" \in Reasons \ {"terminal"}
BY AttachedAll DEF HasSubjects, Reasons

LEMMA DetachThreadSettleFailsStep ==
  ASSUME BindingConstants, BindingsInd, NEW t \in Threads, DetachThreadSettleFails(t)
  PROVE  BindingsInd'
<1>1. /\ serving /\ UNCHANGED <<runtime, outside>> /\ SettleFails(Attached(t), "detached")
  BY DEF DetachThreadSettleFails, MayDetachThread
<1>2. /\ Attached(t) \in SUBSET Bindings /\ HasSubjects(Attached(t), "detached")
      /\ "detached" \in Reasons \ {"terminal"}
  BY DetachSubjects DEF BindingsInd
<1> QED BY <1>1, <1>2, QuietFailStep

LEMMA DetachThreadRpcFailsStep ==
  ASSUME BindingConstants, BindingsInd, NEW t \in Threads, DetachThreadRpcFails(t)
  PROVE  BindingsInd'
<1> DEFINE S == Attached(t)
<1>1. /\ S \in SUBSET Bindings /\ HasSubjects(S, "detached") /\ "detached" \in Reasons
      /\ \A c \in Bindings \ S : ~(res[c].att /\ res[c].th = t)
  BY DetachSubjects, AttachedAll DEF BindingsInd
<1>2. /\ serving /\ Settles(S, "detached") /\ Pin(S, "detached") /\ live' \in {live, live \ {t}}
      /\ UNCHANGED <<res, disk, torn, subs, held, leased, kept, serving, conn, web, status>>
  BY DEF DetachThreadRpcFails, MayDetachThread, outside
<1> HIDE DEF S
<1>3. /\ OwnerInv'
      /\ \A b \in Bindings : reserved'[b] = IF b \in S THEN "detached" ELSE reserved[b]
  <2>1. /\ OwnerInv /\ UNCHANGED <<serving, res, subs, held>>
        /\ disk' \in [Bindings -> StoredRecord] /\ torn' \subseteq Bindings
    BY <1>2 DEF BindingsInd, OwnerInv, OwnerTypes
  <2>2. serving => \A b \in Bindings \ torn' : disk'[b] = StoredOf(res[b])
    BY <1>2 DEF BindingsInd, OwnerInv, DiskMatches
  <2> QED BY <1>1, <1>2, <2>1, <2>2, PinKeeps
<1>4. PinnedFor(S, "detached")
  BY <1>2, <1>3 DEF PinnedFor, Settles
<1> DEFINE T == {t}
<1>5. \A b \in Bindings : res[b].att /\ res[b].th \in T
                            => reserved'[b] = "detached" \/ status'[res[b].th] # "live"
  BY <1>1, <1>3
<1>6. /\ UNCHANGED <<serving, conn, web, res, subs>>
      /\ status' \in [Threads -> {"live", "archived", "deleted"}]
      /\ \A u \in Threads : status[u] # "live" => status'[u] # "live"
      /\ leased \subseteq leased' /\ leased' \subseteq Threads /\ leased' \ leased \subseteq kept'
      /\ kept \subseteq kept' /\ kept' \subseteq Threads
  BY <1>2 DEF BindingsInd, RuntimeInv, OutsideTypes
<1>7. live' \subseteq live /\ live \ T \subseteq live'
  BY <1>2
<1>8. "detached" = "terminal" => \A b \in S : status'[res[b].th] # "live"
  OBVIOUS
<1> HIDE DEF T
<1> QED BY <1>2, <1>3, <1>4, <1>5, <1>6, <1>7, <1>8, FailStep

LEMMA DetachThreadSaveFailsStep ==
  ASSUME BindingConstants, BindingsInd, NEW t \in Threads, DetachThreadSaveFails(t)
  PROVE  BindingsInd'
<1> DEFINE S == Attached(t)
<1> DEFINE T == {t}
<1> DEFINE record == [b \in Bindings |-> [th |-> t, att |-> FALSE]]
<1>1. /\ S \in SUBSET Bindings /\ HasSubjects(S, "detached") /\ "detached" \in Reasons \ {"terminal"}
      /\ \A c \in Bindings \ S : ~(res[c].att /\ res[c].th = t)
  BY DetachSubjects, AttachedAll DEF BindingsInd
<1>2. /\ serving /\ SaveFails(S, "detached", record) /\ UNCHANGED <<leased, kept>>
      /\ UNCHANGED <<serving, conn, web, status>>
      /\ live' \subseteq live /\ live \ T \subseteq live'
  BY DEF DetachThreadSaveFails, MayDetachThread, outside
<1>3. record \in [Bindings -> StoredRecord]
  BY DEF StoredRecord
<1>4. \A b \in Bindings : res[b].att /\ res[b].th \in T => reserved'[b] = "detached"
  <2>1. Pin(S, "detached")
    BY <1>2 DEF SaveFails
  <2> QED BY <1>1, <2>1 DEF Pin
<1> HIDE DEF S, T, record
<1>5. \E rec \in [Bindings -> StoredRecord] : SaveFails(S, "detached", rec)
  BY <1>2, <1>3
<1> QED BY <1>1, <1>2, <1>4, <1>5, PinnedStep

-----------------------------------------------------------------------------
(* Removing bindings *)

LEMMA RemovedAll ==
  ASSUME BindingConstants, NEW S \in SUBSET Bindings
  PROVE  \A b \in S : Well(Removed[b]) /\ ~Removed[b].att
BY BlankRecords DEF Removed

LEMMA FinishRemovedParts ==
  ASSUME NEW S, FinishRemoved(S)
  PROVE  /\ live' \subseteq live /\ live \ LeftBy(S) \subseteq live'
         /\ leased' \subseteq leased /\ leased \ LeftBy(S) \subseteq leased'
         /\ kept' = (kept \cup LeftBy(S)) \cap leased'
<1>1. PICK D \in SUBSET (Finishable(S) \ web) : /\ live' = live \ (LeftBy(S) \ web)
                                                /\ leased' = leased \ D
                                                /\ kept' = (kept \cup LeftBy(S)) \cap leased'
  BY DEF FinishRemoved
<1>2. Finishable(S) \subseteq LeftBy(S)
  BY DEF Finishable
<1> QED BY <1>1, <1>2

LEMMA RemoveStep ==
  ASSUME BindingConstants, BindingsInd, serving, UNCHANGED outside,
         NEW S \in SUBSET Bindings, NEW reason, Deactivates(S, reason), FinishRemoved(S)
  PROVE  BindingsInd'
<1> DEFINE T == LeftBy(S)
<1>1. \A t \in Threads : subs[t] # {} /\ subs[t] \subseteq S => t \in T
  BY DEF LeftBy
<1>2. \A b \in Bindings \ S : res[b].att /\ res[b].th \in T => status'[res[b].th] # "live"
  <2> SUFFICES ASSUME NEW b \in Bindings \ S, res[b].att, res[b].th \in T PROVE FALSE
    OBVIOUS
  <2>1. res[b].th \in Threads /\ subs[res[b].th] \subseteq S
    BY DEF LeftBy
  <2> QED BY <2>1, SubscribersAre DEF BindingsInd
<1>3. /\ UNCHANGED <<serving, conn, web>>
      /\ status' \in [Threads -> {"live", "archived", "deleted"}]
      /\ \A t \in Threads : status[t] # "live" => status'[t] # "live"
  BY DEF outside, BindingsInd, RuntimeInv, OutsideTypes
<1>4. /\ live' \subseteq live /\ live \ T \subseteq live'
      /\ leased' \subseteq leased /\ leased \ T \subseteq leased'
      /\ kept' = (kept \cup T) \cap leased'
  BY FinishRemovedParts
<1>5. Commit(S, Removed) /\ \A b \in S : Well(Removed[b]) /\ ~Removed[b].att
  BY RemovedAll DEF Deactivates
<1> HIDE DEF T
<1> QED BY <1>1, <1>2, <1>3, <1>4, <1>5, LeaveStep

LEMMA ClearOneStep ==
  ASSUME BindingConstants, BindingsInd, NEW b \in Bindings, ClearOne(b) \/ DeactivateSender(b)
  PROVE  BindingsInd'
<1>1. /\ serving /\ Deactivates({b}, "deactivated") /\ FinishRemoved({b}) /\ UNCHANGED outside
      /\ {b} \in SUBSET Bindings
  BY DEF ClearOne, DeactivateSender
<1> QED BY <1>1, RemoveStep

LEMMA ClearAllStep ==
  ASSUME BindingConstants, BindingsInd, ClearAll
  PROVE  BindingsInd'
<1>1. /\ serving /\ Deactivates(Resident, "deactivated") /\ FinishRemoved(Resident)
      /\ UNCHANGED outside
  BY DEF ClearAll
<1>2. Resident \in SUBSET Bindings
  BY DEF Resident
<1> QED BY <1>1, <1>2, RemoveStep

LEMMA ReconcileLossStep ==
  ASSUME BindingConstants, BindingsInd, NEW b \in Bindings, ReconcileLoss(b)
  PROVE  BindingsInd'
<1> DEFINE S == {b} \cap Resident
<1>1. serving /\ Deactivates(S, "deactivated") /\ FinishRemoved(S) /\ UNCHANGED outside
  BY DEF ReconcileLoss
<1>2. S \in SUBSET Bindings
  OBVIOUS
<1> HIDE DEF S
<1> QED BY <1>1, <1>2, RemoveStep

\* Only the leases are released: nobody who stays is attached to a thread in T
\* that goes on.
LEMMA ReleaseStep ==
  ASSUME BindingConstants, BindingsInd, serving, UNCHANGED outside,
         NEW S \in SUBSET Bindings, NEW reason, Deactivates(S, reason), NEW T, ReleaseOnly(T),
         \A t \in Threads : subs[t] # {} /\ subs[t] \subseteq S => t \in T,
         \A b \in Bindings \ S : res[b].att /\ res[b].th \in T => status[res[b].th] # "live"
  PROVE  BindingsInd'
<1>1. PICK D \in SUBSET (T \ web) : /\ leased' = leased \ D /\ kept' = (kept \cup T) \cap leased'
                                    /\ live' = live \ (T \ web)
  BY DEF ReleaseOnly
<1>2. /\ live' \subseteq live /\ live \ T \subseteq live'
      /\ leased' \subseteq leased /\ leased \ T \subseteq leased'
  BY <1>1
<1>3. /\ UNCHANGED <<serving, conn, web, status>>
      /\ status' \in [Threads -> {"live", "archived", "deleted"}]
      /\ \A t \in Threads : status[t] # "live" => status'[t] # "live"
  BY DEF outside, BindingsInd, RuntimeInv, OutsideTypes
<1>4. \A b \in Bindings \ S : res[b].att /\ res[b].th \in T => status'[res[b].th] # "live"
  BY <1>3
<1>5. Commit(S, Removed) /\ \A b \in S : Well(Removed[b]) /\ ~Removed[b].att
  BY RemovedAll DEF Deactivates
<1> QED BY <1>1, <1>2, <1>3, <1>4, <1>5, LeaveStep

LEMMA ClearStaleStep ==
  ASSUME BindingConstants, BindingsInd, ClearStale
  PROVE  BindingsInd'
<1> DEFINE T == {res[b].th : b \in Stale}
<1>1. serving /\ Deactivates(Stale, "deactivated") /\ ReleaseOnly(T) /\ UNCHANGED outside
  BY DEF ClearStale
<1>2. Stale \in SUBSET Bindings
  BY DEF Stale, Resident
<1>3. \A t \in Threads : subs[t] # {} /\ subs[t] \subseteq Stale => t \in T
  <2> SUFFICES ASSUME NEW t \in Threads, subs[t] # {}, subs[t] \subseteq Stale PROVE t \in T
    OBVIOUS
  <2>1. PICK b \in subs[t] : b \in Stale
    OBVIOUS
  <2> QED BY <2>1, <1>2, SubscribersAre DEF BindingsInd
<1>4. \A b \in Bindings \ Stale : res[b].att /\ res[b].th \in T => status[res[b].th] # "live"
  BY DEF Stale
<1> HIDE DEF T
<1> QED BY <1>1, <1>2, <1>3, <1>4, ReleaseStep

\* All bindings of one thread, attached or not.
LEMMA BoundAll ==
  ASSUME OwnerInv, NEW t \in Threads
  PROVE  /\ Bound(t) \in SUBSET Bindings
         /\ \A u \in Threads : subs[u] # {} /\ subs[u] \subseteq Bound(t) => u = t
         /\ \A c \in Bindings \ Bound(t) : ~(res[c].att /\ res[c].th = t)
         /\ \A c \in Bound(t) : res[c].in /\ res[c].th = t
<1>1. Bound(t) \in SUBSET Bindings /\ \A c \in Bound(t) : res[c].in /\ res[c].th = t
  BY DEF Bound
<1>2. ASSUME NEW u \in Threads, subs[u] # {}, subs[u] \subseteq Bound(t) PROVE u = t
  <2>1. PICK c \in subs[u] : TRUE
    BY <1>2
  <2> QED BY <1>1, <1>2, <2>1, SubscribersAre
<1>3. \A c \in Bindings \ Bound(t) : ~(res[c].att /\ res[c].th = t)
  BY DEF Bound, OwnerInv, OwnerTypes, Well
<1> QED BY <1>1, <1>2, <1>3

LEMMA ClearArchivedStep ==
  ASSUME BindingConstants, BindingsInd, NEW t \in Threads, ClearArchived(t)
  PROVE  BindingsInd'
<1> DEFINE S == Bound(t)
<1>1. /\ S \in SUBSET Bindings
      /\ \A u \in Threads : subs[u] # {} /\ subs[u] \subseteq S => u = t
      /\ \A c \in Bindings \ S : ~(res[c].att /\ res[c].th = t)
  BY BoundAll DEF BindingsInd
<1>2. /\ serving /\ Deactivates(S, "deactivated") /\ UNCHANGED outside
      /\ FinishRemoved(S) \/ ReleaseOnly({t})
  BY DEF ClearArchived
<1> DEFINE T == {t}
<1>3. /\ \A u \in Threads : subs[u] # {} /\ subs[u] \subseteq S => u \in T
      /\ \A b \in Bindings \ S : res[b].att /\ res[b].th \in T => status[res[b].th] # "live"
  BY <1>1
<1>4. FinishRemoved(S) \/ ReleaseOnly(T)
  BY <1>2
<1> HIDE DEF S, T
<1>5. CASE FinishRemoved(S)
  BY <1>1, <1>2, <1>5, RemoveStep
<1>6. CASE ReleaseOnly(T)
  BY <1>1, <1>2, <1>3, <1>6, ReleaseStep
<1> QED BY <1>4, <1>5, <1>6

LEMMA ClearFailsStep ==
  ASSUME BindingConstants, BindingsInd, NEW S \in SUBSET Resident, ClearFails(S)
  PROVE  BindingsInd'
<1>1. S \in SUBSET Bindings /\ \A b \in S : res[b].in
  BY DEF Resident
<1>2. serving /\ UNCHANGED <<runtime, outside>> /\ "deactivated" \in Reasons \ {"terminal"}
  BY DEF ClearFails, Reasons
<1> DEFINE P == {b \in S : res[b].th # NoThread}
<1>3. CASE SettleFails(P, "deactivated")
  <2>1. P \in SUBSET Bindings /\ HasSubjects(P, "deactivated")
    BY <1>1 DEF HasSubjects
  <2> HIDE DEF P
  <2> QED BY <1>2, <1>3, <2>1, QuietFailStep
<1>4. CASE SaveFails(S, "deactivated", [b \in Bindings |-> NoRecord])
  <2>1. HasSubjects(S, "deactivated")
    BY <1>1 DEF HasSubjects
  <2>2. [b \in Bindings |-> NoRecord] \in [Bindings -> StoredRecord]
    BY BlankRecords
  <2>3. \E record \in [Bindings -> StoredRecord] : SaveFails(S, "deactivated", record)
    BY <1>4, <2>2
  <2> QED BY <1>1, <1>2, <2>1, <2>3, QuietFailStep
<1> QED BY <1>3, <1>4 DEF ClearFails, DeactivateFails

-----------------------------------------------------------------------------
(* The lifecycle of a thread *)

LEMMA EndThreadStep ==
  ASSUME BindingConstants, BindingsInd, NEW t \in Threads, NEW to \in {"archived", "deleted"},
         EndThread(t, to)
  PROVE  BindingsInd'
<1> DEFINE S == Bound(t)
<1> DEFINE T == {t}
<1>1. /\ S \in SUBSET Bindings
      /\ \A u \in Threads : subs[u] # {} /\ subs[u] \subseteq S => u \in T
  BY BoundAll DEF BindingsInd
<1>2. /\ serving /\ status' = [status EXCEPT ![t] = to] /\ Deactivates(S, "terminal")
      /\ live' = live \ {t} /\ UNCHANGED <<serving, conn, web>>
  BY DEF EndThread, MayEnd
<1>3. PICK D \in SUBSET ({t} \ web) : leased' = leased \ D /\ kept' = (kept \cup T) \cap leased'
  BY DEF EndThread
<1>4. /\ status' \in [Threads -> {"live", "archived", "deleted"}]
      /\ \A u \in Threads : status[u] # "live" => status'[u] # "live"
      /\ status'[t] # "live"
  BY <1>2 DEF BindingsInd, RuntimeInv, OutsideTypes
<1>5. /\ live' \subseteq live /\ live \ T \subseteq live'
      /\ leased' \subseteq leased /\ leased \ T \subseteq leased'
      /\ \A b \in Bindings \ S : res[b].att /\ res[b].th \in T => status'[res[b].th] # "live"
  BY <1>2, <1>3, <1>4
<1>6. Commit(S, Removed) /\ \A b \in S : Well(Removed[b]) /\ ~Removed[b].att
  BY <1>1, <1>2, RemovedAll DEF Deactivates
<1> HIDE DEF S, T
<1> QED BY <1>1, <1>2, <1>3, <1>4, <1>5, <1>6, LeaveStep

\* The thread has ended and at most its bindings were reserved for that.
LEMMA EndedStep ==
  ASSUME BindingConstants, BindingsInd, serving, UNCHANGED <<serving, conn, web, leased, res, subs>>,
         NEW t \in Threads, NEW to \in {"archived", "deleted"},
         status' = [status EXCEPT ![t] = to], live' = live \ {t}, kept' = kept \cup (leased \cap {t}),
         OwnerInv', NEW S \in SUBSET Bound(t), PinnedFor(S, "terminal")
  PROVE  BindingsInd'
<1> DEFINE T == {t}
<1>1. /\ status' \in [Threads -> {"live", "archived", "deleted"}]
      /\ \A u \in Threads : status[u] # "live" => status'[u] # "live"
      /\ status'[t] # "live"
  BY DEF BindingsInd, RuntimeInv, OutsideTypes
<1>2. \A b \in Bindings : res[b].att /\ res[b].th \in T
                            => reserved'[b] = "detached" \/ status'[res[b].th] # "live"
  BY <1>1
<1>3. "terminal" = "terminal" => \A b \in S : status'[res[b].th] # "live"
  BY <1>1 DEF Bound
<1>4. /\ UNCHANGED <<serving, conn, web, res, subs>>
      /\ live' \subseteq live /\ live \ T \subseteq live'
      /\ leased \subseteq leased' /\ leased' \subseteq Threads /\ leased' \ leased \subseteq kept'
      /\ kept \subseteq kept' /\ kept' \subseteq Threads
  BY DEF BindingsInd, RuntimeInv, OutsideTypes
<1> HIDE DEF T
<1> QED BY <1>1, <1>2, <1>3, <1>4, FailStep

LEMMA EndThreadCleanupFailsStep ==
  ASSUME BindingConstants, BindingsInd, NEW t \in Threads, NEW to \in {"archived", "deleted"},
         EndThreadCleanupFails(t, to)
  PROVE  BindingsInd'
<1>1. /\ serving /\ status' = [status EXCEPT ![t] = to] /\ live' = live \ {t}
      /\ kept' = kept \cup (leased \cap {t}) /\ UNCHANGED <<leased, serving, conn, web>>
  BY DEF EndThreadCleanupFails, MayEnd
<1>2. OwnerInv /\ Bound(t) \in SUBSET Bindings /\ "terminal" \in Reasons
      /\ \A b \in Bound(t) : res[b].in /\ res[b].th = t
  BY BoundAll DEF BindingsInd, Reasons
<1>3. t # NoThread
  BY DEF BindingConstants
<1> DEFINE P == {b \in Bound(t) : res[b].th # NoThread}
<1>4. CASE SettleFails(P, "terminal")
  <2>1. P \in SUBSET Bindings /\ P \in SUBSET Bound(t) /\ HasSubjects(P, "terminal")
    BY <1>2 DEF HasSubjects
  <2> HIDE DEF P
  <2>2. OwnerInv' /\ UNCHANGED <<res, subs>> /\ PinnedFor(P, "terminal")
    BY <1>1, <1>2, <1>4, <2>1, SettleFailsKeeps
  <2> QED BY <1>1, <2>1, <2>2, EndedStep
<1>5. CASE SaveFails(Bound(t), "terminal", [b \in Bindings |-> NoRecord])
  <2> DEFINE record == [b \in Bindings |-> NoRecord]
  <2> DEFINE S == Bound(t)
  <2>1. HasSubjects(S, "terminal")
    BY <1>2, <1>3 DEF HasSubjects
  <2>2. record \in [Bindings -> StoredRecord]
    BY BlankRecords
  <2>3. SaveFails(S, "terminal", record) /\ S \in SUBSET Bound(t) /\ S \in SUBSET Bindings
    BY <1>2, <1>5
  <2> HIDE DEF record, S
  <2>4. OwnerInv' /\ UNCHANGED <<res, subs>> /\ PinnedFor(S, "terminal")
    BY <1>1, <1>2, <2>1, <2>2, <2>3, SaveFailsKeeps
  <2> QED BY <1>1, <2>3, <2>4, EndedStep
<1>6. CASE UNCHANGED owner
  <2>1. OwnerInv' /\ UNCHANGED <<res, subs, reserved>>
    BY <1>1, <1>2, <1>6, OwnerRests
  <2> DEFINE S == {}
  <2>2. PinnedFor(S, "terminal") /\ S \in SUBSET Bound(t)
    BY <2>1 DEF PinnedFor
  <2> HIDE DEF S
  <2> QED BY <1>1, <2>1, <2>2, EndedStep
<1> QED BY <1>4, <1>5, <1>6 DEF EndThreadCleanupFails, DeactivateFails

LEMMA EndThreadUnknownStep ==
  ASSUME BindingConstants, BindingsInd, NEW t \in Threads, NEW to \in {"archived", "deleted"},
         EndThreadUnknown(t, to)
  PROVE  BindingsInd'
<1>1. /\ serving /\ status' = [status EXCEPT ![t] = to] /\ live' = live \ {t}
      /\ kept' = kept \cup (leased \cap {t}) /\ UNCHANGED <<leased, serving, conn, web>>
      /\ UNCHANGED owner
  BY DEF EndThreadUnknown, MayEnd
<1>2. OwnerInv' /\ UNCHANGED <<res, subs, reserved>>
  BY <1>1, OwnerRests DEF BindingsInd
<1> DEFINE S == {}
<1>3. PinnedFor(S, "terminal") /\ S \in SUBSET Bound(t)
  BY <1>2 DEF PinnedFor
<1> HIDE DEF S
<1> QED BY <1>1, <1>2, <1>3, EndedStep

\* A thread that comes back has no binding, so none is attached to it or
\* reserved for its end.
LEMMA UnarchiveStep ==
  ASSUME BindingConstants, BindingsInd, NEW t \in Threads, Unarchive(t)
  PROVE  BindingsInd'
<1>1. /\ serving /\ Bound(t) = {} /\ status' = [status EXCEPT ![t] = "live"]
      /\ UNCHANGED owner /\ UNCHANGED <<live, leased, kept, serving, conn, web>>
  BY DEF Unarchive, runtime
<1>2. OwnerInv' /\ UNCHANGED <<res, disk, torn, subs, reserved, held>>
  BY <1>1, OwnerRests DEF BindingsInd
<1>3. \A b \in Bindings : res[b].att \/ reserved[b] = "terminal"
                            => res[b].th \in Threads /\ res[b].th # t
  <2> SUFFICES ASSUME NEW b \in Bindings, res[b].att \/ reserved[b] = "terminal"
               PROVE  res[b].th \in Threads /\ res[b].th # t
    OBVIOUS
  <2>1. Well(res[b]) /\ Subject(b)
    BY DEF BindingsInd, OwnerInv, OwnerTypes
  <2>2. res[b].in /\ res[b].th # NoThread /\ res[b].th \in Threads \cup {NoThread}
    BY <2>1 DEF Well, Subject, ResidentRecord
  <2> QED BY <1>1, <2>2 DEF Bound
<1>4. \A u \in Threads : u # t => status'[u] = status[u]
  BY <1>1 DEF BindingsInd, RuntimeInv, OutsideTypes
<1>5. OutsideTypes'
  BY <1>1 DEF BindingsInd, RuntimeInv, OutsideTypes
<1>6. AttachedIsCovered' /\ TerminalIsOver'
  BY <1>1, <1>2, <1>3, <1>4 DEF BindingsInd, RuntimeInv, AttachedIsCovered, TerminalIsOver
<1>7. LeaseHasReason'
  BY <1>1, <1>2 DEF BindingsInd, RuntimeInv, LeaseHasReason
<1>8. Rested'
  BY <1>1 DEF Rested
<1> QED BY <1>2, <1>5, <1>6, <1>7, <1>8 DEF BindingsInd, RuntimeInv

-----------------------------------------------------------------------------
LEMMA BindKept ==
  ASSUME BindingConstants, BindingsInd, [BindingsNext]_bindingsVars
  PROVE  BindingsInd'
<1>1. CASE UNCHANGED bindingsVars
  <2>1. UNCHANGED owner /\ UNCHANGED <<serving, conn, live, leased, web, status, kept>>
    BY <1>1 DEF bindingsVars, owner
  <2>2. OwnerInv' /\ UNCHANGED <<res, disk, torn, subs, reserved, held>>
    BY <2>1, OwnerRests DEF BindingsInd
  <2>3. RuntimeInv'
    BY <2>1, <2>2
       DEF BindingsInd, RuntimeInv, OutsideTypes, AttachedIsCovered, LeaseHasReason, TerminalIsOver
  <2>4. Rested'
    BY <2>1, <2>2 DEF BindingsInd, Rested
  <2> QED BY <2>2, <2>3, <2>4 DEF BindingsInd
<1>2. CASE Start \/ StartFails \/ Crash \/ ConnectionDies \/ FailClose \/ FailCloseFails
  BY <1>2, StartStep, StartFailsStep, CrashStep, ConnectionDiesStep, FailCloseStep, FailCloseFailsStep
<1>3. ASSUME NEW b \in Bindings,
             \/ Resolve(b) \/ Capture(b) \/ Prime(b) \/ TurnEnds(b) \/ PersistSession(b)
             \/ ClearThread(b) \/ ClearThreadFails(b) \/ DetachBinding(b) \/ DetachBindingFails(b)
             \/ ClearOne(b) \/ DeactivateSender(b) \/ ReconcileLoss(b)
      PROVE  BindingsInd'
  BY <1>3, ResolveStep, CaptureStep, PrimeStep, TurnEndsStep, PersistSessionStep, ClearThreadStep,
     ClearThreadFailsStep, DetachBindingStep, DetachBindingFailsStep, ClearOneStep, ReconcileLossStep
<1>4. ASSUME NEW b \in Bindings, NEW t \in Threads, Bind(b, t) \/ BindFails(b, t)
      PROVE  BindingsInd'
  BY <1>4, BindStep, BindFailsStep
<1>5. CASE RetireHeld \/ AttachService \/ ClearAll \/ ClearStale
  BY <1>5, RetireHeldStep, AttachServiceStep, ClearAllStep, ClearStaleStep
<1>6. ASSUME NEW S \in {Resident, Stale} \cup {{b} : b \in Resident}, ClearFails(S)
      PROVE  BindingsInd'
  <2>1. S \in SUBSET Resident
    BY DEF Stale
  <2> QED BY <1>6, <2>1, ClearFailsStep
<1>7. ASSUME NEW t \in Threads,
             \/ WebOpens(t) \/ WebCloses(t) \/ AttachThread(t) \/ DetachThread(t)
             \/ DetachThreadSettleFails(t) \/ DetachThreadRpcFails(t) \/ DetachThreadSaveFails(t)
             \/ ClearArchived(t) \/ Unarchive(t)
      PROVE  BindingsInd'
  BY <1>7, WebOpensStep, WebClosesStep, AttachThreadStep, DetachThreadStep,
     DetachThreadSettleFailsStep, DetachThreadRpcFailsStep, DetachThreadSaveFailsStep,
     ClearArchivedStep, UnarchiveStep
<1>8. ASSUME NEW t \in Threads, NEW to \in {"archived", "deleted"},
             EndThread(t, to) \/ EndThreadCleanupFails(t, to) \/ EndThreadUnknown(t, to)
      PROVE  BindingsInd'
  BY <1>8, EndThreadStep, EndThreadCleanupFailsStep, EndThreadUnknownStep
<1> QED BY <1>1, <1>2, <1>3, <1>4, <1>5, <1>6, <1>7, <1>8 DEF BindingsNext

LEMMA BindImplies == BindingsInd => BindingsInvariant
<1> SUFFICES ASSUME BindingsInd PROVE BindingsInvariant
  OBVIOUS
<1>1. BindingsTypeOK
  BY DEF BindingsInd, OwnerInv, OwnerTypes, RuntimeInv, OutsideTypes, BindingsTypeOK,
         ResidentRecord, StoredRecord, SessionRecord
<1>2. PinnedCanRetry
  BY DEF BindingsInd, OwnerInv, RuntimeInv, Subject, TerminalIsOver, PinnedCanRetry
<1>3. SubscribersAreAttached /\ DiskMatches /\ HeldIsExact /\ AttachedIsCovered /\ LeaseHasReason
  BY DEF BindingsInd, OwnerInv, RuntimeInv
<1> QED BY <1>1, <1>2, <1>3 DEF BindingsInvariant

\* Bindings stay consistent through every partial failure, restart and lost
\* connection (bot/binding_runtime_manager.py), for any number of chats and
\* threads.
THEOREM BindingSafety ==
  ASSUME BindingConstants
  PROVE  BindingsSpec => []BindingsInvariant
<1>1. BindingsInit => BindingsInd
  BY BindInitial
<1>2. BindingsInd /\ [BindingsNext]_bindingsVars => BindingsInd'
  BY BindKept
<1>3. BindingsInd => BindingsInvariant
  BY BindImplies
<1> QED BY <1>1, <1>2, <1>3, PTL DEF BindingsSpec

-----------------------------------------------------------------------------
(* The receipts of a thread.                                                *)
-----------------------------------------------------------------------------
(* The inductive invariant.                                                 *)

Acquiring == {"claimed", "checked", "leased"}
Registered == {"pending", "ready", "sending", "replied", "drop", "dropped"}
Revoked == {"undo", "undone"}

\* A claim that acquires has the slot, a receipt that is pending has it, and the
\* slot of an open is in the hands of an attempt under way.
HasReceipt(o) ==
  /\ o \in acquiring <=> att[o].pc \in Acquiring
  /\ o \in acquiring \cup pending => rclaim = o
  /\ o \in pending => att[o].pc \in Registered
  /\ rclaim = o => o \in acquiring \cup pending \/ att[o].pc \in Revoked
  /\ o \in invalid => att[o].pc \in Acquiring \cup Revoked

\* An attempt of the live connection was not revoked.
CurrentHasSlot(o) ==
  /\ att[o].gen <= gen
  /\ att[o].pc # "idle" /\ att[o].gen = gen =>
       ~lost /\ o \in (acquiring \cup pending) \ invalid

\* Feishu holds the loop from its claim to the end.
FeishuHasReceipt ==
  /\ Feishu \in acquiring <=> loop = "claimed"
  /\ Feishu \in pending <=> loop \in {"pending", "sending"}
  /\ rclaim = Feishu <=> loop \in {"claimed", "pending", "sending"}
  /\ Feishu \notin invalid \cup executing
  /\ loop \in {"compensate", "unsubscribed"} => rclaim = Nobody /\ uclaim = Nobody
  /\ fei.gen <= gen
  /\ loop = "sending" /\ fei.gen = gen => ~lost

\* Resume, unsubscribe and turn/start exclude each other.
OneSlot ==
  /\ rclaim = Nobody \/ uclaim = Nobody
  /\ uclaim # Nobody => start = 0
  /\ uclaim = Cleanup <=> cln.pc \notin {"idle", "probing", "probed"}
  /\ uclaim = Feishu <=> loop \in {"unsubClaimed", "unsubSending"}
  /\ uclaim = Feishu => interest = NoInterest /\ ~bound

LostIsUnsubscribed == lost => ~sub

Quiet == ~SubscriptionCurrent /\ ~bound /\ ~sub

\* The attempt has the slot and a new lease, and its resume has no effect so far.
HoldsNewLease(o) ==
  /\ rclaim = o /\ att[o].new
  /\ \/ att[o].pc \in {"leased", "undo", "pending", "ready", "drop"}
     \/ att[o].pc = "replied" /\ att[o].res = "noeffect"

\* Nobody needs the new lease of an attempt that may still give it back.
NewLeaseIsQuiet ==
  ~lost /\ ~loose =>
    /\ \A o \in Open : HoldsNewLease(o) => Quiet
    /\ loop \in {"pending", "sending"} /\ fei.new => Quiet
    /\ loop \in {"compensate", "unsubscribed"} => ~SubscriptionCurrent /\ ~bound
    /\ loop = "unsubscribed" => ~sub

\* A receipt that was not revoked has the lease until it gives it back.
ReceiptsKeepLease ==
  ~lost /\ ~loose =>
    /\ \A o \in Open :
         \/ o \in pending /\ att[o].pc # "dropped"
         \/ att[o].pc = "leased" /\ o \notin invalid
         => lease
    /\ loop \in {"pending", "sending"} => lease

\* What the cleanup may rely on while its snapshot is exact, and what it has
\* brought about.
CleanupFacts ==
  /\ cln.pc \in {"probing", "probed"} /\ cln.same =>
       interest # NoInterest /\ cln.cur = SubscriptionCurrent
  /\ cln.pc \in {"claimed", "confirmed", "sending", "replied", "settled"} /\ cln.same =>
       interest # NoInterest /\ ~interest.cur
  /\ /\ cln.pc \in {"claimed", "confirmed", "sending", "replied"}
     /\ cln.cur /\ cln.same /\ GenLive(cln.gen) /\ ~loose
     => lease
  /\ cln.pc \in {"settled", "allowed"} /\ cln.unsub => ~sub
  /\ cln.pc = "replied" /\ cln.res = "ok" /\ cln.unsub => ~sub
  /\ cln.pc = "allowed" /\ ~lost => ~bound /\ (SubscriptionCurrent => sub)

ResumeInd ==
  /\ TypeOK
  /\ \A o \in Open : HasReceipt(o) /\ CurrentHasSlot(o)
  /\ FeishuHasReceipt
  /\ OneSlot
  /\ LostIsUnsubscribed
  /\ LeaseCovers
  /\ NewLeaseIsQuiet
  /\ ReceiptsKeepLease
  /\ CleanupFacts

-----------------------------------------------------------------------------
(* Frames.                                                                  *)

\* Whatever is not the cleanup leaves its flight alone, except that a change of
\* the interest makes the snapshot inexact.
KeepsFlight ==
  /\ cln' \in Flight /\ cln'.pc = cln.pc /\ cln'.gen = cln.gen /\ cln'.cur = cln.cur
  /\ cln'.unsub = cln.unsub /\ cln'.res = cln.res
  /\ cln'.same => cln.same /\ interest' = interest

KeepsAttempts ==
  /\ att' \in [Open -> Attempt]
  /\ \A p \in Open : /\ att'[p].pc = att[p].pc /\ att'[p].gen = att[p].gen
                     /\ att'[p].new = att[p].new /\ att'[p].res = att[p].res

LEMMA FlightFields ==
  ASSUME cln \in Flight
  PROVE  /\ UNCHANGED <<cln, interest>> => KeepsFlight
         /\ \A b \in BOOLEAN : cln' = [cln EXCEPT !.exact = b] /\ interest' = interest => KeepsFlight
         /\ cln' = [cln EXCEPT !.same = FALSE] => KeepsFlight
         /\ cln' = [cln EXCEPT !.same = FALSE, !.exact = FALSE] => KeepsFlight
<1>1. UNCHANGED <<cln, interest>> => KeepsFlight
  BY DEF KeepsFlight
<1>2. ASSUME NEW b \in BOOLEAN, cln' = [cln EXCEPT !.exact = b], interest' = interest
      PROVE  KeepsFlight
  BY <1>2 DEF KeepsFlight, Flight
<1>3. cln' = [cln EXCEPT !.same = FALSE] => KeepsFlight
  BY DEF KeepsFlight, Flight
<1>4. cln' = [cln EXCEPT !.same = FALSE, !.exact = FALSE] => KeepsFlight
  BY DEF KeepsFlight, Flight
<1> QED BY <1>1, <1>2, <1>3, <1>4

LEMMA OpensKeepFlight ==
  ASSUME TypeOK, NEW o \in Open, OpenNext(o)
  PROVE  KeepsFlight
<1>1. cln \in Flight /\ cln.exact \in BOOLEAN
  BY DEF TypeOK, Flight
<1>2. ASSUME OpenAcquire(o) \/ OpenUndo(o) \/ OpenDrop(o) \/ OpenRefused(o)
      PROVE  KeepsFlight
  <2>1. interest' = interest /\ (cln' = cln \/ \E b \in BOOLEAN : cln' = [cln EXCEPT !.exact = b])
    BY <1>1, <1>2 DEF OpenAcquire, OpenUndo, OpenDrop, OpenRefused, surfaceVars
  <2> QED BY <1>1, <2>1, FlightFields
<1>3. ASSUME OpenCommit(o) \/ OpenUncertain(o)
      PROVE  KeepsFlight
  BY <1>1, <1>3, FlightFields DEF OpenCommit, OpenUncertain, Touch
<1>4. ASSUME \/ OpenClaim(o) \/ OpenAbandonClaim(o) \/ OpenCheck(o) \/ OpenAcquireFails(o)
             \/ OpenRegister(o) \/ OpenUndone(o) \/ OpenComplete(o) \/ OpenAbandon(o)
             \/ OpenDropped(o) \/ OpenSend(o) \/ OpenReply(o)
      PROVE  KeepsFlight
  BY <1>1, <1>4, FlightFields DEF OpenClaim, OpenAbandonClaim, OpenCheck, OpenAcquireFails,
     OpenRegister, OpenUndone, OpenComplete, OpenAbandon, OpenDropped, OpenSend, OpenReply,
     surfaceVars
<1> QED BY <1>2, <1>3, <1>4 DEF OpenNext

LEMMA FeishuKeepsFlight ==
  ASSUME TypeOK, FeishuNext
  PROVE  KeepsFlight /\ att' = att /\ interest' = interest
<1>1. cln \in Flight /\ cln.exact \in BOOLEAN
  BY DEF TypeOK, Flight
<1>2. att' = att /\ interest' = interest
  BY DEF FeishuNext, FeishuClaim, FeishuAcquire, FeishuRefused, FeishuSend, FeishuReply,
     FeishuCompensate, FeishuCompensated, FeishuDeactivate, FeishuUnsubSend, FeishuUnsubReply,
     surfaceVars
<1>3. cln' = cln \/ \E b \in BOOLEAN : cln' = [cln EXCEPT !.exact = b]
  BY <1>1 DEF FeishuNext, FeishuClaim, FeishuAcquire, FeishuRefused, FeishuSend, FeishuReply,
     FeishuCompensate, FeishuCompensated, FeishuDeactivate, FeishuUnsubSend, FeishuUnsubReply
<1> QED BY <1>1, <1>2, <1>3, FlightFields

Environment ==
  \/ StartTurn \/ StartReturns \/ Desire \/ CloseInBrowser \/ Notification
  \/ Disconnect \/ HandleDisconnect \/ BackendReset

LEMMA EnvironmentKeeps ==
  ASSUME TypeOK, Environment
  PROVE  KeepsFlight /\ KeepsAttempts
<1>1. cln \in Flight /\ att \in [Open -> Attempt]
  BY DEF TypeOK
<1>2. KeepsFlight
  BY <1>1, FlightFields DEF Environment, StartTurn, StartReturns, Desire, CloseInBrowser,
     Notification, Disconnect, HandleDisconnect, BackendReset, Touch, surfaceVars
<1>3. att' = att \/ att' = [p \in Open |-> [att[p] EXCEPT !.closed = att[p].pc # "idle"]]
  BY <1>1 DEF Environment, StartTurn, StartReturns, Desire, CloseInBrowser, Notification,
     Disconnect, HandleDisconnect, BackendReset
<1>4. CASE att' = att
  BY <1>1, <1>2, <1>4 DEF KeepsAttempts
<1>5. CASE att' = [p \in Open |-> [att[p] EXCEPT !.closed = att[p].pc # "idle"]]
  <2>1. \A p \in Open :
          /\ att'[p] \in Attempt /\ att'[p].pc = att[p].pc /\ att'[p].gen = att[p].gen
          /\ att'[p].new = att[p].new /\ att'[p].res = att[p].res
    BY <1>1, <1>5 DEF Attempt
  <2> QED BY <1>2, <1>5, <2>1 DEF KeepsAttempts
<1> QED BY <1>3, <1>4, <1>5

\* A step of one open leaves the other attempts alone.
LEMMA OpenMoves ==
  ASSUME TypeOK, NEW o \in Open, OpenNext(o)
  PROVE  att' \in [Open -> Attempt] /\ \A p \in Open : p # o => att'[p] = att[p]
<1> USE DEF TypeOK
<1>1. \E new \in Attempt : att' = [att EXCEPT ![o] = new]
  <2>1. ASSUME OpenAbandonClaim(o) \/ OpenCheck(o) \/ OpenAcquireFails(o) \/ OpenRegister(o)
               \/ OpenUndo(o) \/ OpenUndone(o) \/ OpenComplete(o) \/ OpenAbandon(o)
               \/ OpenDrop(o) \/ OpenDropped(o)
        PROVE  \E p \in AttPc : att' = [att EXCEPT ![o].pc = p]
    BY <2>1 DEF OpenAbandonClaim, OpenCheck, OpenAcquireFails, OpenRegister, OpenUndo,
       OpenUndone, OpenComplete, OpenAbandon, OpenDrop, OpenDropped, Step, AttPc
  <2>2. ASSUME NEW p \in AttPc, att' = [att EXCEPT ![o].pc = p]
        PROVE  \E new \in Attempt : att' = [att EXCEPT ![o] = new]
    BY <2>2 DEF Attempt
  <2>3. ASSUME OpenClaim(o)
        PROVE  \E new \in Attempt : att' = [att EXCEPT ![o] = new]
    BY <2>3 DEF OpenClaim, IdleAtt, Attempt, AttPc, Reply
  <2>4. ASSUME OpenAcquire(o)
        PROVE  \E new \in Attempt : att' = [att EXCEPT ![o] = new]
    BY <2>4 DEF OpenAcquire, Attempt, AttPc
  <2>5. ASSUME OpenSend(o) \/ OpenReply(o)
        PROVE  \E p \in AttPc, r \in Reply : att' = [att EXCEPT ![o].pc = p, ![o].res = r]
    BY <2>5 DEF OpenSend, OpenReply, AttPc, Reply
  <2>6. ASSUME NEW p \in AttPc, NEW r \in Reply, att' = [att EXCEPT ![o].pc = p, ![o].res = r]
        PROVE  \E new \in Attempt : att' = [att EXCEPT ![o] = new]
    BY <2>6 DEF Attempt
  <2>7. ASSUME OpenCommit(o) \/ OpenUncertain(o) \/ OpenRefused(o)
        PROVE  \E new \in Attempt : att' = [att EXCEPT ![o] = new]
    <3>1. IdleAtt \in Attempt
      BY ConstantsAssumption DEF IdleAtt, Attempt, AttPc, Reply, Gen
    <3> QED BY <2>7, <3>1 DEF OpenCommit, OpenUncertain, OpenRefused
  <2> QED BY <2>1, <2>2, <2>3, <2>4, <2>5, <2>6, <2>7 DEF OpenNext
<1> QED BY <1>1

\* What the registry may record.
LEMMA InterestTypes ==
  ASSUME TypeOK
  PROVE  /\ Record \in Interest /\ UnsubscribeUnknown \in Interest
         /\ \A d \in BOOLEAN : Confirmed(d) \in Interest /\ Unknown(d) \in Interest
         /\ \A d, b \in BOOLEAN : [Confirmed(d) EXCEPT !.open = b] \in Interest
         /\ interest # NoInterest =>
              \A b, d \in BOOLEAN :
                /\ [interest EXCEPT !.cur = b] \in Interest
                /\ [interest EXCEPT !.desired = d] \in Interest
                /\ [interest EXCEPT !.open = b, !.desired = d] \in Interest
         /\ \A d \in BOOLEAN : Confirmed(d).open \in BOOLEAN
<1>1. interest \in Interest \cup {NoInterest}
  BY DEF TypeOK
<1>2. Record \in Interest
  BY <1>1 DEF Record, Fresh, Interest
<1>3. UnsubscribeUnknown \in Interest
  BY <1>2 DEF UnsubscribeUnknown, Interest
<1>4. ASSUME NEW d \in BOOLEAN
      PROVE  Confirmed(d) \in Interest /\ Unknown(d) \in Interest /\ Confirmed(d).open \in BOOLEAN
  BY <1>2 DEF Confirmed, Unknown, Interest
<1>5. ASSUME NEW d \in BOOLEAN, NEW b \in BOOLEAN
      PROVE  [Confirmed(d) EXCEPT !.open = b] \in Interest
  BY <1>4 DEF Interest
<1>6. ASSUME interest # NoInterest, NEW b \in BOOLEAN, NEW d \in BOOLEAN
      PROVE  /\ [interest EXCEPT !.cur = b] \in Interest
             /\ [interest EXCEPT !.desired = d] \in Interest
             /\ [interest EXCEPT !.open = b, !.desired = d] \in Interest
  BY <1>1, <1>6 DEF Interest
<1> QED BY <1>2, <1>3, <1>4, <1>5, <1>6

\* What an attempt t does to the receipts of the thread.
ReceiptStep(t) ==
  \/ ClaimResume(t) \/ DiscardClaim(t) \/ RegisterReceipt(t) \/ RetireReceipt(t)
  \/ t \in pending /\ executing' = executing \cup {t} /\ UNCHANGED <<rclaim, acquiring, invalid, pending>>
  \/ UNCHANGED resumeVars

LEMMA ReceiptTypes ==
  ASSUME TypeOK, NEW t \in Token, ReceiptStep(t)
  PROVE  /\ rclaim' \in Token \cup {Nobody} /\ acquiring' \subseteq Token /\ invalid' \subseteq Token
         /\ pending' \subseteq Token /\ executing' \subseteq Token
BY DEF TypeOK, ReceiptStep, ClaimResume, DiscardClaim, RegisterReceipt, RetireReceipt, resumeVars

LEMMA OpenTypes ==
  ASSUME TypeOK, NEW o \in Open, OpenNext(o)
  PROVE  TypeOK'
<1>1. att' \in [Open -> Attempt] /\ cln' \in Flight
  BY OpenMoves, OpensKeepFlight DEF KeepsFlight
<1>2. UNCHANGED <<gen, lost, loop, uclaim, uinvalid, uexecuting, start, bound, fei>>
  BY DEF OpenNext, OpenClaim, OpenAbandonClaim, OpenCheck, OpenAcquire, OpenAcquireFails,
     OpenRegister, OpenUndo, OpenUndone, OpenComplete, OpenAbandon, OpenDrop, OpenDropped,
     OpenSend, OpenReply, OpenCommit, OpenUncertain, OpenRefused, connVars, unsubVars, surfaceVars
<1>3. lease' \in BOOLEAN /\ loose' \in BOOLEAN /\ sub' \in BOOLEAN
  BY DEF TypeOK, OpenNext, OpenClaim, OpenAbandonClaim, OpenCheck, OpenAcquire,
     OpenAcquireFails, OpenRegister, OpenUndo, OpenUndone, OpenComplete, OpenAbandon, OpenDrop,
     OpenDropped, OpenSend, OpenReply, OpenCommit, OpenUncertain, OpenRefused, EnsureLease,
     ReleaseLease
<1>4. /\ rclaim' \in Token \cup {Nobody} /\ acquiring' \subseteq Token /\ invalid' \subseteq Token
      /\ pending' \subseteq Token /\ executing' \subseteq Token
  <2>1. ReceiptStep(o)
    BY DEF OpenNext, OpenClaim, OpenAbandonClaim, OpenCheck, OpenAcquire, OpenAcquireFails,
       OpenRegister, OpenUndo, OpenUndone, OpenComplete, OpenAbandon, OpenDrop, OpenDropped,
       OpenSend, OpenReply, OpenCommit, OpenUncertain, OpenRefused, ReceiptStep, resumeVars
  <2> QED BY <2>1, ReceiptTypes DEF Token
<1>5. interest' \in Interest \cup {NoInterest}
  <2>1. CASE interest' = interest
    BY <2>1 DEF TypeOK
  <2>2. CASE OpenCommit(o) /\ interest' # interest
    <3>1. PICK current \in BOOLEAN :
            interest' = [Confirmed(current /\ ~att[o].closed) EXCEPT !.open = @ \/ ~att[o].closed]
      BY <2>2 DEF OpenCommit, Touch
    <3>2. (current /\ ~att[o].closed) \in BOOLEAN
      OBVIOUS
    <3>3. (Confirmed(current /\ ~att[o].closed).open \/ ~att[o].closed) \in BOOLEAN
      OBVIOUS
    <3> QED BY <3>1, <3>2, <3>3, InterestTypes
  <2>3. CASE OpenUncertain(o) /\ interest' # interest
    <3>1. PICK current \in BOOLEAN : interest' = Unknown(current /\ ~att[o].closed)
      BY <2>3 DEF OpenUncertain, Touch
    <3> QED BY <3>1, InterestTypes
  <2> QED BY <2>1, <2>2, <2>3 DEF OpenNext, OpenClaim, OpenAbandonClaim, OpenCheck, OpenAcquire,
     OpenAcquireFails, OpenRegister, OpenUndo, OpenUndone, OpenComplete, OpenAbandon, OpenDrop,
     OpenDropped, OpenSend, OpenReply, OpenRefused, surfaceVars
<1> QED BY <1>1, <1>2, <1>3, <1>4, <1>5 DEF TypeOK

LEMMA FeishuTypes ==
  ASSUME TypeOK, FeishuNext
  PROVE  TypeOK'
<1>1. att' \in [Open -> Attempt] /\ cln' \in Flight /\ interest' \in Interest \cup {NoInterest}
  BY FeishuKeepsFlight DEF KeepsFlight, TypeOK
<1>2. UNCHANGED <<gen, lost, start, loose>>
  BY DEF FeishuNext, FeishuClaim, FeishuAcquire, FeishuRefused, FeishuSend, FeishuReply,
     FeishuCompensate, FeishuCompensated, FeishuDeactivate, FeishuUnsubSend, FeishuUnsubReply,
     connVars
<1>3. lease' \in BOOLEAN /\ sub' \in BOOLEAN /\ bound' \in BOOLEAN /\ loop' \in FeiPc
  BY DEF TypeOK, FeishuNext, FeishuClaim, FeishuAcquire, FeishuRefused, FeishuSend, FeishuReply,
     FeishuCompensate, FeishuCompensated, FeishuDeactivate, FeishuUnsubSend, FeishuUnsubReply,
     EnsureLease, FeiPc, surfaceVars
<1>4. /\ rclaim' \in Token \cup {Nobody} /\ acquiring' \subseteq Token /\ invalid' \subseteq Token
      /\ pending' \subseteq Token /\ executing' \subseteq Token
  <2>1. ReceiptStep(Feishu)
    BY DEF FeishuNext, FeishuClaim, FeishuAcquire, FeishuRefused, FeishuSend, FeishuReply,
       FeishuCompensate, FeishuCompensated, FeishuDeactivate, FeishuUnsubSend, FeishuUnsubReply,
       ReceiptStep, resumeVars
  <2> QED BY <2>1, ReceiptTypes DEF Token
<1>5. /\ uclaim' \in {Feishu, Cleanup, Nobody}
      /\ uinvalid' \subseteq {Feishu, Cleanup} /\ uexecuting' \subseteq {Feishu, Cleanup}
  BY DEF TypeOK, FeishuNext, FeishuClaim, FeishuAcquire, FeishuRefused, FeishuSend, FeishuReply,
     FeishuCompensate, FeishuCompensated, FeishuDeactivate, FeishuUnsubSend, FeishuUnsubReply,
     ClaimUnsubscribe, RetireUnsubscribe, unsubVars
<1>6. fei' \in [new : BOOLEAN, gen : Gen]
  BY DEF TypeOK, FeishuNext, FeishuClaim, FeishuAcquire, FeishuRefused, FeishuSend, FeishuReply,
     FeishuCompensate, FeishuCompensated, FeishuDeactivate, FeishuUnsubSend, FeishuUnsubReply
<1> QED BY <1>1, <1>2, <1>3, <1>4, <1>5, <1>6 DEF TypeOK

LEMMA EnvironmentTypes ==
  ASSUME TypeOK, Environment
  PROVE  TypeOK'
<1>1. att' \in [Open -> Attempt] /\ cln' \in Flight
  BY EnvironmentKeeps DEF KeepsFlight, KeepsAttempts
<1>2. gen' \in Gen /\ start' \in 0..MaxGen
  <2>1. (gen' = gen \/ (gen < MaxGen /\ gen' = gen + 1)) /\ start' \in {start, gen, 0}
    BY DEF Environment, StartTurn, StartReturns, Desire, CloseInBrowser, Notification,
       Disconnect, HandleDisconnect, BackendReset, connVars
  <2>2. gen \in Gen /\ start \in 0..MaxGen
    BY DEF TypeOK
  <2> QED BY <2>1, <2>2, ConstantsAssumption DEF Gen
<1>6. lost' \in BOOLEAN /\ lease' \in BOOLEAN /\ sub' \in BOOLEAN /\ bound' \in BOOLEAN
  BY DEF TypeOK, Environment, StartTurn, StartReturns, Desire, CloseInBrowser, Notification,
     Disconnect, HandleDisconnect, BackendReset, connVars, surfaceVars
<1>3. UNCHANGED <<loop, fei, loose, uclaim, uexecuting>>
  BY DEF Environment, StartTurn, StartReturns, Desire, CloseInBrowser, Notification,
     Disconnect, HandleDisconnect, BackendReset, InvalidateReceipts, connVars, unsubVars
<1>4. /\ rclaim' \in Token \cup {Nobody} /\ acquiring' \subseteq Token /\ invalid' \subseteq Token
      /\ pending' \subseteq Token /\ executing' \subseteq Token
      /\ uinvalid' \subseteq {Feishu, Cleanup}
  BY DEF TypeOK, Environment, StartTurn, StartReturns, Desire, CloseInBrowser, Notification,
     Disconnect, HandleDisconnect, BackendReset, InvalidateReceipts, resumeVars, unsubVars
<1>5. interest' \in Interest \cup {NoInterest}
  BY InterestTypes DEF TypeOK, Environment, StartTurn, StartReturns, Desire, CloseInBrowser,
     Notification, Disconnect, HandleDisconnect, BackendReset, Touch, surfaceVars
<1> QED BY <1>1, <1>2, <1>3, <1>4, <1>5, <1>6 DEF TypeOK

\* The interest's subscription is shown as unsubscribed.
LEMMA CurFields ==
  ASSUME interest \in Interest \cup {NoInterest}, interest # NoInterest
  PROVE  /\ [interest EXCEPT !.cur = FALSE] \in Interest
         /\ [interest EXCEPT !.cur = FALSE].cur = FALSE
BY DEF Interest

\* The flight gets to p with outcome r; its snapshot stays what it was.
Went(p, r) ==
  /\ cln' \in Flight /\ cln'.pc = p /\ cln'.res = r /\ cln'.gen = cln.gen
  /\ cln'.cur = cln.cur /\ cln'.unsub = cln.unsub /\ cln'.same = cln.same

LEMMA FlightMoves ==
  ASSUME cln \in Flight
  PROVE  /\ \A p \in ClnPc : cln' = [cln EXCEPT !.pc = p] => Went(p, cln.res)
         /\ \A p \in ClnPc, r \in Reply : cln' = [cln EXCEPT !.pc = p, !.res = r] => Went(p, r)
         /\ \A p \in ClnPc, b \in BOOLEAN :
              cln' = [cln EXCEPT !.pc = p, !.exact = b] => Went(p, cln.res)
<1>1. ASSUME NEW p \in ClnPc, cln' = [cln EXCEPT !.pc = p]
      PROVE  Went(p, cln.res)
  BY <1>1 DEF Went, Flight
<1>2. ASSUME NEW p \in ClnPc, NEW r \in Reply, cln' = [cln EXCEPT !.pc = p, !.res = r]
      PROVE  Went(p, r)
  BY <1>2 DEF Went, Flight
<1>3. ASSUME NEW p \in ClnPc, NEW b \in BOOLEAN, cln' = [cln EXCEPT !.pc = p, !.exact = b]
      PROVE  Went(p, cln.res)
  BY <1>3 DEF Went, Flight
<1> QED BY <1>1, <1>2, <1>3

LEMMA IdleFlight ==
  /\ IdleCln \in Flight /\ IdleCln.pc = "idle" /\ IdleCln.same = FALSE
BY ConstantsAssumption DEF IdleCln, Flight, ClnPc, Reply, Gen

\* How far each step of the cleanup gets.
LEMMA CleanupMoves ==
  ASSUME cln \in Flight
  PROVE  /\ CleanupClaim => cln' = IdleCln \/ Went("claimed", "none") \/ Went("replied", "ok")
         /\ CleanupConfirm => Went("confirmed", cln.res) \/ Went("abandon", cln.res)
         /\ CleanupAbandon \/ CleanupFailed => cln' = IdleCln \/ Went("abandon", cln.res)
         /\ CleanupSend => \/ Went("sending", "none") \/ Went("replied", "noeffect")
                           \/ Went("replied", "unknown")
         /\ CleanupReply => Went("replied", "ok") \/ Went("replied", "unknown")
         /\ CleanupSettle => \/ cln' = IdleCln \/ Went("abandon", cln.res)
                             \/ Went("settled", cln.res)
         /\ CleanupAllow => \/ Went("abandon", cln.res) \/ Went("allowed", cln.res)
                            \/ Went("final", cln.res)
         /\ CleanupRelease => Went("final", cln.res) \/ Went("failed", cln.res)
         /\ CleanupFinalize => cln' = IdleCln \/ Went("abandon", cln.res)
<1> USE FlightMoves
<1>1. {"claimed", "replied", "confirmed", "abandon", "sending", "settled", "allowed", "final",
       "failed"} \subseteq ClnPc
  BY DEF ClnPc
<1>2. {"none", "ok", "noeffect", "unknown"} \subseteq Reply
  BY DEF Reply
<1>3. CleanupClaim => cln' = IdleCln \/ Went("claimed", "none") \/ Went("replied", "ok")
  BY <1>1, <1>2 DEF CleanupClaim
<1>4. CleanupConfirm => Went("confirmed", cln.res) \/ Went("abandon", cln.res)
  BY <1>1 DEF CleanupConfirm
<1>5. CleanupAbandon \/ CleanupFailed => cln' = IdleCln \/ Went("abandon", cln.res)
  BY <1>1 DEF CleanupAbandon, CleanupFailed
<1>6. CleanupSend => \/ Went("sending", "none") \/ Went("replied", "noeffect")
                    \/ Went("replied", "unknown")
  BY <1>1, <1>2 DEF CleanupSend
<1>7. CleanupReply => Went("replied", "ok") \/ Went("replied", "unknown")
  BY <1>1, <1>2 DEF CleanupReply
<1>8. CleanupSettle => \/ cln' = IdleCln \/ Went("abandon", cln.res)
                      \/ Went("settled", cln.res)
  BY <1>1 DEF CleanupSettle
<1>9. CleanupAllow => \/ Went("abandon", cln.res) \/ Went("allowed", cln.res)
                     \/ Went("final", cln.res)
  BY <1>1 DEF CleanupAllow
<1>10. CleanupRelease => Went("final", cln.res) \/ Went("failed", cln.res)
  BY <1>1 DEF CleanupRelease
<1>11. CleanupFinalize => cln' = IdleCln \/ Went("abandon", cln.res)
  BY <1>1 DEF CleanupFinalize
<1> QED BY <1>3, <1>4, <1>5, <1>6, <1>7, <1>8, <1>9, <1>10, <1>11

\* The flight starts with a snapshot and then learns whether to unsubscribe.
LEMMA CleanupStarts ==
  ASSUME TypeOK
  PROVE  /\ CleanupPrepare => cln' = cln \/
              (/\ cln' \in Flight /\ cln'.pc = "probing" /\ cln'.gen = gen /\ cln'.same
               /\ cln'.cur = SubscriptionCurrent)
         /\ CleanupProbe => cln' = IdleCln \/
              (/\ cln' \in Flight /\ cln'.pc = "probed" /\ cln'.gen = cln.gen
               /\ cln'.same = cln.same /\ cln'.cur = cln.cur)
<1>1. cln \in Flight /\ gen \in Gen /\ lease \in BOOLEAN /\ SubscriptionCurrent \in BOOLEAN
  BY DEF TypeOK, SubscriptionCurrent, Interest
<1>2. ASSUME CleanupPrepare, cln' # cln
      PROVE  /\ cln' \in Flight /\ cln'.pc = "probing" /\ cln'.gen = gen /\ cln'.same
             /\ cln'.cur = SubscriptionCurrent
  <2> DEFINE c == SubscriptionCurrent
  <2>1. /\ cln' = [IdleCln EXCEPT !.pc = "probing", !.gen = gen, !.same = TRUE, !.cur = c]
        /\ c \in BOOLEAN
    BY <1>1, <1>2 DEF CleanupPrepare
  <2> HIDE DEF c
  <2> QED BY <1>1, <2>1 DEF IdleCln, Flight, ClnPc, Reply, c
<1>3. ASSUME CleanupProbe, cln' # IdleCln
      PROVE  /\ cln' \in Flight /\ cln'.pc = "probed" /\ cln'.gen = cln.gen
             /\ cln'.same = cln.same /\ cln'.cur = cln.cur
  <2>1. PICK unsub \in BOOLEAN :
          cln' = [cln EXCEPT !.pc = "probed", !.unsub = unsub, !.held = lease, !.exact = lease]
    BY <1>3 DEF CleanupProbe
  <2> QED BY <1>1, <2>1 DEF Flight, ClnPc
<1> QED BY <1>1, <1>2, <1>3

LEMMA CleanupTypes ==
  ASSUME TypeOK, CleanupNext
  PROVE  TypeOK'
<1> USE DEF TypeOK
<1>1. UNCHANGED <<gen, lost, loop, rclaim, acquiring, invalid, pending, executing, start, bound, att, fei>>
  BY DEF CleanupNext, CleanupPrepare, CleanupProbe, CleanupClaim, CleanupConfirm,
     CleanupAbandon, CleanupSend, CleanupReply, CleanupSettle, CleanupAllow, CleanupRelease,
     CleanupFailed, CleanupFinalize, connVars, resumeVars, surfaceVars
<1>2. lease' \in BOOLEAN /\ sub' \in BOOLEAN /\ loose' \in BOOLEAN
  BY DEF CleanupNext, CleanupPrepare, CleanupProbe, CleanupClaim, CleanupConfirm,
     CleanupAbandon, CleanupSend, CleanupReply, CleanupSettle, CleanupAllow, CleanupRelease,
     CleanupFailed, CleanupFinalize
<1>3. /\ uclaim' \in {Feishu, Cleanup, Nobody}
      /\ uinvalid' \subseteq {Feishu, Cleanup} /\ uexecuting' \subseteq {Feishu, Cleanup}
  BY DEF CleanupNext, CleanupPrepare, CleanupProbe, CleanupClaim, CleanupConfirm,
     CleanupAbandon, CleanupSend, CleanupReply, CleanupSettle, CleanupAllow, CleanupRelease,
     CleanupFailed, CleanupFinalize, ClaimUnsubscribe, RetireUnsubscribe, unsubVars
<1>4. interest' \in Interest \cup {NoInterest}
  BY InterestTypes DEF CleanupNext, CleanupPrepare, CleanupProbe, CleanupClaim, CleanupConfirm,
     CleanupAbandon, CleanupSend, CleanupReply, CleanupSettle, CleanupAllow, CleanupRelease,
     CleanupFailed, CleanupFinalize, NoWebDesire, surfaceVars
<1>5. cln' \in Flight
  BY CleanupMoves, CleanupStarts, IdleFlight DEF CleanupNext, Went
<1> QED BY <1>1, <1>2, <1>3, <1>4, <1>5

LEMMA TypeStep ==
  ASSUME TypeOK, Next
  PROVE  TypeOK'
BY OpenTypes, FeishuTypes, CleanupTypes, EnvironmentTypes DEF Next, Environment

-----------------------------------------------------------------------------
(* The slot of the thread and who has it.                                   *)

Slots ==
  /\ TypeOK
  /\ \A o \in Open : HasReceipt(o) /\ CurrentHasSlot(o)
  /\ FeishuHasReceipt
  /\ OneSlot

LEMMA OpenReceiptStep ==
  ASSUME NEW o \in Open, OpenNext(o)
  PROVE  ReceiptStep(o)
BY DEF OpenNext, OpenClaim, OpenAbandonClaim, OpenCheck, OpenAcquire, OpenAcquireFails,
   OpenRegister, OpenUndo, OpenUndone, OpenComplete, OpenAbandon, OpenDrop, OpenDropped,
   OpenSend, OpenReply, OpenCommit, OpenUncertain, OpenRefused, ReceiptStep, resumeVars

\* An attempt only touches its own receipt, and takes the slot only if it is free.
LEMMA ReceiptFrame ==
  ASSUME NEW t \in Token, ReceiptStep(t), NEW p \in Token, p # t
  PROVE  /\ p \in acquiring' <=> p \in acquiring
         /\ p \in invalid' <=> p \in invalid
         /\ p \in pending' <=> p \in pending
         /\ p \in executing' <=> p \in executing
         /\ rclaim' = p <=> rclaim = p
BY ConstantsAssumption
   DEF ReceiptStep, ClaimResume, DiscardClaim, RegisterReceipt, RetireReceipt, resumeVars

LEMMA OpenFrame ==
  ASSUME NEW o \in Open, OpenNext(o)
  PROVE  UNCHANGED <<gen, lost, loop, uclaim, uinvalid, uexecuting, start, bound, fei>>
BY DEF OpenNext, OpenClaim, OpenAbandonClaim, OpenCheck, OpenAcquire, OpenAcquireFails,
   OpenRegister, OpenUndo, OpenUndone, OpenComplete, OpenAbandon, OpenDrop, OpenDropped,
   OpenSend, OpenReply, OpenCommit, OpenUncertain, OpenRefused, connVars, unsubVars, surfaceVars

\* The open that moves.
LEMMA OpenOwnReceipt ==
  ASSUME Slots, NEW o \in Open, OpenNext(o)
  PROVE  HasReceipt(o)' /\ CurrentHasSlot(o)'
<1> USE DEF Slots, TypeOK, HasReceipt, CurrentHasSlot, Attempt, Acquiring, Registered, Revoked
<1>1. UNCHANGED <<gen, lost>>
  BY OpenFrame
<1>2. ASSUME OpenClaim(o)
      PROVE  HasReceipt(o)' /\ CurrentHasSlot(o)'
  BY <1>1, <1>2, ConstantsAssumption DEF OpenClaim, ClaimResume, IdleAtt, Gen
<1>3. ASSUME OpenAbandonClaim(o) \/ OpenCheck(o) \/ OpenAcquireFails(o)
      PROVE  HasReceipt(o)' /\ CurrentHasSlot(o)'
  BY <1>1, <1>3, ConstantsAssumption
     DEF OpenAbandonClaim, OpenCheck, OpenAcquireFails, DiscardClaim, ClaimCurrent, Step,
         resumeVars, Token
<1>4. ASSUME OpenAcquire(o)
      PROVE  HasReceipt(o)' /\ CurrentHasSlot(o)'
  BY <1>1, <1>4 DEF OpenAcquire, resumeVars
<1>5. ASSUME OpenRegister(o)
      PROVE  HasReceipt(o)' /\ CurrentHasSlot(o)'
  BY <1>1, <1>5 DEF OpenRegister, RegisterReceipt, Step
<1>6. ASSUME OpenUndo(o) \/ OpenUndone(o)
      PROVE  HasReceipt(o)' /\ CurrentHasSlot(o)'
  BY <1>1, <1>6, ConstantsAssumption DEF OpenUndo, OpenUndone, DiscardClaim, Step, resumeVars, Token
<1>7. ASSUME UNCHANGED resumeVars, att[o].pc \in {"pending", "drop"}, att'[o].gen = att[o].gen,
             \/ att'[o].pc \in {"ready", "drop", "dropped"}
             \/ att'[o].pc = "idle" /\ ~(o \in pending /\ rclaim = o)
      PROVE  HasReceipt(o)' /\ CurrentHasSlot(o)'
  <2>1. UNCHANGED <<rclaim, acquiring, invalid, pending>>
    BY <1>7 DEF resumeVars
  <2>2. CASE att'[o].pc \in {"ready", "drop", "dropped"}
    BY <1>1, <1>7, <2>1, <2>2
  <2>3. CASE att'[o].pc = "idle" /\ ~(o \in pending /\ rclaim = o)
    BY <1>1, <1>7, <2>1, <2>3
  <2> QED BY <1>7, <2>2, <2>3
<1>8. ASSUME OpenComplete(o)
       PROVE  HasReceipt(o)' /\ CurrentHasSlot(o)'
  BY <1>7, <1>8 DEF OpenComplete, Step
<1>9. ASSUME OpenAbandon(o)
       PROVE  HasReceipt(o)' /\ CurrentHasSlot(o)'
  BY <1>7, <1>9 DEF OpenAbandon, Step, ReceiptIsCurrent
<1>10. ASSUME OpenDrop(o)
       PROVE  HasReceipt(o)' /\ CurrentHasSlot(o)'
  <2>1. UNCHANGED resumeVars /\ att[o].pc = "drop" /\ att' = [att EXCEPT ![o].pc = "dropped"]
    BY <1>10 DEF OpenDrop, Step
  <2> QED BY <1>7, <2>1
<1>11. ASSUME RetireReceipt(o), att[o].pc \in Registered, att'[o].pc = "idle", att'[o].gen <= gen
      PROVE  HasReceipt(o)' /\ CurrentHasSlot(o)'
  BY <1>1, <1>11, ConstantsAssumption DEF RetireReceipt, resumeVars, Token
<1>12. ASSUME OpenDropped(o)
      PROVE  HasReceipt(o)' /\ CurrentHasSlot(o)'
  <2>1. RetireReceipt(o) /\ att[o].pc = "dropped" /\ att'[o].pc = "idle" /\ att'[o].gen = att[o].gen
    BY <1>12 DEF OpenDropped, Step
  <2> QED BY <1>11, <2>1
<1>13. ASSUME OpenSend(o) \/ OpenReply(o)
      PROVE  HasReceipt(o)' /\ CurrentHasSlot(o)'
  BY <1>1, <1>13 DEF OpenSend, OpenReply, resumeVars
<1>14. ASSUME OpenCommit(o) \/ OpenUncertain(o) \/ OpenRefused(o)
      PROVE  HasReceipt(o)' /\ CurrentHasSlot(o)'
  <2>1. RetireReceipt(o) /\ att[o].pc = "replied" /\ att'[o] = IdleAtt
    BY <1>14 DEF OpenCommit, OpenUncertain, OpenRefused
  <2>2. IdleAtt.pc = "idle" /\ IdleAtt.gen = 1 /\ 1 <= gen
    BY ConstantsAssumption DEF IdleAtt, Gen
  <2> QED BY <1>11, <2>1, <2>2
<1> QED BY <1>2, <1>3, <1>4, <1>5, <1>6, <1>8, <1>9, <1>10, <1>12, <1>13, <1>14
  DEF OpenNext

LEMMA OpenReceipts ==
  ASSUME Slots, NEW o \in Open, OpenNext(o), NEW p \in Open
  PROVE  HasReceipt(p)' /\ CurrentHasSlot(p)'
<1>1. CASE p = o
  BY <1>1, OpenOwnReceipt
<1>2. CASE p # o
  BY <1>2, OpenReceiptStep, ReceiptFrame, OpenFrame, OpenMoves
     DEF Slots, HasReceipt, CurrentHasSlot, Token
<1> QED BY <1>1, <1>2

LEMMA OpenSlots ==
  ASSUME Slots, NEW o \in Open, OpenNext(o)
  PROVE  Slots'
<1>1. TypeOK' /\ \A p \in Open : HasReceipt(p)' /\ CurrentHasSlot(p)'
  BY OpenTypes, OpenReceipts DEF Slots
<1>2. UNCHANGED <<gen, lost, loop, uclaim, start, bound, fei>>
  BY OpenFrame
<1>3. FeishuHasReceipt'
  <2>1. /\ Feishu \in acquiring' <=> Feishu \in acquiring
        /\ Feishu \in invalid' <=> Feishu \in invalid
        /\ Feishu \in pending' <=> Feishu \in pending
        /\ Feishu \in executing' <=> Feishu \in executing
        /\ rclaim' = Feishu <=> rclaim = Feishu
    BY OpenReceiptStep, ReceiptFrame, ConstantsAssumption DEF Token
  <2>2. loop \in {"compensate", "unsubscribed"} => rclaim' = rclaim \/ rclaim' = Nobody
    BY DEF OpenNext, OpenClaim, OpenAbandonClaim, OpenCheck, OpenAcquire, OpenAcquireFails,
       OpenRegister, OpenUndo, OpenUndone, OpenComplete, OpenAbandon, OpenDrop, OpenDropped,
       OpenSend, OpenReply, OpenCommit, OpenUncertain, OpenRefused, OnLoop, DiscardClaim,
       RegisterReceipt, RetireReceipt, resumeVars
  <2> QED BY <1>2, <2>1, <2>2 DEF Slots, FeishuHasReceipt
<1>4. OneSlot'
  <2>1. cln'.pc = cln.pc
    BY OpensKeepFlight DEF Slots, KeepsFlight
  <2>2. rclaim' = Nobody \/ rclaim' = rclaim \/ uclaim = Nobody
    BY DEF OpenNext, OpenClaim, OpenAbandonClaim, OpenCheck, OpenAcquire, OpenAcquireFails,
       OpenRegister, OpenUndo, OpenUndone, OpenComplete, OpenAbandon, OpenDrop, OpenDropped,
       OpenSend, OpenReply, OpenCommit, OpenUncertain, OpenRefused, ClaimResume, DiscardClaim,
       RegisterReceipt, RetireReceipt, resumeVars
  <2>3. loop = "free" \/ interest' = interest
    BY DEF OpenNext, OpenClaim, OpenAbandonClaim, OpenCheck, OpenAcquire, OpenAcquireFails,
       OpenRegister, OpenUndo, OpenUndone, OpenComplete, OpenAbandon, OpenDrop, OpenDropped,
       OpenSend, OpenReply, OpenCommit, OpenUncertain, OpenRefused, OnLoop, surfaceVars
  <2> QED BY <1>2, <2>1, <2>2, <2>3 DEF Slots, OneSlot
<1> QED BY <1>1, <1>3, <1>4 DEF Slots

LEMMA FeishuReceiptStep ==
  ASSUME FeishuNext
  PROVE  ReceiptStep(Feishu) /\ UNCHANGED <<gen, lost, start, loose>>
BY DEF FeishuNext, FeishuClaim, FeishuAcquire, FeishuRefused, FeishuSend, FeishuReply,
   FeishuCompensate, FeishuCompensated, FeishuDeactivate, FeishuUnsubSend, FeishuUnsubReply,
   ReceiptStep, resumeVars, connVars

LEMMA FeishuSlots ==
  ASSUME Slots, FeishuNext
  PROVE  Slots'
<1>1. TypeOK' /\ KeepsFlight /\ att' = att /\ interest' = interest
  BY FeishuTypes, FeishuKeepsFlight DEF Slots
<1>2. UNCHANGED <<gen, lost, start>>
  BY FeishuReceiptStep
<1>3. ASSUME NEW p \in Open
      PROVE  HasReceipt(p)' /\ CurrentHasSlot(p)'
  <2>1. Feishu \in Token /\ p \in Token /\ p # Feishu
    BY ConstantsAssumption DEF Token
  <2>2. /\ p \in acquiring' <=> p \in acquiring
        /\ p \in invalid' <=> p \in invalid
        /\ p \in pending' <=> p \in pending
        /\ rclaim' = p <=> rclaim = p
    BY <2>1, FeishuReceiptStep, ReceiptFrame
  <2> QED BY <1>1, <1>2, <2>2 DEF Slots, HasReceipt, CurrentHasSlot
<1>4. FeishuHasReceipt'
  <2> USE <1>1, <1>2, ConstantsAssumption DEF Token, Slots, TypeOK, FeishuHasReceipt, OneSlot, OnLoop
  <2>1. ASSUME FeishuClaim
        PROVE  FeishuHasReceipt'
    BY <2>1 DEF FeishuClaim, ClaimResume
  <2>2. ASSUME FeishuAcquire
        PROVE  FeishuHasReceipt'
    BY <2>2 DEF FeishuAcquire, RegisterReceipt, DiscardClaim
  <2>3. ASSUME FeishuRefused
        PROVE  FeishuHasReceipt'
    BY <2>3 DEF FeishuRefused, RetireReceipt, resumeVars
  <2>4. ASSUME FeishuSend
        PROVE  FeishuHasReceipt'
    BY <2>4 DEF FeishuSend, resumeVars, unsubVars, Gen
  <2>5. ASSUME FeishuReply
        PROVE  FeishuHasReceipt'
    BY <2>5 DEF FeishuReply, RetireReceipt, resumeVars, unsubVars
  <2>6. ASSUME FeishuCompensate \/ FeishuCompensated
        PROVE  FeishuHasReceipt'
    BY <2>6 DEF FeishuCompensate, FeishuCompensated, resumeVars, unsubVars
  <2>7. ASSUME FeishuDeactivate
        PROVE  FeishuHasReceipt'
    BY <2>7 DEF FeishuDeactivate, ClaimUnsubscribe, resumeVars, unsubVars
  <2>8. ASSUME FeishuUnsubSend
        PROVE  FeishuHasReceipt'
    BY <2>8 DEF FeishuUnsubSend, resumeVars, Gen
  <2>9. ASSUME FeishuUnsubReply
        PROVE  FeishuHasReceipt'
    BY <2>9 DEF FeishuUnsubReply, resumeVars
  <2> QED BY <2>1, <2>2, <2>3, <2>4, <2>5, <2>6, <2>7, <2>8, <2>9 DEF FeishuNext
<1>5. OneSlot'
  <2> USE <1>1, <1>2, ConstantsAssumption DEF Token, Slots, TypeOK, FeishuHasReceipt, OneSlot, KeepsFlight, OnLoop
  <2>1. ASSUME FeishuClaim \/ FeishuAcquire
        PROVE  OneSlot'
    BY <2>1 DEF FeishuClaim, ClaimResume, FeishuAcquire, RegisterReceipt, DiscardClaim,
       unsubVars, surfaceVars
  <2>2. ASSUME FeishuRefused \/ FeishuSend \/ FeishuReply
        PROVE  OneSlot'
    BY <2>2 DEF FeishuRefused, FeishuSend, FeishuReply, RetireReceipt, resumeVars, unsubVars,
       surfaceVars
  <2>3. ASSUME FeishuCompensate \/ FeishuCompensated \/ FeishuUnsubSend
        PROVE  OneSlot'
    BY <2>3 DEF FeishuCompensate, FeishuCompensated, FeishuUnsubSend, resumeVars, unsubVars,
       surfaceVars
  <2>4. ASSUME FeishuDeactivate
        PROVE  OneSlot'
    <3>1. \/ uclaim' = Feishu /\ loop' = "unsubClaimed" /\ interest = NoInterest
             /\ uclaim = Nobody /\ rclaim = Nobody /\ start = 0
          \/ uclaim' = uclaim /\ loop' = "free" /\ loop = "free"
      BY <2>4 DEF FeishuDeactivate, ClaimUnsubscribe, unsubVars
    <3>2. rclaim' = rclaim /\ bound' = FALSE
      BY <2>4 DEF FeishuDeactivate, resumeVars
    <3> QED BY <3>1, <3>2
  <2>5. ASSUME FeishuUnsubReply
        PROVE  OneSlot'
    BY <2>5 DEF FeishuUnsubReply, RetireUnsubscribe, resumeVars, surfaceVars
  <2> QED BY <2>1, <2>2, <2>3, <2>4, <2>5 DEF FeishuNext
<1> QED BY <1>1, <1>3, <1>4, <1>5 DEF Slots

LEMMA CleanupFrame ==
  ASSUME CleanupNext
  PROVE  UNCHANGED <<gen, lost, loop, rclaim, acquiring, invalid, pending, executing, start,
                     bound, att, fei>>
BY DEF CleanupNext, CleanupPrepare, CleanupProbe, CleanupClaim, CleanupConfirm, CleanupAbandon,
   CleanupSend, CleanupReply, CleanupSettle, CleanupAllow, CleanupRelease, CleanupFailed,
   CleanupFinalize, connVars, resumeVars, surfaceVars

LEMMA CleanupSlots ==
  ASSUME Slots, CleanupNext
  PROVE  Slots'
<1>1. TypeOK'
  BY CleanupTypes DEF Slots
<1>2. UNCHANGED <<gen, lost, loop, rclaim, acquiring, invalid, pending, executing, start,
                  bound, att, fei>>
  BY CleanupFrame
<1>3. \A p \in Open : HasReceipt(p)' /\ CurrentHasSlot(p)'
  BY <1>2 DEF Slots, HasReceipt, CurrentHasSlot
<1>4. uclaim' = uclaim \/ (loop = "free" /\ uclaim' = Cleanup) \/ uclaim' = Nobody
  BY DEF CleanupNext, CleanupPrepare, CleanupProbe, CleanupClaim, CleanupConfirm,
     CleanupAbandon, CleanupSend, CleanupReply, CleanupSettle, CleanupAllow, CleanupRelease,
     CleanupFailed, CleanupFinalize, ClaimUnsubscribe, RetireUnsubscribe, OnLoop, unsubVars
<1>5. FeishuHasReceipt'
  BY <1>2, <1>4 DEF Slots, FeishuHasReceipt
<1>6. OneSlot'
  <2> USE <1>2, ConstantsAssumption DEF Token, Slots, TypeOK, OneSlot
  <2>1. cln \in Flight
    OBVIOUS
  <2>2. interest' = interest \/ loop = "free"
    BY DEF CleanupNext, CleanupPrepare, CleanupProbe, CleanupClaim, CleanupConfirm,
       CleanupAbandon, CleanupSend, CleanupReply, CleanupSettle, CleanupAllow, CleanupRelease,
       CleanupFailed, CleanupFinalize, OnLoop, surfaceVars
  <2>3. uclaim = Feishu => loop # "free"
    OBVIOUS
  <2>4. ASSUME uclaim' = uclaim,
               cln.pc \in {"idle", "probing", "probed"} <=> cln'.pc \in {"idle", "probing", "probed"}
        PROVE  OneSlot'
    BY <2>2, <2>3, <2>4
  <2>5. ASSUME uclaim = Cleanup, uclaim' = Nobody, cln'.pc = "idle"
        PROVE  OneSlot'
    BY <2>5
  <2>6. ASSUME CleanupPrepare \/ CleanupProbe
        PROVE  OneSlot'
    <3>1. uclaim' = uclaim /\ cln.pc \in {"idle", "probing"}
      BY <2>6 DEF CleanupPrepare, CleanupProbe, unsubVars
    <3>2. cln'.pc \in {"idle", "probing", "probed"}
      BY <2>6, <3>1, CleanupStarts, IdleFlight
    <3> QED BY <2>4, <3>1, <3>2
  <2>7. ASSUME CleanupClaim
        PROVE  OneSlot'
    <3>1. CASE ClaimUnsubscribe(Cleanup)
      <4>1. cln.pc = "probed" /\ uclaim = Nobody /\ uclaim' = Cleanup /\ rclaim = Nobody /\ start = 0
        BY <2>7, <3>1 DEF CleanupClaim, ClaimUnsubscribe
      <4>2. cln' # IdleCln => cln'.pc \in {"claimed", "replied"}
        BY <2>7, <2>1, CleanupMoves DEF Went
      <4>3. cln' # IdleCln
        <5>1. cln' = IdleCln => unsubVars' = unsubVars \/ cln'.pc \in {"claimed", "replied"}
          BY <2>7, <2>1, FlightMoves DEF CleanupClaim, Went, ClnPc, Reply
        <5> QED BY <4>1, <5>1, IdleFlight DEF unsubVars
      <4> QED BY <4>1, <4>2, <4>3
    <3>2. CASE UNCHANGED unsubVars /\ cln' = IdleCln
      <4>1. uclaim' = uclaim /\ cln.pc = "probed" /\ cln'.pc = "idle"
        BY <2>7, <3>2, IdleFlight DEF CleanupClaim, unsubVars
      <4> QED BY <2>4, <4>1
    <3> QED BY <2>7, <3>1, <3>2 DEF CleanupClaim
  <2>8. ASSUME CleanupConfirm \/ CleanupSend \/ CleanupReply \/ CleanupAllow \/ CleanupRelease
        PROVE  OneSlot'
    <3>1. uclaim' = uclaim /\ cln.pc \notin {"idle", "probing", "probed"}
      BY <2>8 DEF CleanupConfirm, CleanupSend, CleanupReply, CleanupAllow, CleanupRelease, unsubVars
    <3>2. cln'.pc \notin {"idle", "probing", "probed"}
      BY <2>1, <2>8, CleanupMoves DEF Went
    <3> QED BY <2>4, <3>1, <3>2
  <2>9. ASSUME CleanupAbandon \/ CleanupSettle \/ CleanupFailed \/ CleanupFinalize
        PROVE  OneSlot'
    <3>1. cln.pc \notin {"idle", "probing", "probed"} /\ uclaim = Cleanup
      BY <2>9 DEF CleanupAbandon, CleanupSettle, CleanupFailed, CleanupFinalize
    <3>2. \/ uclaim' = Nobody /\ cln' = IdleCln
          \/ uclaim' = uclaim /\ \E p \in {"abandon", "settled"} : cln' = [cln EXCEPT !.pc = p]
      BY <2>9, <3>1 DEF CleanupAbandon, CleanupSettle, CleanupFailed, CleanupFinalize,
         RetireUnsubscribe, unsubVars
    <3>3. (\E p \in {"abandon", "settled"} : cln' = [cln EXCEPT !.pc = p])
            => cln'.pc \in {"abandon", "settled"}
      BY <2>1, FlightMoves DEF Went, ClnPc
    <3> QED BY <2>4, <2>5, <3>1, <3>2, <3>3, IdleFlight
  <2> QED BY <2>6, <2>7, <2>8, <2>9 DEF CleanupNext
<1> QED BY <1>1, <1>3, <1>5, <1>6 DEF Slots

LEMMA EnvironmentSlots ==
  ASSUME Slots, Environment
  PROVE  Slots'
<1>1. TypeOK' /\ KeepsFlight /\ KeepsAttempts
  BY EnvironmentTypes, EnvironmentKeeps DEF Slots
<1>2. ASSUME StartTurn \/ StartReturns \/ Desire \/ CloseInBrowser \/ Notification \/ Disconnect
      PROVE  UNCHANGED <<loop, rclaim, acquiring, invalid, pending, executing, uclaim, bound, fei>>
  BY <1>2 DEF StartTurn, StartReturns, Desire, CloseInBrowser, Notification, Disconnect,
     resumeVars, unsubVars, surfaceVars
<1>3. ASSUME HandleDisconnect \/ BackendReset
      PROVE  /\ UNCHANGED <<loop, start, uclaim, acquiring, fei>> /\ loop = "free"
             /\ bound' = FALSE /\ lost' = FALSE /\ InvalidateReceipts
  BY <1>3 DEF HandleDisconnect, BackendReset, InvalidateReceipts, OnLoop
<1>4. ASSUME StartTurn \/ StartReturns \/ Desire \/ CloseInBrowser \/ Notification \/ Disconnect
      PROVE  (gen' = gen /\ lost' = lost) \/ gen' = gen + 1
  BY <1>4 DEF StartTurn, StartReturns, Desire, CloseInBrowser, Notification, Disconnect, connVars
<1>5. gen \in Nat
  BY ConstantsAssumption DEF Slots, TypeOK, Gen
<1>6. ASSUME NEW p \in Open
      PROVE  HasReceipt(p)' /\ CurrentHasSlot(p)'
  <2>1. att'[p].pc = att[p].pc /\ att'[p].gen = att[p].gen /\ att[p].gen \in Nat
    BY <1>1, <1>6, ConstantsAssumption DEF KeepsAttempts, Slots, TypeOK, Attempt, Gen
  <2>2. CASE StartTurn \/ StartReturns \/ Desire \/ CloseInBrowser \/ Notification \/ Disconnect
    BY <1>2, <1>4, <1>5, <2>1, <2>2 DEF Slots, HasReceipt, CurrentHasSlot
  <2>3. CASE HandleDisconnect \/ BackendReset
    <3>1. (gen' = gen /\ lost) \/ gen' = gen + 1
      BY <2>3 DEF HandleDisconnect, BackendReset
    <3>2. CurrentHasSlot(p)'
      BY <1>5, <2>1, <3>1 DEF Slots, CurrentHasSlot
    <3>3. HasReceipt(p)'
      BY <1>3, <2>1, <2>3, ConstantsAssumption
         DEF Slots, HasReceipt, InvalidateReceipts, Token, Acquiring, Registered, Revoked
    <3> QED BY <3>2, <3>3
  <2> QED BY <2>2, <2>3 DEF Environment
<1>7. FeishuHasReceipt'
  <2>1. fei.gen \in Nat
    BY ConstantsAssumption DEF Slots, TypeOK, Gen
  <2>2. CASE StartTurn \/ StartReturns \/ Desire \/ CloseInBrowser \/ Notification \/ Disconnect
    BY <1>2, <1>4, <1>5, <2>1, <2>2 DEF Slots, FeishuHasReceipt
  <2>3. CASE HandleDisconnect \/ BackendReset
    <3>1. gen' = gen \/ gen' = gen + 1
      BY <2>3 DEF HandleDisconnect, BackendReset
    <3>2. /\ Feishu \notin acquiring \cup pending \cup invalid /\ loop' = "free" /\ pending' = {}
          /\ executing' = {} /\ rclaim' \in acquiring \cup {Nobody} /\ fei' = fei /\ fei.gen <= gen
          /\ acquiring' = acquiring /\ invalid' = invalid \cup acquiring
      BY <1>3, <2>3 DEF Slots, FeishuHasReceipt, InvalidateReceipts
    <3>3. Feishu # Nobody
      BY ConstantsAssumption DEF Token
    <3> QED BY <1>5, <2>1, <3>1, <3>2, <3>3 DEF FeishuHasReceipt
  <2> QED BY <2>2, <2>3 DEF Environment
<1>8. OneSlot'
  <2>1. cln'.pc = cln.pc
    BY <1>1 DEF KeepsFlight
  <2>2. CASE StartTurn \/ StartReturns \/ Desire \/ CloseInBrowser \/ Notification \/ Disconnect
    <3>1. interest' = interest \/ interest # NoInterest
      BY <2>2 DEF StartTurn, StartReturns, Desire, CloseInBrowser, Notification, Disconnect,
         surfaceVars
    <3>2. start' = start \/ uclaim = Nobody \/ start' = 0
      BY <2>2 DEF StartTurn, StartReturns, Desire, CloseInBrowser, Notification, Disconnect
    <3> QED BY <1>2, <2>1, <2>2, <3>1, <3>2 DEF Slots, OneSlot
  <2>3. CASE HandleDisconnect \/ BackendReset
    <3>1. uclaim # Feishu
      BY <1>3, <2>3, ConstantsAssumption DEF Slots, OneSlot
    <3> QED BY <1>3, <2>1, <2>3, <3>1 DEF Slots, OneSlot, InvalidateReceipts
  <2> QED BY <2>2, <2>3 DEF Environment
<1> QED BY <1>1, <1>6, <1>7, <1>8 DEF Slots

LEMMA SlotsStep ==
  ASSUME Slots, Next
  PROVE  Slots'
BY OpenSlots, FeishuSlots, CleanupSlots, EnvironmentSlots DEF Next, Environment

-----------------------------------------------------------------------------
(* Subscriptions and the lease.                                             *)

LEMMA ReplyIsLive ==
  ASSUME Slots
  PROVE  /\ \A o \in Open : att[o].pc # "idle" /\ att[o].gen = gen =>
              ~lost /\ o \in (acquiring \cup pending) \ invalid /\ rclaim = o
         /\ loop = "sending" /\ fei.gen = gen => ~lost
BY DEF Slots, HasReceipt, CurrentHasSlot, FeishuHasReceipt

LEMMA LostStep ==
  ASSUME Slots, LostIsUnsubscribed, Next
  PROVE  LostIsUnsubscribed'
<1> USE DEF LostIsUnsubscribed
<1>1. ASSUME NEW o \in Open, OpenNext(o)
      PROVE  LostIsUnsubscribed'
  <2>1. lost' = lost
    BY <1>1, OpenFrame
  <2>2. sub' = sub \/ (att[o].pc = "sending" /\ att[o].gen = gen)
    BY <1>1 DEF OpenNext, OpenClaim, OpenAbandonClaim, OpenCheck, OpenAcquire, OpenAcquireFails,
       OpenRegister, OpenUndo, OpenUndone, OpenComplete, OpenAbandon, OpenDrop, OpenDropped,
       OpenSend, OpenReply, OpenCommit, OpenUncertain, OpenRefused
  <2> QED BY <2>1, <2>2, ReplyIsLive
<1>2. ASSUME FeishuNext
      PROVE  LostIsUnsubscribed'
  <2>1. lost' = lost
    BY <1>2, FeishuReceiptStep
  <2>2. sub' \in {sub, FALSE} \/ (loop = "sending" /\ fei.gen = gen)
    BY <1>2 DEF FeishuNext, FeishuClaim, FeishuAcquire, FeishuRefused, FeishuSend, FeishuReply,
       FeishuCompensate, FeishuCompensated, FeishuDeactivate, FeishuUnsubSend, FeishuUnsubReply
  <2> QED BY <2>1, <2>2, ReplyIsLive
<1>3. ASSUME CleanupNext
      PROVE  LostIsUnsubscribed'
  <2>1. lost' = lost
    BY <1>3, CleanupFrame
  <2>2. sub' \in {sub, FALSE}
    BY <1>3 DEF CleanupNext, CleanupPrepare, CleanupProbe, CleanupClaim, CleanupConfirm,
       CleanupAbandon, CleanupSend, CleanupReply, CleanupSettle, CleanupAllow, CleanupRelease,
       CleanupFailed, CleanupFinalize
  <2> QED BY <2>1, <2>2
<1>4. ASSUME Environment
      PROVE  LostIsUnsubscribed'
  BY <1>4 DEF Environment, StartTurn, StartReturns, Desire, CloseInBrowser, Notification,
     Disconnect, HandleDisconnect, BackendReset, connVars
<1> QED BY <1>1, <1>2, <1>3, <1>4 DEF Next, Environment

\* What the registry records about the subscription.
LEMMA SubscriptionFields ==
  ASSUME TypeOK
  PROVE  /\ \A d \in BOOLEAN : Confirmed(d).cur /\ ~Confirmed(d).unknown
         /\ \A d \in BOOLEAN : Unknown(d).unknown
         /\ UnsubscribeUnknown.unknown
         /\ interest # NoInterest =>
              \A b, d \in BOOLEAN :
                /\ [interest EXCEPT !.cur = b].cur = b
                /\ [interest EXCEPT !.cur = b].unknown = interest.unknown
                /\ [interest EXCEPT !.desired = d].cur = interest.cur
                /\ [interest EXCEPT !.desired = d].unknown = interest.unknown
                /\ [interest EXCEPT !.open = b, !.desired = d].cur = interest.cur
                /\ [interest EXCEPT !.open = b, !.desired = d].unknown = interest.unknown
<1>1. interest \in Interest \cup {NoInterest}
  BY DEF TypeOK
<1>2. Record \in Interest
  BY InterestTypes
<1>3. ASSUME NEW d \in BOOLEAN
      PROVE  Confirmed(d).cur /\ ~Confirmed(d).unknown /\ Unknown(d).unknown
  BY <1>2 DEF Confirmed, Unknown, Interest
<1>4. UnsubscribeUnknown.unknown
  BY <1>2 DEF UnsubscribeUnknown, Interest
<1>5. ASSUME interest # NoInterest, NEW b \in BOOLEAN, NEW d \in BOOLEAN
      PROVE  /\ [interest EXCEPT !.cur = b].cur = b
             /\ [interest EXCEPT !.cur = b].unknown = interest.unknown
             /\ [interest EXCEPT !.desired = d].cur = interest.cur
             /\ [interest EXCEPT !.desired = d].unknown = interest.unknown
             /\ [interest EXCEPT !.open = b, !.desired = d].cur = interest.cur
             /\ [interest EXCEPT !.open = b, !.desired = d].unknown = interest.unknown
  BY <1>1, <1>5 DEF Interest
<1> QED BY <1>3, <1>4, <1>5

\* Who may bring the subscription fact about.
LEMMA FactSteps ==
  ASSUME Slots, Next, SubscriptionCurrent', ~SubscriptionCurrent
  PROVE  \/ \E o \in Open : OpenCommit(o) /\ ~lost /\ att[o].gen = gen
         \/ (CleanupConfirm \/ CleanupSettle) /\ GenLive(cln.gen) /\ cln.cur /\ cln.same
         \/ Notification
<1>1. TypeOK /\ ~(NoInterest \in Interest)
  BY ConstantsAssumption DEF Slots
<1>2. CASE UNCHANGED interest
  BY <1>2 DEF SubscriptionCurrent
<1>3. ASSUME interest' # interest, NEW o \in Open, OpenNext(o)
      PROVE  OpenCommit(o) /\ ~lost /\ att[o].gen = gen
  <2>1. OpenCommit(o) \/ OpenUncertain(o)
    BY <1>3 DEF OpenNext, OpenClaim, OpenAbandonClaim, OpenCheck, OpenAcquire, OpenAcquireFails,
       OpenRegister, OpenUndo, OpenUndone, OpenComplete, OpenAbandon, OpenDrop, OpenDropped,
       OpenSend, OpenReply, OpenRefused, surfaceVars
  <2>2. CASE OpenUncertain(o)
    <3>1. PICK c \in BOOLEAN : interest' = Unknown(c /\ ~att[o].closed)
      BY <1>3, <2>2 DEF OpenUncertain, Touch
    <3>2. (c /\ ~att[o].closed) \in BOOLEAN
      OBVIOUS
    <3> QED BY <1>1, <3>1, <3>2, SubscriptionFields DEF SubscriptionCurrent
  <2> QED BY <1>3, <2>1, <2>2 DEF OpenCommit, GenLive
<1>4. ASSUME interest' # interest, CleanupNext
      PROVE  (CleanupConfirm \/ CleanupSettle) /\ GenLive(cln.gen) /\ cln.cur /\ cln.same
  <2>1. ~ interest'.cur \/ interest'.unknown \/ interest' = NoInterest \/ CleanupConfirm \/ CleanupSettle
    BY <1>1, <1>4, SubscriptionFields
       DEF CleanupNext, CleanupPrepare, CleanupProbe, CleanupClaim, CleanupAbandon, CleanupSend,
           CleanupReply, CleanupAllow, CleanupRelease, CleanupFailed, CleanupFinalize,
           NoWebDesire, surfaceVars
  <2>2. CleanupConfirm \/ CleanupSettle
    BY <2>1 DEF SubscriptionCurrent
  <2>3. CleanupConfirm => GenLive(cln.gen) /\ cln.cur /\ cln.same
    BY <1>4 DEF CleanupConfirm
  <2>4. CleanupSettle => GenLive(cln.gen) /\ cln.cur /\ cln.same
    <3>1. CleanupSettle => GenLive(cln.gen) /\ cln.same /\ (cln.cur \/ interest' = UnsubscribeUnknown)
      BY <1>4 DEF CleanupSettle
    <3> QED BY <1>1, <3>1, SubscriptionFields DEF SubscriptionCurrent
  <2> QED BY <2>2, <2>3, <2>4
<1>5. ASSUME interest' # interest, Environment
      PROVE  Notification
  BY <1>1, <1>5, SubscriptionFields
     DEF Environment, StartTurn, StartReturns, Desire, CloseInBrowser, Disconnect,
         HandleDisconnect, BackendReset, Touch, SubscriptionCurrent, surfaceVars
<1>6. FeishuNext => interest' = interest
  BY <1>1, FeishuKeepsFlight
<1> QED BY <1>2, <1>3, <1>4, <1>5, <1>6 DEF Next, Environment

\* An attempt of the live connection whose request is on the wire.
OpenIsLive(o) == att[o].pc = "sending" /\ att[o].gen = gen
FeishuIsLive == loop = "sending" /\ fei.gen = gen

\* Only a resume of the live connection subscribes.
LEMMA SubscribeSteps ==
  ASSUME Slots, Next
  PROVE  /\ sub' /\ ~sub => \/ \E o \in Open : OpenReply(o) /\ OpenIsLive(o)
                            \/ FeishuReply /\ FeishuIsLive
         /\ bound' /\ ~bound => FeishuReply /\ FeishuIsLive
<1>1. ASSUME NEW o \in Open, OpenNext(o)
      PROVE  (sub' /\ ~sub => OpenReply(o) /\ OpenIsLive(o)) /\ bound' = bound
  <2>1. sub' = sub \/ (OpenReply(o) /\ OpenIsLive(o))
    BY <1>1 DEF OpenNext, OpenClaim, OpenAbandonClaim, OpenCheck, OpenAcquire, OpenAcquireFails,
       OpenRegister, OpenUndo, OpenUndone, OpenComplete, OpenAbandon, OpenDrop, OpenDropped,
       OpenSend, OpenReply, OpenCommit, OpenUncertain, OpenRefused, OpenIsLive
  <2> QED BY <1>1, <2>1, OpenFrame
<1>2. ASSUME FeishuNext
      PROVE  (sub' /\ ~sub) \/ (bound' /\ ~bound) => FeishuReply /\ FeishuIsLive
  BY <1>2 DEF Slots, TypeOK, FeishuNext, FeishuClaim, FeishuAcquire, FeishuRefused, FeishuSend,
     FeishuReply, FeishuCompensate, FeishuCompensated, FeishuDeactivate, FeishuUnsubSend,
     FeishuUnsubReply, FeishuIsLive, surfaceVars
<1>3. ASSUME CleanupNext
      PROVE  ~(sub' /\ ~sub) /\ bound' = bound
  <2>1. sub' \in {sub, FALSE}
    BY <1>3 DEF CleanupNext, CleanupPrepare, CleanupProbe, CleanupClaim, CleanupConfirm,
       CleanupAbandon, CleanupSend, CleanupReply, CleanupSettle, CleanupAllow, CleanupRelease,
       CleanupFailed, CleanupFinalize
  <2>2. ~(sub' /\ ~sub)
    BY <2>1
  <2>3. bound' = bound
    BY <1>3, CleanupFrame
  <2> QED BY <2>2, <2>3
<1>4. ASSUME Environment
      PROVE  ~(sub' /\ ~sub) /\ ~(bound' /\ ~bound)
  BY <1>4 DEF Environment, StartTurn, StartReturns, Desire, CloseInBrowser, Notification,
     Disconnect, HandleDisconnect, BackendReset, surfaceVars
<1> QED BY <1>1, <1>2, <1>3, <1>4 DEF Next, Environment

LEMMA LooseStays ==
  ASSUME TypeOK, Next, loose
  PROVE  loose'
BY DEF TypeOK, Next, OpenNext, OpenClaim, OpenAbandonClaim, OpenCheck, OpenAcquire,
   OpenAcquireFails, OpenRegister, OpenUndo, OpenUndone, OpenComplete, OpenAbandon, OpenDrop,
   OpenDropped, OpenSend, OpenReply, OpenCommit, OpenUncertain, OpenRefused, FeishuNext,
   FeishuClaim, FeishuAcquire, FeishuRefused, FeishuSend, FeishuReply, FeishuCompensate,
   FeishuCompensated, FeishuDeactivate, FeishuUnsubSend, FeishuUnsubReply, CleanupNext,
   CleanupPrepare, CleanupProbe, CleanupClaim, CleanupConfirm, CleanupAbandon, CleanupSend,
   CleanupReply, CleanupSettle, CleanupAllow, CleanupRelease, CleanupFailed, CleanupFinalize,
   StartTurn, StartReturns, Desire, CloseInBrowser, Notification, Disconnect, HandleDisconnect,
   BackendReset

\* Who gives the lease back, and on what grounds.
OpenGivesBack(o) ==
  /\ att[o].new /\ rclaim = o
  /\ \/ OpenUndo(o) /\ att[o].pc = "undo"
     \/ OpenDrop(o) /\ att[o].pc = "drop"
     \/ OpenRefused(o) /\ att[o].pc = "replied" /\ att[o].res = "noeffect"
FeishuGivesBack ==
  \/ FeishuRefused /\ loop = "pending" /\ rclaim = Feishu /\ fei.new
  \/ FeishuCompensated /\ loop = "unsubscribed"
  \/ FeishuUnsubReply /\ loop = "unsubSending" /\ ~sub'
CleanupGivesBack ==
  CleanupRelease /\ cln.pc = "allowed" /\ (sub => cln.unsub)

LEMMA Releases ==
  ASSUME Slots, Next, lease, ~lease', ~loose'
  PROVE  \/ \E o \in Open : OpenGivesBack(o)
         \/ FeishuGivesBack \/ CleanupGivesBack \/ BackendReset
<1>1. ASSUME NEW o \in Open, OpenNext(o)
      PROVE  OpenGivesBack(o)
  <2>1. OpenUndo(o) \/ OpenDrop(o) \/ OpenRefused(o)
    BY <1>1 DEF OpenNext, OpenClaim, OpenAbandonClaim, OpenCheck, OpenAcquire, OpenAcquireFails,
       OpenRegister, OpenUndone, OpenComplete, OpenAbandon, OpenDropped, OpenSend, OpenReply,
       OpenCommit, OpenUncertain, EnsureLease
  <2>2. OpenUndo(o) => att[o].pc = "undo" /\ att[o].new /\ rclaim = o
    BY DEF OpenUndo
  <2>3. OpenDrop(o) => att[o].pc = "drop" /\ att[o].new /\ rclaim = o
    BY DEF OpenDrop, ReceiptIsCurrent
  <2>4. OpenRefused(o) => att[o].pc = "replied" /\ att[o].res = "noeffect" /\ att[o].new /\ rclaim = o
    BY DEF OpenRefused, ReceiptIsCurrent
  <2> QED BY <2>1, <2>2, <2>3, <2>4 DEF OpenGivesBack
<1>2. ASSUME FeishuNext
      PROVE  FeishuGivesBack
  BY <1>2 DEF FeishuNext, FeishuClaim, FeishuAcquire, FeishuRefused, FeishuSend, FeishuReply,
     FeishuCompensate, FeishuCompensated, FeishuDeactivate, FeishuUnsubSend, FeishuUnsubReply,
     FeishuGivesBack, ReceiptIsCurrent, EnsureLease
<1>3. ASSUME CleanupNext
      PROVE  CleanupGivesBack
  BY <1>3 DEF CleanupNext, CleanupPrepare, CleanupProbe, CleanupClaim, CleanupConfirm,
     CleanupAbandon, CleanupSend, CleanupReply, CleanupSettle, CleanupAllow, CleanupRelease,
     CleanupFailed, CleanupFinalize, CleanupGivesBack
<1>4. ASSUME Environment
      PROVE  BackendReset
  BY <1>4 DEF Environment, StartTurn, StartReturns, Desire, CloseInBrowser, Notification,
     Disconnect, HandleDisconnect
<1> QED BY <1>1, <1>2, <1>3, <1>4 DEF Next, Environment

\* The connection comes back with nothing subscribed.
LEMMA RecoverySteps ==
  ASSUME Slots, LostIsUnsubscribed, Next
  PROVE  /\ lost /\ ~lost' => HandleDisconnect \/ BackendReset
         /\ (HandleDisconnect /\ lost) \/ BackendReset => Quiet'
<1>1. lost /\ ~lost' => HandleDisconnect \/ BackendReset
  <2>1. \A o \in Open : OpenNext(o) => lost' = lost
    BY OpenFrame
  <2>2. FeishuNext \/ CleanupNext => lost' = lost
    BY FeishuReceiptStep, CleanupFrame
  <2>3. Environment => HandleDisconnect \/ BackendReset \/ lost' = lost \/ lost' = TRUE
    BY DEF Environment, StartTurn, StartReturns, Desire, CloseInBrowser, Notification, Disconnect,
       connVars
  <2> QED BY <2>1, <2>2, <2>3 DEF Next, Environment
<1>2. ASSUME HandleDisconnect, lost
      PROVE  Quiet'
  <2>1. ~bound' /\ ~sub'
    BY <1>2 DEF HandleDisconnect, LostIsUnsubscribed
  <2>2. interest' = NoInterest \/ ~interest'.cur
    BY <1>2, SubscriptionFields DEF HandleDisconnect, Touch, Slots
  <2> QED BY <2>1, <2>2 DEF Quiet, SubscriptionCurrent
<1>3. ASSUME BackendReset
      PROVE  Quiet'
  BY <1>3 DEF BackendReset, Quiet, SubscriptionCurrent
<1> QED BY <1>1, <1>2, <1>3

LEMMA IndSlots ==
  ASSUME ResumeInd, Next
  PROVE  Slots /\ Slots' /\ TypeOK
<1>1. Slots /\ TypeOK
  BY DEF ResumeInd, Slots
<1> QED BY <1>1, SlotsStep

\* A live attempt on the wire has the lease.
LEMMA LiveHasLease ==
  ASSUME ResumeInd, ~loose
  PROVE  /\ \A o \in Open : att[o].pc \in {"sending", "replied"} /\ att[o].gen = gen => lease
         /\ FeishuIsLive => lease
<1>1. Slots
  BY DEF ResumeInd, Slots
<1>2. ASSUME NEW o \in Open, att[o].pc \in {"sending", "replied"}, att[o].gen = gen
      PROVE  lease
  <2>1. ~lost /\ o \in acquiring \cup pending
    BY <1>1, <1>2, ReplyIsLive
  <2>2. o \in pending
    BY <1>2, <2>1 DEF ResumeInd, HasReceipt, Acquiring
  <2> QED BY <1>2, <2>1, <2>2 DEF ResumeInd, ReceiptsKeepLease
<1>3. FeishuIsLive => lease
  BY <1>1, ReplyIsLive DEF ResumeInd, ReceiptsKeepLease, FeishuIsLive
<1> QED BY <1>2, <1>3

\* What a giver knows of the lease.
LEMMA GiversAreQuiet ==
  ASSUME ResumeInd, Next, ~lost, ~loose
  PROVE  /\ \A o \in Open : OpenGivesBack(o) => Quiet /\ Quiet'
         /\ FeishuGivesBack => Quiet'
         /\ CleanupGivesBack => Quiet'
<1>1. Slots /\ TypeOK
  BY IndSlots
<1>2. ASSUME NEW o \in Open, OpenGivesBack(o)
      PROVE  Quiet /\ Quiet'
  <2>1. Quiet
    BY <1>2 DEF ResumeInd, NewLeaseIsQuiet, HoldsNewLease, OpenGivesBack
  <2>2. UNCHANGED <<interest, bound, sub>>
    BY <1>2 DEF OpenGivesBack, OpenUndo, OpenDrop, OpenRefused, surfaceVars
  <2> QED BY <2>1, <2>2 DEF Quiet, SubscriptionCurrent
<1>3. ASSUME FeishuGivesBack
      PROVE  Quiet'
  <2>1. UNCHANGED <<interest, bound>>
    BY <1>3 DEF FeishuGivesBack, FeishuRefused, FeishuCompensated, FeishuUnsubReply, surfaceVars
  <2>2. ~SubscriptionCurrent /\ ~bound /\ ~sub'
    <3>1. CASE FeishuRefused /\ loop = "pending" /\ rclaim = Feishu /\ fei.new
      BY <3>1 DEF ResumeInd, NewLeaseIsQuiet, Quiet, FeishuRefused
    <3>2. CASE FeishuCompensated /\ loop = "unsubscribed"
      BY <3>2 DEF ResumeInd, NewLeaseIsQuiet, FeishuCompensated
    <3>3. CASE FeishuUnsubReply /\ loop = "unsubSending" /\ ~sub'
      BY <3>3 DEF ResumeInd, OneSlot, SubscriptionCurrent
    <3> QED BY <1>3, <3>1, <3>2, <3>3 DEF FeishuGivesBack
  <2> QED BY <2>1, <2>2 DEF Quiet, SubscriptionCurrent
<1>4. ASSUME CleanupGivesBack
      PROVE  Quiet'
  <2>1. UNCHANGED <<interest, bound, sub>> /\ cln.pc = "allowed" /\ (sub => cln.unsub)
    BY <1>4 DEF CleanupGivesBack, CleanupRelease, surfaceVars
  <2>2. ~bound /\ (SubscriptionCurrent => sub) /\ (cln.unsub => ~sub)
    BY <2>1 DEF ResumeInd, CleanupFacts
  <2> QED BY <2>1, <2>2 DEF Quiet, SubscriptionCurrent
<1> QED BY <1>2, <1>3, <1>4

LEMMA CoverStep ==
  ASSUME ResumeInd, Next
  PROVE  LeaseCovers'
<1>1. Slots /\ TypeOK /\ LostIsUnsubscribed
  BY IndSlots DEF ResumeInd
<1> SUFFICES ASSUME ~lost', ~loose'
             PROVE  Covered'
  BY DEF LeaseCovers
<1>2. ~loose
  BY <1>1, LooseStays
<1>3. CASE lost
  <2>1. Quiet'
    <3>1. HandleDisconnect \/ BackendReset
      BY <1>1, <1>3, RecoverySteps
    <3> QED BY <1>1, <1>3, <3>1, RecoverySteps
  <2> QED BY <2>1 DEF Quiet, Covered
<1>4. CASE ~lost /\ lease /\ ~lease'
  <2>1. \/ \E o \in Open : OpenGivesBack(o)
        \/ FeishuGivesBack \/ CleanupGivesBack \/ BackendReset
    BY <1>1, <1>4, Releases
  <2>2. Quiet'
    BY <1>1, <1>2, <1>4, <2>1, GiversAreQuiet, RecoverySteps
  <2> QED BY <2>2 DEF Quiet, Covered
<1>5. CASE ~lost /\ ~lease
  <2>1. ~SubscriptionCurrent /\ ~bound /\ ~sub
    BY <1>2, <1>5 DEF ResumeInd, LeaseCovers, Covered
  <2>2. ~sub'
    BY <1>1, <1>2, <1>5, <2>1, SubscribeSteps, LiveHasLease DEF OpenIsLive
  <2>3. ~bound'
    BY <1>1, <1>2, <1>5, <2>1, SubscribeSteps, LiveHasLease
  <2>4. ~SubscriptionCurrent'
    <3>1. ~ \E o \in Open : OpenCommit(o) /\ ~lost /\ att[o].gen = gen
      BY <1>2, <1>5, LiveHasLease DEF OpenCommit
    <3>2. ~((CleanupConfirm \/ CleanupSettle) /\ GenLive(cln.gen) /\ cln.cur /\ cln.same)
      BY <1>2, <1>5 DEF ResumeInd, CleanupFacts, CleanupConfirm, CleanupSettle
    <3>3. ~Notification
      BY <2>1 DEF Notification
    <3> QED BY <1>1, <2>1, <3>1, <3>2, <3>3, FactSteps
  <2> QED BY <2>2, <2>3, <2>4 DEF Covered
<1>6. CASE lease'
  BY <1>6 DEF Covered
<1> QED BY <1>3, <1>4, <1>5, <1>6

\* Whoever disturbs a quiet thread has a slot.
LEMMA QuietEnds ==
  ASSUME ResumeInd, Next, Quiet, ~Quiet'
  PROVE  \/ \E o \in Open : (OpenReply(o) \/ OpenCommit(o)) /\ rclaim = o
         \/ FeishuReply /\ loop = "sending" /\ rclaim = Feishu
         \/ loop = "free" /\ uclaim = Cleanup
<1>1. Slots /\ TypeOK
  BY IndSlots
<1>2. \/ sub' /\ ~sub
      \/ bound' /\ ~bound
      \/ SubscriptionCurrent' /\ ~SubscriptionCurrent
  BY DEF Quiet
<1>3. FeishuIsLive => rclaim = Feishu
  BY DEF ResumeInd, FeishuHasReceipt, FeishuIsLive
<1>4. ASSUME (sub' /\ ~sub) \/ (bound' /\ ~bound)
      PROVE  \/ \E o \in Open : OpenReply(o) /\ rclaim = o
             \/ FeishuReply /\ loop = "sending" /\ rclaim = Feishu
  <2>1. \A o \in Open : OpenIsLive(o) => rclaim = o
    BY <1>1, ReplyIsLive DEF OpenIsLive
  <2> QED BY <1>1, <1>3, <1>4, <2>1, SubscribeSteps DEF FeishuIsLive
<1>5. ASSUME SubscriptionCurrent', ~SubscriptionCurrent
      PROVE  \/ \E o \in Open : OpenCommit(o) /\ rclaim = o
             \/ loop = "free" /\ uclaim = Cleanup
  <2>1. \A o \in Open : OpenCommit(o) /\ ~lost /\ att[o].gen = gen => rclaim = o
    BY <1>1, ReplyIsLive DEF OpenCommit
  <2>2. CleanupConfirm \/ CleanupSettle => loop = "free" /\ uclaim = Cleanup
    BY DEF ResumeInd, OneSlot, CleanupConfirm, CleanupSettle, OnLoop
  <2>3. ~Notification
    BY DEF Quiet, Notification
  <2> QED BY <1>1, <1>5, <2>1, <2>2, <2>3, FactSteps
<1> QED BY <1>2, <1>4, <1>5

\* How an attempt comes to hold a new lease.
LEMMA HoldingStep ==
  ASSUME ResumeInd, Next, NEW o \in Open, HoldsNewLease(o)'
  PROVE  \/ HoldsNewLease(o) /\ ~OpenReply(o) /\ ~OpenCommit(o)
         \/ OpenAcquire(o) /\ ~lease
<1>1. Slots /\ TypeOK /\ o \in Token
  BY IndSlots DEF Token
<1>2. ASSUME NEW q \in Open, OpenNext(q), q # o
      PROVE  HoldsNewLease(o)
  <2>1. rclaim' = o <=> rclaim = o
    BY <1>1, <1>2, OpenReceiptStep, ReceiptFrame DEF Token
  <2> QED BY <1>1, <1>2, <2>1, OpenMoves DEF HoldsNewLease
<1>3. ASSUME FeishuNext
      PROVE  HoldsNewLease(o)
  <2>1. Feishu \in Token /\ o # Feishu
    BY ConstantsAssumption DEF Token
  <2>2. rclaim' = o <=> rclaim = o
    BY <1>1, <1>3, <2>1, FeishuReceiptStep, ReceiptFrame
  <2> QED BY <1>1, <1>3, <2>2, FeishuKeepsFlight DEF HoldsNewLease
<1>4. ASSUME CleanupNext
      PROVE  HoldsNewLease(o)
  BY <1>4, CleanupFrame DEF HoldsNewLease
<1>5. ASSUME Environment
      PROVE  HoldsNewLease(o)
  <2>1. rclaim' = rclaim \/ rclaim' = Nobody
    BY <1>5 DEF Environment, StartTurn, StartReturns, Desire, CloseInBrowser, Notification,
       Disconnect, HandleDisconnect, BackendReset, InvalidateReceipts, resumeVars
  <2>2. o # Nobody
    BY <1>1, ConstantsAssumption
  <2> QED BY <1>1, <1>5, <2>1, <2>2, EnvironmentKeeps DEF HoldsNewLease, KeepsAttempts
<1>6. att \in [Open -> Attempt]
  BY <1>1 DEF TypeOK
<1>7. att'[o].pc \in {"leased", "undo", "pending", "ready", "drop", "replied"}
  BY DEF HoldsNewLease
<1>8. ~OpenReply(o)
  BY <1>6 DEF OpenReply, HoldsNewLease, Attempt
<1>9. ~OpenCommit(o) /\ ~OpenUncertain(o) /\ ~OpenRefused(o)
  <2>1. OpenCommit(o) \/ OpenUncertain(o) \/ OpenRefused(o) => att' = [att EXCEPT ![o] = IdleAtt]
    BY DEF OpenCommit, OpenUncertain, OpenRefused
  <2>2. IdleAtt.pc = "idle"
    BY DEF IdleAtt
  <2> QED BY <1>6, <1>7, <2>1, <2>2
<1>10. \A pc \in {"claimed", "idle", "checked", "undone", "dropped"} :
         ~Step(o, pc)
  BY <1>6, <1>7 DEF Step, Attempt
<1>11. ~OpenUndo(o) /\ ~OpenUndone(o) /\ ~OpenDrop(o) /\ ~OpenDropped(o)
  BY <1>10 DEF OpenUndo, OpenUndone, OpenDrop, OpenDropped
<1>12. ~OpenAbandonClaim(o) /\ ~OpenCheck(o) /\ ~OpenAcquireFails(o)
  BY <1>10 DEF OpenAbandonClaim, OpenCheck, OpenAcquireFails
<1>13. ~OpenClaim(o)
  BY <1>6, <1>7 DEF OpenClaim, IdleAtt
<1>14. ASSUME OpenAcquire(o)
       PROVE  ~lease
  BY <1>6, <1>14 DEF OpenAcquire, HoldsNewLease, Attempt
<1>15. ASSUME OpenRegister(o) \/ OpenComplete(o) \/ OpenAbandon(o) \/ OpenSend(o)
       PROVE  HoldsNewLease(o)
  <2>1. att[o].pc \in {"leased", "pending", "ready"} /\ rclaim' = rclaim
    BY <1>15 DEF OpenRegister, RegisterReceipt, OpenComplete, OpenAbandon, OpenSend, resumeVars
  <2>2. \A pc \in AttPc : Step(o, pc) => att'[o].new = att[o].new
    BY <1>6 DEF Step, Attempt
  <2>3. att'[o].new = att[o].new
    <3>1. CASE OpenRegister(o) \/ OpenComplete(o) \/ OpenAbandon(o)
      BY <2>2, <3>1 DEF OpenRegister, OpenComplete, OpenAbandon, AttPc
    <3>2. CASE OpenSend(o)
      BY <1>6, <3>2 DEF OpenSend, Attempt
    <3> QED BY <1>15, <3>1, <3>2
  <2> QED BY <2>1, <2>3 DEF HoldsNewLease
<1>16. OpenNext(o) => HoldsNewLease(o) \/ (OpenAcquire(o) /\ ~lease)
  BY <1>8, <1>9, <1>11, <1>12, <1>13, <1>14, <1>15 DEF OpenNext
<1>17. HoldsNewLease(o) \/ (OpenAcquire(o) /\ ~lease)
  BY <1>2, <1>3, <1>4, <1>5, <1>16 DEF Next, Environment
<1> QED BY <1>8, <1>9, <1>17

LEMMA QuietStep ==
  ASSUME ResumeInd, Next
  PROVE  NewLeaseIsQuiet'
<1>1. Slots /\ TypeOK /\ LostIsUnsubscribed
  BY IndSlots DEF ResumeInd
<1> SUFFICES ASSUME ~lost', ~loose'
             PROVE  /\ \A o \in Open : HoldsNewLease(o)' => Quiet'
                    /\ loop' \in {"pending", "sending"} /\ fei'.new => Quiet'
                    /\ loop' \in {"compensate", "unsubscribed"} => ~SubscriptionCurrent' /\ ~bound'
                    /\ loop' = "unsubscribed" => ~sub'
  BY DEF NewLeaseIsQuiet
<1>2. ~loose
  BY <1>1, LooseStays
<1>3. CASE lost
  <2>1. HandleDisconnect \/ BackendReset
    BY <1>1, <1>3, RecoverySteps
  <2>2. Quiet'
    BY <1>1, <1>3, <2>1, RecoverySteps
  <2> QED BY <2>2 DEF Quiet
<1>4. CASE ~lost
  <2>1. ~lease => Quiet
    BY <1>2, <1>4 DEF ResumeInd, LeaseCovers, Covered, Quiet
  <2>2. ASSUME NEW o \in Open, HoldsNewLease(o)'
        PROVE  Quiet'
    <3>1. CASE HoldsNewLease(o) /\ ~OpenReply(o) /\ ~OpenCommit(o)
      <4>1. Quiet /\ rclaim = o
        BY <1>2, <1>4, <3>1 DEF ResumeInd, NewLeaseIsQuiet, HoldsNewLease
      <4>2. o # Feishu /\ uclaim # Cleanup
        BY <4>1, ConstantsAssumption DEF ResumeInd, OneSlot, Token
      <4> QED BY <3>1, <4>1, <4>2, QuietEnds
    <3>2. CASE OpenAcquire(o) /\ ~lease
      <4>1. UNCHANGED <<interest, bound, sub>>
        BY <3>2 DEF OpenAcquire, surfaceVars
      <4> QED BY <2>1, <3>2, <4>1 DEF Quiet, SubscriptionCurrent
    <3> QED BY <2>2, <3>1, <3>2, HoldingStep
  <2>3. ~FeishuNext => loop' = loop /\ fei' = fei
    <3>1. \A o \in Open : OpenNext(o) => loop' = loop /\ fei' = fei
      BY OpenFrame
    <3>2. CleanupNext => loop' = loop /\ fei' = fei
      BY CleanupFrame
    <3>3. Environment => loop' = loop /\ fei' = fei
      BY DEF Environment, StartTurn, StartReturns, Desire, CloseInBrowser, Notification,
         Disconnect, HandleDisconnect, BackendReset
    <3> QED BY <3>1, <3>2, <3>3 DEF Next, Environment
  <2>4. FeishuNext => interest' = interest
    BY <1>1, FeishuKeepsFlight
  <2>5. ASSUME loop' \in {"pending", "sending"}, fei'.new
        PROVE  Quiet'
    <3>1. CASE loop \in {"pending", "sending"} /\ fei.new /\ ~FeishuReply
      <4>1. Quiet /\ rclaim = Feishu
        BY <1>2, <1>4, <3>1 DEF ResumeInd, NewLeaseIsQuiet, FeishuHasReceipt
      <4>2. loop # "free" /\ \A o \in Open : rclaim # o
        BY <3>1, <4>1, ConstantsAssumption
      <4> QED BY <3>1, <4>1, <4>2, QuietEnds
    <3>2. CASE FeishuAcquire /\ ~lease
      <4>1. UNCHANGED <<interest, bound, sub>>
        BY <3>2 DEF FeishuAcquire, surfaceVars
      <4> QED BY <2>1, <3>2, <4>1 DEF Quiet, SubscriptionCurrent
    <3>3. ASSUME FeishuNext
          PROVE  \/ loop \in {"pending", "sending"} /\ fei.new /\ ~FeishuReply
                 \/ FeishuAcquire /\ ~lease
      <4>1. fei \in [new : BOOLEAN, gen : Gen]
        BY <1>1 DEF TypeOK
      <4>2. FeishuAcquire \/ FeishuSend
        BY <2>5, <3>3 DEF FeishuNext, FeishuClaim, FeishuRefused, FeishuReply, FeishuCompensate,
           FeishuCompensated, FeishuDeactivate, FeishuUnsubSend, FeishuUnsubReply, OnLoop
      <4>3. FeishuAcquire => ~lease
        BY <2>5, <4>1 DEF FeishuAcquire
      <4>4. FeishuSend => loop = "pending" /\ fei.new /\ ~FeishuReply
        BY <2>5, <4>1 DEF FeishuSend, FeishuReply
      <4> QED BY <4>2, <4>3, <4>4
    <3>4. ASSUME ~FeishuNext
          PROVE  loop \in {"pending", "sending"} /\ fei.new /\ ~FeishuReply
      BY <2>3, <2>5, <3>4 DEF FeishuNext
    <3> QED BY <3>1, <3>2, <3>3, <3>4
  <2>6. ASSUME loop' \in {"compensate", "unsubscribed"}
        PROVE  /\ ~SubscriptionCurrent' /\ ~bound'
               /\ loop' = "unsubscribed" => ~sub'
    <3>1. CASE ~FeishuNext
      <4>1. /\ loop \in {"compensate", "unsubscribed"} /\ loop' = loop
            /\ ~SubscriptionCurrent /\ ~bound /\ (loop = "unsubscribed" => ~sub)
        BY <1>2, <1>4, <2>3, <2>6, <3>1 DEF ResumeInd, NewLeaseIsQuiet
      <4>2. rclaim = Nobody
        BY <4>1 DEF ResumeInd, FeishuHasReceipt
      <4>3. ~bound'
        BY <1>1, <3>1, <4>1, SubscribeSteps DEF FeishuNext
      <4>4. ~SubscriptionCurrent'
        BY <1>1, <4>1, FactSteps DEF OpenCommit, CleanupConfirm, CleanupSettle, Notification, OnLoop
      <4>5. ~sub => ~sub'
        <5>1. \A o \in Open : ~OpenIsLive(o)
          BY <1>1, <4>2, ReplyIsLive, ConstantsAssumption DEF OpenIsLive, Token
        <5> QED BY <1>1, <3>1, <5>1, SubscribeSteps DEF FeishuNext
      <4> QED BY <4>1, <4>3, <4>4, <4>5
    <3>2. CASE FeishuNext
      <4>1. FeishuReply \/ FeishuCompensate
        BY <2>6, <3>2 DEF FeishuNext, FeishuClaim, FeishuAcquire, FeishuRefused, FeishuSend,
           FeishuCompensated, FeishuDeactivate, FeishuUnsubSend, FeishuUnsubReply, OnLoop
      <4>2. CASE FeishuReply
        <5>1. loop = "sending" /\ fei.new /\ bound' = bound /\ loop' = "compensate"
          BY <2>6, <4>2 DEF FeishuReply
        <5>2. Quiet
          BY <1>2, <1>4, <5>1 DEF ResumeInd, NewLeaseIsQuiet
        <5> QED BY <2>4, <3>2, <5>1, <5>2 DEF Quiet, SubscriptionCurrent
      <4>3. CASE FeishuCompensate
        <5>1. loop = "compensate" /\ bound' = bound /\ ~sub'
          BY <2>6, <4>3 DEF FeishuCompensate, surfaceVars
        <5>2. ~SubscriptionCurrent /\ ~bound
          BY <1>2, <1>4, <5>1 DEF ResumeInd, NewLeaseIsQuiet
        <5> QED BY <2>4, <3>2, <5>1, <5>2 DEF SubscriptionCurrent
      <4> QED BY <4>1, <4>2, <4>3
    <3> QED BY <3>1, <3>2
  <2> QED BY <2>2, <2>5, <2>6
<1> QED BY <1>3, <1>4

\* An attempt that needs its lease until it gives it back.
OpenKeeps(o) ==
  \/ o \in pending /\ att[o].pc # "dropped"
  \/ att[o].pc = "leased" /\ o \notin invalid

LEMMA KeepingStep ==
  ASSUME ResumeInd, Next, NEW o \in Open, OpenKeeps(o)'
  PROVE  OpenKeeps(o) \/ OpenAcquire(o)
<1>1. Slots /\ TypeOK /\ o \in Token /\ att \in [Open -> Attempt]
  BY IndSlots DEF Token, TypeOK
<1>2. ASSUME NEW q \in Open, OpenNext(q), q # o
      PROVE  OpenKeeps(o)
  <2>1. (o \in pending' <=> o \in pending) /\ (o \in invalid' <=> o \in invalid)
    BY <1>1, <1>2, OpenReceiptStep, ReceiptFrame DEF Token
  <2> QED BY <1>1, <1>2, <2>1, OpenMoves DEF OpenKeeps
<1>3. ASSUME FeishuNext
      PROVE  OpenKeeps(o)
  <2>1. Feishu \in Token /\ o # Feishu
    BY ConstantsAssumption DEF Token
  <2>2. (o \in pending' <=> o \in pending) /\ (o \in invalid' <=> o \in invalid)
    BY <1>1, <1>3, <2>1, FeishuReceiptStep, ReceiptFrame
  <2> QED BY <1>1, <1>3, <2>2, FeishuKeepsFlight DEF OpenKeeps
<1>4. ASSUME CleanupNext
      PROVE  OpenKeeps(o)
  BY <1>4, CleanupFrame DEF OpenKeeps
<1>5. ASSUME Environment
      PROVE  OpenKeeps(o)
  <2>1. pending' \subseteq pending /\ invalid \subseteq invalid'
    BY <1>5 DEF Environment, StartTurn, StartReturns, Desire, CloseInBrowser, Notification,
       Disconnect, HandleDisconnect, BackendReset, InvalidateReceipts, resumeVars
  <2> QED BY <1>1, <1>5, <2>1, EnvironmentKeeps DEF OpenKeeps, KeepsAttempts
<1>6. ASSUME OpenNext(o), ~OpenAcquire(o)
      PROVE  OpenKeeps(o)
  <2>1. CASE o \in pending' /\ o \in pending
    <3>1. att[o].pc # "dropped"
      <4>1. att[o].pc = "dropped" => OpenDropped(o)
        BY <1>6 DEF OpenNext, OpenClaim, OpenAbandonClaim, OpenCheck, OpenAcquireFails,
           OpenRegister, OpenUndo, OpenUndone, OpenComplete, OpenAbandon, OpenDrop, OpenSend,
           OpenReply, OpenCommit, OpenUncertain, OpenRefused
      <4>2. ~OpenDropped(o)
        BY <2>1 DEF OpenDropped, RetireReceipt
      <4> QED BY <4>1, <4>2
    <3> QED BY <2>1, <3>1 DEF OpenKeeps
  <2>2. CASE o \in pending' /\ o \notin pending
    <3>1. OpenRegister(o)
      BY <1>6, <2>2 DEF OpenNext, OpenClaim, OpenAbandonClaim, OpenCheck, OpenAcquireFails,
         OpenUndo, OpenUndone, OpenComplete, OpenAbandon, OpenDrop, OpenDropped, OpenSend,
         OpenReply, OpenCommit, OpenUncertain, OpenRefused, ClaimResume, DiscardClaim,
         RetireReceipt, resumeVars
    <3> QED BY <2>2, <3>1 DEF OpenRegister, RegisterReceipt, OpenKeeps
  <2>3. CASE o \notin pending'
    <3>1. att'[o].pc = "leased"
      BY <2>3 DEF OpenKeeps
    <3>2. \A pc \in AttPc : Step(o, pc) => att'[o].pc = pc
      BY <1>1 DEF Step, Attempt
    <3>3. ~OpenAbandonClaim(o) /\ ~OpenCheck(o) /\ ~OpenAcquireFails(o) /\ ~OpenRegister(o)
          /\ ~OpenUndo(o) /\ ~OpenUndone(o) /\ ~OpenComplete(o) /\ ~OpenAbandon(o)
          /\ ~OpenDropped(o)
      BY <3>1, <3>2 DEF OpenAbandonClaim, OpenCheck, OpenAcquireFails, OpenRegister, OpenUndo,
         OpenUndone, OpenComplete, OpenAbandon, OpenDropped, AttPc
    <3>4. ~OpenDrop(o)
      BY <3>1, <3>2 DEF OpenDrop, AttPc
    <3>5. ~OpenClaim(o) /\ ~OpenSend(o) /\ ~OpenReply(o)
      <4>1. ~OpenClaim(o)
        BY <1>1, <3>1 DEF OpenClaim, IdleAtt
      <4>2. ~OpenSend(o)
        BY <1>1, <3>1 DEF OpenSend, Attempt
      <4>3. ~OpenReply(o)
        BY <1>1, <3>1 DEF OpenReply, Attempt
      <4> QED BY <4>1, <4>2, <4>3
    <3>6. OpenCommit(o) \/ OpenUncertain(o) \/ OpenRefused(o) => att' = [att EXCEPT ![o] = IdleAtt]
      BY DEF OpenCommit, OpenUncertain, OpenRefused
    <3>7. IdleAtt.pc = "idle"
      BY DEF IdleAtt
    <3>8. ~OpenCommit(o) /\ ~OpenUncertain(o) /\ ~OpenRefused(o)
      BY <1>1, <3>1, <3>6, <3>7
    <3> QED BY <1>6, <3>3, <3>4, <3>5, <3>8 DEF OpenNext
  <2> QED BY <2>1, <2>2, <2>3
<1> QED BY <1>2, <1>3, <1>4, <1>5, <1>6 DEF Next, Environment

\* An attempt that needs its lease has the slot, so only it gives the lease back.
LEMMA KeepersHaveSlot ==
  ASSUME ResumeInd, Next, lease, ~lease', ~lost, ~loose'
  PROVE  /\ \A o \in Open : OpenKeeps(o) => ~OpenKeeps(o)'
         /\ loop \in {"pending", "sending"} => loop' = "free" \/ BackendReset
<1>1. Slots /\ TypeOK /\ att \in [Open -> Attempt]
  BY IndSlots DEF TypeOK
<1>2. \/ \E o \in Open : OpenGivesBack(o)
      \/ FeishuGivesBack \/ CleanupGivesBack \/ BackendReset
  BY <1>1, Releases
<1>3. FeishuGivesBack \/ CleanupGivesBack => rclaim \in {Nobody, Feishu}
  BY ConstantsAssumption DEF ResumeInd, FeishuHasReceipt, OneSlot, FeishuGivesBack,
     CleanupGivesBack, Token
<1>4. ASSUME NEW o \in Open, OpenKeeps(o)
      PROVE  ~OpenKeeps(o)'
  <2>1. rclaim = o /\ o \notin {Nobody, Feishu} /\ o \in Token
    BY <1>4, ConstantsAssumption DEF ResumeInd, HasReceipt, OpenKeeps, Acquiring, Token
  <2>2. CASE OpenGivesBack(o)
    <3>1. att[o].pc # "undo"
      BY <1>4 DEF ResumeInd, HasReceipt, OpenKeeps, Registered
    <3>2. CASE OpenDrop(o)
      <4>1. att'[o].pc = "dropped"
        BY <1>1, <3>2 DEF OpenDrop, Step, Attempt
      <4> QED BY <4>1 DEF OpenKeeps
    <3>3. CASE OpenRefused(o)
      <4>1. o \notin pending'
        BY <3>3 DEF OpenRefused, RetireReceipt
      <4>2. att' = [att EXCEPT ![o] = IdleAtt] /\ IdleAtt.pc = "idle"
        BY <3>3 DEF OpenRefused, IdleAtt
      <4> QED BY <1>1, <4>1, <4>2 DEF OpenKeeps
    <3> QED BY <2>2, <3>1, <3>2, <3>3 DEF OpenGivesBack
  <2>3. CASE BackendReset
    <3>1. att'[o].pc = att[o].pc
      BY <1>1, <2>3, EnvironmentKeeps DEF Environment, KeepsAttempts
    <3>2. pending' = {} /\ invalid' = invalid \cup acquiring
      BY <2>3 DEF BackendReset, InvalidateReceipts
    <3>3. att[o].pc = "leased" => o \in acquiring
      BY DEF ResumeInd, HasReceipt, Acquiring
    <3> QED BY <3>1, <3>2, <3>3 DEF OpenKeeps
  <2>4. \A q \in Open : OpenGivesBack(q) => q = o
    BY <2>1 DEF OpenGivesBack
  <2> QED BY <1>2, <1>3, <2>1, <2>2, <2>3, <2>4
<1>5. ASSUME loop \in {"pending", "sending"}
      PROVE  loop' = "free" \/ BackendReset
  <2>1. rclaim = Feishu /\ uclaim = Nobody
    BY <1>5, ConstantsAssumption DEF ResumeInd, FeishuHasReceipt, OneSlot, Token
  <2>2. \A q \in Open : ~OpenGivesBack(q)
    BY <2>1, ConstantsAssumption DEF OpenGivesBack
  <2>3. ~CleanupGivesBack
    BY <2>1, ConstantsAssumption DEF ResumeInd, OneSlot, CleanupGivesBack
  <2>4. FeishuGivesBack => loop' = "free"
    BY DEF FeishuGivesBack, FeishuRefused, FeishuCompensated, FeishuUnsubReply
  <2> QED BY <1>2, <2>2, <2>3, <2>4
<1> QED BY <1>4, <1>5

LEMMA KeepStep ==
  ASSUME ResumeInd, Next
  PROVE  ReceiptsKeepLease'
<1>1. Slots /\ TypeOK
  BY IndSlots
<1> SUFFICES ASSUME ~lost', ~loose'
             PROVE  /\ \A o \in Open : OpenKeeps(o)' => lease'
                    /\ loop' \in {"pending", "sending"} => lease'
  BY DEF ReceiptsKeepLease, OpenKeeps
<1>2. ~loose
  BY <1>1, LooseStays
<1>3. ASSUME NEW o \in Open, OpenKeeps(o)'
      PROVE  lease'
  <2>1. CASE OpenAcquire(o)
    BY <2>1 DEF OpenAcquire, EnsureLease
  <2>2. CASE OpenKeeps(o) /\ ~lost
    <3>1. lease
      BY <1>2, <2>2 DEF ResumeInd, ReceiptsKeepLease, OpenKeeps
    <3> QED BY <1>3, <2>2, <3>1, KeepersHaveSlot
  <2>3. CASE OpenKeeps(o) /\ lost
    <3>1. HandleDisconnect \/ BackendReset
      BY <1>1, <2>3, RecoverySteps DEF ResumeInd
    <3>2. att'[o].pc = att[o].pc
      BY <1>1, <3>1, EnvironmentKeeps DEF Environment, KeepsAttempts
    <3>3. pending' = {} /\ invalid' = invalid \cup acquiring
      BY <3>1 DEF HandleDisconnect, BackendReset, InvalidateReceipts
    <3>4. att[o].pc = "leased" => o \in acquiring
      BY DEF ResumeInd, HasReceipt, Acquiring
    <3> QED BY <1>3, <3>2, <3>3, <3>4 DEF OpenKeeps
  <2> QED BY <1>3, <2>1, <2>2, <2>3, KeepingStep
<1>4. ASSUME loop' \in {"pending", "sending"}
      PROVE  lease'
  <2>1. \/ FeishuAcquire \/ FeishuSend \/ loop' = loop
    <3>1. \A o \in Open : OpenNext(o) => loop' = loop
      BY OpenFrame
    <3>2. CleanupNext => loop' = loop
      BY CleanupFrame
    <3>3. Environment => loop' = loop
      BY DEF Environment, StartTurn, StartReturns, Desire, CloseInBrowser, Notification,
         Disconnect, HandleDisconnect, BackendReset
    <3>4. FeishuNext => FeishuAcquire \/ FeishuSend
      BY <1>4 DEF FeishuNext, FeishuClaim, FeishuRefused, FeishuReply, FeishuCompensate,
         FeishuCompensated, FeishuDeactivate, FeishuUnsubSend, FeishuUnsubReply, OnLoop
    <3> QED BY <3>1, <3>2, <3>3, <3>4 DEF Next, Environment
  <2>2. CASE FeishuAcquire
    BY <1>4, <2>2 DEF FeishuAcquire, EnsureLease
  <2>3. CASE ~FeishuAcquire
    <3>1. loop \in {"pending", "sending"}
      BY <1>4, <2>1, <2>3 DEF FeishuSend
    <3>2. ~HandleDisconnect /\ ~BackendReset
      BY <3>1 DEF HandleDisconnect, BackendReset, OnLoop
    <3>3. ~lost
      BY <1>1, <3>2, RecoverySteps DEF ResumeInd
    <3>4. lease
      BY <1>2, <3>1, <3>3 DEF ResumeInd, ReceiptsKeepLease
    <3> QED BY <1>4, <3>1, <3>2, <3>3, <3>4, KeepersHaveSlot
  <2> QED BY <2>2, <2>3
<1> QED BY <1>3, <1>4

\* Only these unsubscribe.
LEMMA UnsubscribeSteps ==
  ASSUME Slots, Next, sub, ~sub'
  PROVE  \/ lost' \/ BackendReset \/ CleanupReply
         \/ FeishuNext /\ loop \in {"compensate", "unsubSending"}
<1>1. ASSUME NEW o \in Open, OpenNext(o)
      PROVE  FALSE
  BY <1>1 DEF OpenNext, OpenClaim, OpenAbandonClaim, OpenCheck, OpenAcquire, OpenAcquireFails,
     OpenRegister, OpenUndo, OpenUndone, OpenComplete, OpenAbandon, OpenDrop, OpenDropped,
     OpenSend, OpenReply, OpenCommit, OpenUncertain, OpenRefused
<1>2. ASSUME FeishuNext
      PROVE  loop \in {"compensate", "unsubSending"}
  BY <1>2 DEF FeishuNext, FeishuClaim, FeishuAcquire, FeishuRefused, FeishuSend, FeishuReply,
     FeishuCompensate, FeishuCompensated, FeishuDeactivate, FeishuUnsubSend, FeishuUnsubReply
<1>3. ASSUME CleanupNext
      PROVE  CleanupReply
  BY <1>3 DEF CleanupNext, CleanupPrepare, CleanupProbe, CleanupClaim, CleanupConfirm,
     CleanupAbandon, CleanupSend, CleanupReply, CleanupSettle, CleanupAllow, CleanupRelease,
     CleanupFailed, CleanupFinalize
<1>4. ASSUME Environment
      PROVE  lost' \/ BackendReset
  BY <1>4 DEF Environment, StartTurn, StartReturns, Desire, CloseInBrowser, Notification,
     Disconnect, HandleDisconnect
<1> QED BY <1>1, <1>2, <1>3, <1>4 DEF Next, Environment

\* While the cleanup has the slot nobody else subscribes, unsubscribes or gives
\* the lease back.
LEMMA CleanupHasSlot ==
  ASSUME ResumeInd, Next, cln.pc \notin {"idle", "probing", "probed"}, ~CleanupNext
  PROVE  /\ sub' => sub
         /\ bound' => bound
         /\ ~lost /\ lease /\ ~lease' /\ ~loose' => BackendReset
         /\ sub /\ ~sub' => lost' \/ BackendReset
         /\ ~lost /\ SubscriptionCurrent' /\ ~SubscriptionCurrent => sub'
<1>1. Slots
  BY IndSlots
<1>2. uclaim = Cleanup /\ rclaim = Nobody /\ loop \notin {"compensate", "unsubscribed", "unsubSending"}
  BY ConstantsAssumption DEF ResumeInd, OneSlot, FeishuHasReceipt, Token
<1>3. ~FeishuIsLive /\ \A o \in Open : rclaim # o
  BY <1>2, ConstantsAssumption DEF ResumeInd, FeishuHasReceipt, FeishuIsLive, Token
<1>4. \A o \in Open : att[o].pc # "idle" => att[o].gen # gen
  BY <1>1, <1>3, ReplyIsLive
<1>5. (sub' => sub) /\ (bound' => bound)
  BY <1>1, <1>3, <1>4, SubscribeSteps DEF OpenIsLive
<1>6. ASSUME ~lost, lease, ~lease', ~loose'
      PROVE  BackendReset
  BY <1>1, <1>2, <1>3, <1>6, Releases, ConstantsAssumption
     DEF OpenGivesBack, FeishuGivesBack, CleanupGivesBack, CleanupNext, Token
<1>7. ASSUME sub, ~sub'
      PROVE  lost' \/ BackendReset
  BY <1>1, <1>2, <1>7, UnsubscribeSteps DEF CleanupNext
<1>8. ASSUME ~lost, SubscriptionCurrent', ~SubscriptionCurrent
      PROVE  sub'
  BY <1>1, <1>4, <1>8, FactSteps DEF OpenCommit, CleanupNext, Notification
<1> QED BY <1>5, <1>6, <1>7, <1>8

\* The connection of the flight was live before, or its snapshot is void.
LEMMA GenerationSteps ==
  ASSUME Slots, Next, NEW g, GenLive(g)'
  PROVE  GenLive(g) \/ HandleDisconnect \/ BackendReset
<1>1. \A o \in Open : OpenNext(o) => gen' = gen /\ lost' = lost
  BY OpenFrame
<1>2. FeishuNext \/ CleanupNext => gen' = gen /\ lost' = lost
  BY FeishuReceiptStep, CleanupFrame
<1>3. Environment => (gen' = gen /\ lost' = lost) \/ lost' \/ HandleDisconnect \/ BackendReset
  BY DEF Environment, StartTurn, StartReturns, Desire, CloseInBrowser, Notification, Disconnect,
     connVars
<1> QED BY <1>1, <1>2, <1>3 DEF Next, Environment, GenLive

LEMMA OthersKeepFacts ==
  ASSUME ResumeInd, Next, ~CleanupNext
  PROVE  CleanupFacts'
<1>1. Slots /\ TypeOK /\ LostIsUnsubscribed
  BY IndSlots DEF ResumeInd
<1>2. KeepsFlight
  BY <1>1, OpensKeepFlight, FeishuKeepsFlight, EnvironmentKeeps DEF Next, Environment
<1>3. cln' \in Flight /\ cln'.pc = cln.pc /\ cln'.gen = cln.gen /\ cln'.cur = cln.cur
      /\ cln'.unsub = cln.unsub /\ cln'.res = cln.res
  BY <1>2 DEF KeepsFlight
<1>4. cln'.same => cln.same /\ interest' = interest
  BY <1>2 DEF KeepsFlight
<1>5. ASSUME cln.pc \in {"probing", "probed"}, cln'.same
      PROVE  interest' # NoInterest /\ cln'.cur = SubscriptionCurrent'
  BY <1>3, <1>4, <1>5 DEF ResumeInd, CleanupFacts, SubscriptionCurrent
<1>6. ASSUME cln.pc \in {"claimed", "confirmed", "sending", "replied", "settled"}, cln'.same
      PROVE  interest' # NoInterest /\ ~interest'.cur
  BY <1>4, <1>6 DEF ResumeInd, CleanupFacts
<1>7. ASSUME cln.pc \in {"claimed", "confirmed", "sending", "replied"}, cln.cur, cln'.same,
             GenLive(cln.gen)', ~loose'
      PROVE  lease'
  <2>1. ~BackendReset
    <3>1. cln \in Flight
      BY <1>1 DEF TypeOK
    <3>2. BackendReset => cln'.same = FALSE
      BY <3>1 DEF BackendReset, Flight
    <3> QED BY <1>7, <3>2
  <2>2. ~HandleDisconnect
    <3>1. cln \in Flight /\ interest # NoInterest
      BY <1>1, <1>4, <1>7 DEF TypeOK, ResumeInd, CleanupFacts
    <3>2. HandleDisconnect => cln'.same = FALSE
      BY <3>1 DEF HandleDisconnect, Touch, Flight
    <3> QED BY <1>7, <3>2
  <2>3. GenLive(cln.gen) /\ ~loose
    <3>1. cln.gen' = cln.gen
      BY <1>3
    <3>2. ~lost' /\ cln.gen = gen'
      BY <1>7, <3>1 DEF GenLive
    <3>3. \A g : ~lost' /\ g = gen' => GenLive(g)'
      BY DEF GenLive
    <3>4. GenLive(cln.gen)
      BY <1>1, <2>1, <2>2, <3>2, <3>3, GenerationSteps DEF GenLive
    <3> QED BY <1>1, <1>7, <3>4, LooseStays
  <2>4. ~lost /\ lease
    BY <1>4, <1>7, <2>3 DEF ResumeInd, CleanupFacts, GenLive
  <2> QED BY <1>7, <2>1, <2>4, CleanupHasSlot
<1>8. ASSUME cln.pc \in {"settled", "allowed"} \/ cln.pc = "replied", ~sub
      PROVE  ~sub'
  BY <1>8, CleanupHasSlot
<1>9. ASSUME cln.pc = "allowed", ~lost'
      PROVE  ~bound' /\ (SubscriptionCurrent' => sub')
  <2>1. CASE BackendReset \/ (HandleDisconnect /\ lost)
    BY <1>1, <2>1, RecoverySteps DEF Quiet
  <2>2. CASE ~BackendReset /\ ~lost
    <3>1. ~bound /\ (SubscriptionCurrent => sub)
      BY <1>9, <2>2 DEF ResumeInd, CleanupFacts
    <3> QED BY <1>9, <2>2, <3>1, CleanupHasSlot
  <2> QED BY <1>1, <1>9, <2>1, <2>2, RecoverySteps
<1> QED BY <1>3, <1>5, <1>6, <1>7, <1>8, <1>9 DEF CleanupFacts, ResumeInd

LEMMA IdleHasFacts ==
  ASSUME cln'.pc \in {"idle", "abandon", "released", "failed", "final"}
  PROVE  CleanupFacts'
BY DEF CleanupFacts

LEMMA CleanupKeepsFacts ==
  ASSUME ResumeInd, CleanupNext
  PROVE  CleanupFacts'
<1>1. Slots /\ TypeOK /\ cln \in Flight
  <2>1. Next
    BY DEF Next
  <2> QED BY <2>1, IndSlots DEF TypeOK
<1>2. UNCHANGED <<gen, lost, bound>>
  BY CleanupFrame
<1>3. CleanupFacts /\ LeaseCovers
  BY DEF ResumeInd
<1>4. (cln' = IdleCln \/ Went("abandon", cln.res)) => CleanupFacts'
  BY IdleFlight, IdleHasFacts DEF Went
<1>5. ASSUME CleanupPrepare
      PROVE  CleanupFacts'
  <2>1. CASE cln' = cln
    <3>1. cln'.pc = "idle"
      BY <1>5, <2>1 DEF CleanupPrepare
    <3> QED BY <3>1, IdleHasFacts
  <2>2. CASE cln' # cln
    <3>1. cln'.pc = "probing" /\ cln'.same /\ cln'.cur = SubscriptionCurrent
      BY <1>1, <1>5, <2>2, CleanupStarts
    <3>2. interest' = interest /\ interest # NoInterest
      BY <1>5, <2>2 DEF CleanupPrepare, NoWebDesire
    <3> QED BY <3>1, <3>2 DEF CleanupFacts, SubscriptionCurrent
  <2> QED BY <2>1, <2>2
<1>6. ASSUME CleanupProbe
      PROVE  CleanupFacts'
  <2>1. interest' = interest /\ cln.pc = "probing"
    BY <1>6 DEF CleanupProbe, surfaceVars
  <2>2. CASE cln'.pc = "probed" /\ cln'.same = cln.same /\ cln'.cur = cln.cur
    BY <1>3, <2>1, <2>2 DEF CleanupFacts, SubscriptionCurrent
  <2> QED BY <1>1, <1>4, <1>6, <2>2, CleanupStarts
<1>7. ASSUME CleanupClaim
      PROVE  CleanupFacts'
  <2>1. CASE cln' = IdleCln
    BY <1>4, <2>1
  <2>2. CASE cln' # IdleCln
    <3>1. /\ cln.pc = "probed" /\ GenLive(cln.gen) /\ cln.same /\ interest # NoInterest
          /\ interest' = [interest EXCEPT !.cur = FALSE] /\ lease' = lease /\ loose' = loose
          /\ cln' = [cln EXCEPT !.pc = IF cln.unsub THEN "claimed" ELSE "replied",
                                !.res = IF cln.unsub THEN "none" ELSE "ok"]
      BY <1>7, <2>2 DEF CleanupClaim, NoWebDesire
    <3>2. interest' # NoInterest /\ ~interest'.cur
      BY <1>1, <3>1, CurFields, ConstantsAssumption DEF TypeOK
    <3>3. (Went("claimed", "none") \/ Went("replied", "ok")) /\ (cln'.pc = "replied" => ~cln.unsub)
      BY <1>1, <3>1, FlightMoves DEF ClnPc, Reply, Went
    <3>4. cln.cur = SubscriptionCurrent
      BY <1>3, <3>1 DEF CleanupFacts
    <3>5. cln.cur /\ ~loose => lease
      BY <1>3, <3>1, <3>4 DEF LeaseCovers, Covered, GenLive
    <3> QED BY <3>1, <3>2, <3>3, <3>5 DEF CleanupFacts, Went
  <2> QED BY <2>1, <2>2
<1>8. ASSUME CleanupConfirm \/ CleanupSend \/ CleanupReply, cln'.pc # "abandon"
      PROVE  CleanupFacts'
  <2>1. interest' = interest /\ lease' = lease /\ loose' = loose
    BY <1>1, <1>8, FlightMoves DEF CleanupConfirm, CleanupSend, CleanupReply, surfaceVars, ClnPc, Went
  <2>2. cln.pc \in {"claimed", "confirmed", "sending"}
    BY <1>8 DEF CleanupConfirm, CleanupSend, CleanupReply
  <2>3. /\ cln'.pc \in {"confirmed", "sending", "replied"} /\ cln'.gen = cln.gen
        /\ cln'.cur = cln.cur /\ cln'.same = cln.same /\ cln'.unsub = cln.unsub
    BY <1>1, <1>8, CleanupMoves DEF Went
  <2>4. cln'.pc = "replied" /\ cln'.res = "ok" => ~sub'
    <3>1. CleanupConfirm \/ CleanupSend => ~(cln'.pc = "replied" /\ cln'.res = "ok")
      BY <1>1, CleanupMoves DEF Went
    <3>2. CleanupReply => (sub' = FALSE \/ Went("replied", "unknown"))
      BY <1>1, FlightMoves DEF CleanupReply, ClnPc, Reply
    <3> QED BY <1>8, <3>1, <3>2 DEF Went
  <2>5. cln'.same => interest' # NoInterest /\ ~interest'.cur
    BY <1>3, <2>1, <2>2, <2>3 DEF CleanupFacts
  <2>6. cln'.cur /\ cln'.same /\ GenLive(cln.gen)' /\ ~loose' => lease'
    BY <1>2, <1>3, <2>1, <2>2, <2>3 DEF CleanupFacts, GenLive
  <2> QED BY <2>3, <2>4, <2>5, <2>6 DEF CleanupFacts
<1>9. ASSUME CleanupSettle
      PROVE  CleanupFacts'
  <2>1. CASE Went("settled", cln.res)
    <3>1. cln.pc = "replied" /\ cln.res = "ok" /\ interest' = interest /\ sub' = sub
      BY <1>1, <1>9, <2>1, FlightMoves, IdleFlight DEF CleanupSettle, Went, ClnPc
    <3>2. cln.unsub => ~sub
      BY <1>3, <3>1 DEF CleanupFacts
    <3>3. cln.same => interest # NoInterest /\ ~interest.cur
      BY <1>3, <3>1 DEF CleanupFacts
    <3> QED BY <2>1, <3>1, <3>2, <3>3 DEF CleanupFacts, Went
  <2> QED BY <1>1, <1>4, <1>9, <2>1, CleanupMoves
<1>10. ASSUME CleanupAllow
       PROVE  CleanupFacts'
  <2>1. CASE Went("allowed", cln.res)
    <3>1. cln.pc = "settled" /\ interest' = interest /\ sub' = sub /\ CleanupFactsMatch
      BY <1>1, <1>10, <2>1, FlightMoves DEF CleanupAllow, surfaceVars, Went, ClnPc
    <3>2. cln.unsub => ~sub
      BY <1>3, <3>1 DEF CleanupFacts
    <3>3. ~bound /\ ~SubscriptionCurrent
      BY <1>3, <3>1 DEF CleanupFacts, CleanupFactsMatch, SubscriptionCurrent
    <3> QED BY <1>2, <2>1, <3>1, <3>2, <3>3 DEF CleanupFacts, Went, SubscriptionCurrent
  <2>2. CASE Went("final", cln.res)
    BY <2>2, IdleHasFacts DEF Went
  <2> QED BY <1>1, <1>4, <1>10, <2>1, <2>2, CleanupMoves
<1>11. ASSUME CleanupRelease
       PROVE  CleanupFacts'
  BY <1>1, <1>11, CleanupMoves, IdleHasFacts DEF Went
<1>12. ASSUME CleanupConfirm, cln'.pc = "abandon"
       PROVE  CleanupFacts'
  BY <1>12, IdleHasFacts
<1>13. CleanupSend \/ CleanupReply => cln'.pc # "abandon"
  BY <1>1, CleanupMoves DEF Went
<1>14. CleanupAbandon \/ CleanupFailed \/ CleanupFinalize => CleanupFacts'
  BY <1>1, <1>4, CleanupMoves
<1> QED BY <1>5, <1>6, <1>7, <1>8, <1>9, <1>10, <1>11, <1>12, <1>13, <1>14 DEF CleanupNext

-----------------------------------------------------------------------------
LEMMA ResumeInit ==
  ASSUME Init
  PROVE  ResumeInd
<1> USE DEF Init
<1>1. 1 \in Gen
  BY ConstantsAssumption DEF Gen
<1>2. IdleAtt \in Attempt /\ IdleAtt.pc = "idle" /\ IdleAtt.gen = 1
  BY <1>1 DEF IdleAtt, Attempt, AttPc, Reply
<1>3. IdleCln \in Flight /\ IdleCln.pc = "idle"
  BY IdleFlight
<1>4. TypeOK
  <2>1. att \in [Open -> Attempt] /\ cln \in Flight /\ fei \in [new : BOOLEAN, gen : Gen]
    BY <1>1, <1>2, <1>3
  <2>2. start \in 0..MaxGen /\ loop \in FeiPc
    BY ConstantsAssumption DEF FeiPc
  <2> QED BY <1>1, <2>1, <2>2 DEF TypeOK
<1>5. \A o \in Open : HasReceipt(o) /\ CurrentHasSlot(o)
  <2>1. ASSUME NEW o \in Open
        PROVE  att[o].pc = "idle" /\ att[o].gen = gen /\ rclaim # o
    BY <1>2, ConstantsAssumption DEF Token
  <2>2. gen <= gen
    BY <1>1, ConstantsAssumption DEF Gen
  <2> QED BY <2>1, <2>2 DEF HasReceipt, CurrentHasSlot, Acquiring
<1>6. FeishuHasReceipt
  BY ConstantsAssumption DEF FeishuHasReceipt, Token
<1>7. OneSlot
  BY <1>3, ConstantsAssumption DEF OneSlot, Token
<1>8. LostIsUnsubscribed /\ LeaseCovers /\ CleanupFacts
  BY <1>3 DEF LostIsUnsubscribed, LeaseCovers, Covered, SubscriptionCurrent, CleanupFacts
<1>9. NewLeaseIsQuiet /\ ReceiptsKeepLease
  BY <1>2 DEF NewLeaseIsQuiet, HoldsNewLease, ReceiptsKeepLease
<1> QED BY <1>4, <1>5, <1>6, <1>7, <1>8, <1>9 DEF ResumeInd

LEMMA ResumeStep ==
  ASSUME ResumeInd, [Next]_vars
  PROVE  ResumeInd'
<1>1. ASSUME Next
      PROVE  ResumeInd'
  <2>1. Slots' /\ Slots /\ LostIsUnsubscribed
    BY <1>1, IndSlots DEF ResumeInd
  <2>2. LostIsUnsubscribed'
    BY <1>1, <2>1, LostStep
  <2>3. LeaseCovers' /\ NewLeaseIsQuiet' /\ ReceiptsKeepLease'
    BY <1>1, CoverStep, QuietStep, KeepStep
  <2>4. CleanupFacts'
    BY <1>1, OthersKeepFacts, CleanupKeepsFacts
  <2> QED BY <2>1, <2>2, <2>3, <2>4 DEF ResumeInd, Slots
<1>2. CASE UNCHANGED vars
  BY <1>2 DEF vars, connVars, resumeVars, unsubVars, surfaceVars, ResumeInd, TypeOK, HasReceipt,
     CurrentHasSlot, FeishuHasReceipt, OneSlot, LostIsUnsubscribed, LeaseCovers, Covered,
     NewLeaseIsQuiet, HoldsNewLease, Quiet, ReceiptsKeepLease, CleanupFacts,
     SubscriptionCurrent, GenLive
<1> QED BY <1>1, <1>2

LEMMA ResumeConsequences ==
  ASSUME ResumeInd
  PROVE  ResumeInvariant
<1>1. TypeOK /\ LeaseCovers
  BY DEF ResumeInd
<1>2. gen \in Nat \ {0}
  BY <1>1, ConstantsAssumption DEF TypeOK, Gen
<1>3. ASSUME UnsubscribeInTransit(gen)
      PROVE  ~ResumeInTransit(gen) /\ start # gen
  <2>1. uclaim # Nobody
    BY <1>3, ConstantsAssumption DEF ResumeInd, OneSlot, UnsubscribeInTransit, Token
  <2>2. rclaim = Nobody /\ start = 0
    BY <2>1 DEF ResumeInd, OneSlot
  <2>3. ASSUME NEW o \in Open, att[o].pc = "sending", att[o].gen = gen
        PROVE  FALSE
    <3>1. Slots
      BY DEF ResumeInd, Slots
    <3>2. rclaim = o
      BY <2>3, <3>1, ReplyIsLive
    <3> QED BY <2>2, <3>2, ConstantsAssumption DEF Token
  <2>4. loop # "sending"
    BY <2>2, ConstantsAssumption DEF ResumeInd, FeishuHasReceipt, Token
  <2> QED BY <1>2, <2>2, <2>3, <2>4 DEF ResumeInTransit
<1>4. NoCrossing
  BY <1>3 DEF NoCrossing
<1>5. ClaimsHaveOwners
  <2>1. \A o \in Open : rclaim = o => att[o].pc # "idle"
    BY DEF ResumeInd, HasReceipt, Acquiring, Registered, Revoked
  <2>2. invalid \subseteq acquiring \cup {o \in Open : att[o].pc \in {"undo", "undone"}}
    <3>1. ASSUME NEW t \in invalid
          PROVE  t \in acquiring \cup {o \in Open : att[o].pc \in {"undo", "undone"}}
      <4>1. t \in Open
        BY <1>1, <3>1 DEF TypeOK, Token, ResumeInd, FeishuHasReceipt
      <4> QED BY <3>1, <4>1 DEF ResumeInd, HasReceipt, Revoked
    <3> QED BY <3>1
  <2>3. /\ rclaim = Feishu => loop \in {"claimed", "pending", "sending"}
        /\ loop = "free" => Feishu \notin acquiring \cup pending \cup executing
    BY DEF ResumeInd, FeishuHasReceipt
  <2>4. /\ uclaim = Cleanup => cln.pc \notin {"idle", "probing", "probed"}
        /\ uclaim = Feishu => loop \in {"unsubClaimed", "unsubSending"}
    BY DEF ResumeInd, OneSlot
  <2> QED BY <2>1, <2>2, <2>3, <2>4 DEF ClaimsHaveOwners
<1> QED BY <1>1, <1>4, <1>5 DEF ResumeInvariant

(***************************************************************************)
(* On one connection no thread/unsubscribe that holds a claim crosses a    *)
(* thread/resume or a turn/start; what the surfaces committed is covered   *)
(* by the service's lease, unless it went on stale grounds; every claim    *)
(* has an owner under way that will retire it (thread_runtime_authority    *)
(* with the opens, cleanups and bindings that use it).                     *)
(***************************************************************************)
THEOREM ResumeSafety == Spec => []ResumeInvariant
<1>1. Init => ResumeInd
  BY ResumeInit
<1>2. ResumeInd /\ [Next]_vars => ResumeInd'
  BY ResumeStep
<1>3. ResumeInd => ResumeInvariant
  BY ResumeConsequences
<1> QED BY <1>1, <1>2, <1>3, PTL DEF Spec
=============================================================================
