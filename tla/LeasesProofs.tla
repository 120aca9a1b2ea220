---------------------------- MODULE LeasesProofs ----------------------------
(***************************************************************************)
(* Proofs about the two lease ledgers: that of the main turns of one       *)
(* service (MainTurnInvariant, MainTurnSteps) and the machine-wide one of  *)
(* loaded threads (LedgerInvariant, CasReleaseIsExact, and that it         *)
(* implements RuntimeOwnership).  They share no state; each has the        *)
(* theorems of its own specification.                                      *)
(***************************************************************************)
EXTENDS InteractionLease, ThreadRuntimeLease, TLAPS

-----------------------------------------------------------------------------
(***************************************************************************)
(* Proofs about the main-turn lease ledger, for every set of threads,      *)
(* clients, holders, pids and every bound.                                 *)
(***************************************************************************)

\* What the ledger step l does to t's slot, apart from a fresh acquisition:
\* empty it or keep its generation.
KeepsOrEmpties(R, t, l) ==
  \/ l = NoLease
  \/ l \in LeaseRecord /\ Pruned(R)[t] # NoLease /\ l.lease_id = leases[t].lease_id

StoreType ==
  /\ leases \in [Thread -> LeaseRecord \cup {NoLease}]
  /\ ended \in [LeaseId -> Cause]

\* The slot a pruning read leaves alone.
LEMMA PrunedSlot ==
  ASSUME StoreType, NEW R, NEW t \in Thread
  PROVE  /\ Pruned(R)[t] \in LeaseRecord \cup {NoLease}
         /\ Pruned(R)[t] # NoLease => Pruned(R)[t] = leases[t] /\ ~IsStale(leases[t], R)
         /\ KeepsOrEmpties(R, t, Pruned(R)[t])
BY DEF StoreType, Pruned, KeepsOrEmpties

\* A store operation writes well-typed records.
LEMMA CommitType ==
  ASSUME StoreType, NEW R, NEW t \in Thread, NEW l \in LeaseRecord \cup {NoLease},
         NEW cause \in Cause, Commit(R, t, l, cause)
  PROVE  StoreType'
BY DEF StoreType, Commit, Pruned, Cause

LEMMA OnlyPruneType ==
  ASSUME StoreType, NEW R, NEW t \in Thread, OnlyPrune(R, t)
  PROVE  StoreType'
<1>1. Pruned(R)[t] \in LeaseRecord \cup {NoLease}
  BY PrunedSlot
<1>2. "pruned" \in Cause
  BY DEF Cause
<1>3. Commit(R, t, Pruned(R)[t], "pruned")
  BY DEF OnlyPrune
<1> QED BY <1>1, <1>2, <1>3, CommitType

\* Emptying a slot, for any cause.
LEMMA EmptyType ==
  ASSUME StoreType, NEW R, NEW t \in Thread, NEW cause \in Cause,
         Commit(R, t, NoLease, cause)
  PROVE  StoreType'
BY CommitType

\* Binding a blank to its turn.
LEMMA BindType ==
  ASSUME StoreType, NEW R, NEW t \in Thread, NEW turn \in Turn,
         Pruned(R)[t] # NoLease,
         Commit(R, t, [Pruned(R)[t] EXCEPT !.turn_id = turn], "pruned")
  PROVE  StoreType'
<1>1. Pruned(R)[t] \in LeaseRecord
  BY PrunedSlot
<1>2. [Pruned(R)[t] EXCEPT !.turn_id = turn] \in LeaseRecord \cup {NoLease}
  BY <1>1 DEF LeaseRecord
<1>3. "pruned" \in Cause
  BY DEF Cause
<1> QED BY <1>2, <1>3, CommitType

LEMMA Causes == \A s \in {"pruned", "released", "no_start", "offline", "completed",
                           "closed", "retired"} : s \in Cause
BY DEF Cause

-----------------------------------------------------------------------------
(* Type correctness.                                                        *)

\* Every operation of InteractionLeaseStore and of its callers, a crash or a
\* restart included, leaves the ledger file, the receipts its callers hold and
\* the backend-stop capture well formed.
THEOREM TypeCorrect == Spec => []TypeOK
<1>1. Init => TypeOK
  <2> SUFFICES ASSUME Init PROVE TypeOK
    OBVIOUS
  <2> USE ConstantsAssumption
  <2>1. /\ proc \in [Pid -> 0..MaxIncarnation] /\ started \in 0..MaxIncarnation
        /\ svc \in Pid \cup {NoPid} /\ self \in 0..MaxIncarnation
    BY DEF Init, Unknown
  <2>2. /\ leases \in [Thread -> LeaseRecord \cup {NoLease}]
        /\ receipt \in [Client -> Receipt \cup {NoReceipt}]
    BY DEF Init
  <2>3. created \in 0..MaxLease /\ owner \in [LeaseId -> 0..MaxIncarnation]
    BY DEF Init
  <2>4. ended \in [LeaseId -> Cause]
    BY DEF Init, Cause
  <2>5. capture \subseteq CapturedLease /\ todo \subseteq capture /\ resetting \in BOOLEAN
    BY DEF Init
  <2> QED BY <2>1, <2>2, <2>3, <2>4, <2>5 DEF TypeOK
<1>2. TypeOK /\ [Next]_vars => TypeOK'
  <2> SUFFICES ASSUME TypeOK, [Next]_vars PROVE TypeOK'
    OBVIOUS
  <2> USE ConstantsAssumption
  <2>0. StoreType
    BY DEF TypeOK, StoreType
  <2>1. ASSUME NEW R \in SUBSET Pid, NEW t \in Thread, Load(t, R) PROVE TypeOK'
    <3>1. StoreType'
      BY <2>0, <2>1, PrunedSlot, CommitType DEF Load, OnlyPrune, Cause
    <3> QED BY <2>1, <3>1 DEF Load, TypeOK, StoreType
  <2>2. ASSUME NEW R \in SUBSET Pid, NEW t \in Thread, NEW c \in Client, AcquireNew(c, t, R)
        PROVE TypeOK'
    <3> DEFINE l == [holder |-> HolderOf[c], pid |-> svc, identity |-> self,
                     lease_id |-> NewLeaseId, turn_id |-> NoTurn]
    <3>1. l \in LeaseRecord /\ created + 1 \in LeaseId /\ proc[svc] \in 0..MaxIncarnation
      BY <2>2 DEF AcquireNew, CanRun, TypeOK, LeaseRecord, LeaseId, NewLeaseId
    <3>a. Commit(R, t, l, "pruned")
      BY <2>2 DEF AcquireNew
    <3> HIDE DEF l
    <3>b. l \in LeaseRecord \cup {NoLease} /\ "pruned" \in Cause
      BY <3>1 DEF Cause
    <3>2. StoreType'
      BY <2>0, <3>a, <3>b, CommitType
    <3>3. receipt' \in [Client -> Receipt \cup {NoReceipt}]
      BY <2>2, <3>1 DEF AcquireNew, TypeOK, Receipt, l
    <3>4. created' \in 0..MaxLease /\ owner' \in [LeaseId -> 0..MaxIncarnation]
      BY <2>2, <3>1 DEF AcquireNew, TypeOK, LeaseId, NewLeaseId
    <3> QED BY <2>2, <3>2, <3>3, <3>4 DEF AcquireNew, TypeOK, StoreType
  <2>3. ASSUME NEW R \in SUBSET Pid, NEW t \in Thread, NEW c \in Client,
               AcquireRefresh(c, t, R)
        PROVE TypeOK'
    <3> DEFINE l == [leases[t] EXCEPT !.pid = svc, !.identity = self]
    <3>1. leases[t] \in LeaseRecord /\ svc \in Pid
      BY <2>0, <2>3, PrunedSlot DEF AcquireRefresh, CanRun, TypeOK
    <3>2. l \in LeaseRecord /\ proc[svc] \in 0..MaxIncarnation /\ l.lease_id \in LeaseId
      BY <3>1 DEF TypeOK, LeaseRecord
    <3>3. Commit(R, t, l, "pruned")
      BY <2>3 DEF AcquireRefresh
    <3>4. receipt' \in [Client -> Receipt \cup {NoReceipt}]
      BY <2>3, <3>2 DEF AcquireRefresh, TypeOK, Receipt
    <3>5. owner' \in [LeaseId -> 0..MaxIncarnation]
      BY <2>3, <3>2 DEF AcquireRefresh, TypeOK
    <3> HIDE DEF l
    <3>6. StoreType'
      BY <2>0, <3>2, <3>3, CommitType, Causes
    <3> QED BY <2>3, <3>4, <3>5, <3>6 DEF AcquireRefresh, TypeOK, StoreType
  <2>4. ASSUME NEW R \in SUBSET Pid, NEW t \in Thread, NEW c \in Client,
               AcquireDenied(c, t, R)
        PROVE TypeOK'
    <3>1. StoreType'
      BY <2>0, <2>4, OnlyPruneType DEF AcquireDenied
    <3> QED BY <2>4, <3>1 DEF AcquireDenied, TypeOK, StoreType
  <2>5. ASSUME NEW R \in SUBSET Pid, NEW c \in Client, ReleaseIfMatches(c, R)
        PROVE TypeOK'
    <3>1. receipt[c].thread \in Thread
      BY <2>5 DEF ReleaseIfMatches, TypeOK, Receipt
    <3>2. StoreType'
      BY <2>0, <2>5, <3>1, OnlyPruneType, EmptyType, Causes DEF ReleaseIfMatches
    <3>3. receipt' \in [Client -> Receipt \cup {NoReceipt}]
      BY <2>5 DEF ReleaseIfMatches, TypeOK
    <3> QED BY <2>5, <3>2, <3>3 DEF ReleaseIfMatches, TypeOK, StoreType
  <2>6. ASSUME NEW R \in SUBSET Pid, NEW t \in Thread, NEW c \in Client,
               ReleaseMatchingBlankForHolder(c, t, R)
        PROVE TypeOK'
    <3>1. StoreType'
      BY <2>0, <2>6, OnlyPruneType, EmptyType, Causes DEF ReleaseMatchingBlankForHolder
    <3> QED BY <2>6, <3>1 DEF ReleaseMatchingBlankForHolder, TypeOK, StoreType
  <2>7. ASSUME NEW R \in SUBSET Pid, NEW c \in Client, NEW turn \in Turn,
               ActivateTurn(c, turn, R)
        PROVE TypeOK'
    <3>1. receipt[c].thread \in Thread
      BY <2>7 DEF ActivateTurn, TypeOK, Receipt
    <3>2. StoreType'
      BY <2>0, <2>7, <3>1, OnlyPruneType, BindType DEF ActivateTurn, Activated
    <3>3. receipt' \in [Client -> Receipt \cup {NoReceipt}]
      BY <2>7 DEF ActivateTurn, TypeOK
    <3> QED BY <2>7, <3>2, <3>3 DEF ActivateTurn, TypeOK, StoreType
  <2>8. ASSUME NEW c \in Client, Forget(c) PROVE TypeOK'
    BY <2>8 DEF Forget, TypeOK
  <2>9. ASSUME NEW R \in SUBSET Pid, NEW t \in Thread, NEW turn \in Turn,
               TurnStarted(t, turn, R)
        PROVE TypeOK'
    <3>1. StoreType'
      BY <2>0, <2>9, OnlyPruneType, BindType DEF TurnStarted
    <3> QED BY <2>9, <3>1 DEF TurnStarted, TypeOK, StoreType
  <2>10. ASSUME NEW R \in SUBSET Pid, NEW t \in Thread, NEW turn \in Turn,
                TurnCompleted(t, turn, R)
         PROVE TypeOK'
    <3>1. StoreType'
      BY <2>0, <2>10, OnlyPruneType, EmptyType, Causes DEF TurnCompleted
    <3> QED BY <2>10, <3>1 DEF TurnCompleted, TypeOK, StoreType
  <2>11. ASSUME NEW R \in SUBSET Pid, NEW t \in Thread, ThreadClosed(t, R) PROVE TypeOK'
    <3>1. StoreType'
      BY <2>0, <2>11, EmptyType, Causes DEF ThreadClosed
    <3> QED BY <2>11, <3>1 DEF ThreadClosed, TypeOK, StoreType
  <2>12. ASSUME NEW R \in SUBSET Pid, NEW t \in Thread, NEW h \in Holder,
                OfflineRelease(t, h, R)
         PROVE TypeOK'
    <3>1. StoreType'
      BY <2>0, <2>12, OnlyPruneType, EmptyType, Causes DEF OfflineRelease
    <3> QED BY <2>12, <3>1 DEF OfflineRelease, TypeOK, StoreType
  <2>13. CASE CaptureForBackendStop
    <3>1. capture' \subseteq CapturedLease
      BY <2>13 DEF CaptureForBackendStop, TypeOK, OwnIncarnation, CapturedLease
    <3> QED BY <2>13, <3>1 DEF CaptureForBackendStop, TypeOK
  <2>14. ASSUME NEW x \in todo, RetireOne(x) PROVE TypeOK'
    <3>1. StoreType'
      BY <2>14 DEF RetireOne, TypeOK, StoreType, Cause
    <3> QED BY <2>14, <3>1 DEF RetireOne, TypeOK, StoreType
  <2>15. CASE RetireDone \/ RetireFailed
    BY <2>15 DEF RetireDone, RetireFailed, TypeOK
  <2>16. ASSUME NEW p \in Pid, ServiceStart(p) \/ ForeignStart(p) \/ ForeignExit(p)
         PROVE TypeOK'
    <3>1. CASE ServiceStart(p)
      BY <3>1 DEF ServiceStart, StartProcess, TypeOK, Unknown
    <3>2. CASE ForeignStart(p)
      BY <3>2 DEF ForeignStart, StartProcess, TypeOK
    <3>3. CASE ForeignExit(p)
      BY <3>3 DEF ForeignExit, TypeOK
    <3> QED BY <2>16, <3>1, <3>2, <3>3
  <2>17. CASE ServiceExit
    <3>1. /\ proc' \in [Pid -> 0..MaxIncarnation]
          /\ receipt' \in [Client -> Receipt \cup {NoReceipt}]
          /\ self' \in 0..MaxIncarnation
      BY <2>17 DEF ServiceExit, TypeOK, Unknown
    <3> QED BY <2>17, <3>1 DEF ServiceExit, TypeOK
  <2>18. CASE UNCHANGED vars
    BY <2>18 DEF vars, TypeOK
  <2> QED BY <2>1, <2>2, <2>3, <2>4, <2>5, <2>6, <2>7, <2>8, <2>9, <2>10, <2>11, <2>12,
             <2>13, <2>14, <2>15, <2>16, <2>17, <2>18
          DEF Next, StoreStep, SettleStep, ResetStep, ProcessStep
<1> QED BY <1>1, <1>2, PTL DEF Spec
-----------------------------------------------------------------------------
(* The inductive invariant.                                                 *)

\* A generation not yet created has not ended.
FreshGenerations == \A g \in LeaseId : g > created => ended[g] = "live"

\* The running service is alive and never misreads its own identity.
ServiceAlive == svc # NoPid => proc[svc] # 0 /\ self \in {Unknown, proc[svc]}

\* What an in-flight request may believe about the ledger.
ReceiptMatches(c) ==
  LET r  == receipt[c]
      id == r.lease.lease_id
      l  == leases[r.thread]
  IN /\ svc # NoPid
     /\ id <= created
     /\ ended[id] = "live" => HeldId(l) = id
     /\ HeldId(l) = id => l.holder = HolderOf[c] /\ l.pid = svc /\ l.identity = self
     /\ ended[id] \notin {"pruned", "offline"}
     /\ ended[id] = "released" => ~r.acquired

ReceiptsMatchLedger == \A c \in Client : receipt[c] # NoReceipt => ReceiptMatches(c)

\* At most one request in flight created a given generation.
AcquiredOnce ==
  \A c, d \in Client :
    /\ c # d /\ receipt[c] # NoReceipt /\ receipt[d] # NoReceipt
    /\ receipt[c].acquired /\ receipt[d].acquired
    => receipt[c].lease.lease_id # receipt[d].lease.lease_id

\* Incarnations are never reused, pids are.
Incarnations ==
  /\ \A p \in Pid : proc[p] <= started
  /\ \A p, q \in Pid : proc[p] # 0 /\ p # q => proc[p] # proc[q]
  /\ \A g \in LeaseId : owner[g] <= started /\ (g <= created => owner[g] # 0)

\* A record names its owner, or at least the pid its owner runs at while it lives.
OwnersMatch ==
  \A t \in Thread : leases[t] # NoLease =>
    LET l == leases[t]
    IN /\ l.identity # Unknown => owner[l.lease_id] = l.identity
       /\ Alive(owner[l.lease_id]) => proc[l.pid] = owner[l.lease_id]

\* While the reset holds RuntimeLoop a captured generation keeps its record,
\* and one the loop has visited is gone.
CaptureMatches ==
  /\ ~resetting => capture = {}
  /\ resetting => svc # NoPid /\ self # Unknown
  /\ \A x \in capture :
       /\ x.lease.lease_id <= created
       /\ x.lease.pid = svc /\ x.lease.identity = self
       /\ HeldId(leases[x.thread]) = x.lease.lease_id => leases[x.thread] = x.lease
       /\ x \notin todo => HeldId(leases[x.thread]) # x.lease.lease_id

IInv ==
  /\ GenerationsNeverReturn
  /\ FreshGenerations
  /\ ServiceAlive
  /\ ReceiptsMatchLedger
  /\ AcquiredOnce
  /\ Incarnations
  /\ OwnersMatch
  /\ PrunedOnlyAfterOwnerDied
  /\ CaptureMatches

-----------------------------------------------------------------------------
(* Every step that creates or refreshes no generation only shrinks the      *)
(* ledger: a record keeps its generation, holder and process, or leaves for *)
(* an accountable cause.                                                    *)

NoReceiptFor(g) == \A c \in Client : receipt'[c] # NoReceipt => receipt'[c].lease.lease_id # g

Accountable(t, cause) ==
  LET g == leases[t].lease_id
  IN /\ cause # "live"
     /\ cause = "pruned" => ~Alive(owner[g]) /\ NoReceiptFor(g)
     /\ cause = "offline" => NoReceiptFor(g)
     /\ cause = "released" =>
          \A c \in Client : receipt'[c] # NoReceipt /\ receipt'[c].acquired =>
                              receipt'[c].lease.lease_id # g
     /\ cause = "retired" => [thread |-> t, lease |-> leases[t]] \in capture

SameRecord(l, m) ==
  /\ l.lease_id = m.lease_id /\ l.holder = m.holder
  /\ l.pid = m.pid /\ l.identity = m.identity
  /\ l.turn_id # NoTurn => m.turn_id = l.turn_id
  /\ resetting => m = l

LedgerShrinks ==
  /\ UNCHANGED <<proc, started, svc, self, created, owner>>
  /\ \A c \in Client : receipt'[c] \in {receipt[c], NoReceipt}
  /\ \A t \in Thread : leases'[t] # NoLease =>
       leases[t] # NoLease /\ SameRecord(leases[t], leases'[t])
  /\ \A t \in Thread : leases[t] # NoLease /\ leases'[t] = NoLease =>
       ended'[leases[t].lease_id] # "live"
  /\ \A g \in LeaseId : ended'[g] # ended[g] =>
       \E t \in Thread : /\ leases[t] # NoLease /\ leases[t].lease_id = g
                          /\ leases'[t] = NoLease
                          /\ Accountable(t, ended'[g])

LEMMA ShrinkKeepsGenerations ==
  ASSUME TypeOK, TypeOK', IInv, LedgerShrinks
  PROVE  GenerationsNeverReturn' /\ FreshGenerations'
<1>1. ASSUME NEW g \in LeaseId, NEW t \in Thread, leases'[t] # NoLease, leases'[t].lease_id = g
      PROVE  ended'[g] = ended[g] /\ leases[t] # NoLease /\ leases[t].lease_id = g
  BY <1>1 DEF LedgerShrinks, SameRecord, IInv, GenerationsNeverReturn, TypeOK, LeaseRecord
<1>2. \A t \in Thread : leases'[t] # NoLease => leases'[t].lease_id \in LeaseId
  BY DEF TypeOK, LeaseRecord
<1>3. GenerationsNeverReturn'
  BY <1>1, <1>2 DEF LedgerShrinks, IInv, GenerationsNeverReturn
<1>4. FreshGenerations'
  BY DEF LedgerShrinks, IInv, GenerationsNeverReturn, FreshGenerations, TypeOK, LeaseId
<1> QED BY <1>3, <1>4

LEMMA ShrinkKeepsReceipts ==
  ASSUME TypeOK, TypeOK', IInv, LedgerShrinks
  PROVE  ReceiptsMatchLedger' /\ AcquiredOnce'
<1>1. ASSUME NEW c \in Client, receipt'[c] # NoReceipt PROVE ReceiptMatches(c)'
  <2> DEFINE r == receipt[c]
             id == r.lease.lease_id
             l == leases[r.thread]
  <2>1. receipt'[c] = r /\ r # NoReceipt
    BY <1>1 DEF LedgerShrinks
  <2>2. r.thread \in Thread /\ id \in LeaseId /\ 0 \notin LeaseId
    BY <2>1 DEF TypeOK, Receipt, LeaseRecord, LeaseId
  <2>3. /\ svc # NoPid /\ id <= created
        /\ ended[id] = "live" => HeldId(l) = id
        /\ HeldId(l) = id => l.holder = HolderOf[c] /\ l.pid = svc /\ l.identity = self
        /\ ended[id] \notin {"pruned", "offline"}
        /\ ended[id] = "released" => ~r.acquired
    BY <2>1 DEF IInv, ReceiptsMatchLedger, ReceiptMatches
  <2>4. ended'[id] \notin {"pruned", "offline"} /\ (ended'[id] = "released" => ~r.acquired)
    <3>1. CASE ended'[id] = ended[id]
      BY <2>3, <3>1
    <3>2. CASE ended'[id] # ended[id]
      <4>1. PICK t \in Thread : leases[t].lease_id = id /\ Accountable(t, ended'[id])
        BY <2>2, <3>2 DEF LedgerShrinks
      <4>2. ended'[id] \notin {"pruned", "offline"}
        BY <1>1, <2>1, <4>1 DEF Accountable, NoReceiptFor
      <4>3. ended'[id] = "released" => ~r.acquired
        BY <1>1, <2>1, <4>1 DEF Accountable
      <4> QED BY <4>2, <4>3
    <3> QED BY <3>1, <3>2
  <2>5. ended'[id] = "live" => HeldId(leases'[r.thread]) = id
    <3> SUFFICES ASSUME ended'[id] = "live" PROVE HeldId(leases'[r.thread]) = id
      OBVIOUS
    <3>1. ended[id] = "live"
      BY <2>2 DEF LedgerShrinks, Accountable
    <3>2. l # NoLease /\ l.lease_id = id
      BY <2>2, <2>3, <3>1 DEF HeldId
    <3>3. leases'[r.thread] # NoLease
      BY <2>2, <3>2 DEF LedgerShrinks
    <3> QED BY <2>2, <3>2, <3>3 DEF LedgerShrinks, SameRecord, HeldId
  <2>6. ASSUME HeldId(leases'[r.thread]) = id
        PROVE  /\ leases'[r.thread].holder = HolderOf[c]
               /\ leases'[r.thread].pid = svc /\ leases'[r.thread].identity = self
    <3>1. leases'[r.thread] # NoLease /\ leases'[r.thread].lease_id = id
      BY <2>2, <2>6 DEF HeldId
    <3>2. l # NoLease /\ SameRecord(l, leases'[r.thread])
      BY <2>2, <3>1 DEF LedgerShrinks
    <3>3. HeldId(l) = id
      BY <3>1, <3>2 DEF SameRecord, HeldId
    <3> QED BY <2>3, <3>2, <3>3 DEF SameRecord
  <2> HIDE DEF r, id, l
  <2>7. /\ receipt'[c] = r /\ r.lease.lease_id = id
        /\ svc' = svc /\ self' = self /\ created' = created
    BY <2>1 DEF LedgerShrinks, id
  <2> QED BY <2>3, <2>4, <2>5, <2>6, <2>7 DEF ReceiptMatches
<1>2. ReceiptsMatchLedger'
  BY <1>1 DEF ReceiptsMatchLedger
<1>3. AcquiredOnce'
  BY DEF LedgerShrinks, IInv, AcquiredOnce
<1> QED BY <1>2, <1>3

LEMMA ShrinkKeepsOwners ==
  ASSUME TypeOK, TypeOK', IInv, LedgerShrinks
  PROVE  ServiceAlive' /\ Incarnations' /\ OwnersMatch' /\ PrunedOnlyAfterOwnerDied'
<1>0. proc' = proc /\ owner' = owner /\ started' = started /\ created' = created
      /\ svc' = svc /\ self' = self
  BY DEF LedgerShrinks
<1>1. ServiceAlive' /\ Incarnations'
  BY <1>0 DEF IInv, ServiceAlive, Incarnations
<1>2. OwnersMatch'
  <2> SUFFICES ASSUME NEW t \in Thread, leases'[t] # NoLease
               PROVE  /\ leases'[t].identity # Unknown => owner[leases'[t].lease_id] = leases'[t].identity
                      /\ Alive(owner[leases'[t].lease_id]) =>
                           proc[leases'[t].pid] = owner[leases'[t].lease_id]
    BY <1>0 DEF OwnersMatch, Alive
  <2>1. leases[t] # NoLease /\ SameRecord(leases[t], leases'[t])
    BY DEF LedgerShrinks
  <2> QED BY <2>1 DEF IInv, OwnersMatch, SameRecord
<1>3. PrunedOnlyAfterOwnerDied'
  <2> SUFFICES ASSUME NEW g \in LeaseId, ended'[g] = "pruned" PROVE ~Alive(owner[g])
    BY <1>0 DEF PrunedOnlyAfterOwnerDied, Alive
  <2>1. CASE ended[g] = "pruned"
    BY <2>1 DEF IInv, PrunedOnlyAfterOwnerDied
  <2>2. CASE ended[g] # "pruned"
    BY <2>2 DEF LedgerShrinks, Accountable
  <2> QED BY <2>1, <2>2
<1> QED BY <1>1, <1>2, <1>3

LEMMA ShrinkKeepsCapture ==
  ASSUME TypeOK, TypeOK', IInv, LedgerShrinks, capture' = capture, resetting' = resetting,
         \A x \in todo \ todo' : HeldId(leases'[x.thread]) # x.lease.lease_id
  PROVE  CaptureMatches'
<1>1. ASSUME NEW x \in capture
      PROVE  /\ HeldId(leases'[x.thread]) = x.lease.lease_id => leases'[x.thread] = x.lease
             /\ x \notin todo' => HeldId(leases'[x.thread]) # x.lease.lease_id
  <2>1. resetting /\ x.thread \in Thread /\ x.lease.lease_id # 0
    BY DEF IInv, CaptureMatches, TypeOK, CapturedLease, LeaseRecord, LeaseId
  <2>2. leases'[x.thread] \in {leases[x.thread], NoLease}
    BY <2>1 DEF LedgerShrinks, SameRecord
  <2>3. HeldId(NoLease) = 0
    BY DEF HeldId
  <2> QED BY <2>1, <2>2, <2>3 DEF IInv, CaptureMatches
<1> QED BY <1>1 DEF CaptureMatches, IInv, LedgerShrinks

LEMMA ShrinkKeepsInvariant ==
  ASSUME TypeOK, TypeOK', IInv, LedgerShrinks, CaptureMatches'
  PROVE  IInv'
BY ShrinkKeepsGenerations, ShrinkKeepsReceipts, ShrinkKeepsOwners DEF IInv

-----------------------------------------------------------------------------
(* Which steps shrink the ledger.                                           *)

ReceiptsOnlyCleared == \A c \in Client : receipt'[c] \in {receipt[c], NoReceipt}

NoReceiptBefore(g) == \A c \in Client : receipt[c] # NoReceipt => receipt[c].lease.lease_id # g

\* A stale record's owner is dead, so no request of the running service has it.
LEMMA StaleIsDead ==
  ASSUME TypeOK, IInv, NEW R, NEW t \in Thread, IsStale(leases[t], R)
  PROVE  ~Alive(owner[leases[t].lease_id]) /\ NoReceiptBefore(leases[t].lease_id)
<1> DEFINE l == leases[t]
           g == l.lease_id
<1>1. /\ l # NoLease /\ l \in LeaseRecord /\ g \in LeaseId /\ g <= created
      /\ g # 0 /\ ended[g] = "live"
  BY DEF IsStale, TypeOK, LeaseRecord, LeaseId, IInv, GenerationsNeverReturn
<1>2. owner[g] # 0
  BY <1>1 DEF IInv, Incarnations
<1>3. /\ l.identity # Unknown => owner[g] = l.identity
      /\ Alive(owner[g]) => proc[l.pid] = owner[g]
  BY <1>1 DEF IInv, OwnersMatch
<1>4. proc[l.pid] = 0 \/ (l.identity # Unknown /\ proc[l.pid] # l.identity)
  BY DEF IsStale, process_exists
<1>5. ~Alive(owner[g])
  BY <1>2, <1>3, <1>4
<1>6. NoReceiptBefore(g)
  <2> SUFFICES ASSUME NEW c \in Client, receipt[c] # NoReceipt, receipt[c].lease.lease_id = g
               PROVE  FALSE
    BY DEF NoReceiptBefore
  <2>1. ReceiptMatches(c) /\ receipt[c].thread \in Thread
    BY DEF IInv, ReceiptsMatchLedger, TypeOK, Receipt
  <2>2. HeldId(leases[receipt[c].thread]) = g
    BY <1>1, <2>1 DEF ReceiptMatches
  <2>3. receipt[c].thread = t
    BY <1>1, <2>1, <2>2 DEF HeldId, IInv, GenerationsNeverReturn
  <2>4. l.pid = svc /\ l.identity = self /\ svc # NoPid
    BY <1>1, <2>1, <2>2, <2>3 DEF ReceiptMatches
  <2> QED BY <1>4, <2>4 DEF IInv, ServiceAlive
<1> QED BY <1>5, <1>6

LEMMA StoreShrinks ==
  ASSUME TypeOK, TypeOK', IInv, NEW R, NEW t \in Thread, NEW l, NEW cause,
         Commit(R, t, l, cause),
         \/ l = NoLease
         \/ l # NoLease /\ Pruned(R)[t] # NoLease /\ SameRecord(leases[t], l),
         l = NoLease /\ Pruned(R)[t] # NoLease => Accountable(t, cause),
         ReceiptsOnlyCleared,
         UNCHANGED <<proc, started, svc, self, created, owner>>
  PROVE  LedgerShrinks
<1>1. /\ \A u \in Thread : leases'[u] = IF u = t THEN l ELSE Pruned(R)[u]
      /\ \A u \in Thread : Pruned(R)[u] = IF IsStale(leases[u], R) THEN NoLease ELSE leases[u]
  BY DEF Commit, Pruned
<1>2. \A u \in Thread : IsStale(leases[u], R) => leases[u] # NoLease
  BY DEF IsStale
<1>3. \A u \in Thread : leases[u] # NoLease => /\ leases[u].lease_id \in LeaseId
                                              /\ HeldId(leases[u]) = leases[u].lease_id
  BY DEF TypeOK, LeaseRecord, HeldId
<1>4. \A u, v \in Thread : leases[u] # NoLease /\ leases[v] # NoLease
                           /\ leases[u].lease_id = leases[v].lease_id => u = v
  BY DEF IInv, GenerationsNeverReturn
<1>5. \A u \in Thread : leases[u] # NoLease => SameRecord(leases[u], leases[u])
  BY DEF SameRecord
<1>6. ASSUME NEW u \in Thread, leases'[u] # NoLease
      PROVE  leases[u] # NoLease /\ SameRecord(leases[u], leases'[u])
  BY <1>1, <1>2, <1>5, <1>6
<1>7. ASSUME NEW u \in Thread, IsStale(leases[u], R)
      PROVE  Accountable(u, "pruned")
  <2>1. ~Alive(owner[leases[u].lease_id]) /\ NoReceiptBefore(leases[u].lease_id)
    BY <1>7, StaleIsDead
  <2>2. NoReceiptFor(leases[u].lease_id)
    BY <2>1 DEF NoReceiptBefore, NoReceiptFor, ReceiptsOnlyCleared
  <2> QED BY <2>1, <2>2 DEF Accountable
<1>8. HeldId(NoLease) = 0 /\ 0 \notin LeaseId
  BY DEF HeldId, LeaseId
<1>9. l # NoLease => HeldId(l) = leases[t].lease_id
  BY DEF SameRecord, HeldId
<1>10. ASSUME NEW u \in Thread, leases[u] # NoLease, leases'[u] = NoLease
       PROVE  /\ Accountable(u, ended'[leases[u].lease_id])
              /\ ended'[leases[u].lease_id] # "live"
  <2> DEFINE g == leases[u].lease_id
  <2>1. g \in LeaseId
    BY <1>3, <1>10
  <2>2. CASE IsStale(leases[u], R)
    <3>1. ended'[g] = "pruned"
      BY <1>3, <1>10, <2>1, <2>2 DEF Commit
    <3> QED BY <1>7, <2>2, <3>1
  <2>3. CASE ~IsStale(leases[u], R)
    <3>1. u = t /\ l = NoLease /\ Pruned(R)[t] = leases[t]
      BY <1>1, <1>10, <2>3
    <3>2. ~\E v \in Thread : HeldId(leases[v]) = g /\ IsStale(leases[v], R)
      BY <1>2, <1>3, <1>4, <1>10, <2>3
    <3>3. ended'[g] = cause
      BY <1>3, <1>8, <1>10, <2>1, <3>1, <3>2 DEF Commit
    <3> QED BY <1>10, <3>1, <3>3 DEF Accountable
  <2> QED BY <2>2, <2>3
<1>11. ASSUME NEW g \in LeaseId, ended'[g] # ended[g]
       PROVE  \E u \in Thread : /\ leases[u] # NoLease /\ leases[u].lease_id = g
                                /\ leases'[u] = NoLease
                                /\ Accountable(u, ended'[g])
  <2>1. \E u \in Thread : leases[u] # NoLease /\ leases[u].lease_id = g /\ leases'[u] = NoLease
    <3>1. CASE \E u \in Thread : HeldId(leases[u]) = g /\ IsStale(leases[u], R)
      BY <1>1, <1>2, <1>3, <3>1
    <3>2. CASE HeldId(Pruned(R)[t]) = g /\ HeldId(l) # g
      <4>1. Pruned(R)[t] # NoLease /\ Pruned(R)[t] = leases[t]
        BY <1>1, <1>8, <3>2
      <4>2. l = NoLease
        BY <1>3, <1>9, <3>2, <4>1
      <4> QED BY <1>1, <1>3, <3>2, <4>1, <4>2
    <3> QED BY <1>11, <3>1, <3>2 DEF Commit
  <2> QED BY <1>10, <2>1
<1> QED BY <1>6, <1>10, <1>11 DEF LedgerShrinks, ReceiptsOnlyCleared

\* A pruning read.
LEMMA PruneShrinks ==
  ASSUME TypeOK, TypeOK', IInv, NEW R, NEW t \in Thread, OnlyPrune(R, t), ReceiptsOnlyCleared,
         UNCHANGED <<proc, started, svc, self, created, owner>>
  PROVE  LedgerShrinks
<1>1. Pruned(R)[t] # NoLease => SameRecord(leases[t], Pruned(R)[t])
  BY DEF Pruned, SameRecord
<1>2. Commit(R, t, Pruned(R)[t], "pruned")
  BY DEF OnlyPrune
<1> QED BY <1>1, <1>2, StoreShrinks

\* Binding a blank to its turn, never while a reset holds RuntimeLoop.
LEMMA BindShrinks ==
  ASSUME TypeOK, TypeOK', IInv, NEW R, NEW t \in Thread, NEW turn \in Turn,
         Pruned(R)[t] # NoLease, Pruned(R)[t].turn_id \in {NoTurn, turn}, ~resetting,
         Commit(R, t, [Pruned(R)[t] EXCEPT !.turn_id = turn], "pruned"),
         ReceiptsOnlyCleared,
         UNCHANGED <<proc, started, svc, self, created, owner>>
  PROVE  LedgerShrinks
<1> DEFINE l == [Pruned(R)[t] EXCEPT !.turn_id = turn]
<1>1. Pruned(R)[t] = leases[t] /\ leases[t] \in LeaseRecord
  BY DEF Pruned, TypeOK
<1>2. l \in LeaseRecord /\ SameRecord(leases[t], l)
  BY <1>1 DEF LeaseRecord, SameRecord
<1>3. l # NoLease
  BY <1>2, NullsAssumption
<1>4. Commit(R, t, l, "pruned")
  OBVIOUS
<1> HIDE DEF l
<1> QED BY <1>2, <1>3, <1>4, StoreShrinks

\* Emptying a slot for a cause that needs no account of the requests in flight.
LEMMA EmptyShrinks ==
  ASSUME TypeOK, TypeOK', IInv, NEW R, NEW t \in Thread,
         NEW cause \in {"no_start", "completed", "closed"},
         Commit(R, t, NoLease, cause), ReceiptsOnlyCleared,
         UNCHANGED <<proc, started, svc, self, created, owner>>
  PROVE  LedgerShrinks
<1>1. Accountable(t, cause)
  BY DEF Accountable
<1> QED BY <1>1, StoreShrinks

LEMMA StoreStepsShrink ==
  ASSUME TypeOK, TypeOK', IInv, NEW R \in SUBSET Pid, NEW t \in Thread
  PROVE  /\ Load(t, R) => LedgerShrinks
         /\ \A c \in Client : AcquireDenied(c, t, R) => LedgerShrinks
         /\ \A c \in Client : ReleaseMatchingBlankForHolder(c, t, R) => LedgerShrinks
         /\ \A turn \in Turn : TurnStarted(t, turn, R) => LedgerShrinks
         /\ \A turn \in Turn : TurnCompleted(t, turn, R) => LedgerShrinks
         /\ ThreadClosed(t, R) => LedgerShrinks
         /\ \A h \in Holder : OfflineRelease(t, h, R) => LedgerShrinks
<1>0. UNCHANGED receipt => ReceiptsOnlyCleared
  BY DEF ReceiptsOnlyCleared
<1>1. Load(t, R) => LedgerShrinks
  BY <1>0, PruneShrinks DEF Load
<1>2. ASSUME NEW c \in Client, AcquireDenied(c, t, R) PROVE LedgerShrinks
  BY <1>0, <1>2, PruneShrinks DEF AcquireDenied
<1>3. ASSUME NEW c \in Client, ReleaseMatchingBlankForHolder(c, t, R) PROVE LedgerShrinks
  BY <1>0, <1>3, PruneShrinks, EmptyShrinks DEF ReleaseMatchingBlankForHolder
<1>4. ASSUME NEW turn \in Turn, TurnStarted(t, turn, R) PROVE LedgerShrinks
  BY <1>0, <1>4, PruneShrinks, BindShrinks DEF TurnStarted, LoopIdle
<1>5. ASSUME NEW turn \in Turn, TurnCompleted(t, turn, R) PROVE LedgerShrinks
  BY <1>0, <1>5, PruneShrinks, EmptyShrinks DEF TurnCompleted
<1>6. ThreadClosed(t, R) => LedgerShrinks
  BY <1>0, EmptyShrinks DEF ThreadClosed
<1>7. ASSUME NEW h \in Holder, OfflineRelease(t, h, R) PROVE LedgerShrinks
  <2>1. CASE OnlyPrune(R, t)
    BY <1>0, <1>7, <2>1, PruneShrinks DEF OfflineRelease
  <2>2. CASE Commit(R, t, NoLease, "offline")
    <3>1. \A c \in Client : receipt'[c] = NoReceipt
      BY <1>7 DEF OfflineRelease, IInv, ReceiptsMatchLedger, ReceiptMatches
    <3>2. Accountable(t, "offline")
      BY <3>1 DEF Accountable, NoReceiptFor
    <3> QED BY <1>0, <1>7, <2>2, <3>2, StoreShrinks DEF OfflineRelease
  <2> QED BY <1>7, <2>1, <2>2 DEF OfflineRelease
<1> QED BY <1>1, <1>2, <1>3, <1>4, <1>5, <1>6, <1>7

LEMMA SettleStepsShrink ==
  ASSUME TypeOK, TypeOK', IInv, NEW R \in SUBSET Pid, NEW c \in Client
  PROVE  /\ ReleaseIfMatches(c, R) => LedgerShrinks
         /\ \A turn \in Turn : ActivateTurn(c, turn, R) => LedgerShrinks
<1>0. receipt' = [receipt EXCEPT ![c] = NoReceipt] => ReceiptsOnlyCleared
  BY DEF ReceiptsOnlyCleared, TypeOK
<1> DEFINE t == receipt[c].thread
<1>1. receipt[c] # NoReceipt => t \in Thread
  BY DEF TypeOK, Receipt
<1>2. ASSUME ReleaseIfMatches(c, R) PROVE LedgerShrinks
  <2>1. CASE OnlyPrune(R, t)
    BY <1>0, <1>1, <1>2, <2>1, PruneShrinks DEF ReleaseIfMatches
  <2>2. CASE Commit(R, t, NoLease, "released") /\ Pruned(R)[t] = receipt[c].lease
    <3>1. receipt[c] # NoReceipt /\ receipt[c].acquired
      BY <1>2 DEF ReleaseIfMatches
    <3>2. Pruned(R)[t] # NoLease => leases[t] = receipt[c].lease
      BY <1>1, <2>2, <3>1 DEF Pruned
    <3>3. ASSUME NEW d \in Client, receipt'[d] # NoReceipt, receipt'[d].acquired
          PROVE  receipt'[d].lease.lease_id # receipt[c].lease.lease_id
      <4>1. d # c /\ receipt'[d] = receipt[d]
        BY <1>2, <3>3 DEF ReleaseIfMatches, TypeOK
      <4> QED BY <3>1, <3>3, <4>1 DEF IInv, AcquiredOnce
    <3>4. Pruned(R)[t] # NoLease => Accountable(t, "released")
      BY <3>2, <3>3 DEF Accountable
    <3> QED BY <1>0, <1>1, <1>2, <2>2, <3>1, <3>4, StoreShrinks DEF ReleaseIfMatches
  <2> QED BY <1>2, <2>1, <2>2 DEF ReleaseIfMatches, MatchesExactly
<1>3. ASSUME NEW turn \in Turn, ActivateTurn(c, turn, R) PROVE LedgerShrinks
  <2>1. ~resetting /\ t \in Thread
    BY <1>1, <1>3 DEF ActivateTurn, CanRun, TypeOK
  <2> QED BY <1>0, <1>3, <2>1, PruneShrinks, BindShrinks DEF ActivateTurn, Activated
<1> QED BY <1>2, <1>3

LEMMA MemoryStepsShrink ==
  ASSUME TypeOK, TypeOK', IInv
  PROVE  /\ \A c \in Client : Forget(c) => LedgerShrinks
         /\ CaptureForBackendStop => LedgerShrinks
         /\ RetireDone \/ RetireFailed => LedgerShrinks
         /\ UNCHANGED vars => LedgerShrinks
<1>1. /\ UNCHANGED <<proc, started, svc, self, created, owner, leases, ended>>
      /\ ReceiptsOnlyCleared
      => LedgerShrinks
  BY DEF LedgerShrinks, ReceiptsOnlyCleared, SameRecord
<1>2. ASSUME NEW c \in Client, Forget(c) PROVE LedgerShrinks
  <2>1. ReceiptsOnlyCleared
    BY <1>2 DEF Forget, ReceiptsOnlyCleared, TypeOK
  <2> QED BY <1>1, <1>2, <2>1 DEF Forget
<1> QED
  BY <1>1, <1>2
  DEF CaptureForBackendStop, RetireDone, RetireFailed, vars, ReceiptsOnlyCleared

LEMMA RetireShrinks ==
  ASSUME TypeOK, TypeOK', IInv, NEW x \in todo, RetireOne(x)
  PROVE  LedgerShrinks /\ HeldId(leases'[x.thread]) # x.lease.lease_id
<1> DEFINE t == x.thread
<1>1. /\ x \in capture /\ t \in Thread /\ x.lease \in LeaseRecord
      /\ x.lease.lease_id \in LeaseId /\ x.lease.lease_id # 0
      /\ x = [thread |-> t, lease |-> x.lease]
  BY DEF TypeOK, CapturedLease, LeaseRecord, LeaseId
<1>2. CASE leases[t] = x.lease
  <2>1. leases[t] # NoLease
    BY <1>1, <1>2, NullsAssumption
  <2>2. /\ leases' = [leases EXCEPT ![t] = NoLease]
        /\ ended' = [ended EXCEPT ![x.lease.lease_id] = "retired"]
    BY <1>2 DEF RetireOne, MatchesExactly
  <2>3. Accountable(t, "retired")
    BY <1>1, <1>2 DEF Accountable
  <2>4. leases'[t] = NoLease /\ ended'[x.lease.lease_id] = "retired"
    BY <1>1, <2>2 DEF TypeOK
  <2>5. \A u \in Thread : leases'[u] # NoLease =>
          leases[u] # NoLease /\ SameRecord(leases[u], leases'[u])
    BY <2>2, <2>4 DEF TypeOK, SameRecord
  <2>6. \A u \in Thread : leases[u] # NoLease /\ leases'[u] = NoLease => u = t
    BY <2>2 DEF TypeOK
  <2>7. \A g \in LeaseId : ended'[g] # ended[g] => g = x.lease.lease_id
    BY <2>2 DEF TypeOK
  <2>8. LedgerShrinks
    BY <1>1, <1>2, <2>1, <2>3, <2>4, <2>5, <2>6, <2>7 DEF LedgerShrinks, RetireOne
  <2> QED BY <1>1, <2>4, <2>8 DEF HeldId
<1>3. CASE leases[t] # x.lease
  <2>1. UNCHANGED <<leases, ended>>
    BY <1>3 DEF RetireOne, MatchesExactly
  <2>2. HeldId(leases[t]) # x.lease.lease_id
    BY <1>1, <1>3 DEF IInv, CaptureMatches
  <2> QED BY <2>1, <2>2 DEF LedgerShrinks, RetireOne, SameRecord
<1> QED BY <1>2, <1>3

-----------------------------------------------------------------------------
(* Acquisition: a fresh generation in a free slot, or the same generation   *)
(* refreshed by its holder.                                                 *)

Granted(R, t, l) ==
  /\ l \in LeaseRecord /\ l.pid = svc /\ l.identity = self
  /\ \/ Pruned(R)[t] = NoLease /\ l.lease_id = created + 1
     \/ /\ Pruned(R)[t] # NoLease
        /\ l = [leases[t] EXCEPT !.pid = svc, !.identity = self]

LEMMA GrantEffect ==
  ASSUME TypeOK, TypeOK', IInv, NEW R, NEW t \in Thread, NEW l, Granted(R, t, l),
         Commit(R, t, l, "pruned")
  PROVE  /\ leases'[t] = l /\ ended'[l.lease_id] = "live" /\ l.lease_id \in LeaseId
         /\ \A u \in Thread \ {t} : leases'[u] \in {leases[u], NoLease}
         /\ \A u \in Thread \ {t} : leases[u] # NoLease =>
              leases[u].lease_id # l.lease_id
         /\ \A u \in Thread : leases'[u] # NoLease => ended'[leases'[u].lease_id] = "live"
         /\ \A g \in LeaseId : ended'[g] # ended[g] =>
              ended'[g] = "pruned" /\ ~Alive(owner[g]) /\ NoReceiptBefore(g)
         /\ \A u \in Thread : leases[u] # NoLease /\ ~NoReceiptBefore(leases[u].lease_id) =>
              HeldId(leases'[u]) = leases[u].lease_id
<1>1. /\ \A u \in Thread : leases'[u] = IF u = t THEN l ELSE Pruned(R)[u]
      /\ \A u \in Thread : Pruned(R)[u] = IF IsStale(leases[u], R) THEN NoLease ELSE leases[u]
      /\ \A u \in Thread : IsStale(leases[u], R) => leases[u] # NoLease
  BY DEF Commit, Pruned, IsStale
<1>2. \A u \in Thread : leases[u] # NoLease =>
        /\ leases[u] \in LeaseRecord
        /\ leases[u].lease_id \in LeaseId /\ leases[u].lease_id <= created
        /\ HeldId(leases[u]) = leases[u].lease_id
        /\ ended[leases[u].lease_id] = "live"
  BY DEF TypeOK, LeaseRecord, HeldId, IInv, GenerationsNeverReturn
<1>3. \A u, v \in Thread : leases[u] # NoLease /\ leases[v] # NoLease
                           /\ leases[u].lease_id = leases[v].lease_id => u = v
  BY DEF IInv, GenerationsNeverReturn
<1>4. /\ l # NoLease /\ l.lease_id \in LeaseId /\ HeldId(l) = l.lease_id
      /\ HeldId(NoLease) = 0 /\ 0 \notin LeaseId
  BY NullsAssumption DEF Granted, LeaseRecord, HeldId, LeaseId
<1>5. Pruned(R)[t] # NoLease => leases[t] # NoLease /\ l.lease_id = leases[t].lease_id
  <2> SUFFICES ASSUME Pruned(R)[t] # NoLease
               PROVE  leases[t] # NoLease /\ l.lease_id = leases[t].lease_id
    OBVIOUS
  <2>1. leases[t] \in LeaseRecord /\ leases[t] # NoLease
    BY <1>1, <1>2
  <2> QED BY <2>1 DEF Granted, LeaseRecord
<1>6. \A u \in Thread \ {t} : leases[u] # NoLease => leases[u].lease_id # l.lease_id
  <2>1. CASE Pruned(R)[t] = NoLease
    BY <1>2, <2>1 DEF Granted, TypeOK, LeaseId
  <2>2. CASE Pruned(R)[t] # NoLease
    BY <1>3, <1>5, <2>2
  <2> QED BY <2>1, <2>2
<1>7. ASSUME NEW g \in LeaseId
      PROVE  /\ (\E u \in Thread : leases[u] # NoLease /\ leases[u].lease_id = g
                                    /\ IsStale(leases[u], R)) => ended'[g] = "pruned"
             /\ ~(\E u \in Thread : leases[u] # NoLease /\ leases[u].lease_id = g
                                    /\ IsStale(leases[u], R)) => ended'[g] = ended[g]
  <2>1. HeldId(Pruned(R)[t]) = g => HeldId(l) = g
    BY <1>1, <1>2, <1>4, <1>5
  <2>2. \A u \in Thread : HeldId(leases[u]) = g <=> leases[u] # NoLease /\ leases[u].lease_id = g
    BY <1>2, <1>4
  <2>3. ended'[g] = IF \E u \in Thread : HeldId(leases[u]) = g /\ IsStale(leases[u], R)
                    THEN "pruned" ELSE ended[g]
    BY <2>1 DEF Commit
  <2> QED BY <2>2, <2>3
<1>8. \A g \in LeaseId : ended'[g] # ended[g] =>
        ended'[g] = "pruned" /\ ~Alive(owner[g]) /\ NoReceiptBefore(g)
  BY <1>7, StaleIsDead
<1>9. ended'[l.lease_id] = "live"
  <2>1. CASE Pruned(R)[t] = NoLease
    <3>1. l.lease_id = created + 1
      BY <2>1 DEF Granted
    <3>2. ended[l.lease_id] = "live"
      BY <1>4, <3>1 DEF IInv, FreshGenerations, TypeOK
    <3>3. \A u \in Thread : leases[u] # NoLease => leases[u].lease_id # l.lease_id
      BY <1>2, <3>1 DEF TypeOK, LeaseId
    <3> QED BY <1>4, <1>7, <3>2, <3>3
  <2>2. CASE Pruned(R)[t] # NoLease
    <3>1. ~IsStale(leases[t], R) /\ ended[l.lease_id] = "live"
      BY <1>1, <1>2, <1>5, <2>2
    <3> QED BY <1>3, <1>4, <1>5, <1>7, <2>2, <3>1
  <2> QED BY <2>1, <2>2
<1>10. \A u \in Thread : leases'[u] # NoLease => ended'[leases'[u].lease_id] = "live"
  BY <1>1, <1>2, <1>3, <1>7, <1>9
<1>11. ASSUME NEW u \in Thread, leases[u] # NoLease, ~NoReceiptBefore(leases[u].lease_id)
       PROVE  HeldId(leases'[u]) = leases[u].lease_id
  <2>1. ~IsStale(leases[u], R)
    BY <1>11, StaleIsDead
  <2> QED BY <1>1, <1>2, <1>4, <1>5, <1>11, <2>1
<1> QED BY <1>1, <1>4, <1>6, <1>8, <1>9, <1>10, <1>11

LEMMA GrantKeepsInvariant ==
  ASSUME TypeOK, TypeOK', IInv, NEW R, NEW t \in Thread, NEW l, NEW c \in Client,
         NEW acquired \in BOOLEAN,
         Granted(R, t, l), Commit(R, t, l, "pruned"),
         svc # NoPid, receipt[c] = NoReceipt, l.holder = HolderOf[c],
         receipt' = [receipt EXCEPT
                       ![c] = [thread |-> t, lease |-> l, acquired |-> acquired]],
         created' >= created, l.lease_id <= created',
         \A g \in LeaseId : g > created /\ g <= created' => g = l.lease_id,
         acquired => l.lease_id = created + 1,
         owner' = [owner EXCEPT ![l.lease_id] = proc[svc]],
         UNCHANGED <<proc, started, svc, self, capture, todo, resetting>>
  PROVE  IInv'
<1>1. /\ leases'[t] = l /\ ended'[l.lease_id] = "live" /\ l.lease_id \in LeaseId
      /\ \A u \in Thread \ {t} : leases'[u] \in {leases[u], NoLease}
      /\ \A u \in Thread \ {t} : leases[u] # NoLease => leases[u].lease_id # l.lease_id
      /\ \A u \in Thread : leases'[u] # NoLease => ended'[leases'[u].lease_id] = "live"
      /\ \A g \in LeaseId : ended'[g] # ended[g] =>
           ended'[g] = "pruned" /\ ~Alive(owner[g]) /\ NoReceiptBefore(g)
      /\ \A u \in Thread : leases[u] # NoLease /\ ~NoReceiptBefore(leases[u].lease_id) =>
           HeldId(leases'[u]) = leases[u].lease_id
  BY GrantEffect
<1>0. /\ svc \in Pid /\ proc[svc] # 0 /\ self \in {Unknown, proc[svc]}
      /\ l \in LeaseRecord /\ l.pid = svc /\ l.identity = self /\ l # NoLease
      /\ l.lease_id \in LeaseId /\ HeldId(l) = l.lease_id /\ HeldId(NoLease) = 0 /\ 0 \notin LeaseId
  BY NullsAssumption DEF TypeOK, IInv, ServiceAlive, Granted, LeaseRecord, HeldId, LeaseId
<1>2. /\ owner'[l.lease_id] = proc[svc]
      /\ \A g \in LeaseId : g # l.lease_id => owner'[g] = owner[g]
  BY <1>0 DEF TypeOK
<1>3. GenerationsNeverReturn'
  <2>1. \A u \in Thread : leases'[u] # NoLease => leases'[u].lease_id <= created'
    BY <1>1 DEF IInv, GenerationsNeverReturn, TypeOK, LeaseRecord, LeaseId
  <2>2. \A u, v \in Thread : leases'[u] # NoLease /\ leases'[v] # NoLease /\ u # v =>
          leases'[u].lease_id # leases'[v].lease_id
    BY <1>1 DEF IInv, GenerationsNeverReturn
  <2> QED BY <1>1, <2>1, <2>2 DEF GenerationsNeverReturn
<1>4. FreshGenerations'
  <2> SUFFICES ASSUME NEW g \in LeaseId, g > created' PROVE ended'[g] = "live"
    BY DEF FreshGenerations
  <2>1. g > created /\ ended[g] = "live"
    BY DEF IInv, FreshGenerations, TypeOK, LeaseId
  <2>2. owner'[g] \in Nat
    BY DEF TypeOK
  <2>3. ASSUME ended'[g] # ended[g] PROVE FALSE
    <3>1. \E u \in Thread : HeldId(leases[u]) = g
      <4>1. HeldId(Pruned(R)[t]) = g /\ HeldId(l) # g => HeldId(leases[t]) = g
        BY <1>0 DEF Pruned
      <4> QED BY <2>3, <4>1 DEF Commit
    <3> QED BY <1>0, <2>1, <3>1 DEF HeldId, IInv, GenerationsNeverReturn, TypeOK, LeaseId
  <2> QED BY <2>1, <2>3
<1>5. ServiceAlive'
  BY DEF IInv, ServiceAlive
<1>6. ReceiptsMatchLedger'
  <2>1. ReceiptMatches(c)'
    <3>1. receipt'[c] = [thread |-> t, lease |-> l, acquired |-> acquired]
      BY DEF TypeOK
    <3>2. /\ receipt'[c].thread = t /\ receipt'[c].lease = l
          /\ receipt'[c].acquired = acquired
      BY <3>1
    <3> QED BY <1>0, <1>1, <3>2 DEF ReceiptMatches
  <2>2. ASSUME NEW d \in Client, d # c, receipt'[d] # NoReceipt PROVE ReceiptMatches(d)'
    <3> DEFINE r == receipt[d]
               id == r.lease.lease_id
    <3>1. receipt'[d] = r /\ r # NoReceipt
      BY <2>2 DEF TypeOK
    <3>2. r.thread \in Thread /\ id \in LeaseId /\ ~NoReceiptBefore(id)
      BY <3>1 DEF TypeOK, Receipt, LeaseRecord, NoReceiptBefore
    <3>3. /\ id <= created
          /\ ended[id] = "live" => HeldId(leases[r.thread]) = id
          /\ HeldId(leases[r.thread]) = id =>
               /\ leases[r.thread].holder = HolderOf[d]
               /\ leases[r.thread].pid = svc /\ leases[r.thread].identity = self
          /\ ended[id] \notin {"pruned", "offline"}
          /\ ended[id] = "released" => ~r.acquired
      BY <3>1 DEF IInv, ReceiptsMatchLedger, ReceiptMatches
    <3>4. ended'[id] = ended[id]
      BY <1>1, <3>2
    <3>5. ended[id] = "live" => HeldId(leases'[r.thread]) = id
      <4> SUFFICES ASSUME ended[id] = "live" PROVE HeldId(leases'[r.thread]) = id
        OBVIOUS
      <4>1. leases[r.thread] # NoLease /\ leases[r.thread].lease_id = id
        BY <1>0, <3>2, <3>3 DEF HeldId
      <4> QED BY <1>1, <3>2, <4>1
    <3>6. ASSUME HeldId(leases'[r.thread]) = id
          PROVE  /\ leases'[r.thread].holder = HolderOf[d]
                 /\ leases'[r.thread].pid = svc /\ leases'[r.thread].identity = self
      <4>1. CASE r.thread # t
        BY <1>0, <1>1, <3>2, <3>3, <3>6, <4>1
      <4>2. CASE r.thread = t
        <5>1. l.lease_id = id /\ id <= created
          BY <1>0, <1>1, <3>3, <3>6, <4>2
        <5>2. /\ Pruned(R)[t] # NoLease /\ leases[t] \in LeaseRecord
              /\ l = [leases[t] EXCEPT !.pid = svc, !.identity = self]
          BY <5>1 DEF Granted, TypeOK, Pruned, LeaseId
        <5>3. l.lease_id = leases[t].lease_id /\ l.holder = leases[t].holder
          BY <5>2 DEF LeaseRecord
        <5>4. HeldId(leases[t]) = id
          BY <5>1, <5>2, <5>3, NullsAssumption DEF HeldId
        <5> QED BY <1>0, <1>1, <3>3, <4>2, <5>3, <5>4
      <4> QED BY <4>1, <4>2
    <3>7. id <= created'
      BY <3>2, <3>3 DEF TypeOK, LeaseId
    <3> HIDE DEF r, id
    <3>8. receipt'[d] = r /\ r.lease.lease_id = id
      BY <3>1 DEF id
    <3> QED BY <3>3, <3>4, <3>5, <3>6, <3>7, <3>8 DEF ReceiptMatches
  <2> QED BY <2>1, <2>2 DEF ReceiptsMatchLedger
<1>7. AcquiredOnce'
  <2>1. receipt'[c].lease.lease_id = l.lease_id /\ receipt'[c].acquired = acquired
    BY DEF TypeOK
  <2>2. \A d \in Client : d # c => receipt'[d] = receipt[d]
    BY DEF TypeOK
  <2>3. \A d \in Client : receipt[d] # NoReceipt => receipt[d].lease.lease_id <= created
    BY DEF IInv, ReceiptsMatchLedger, ReceiptMatches
  <2>4. acquired => ~(l.lease_id <= created)
    BY DEF TypeOK
  <2>5. ASSUME NEW d \in Client, d # c, receipt'[d] # NoReceipt, acquired
        PROVE  receipt'[d].lease.lease_id # l.lease_id
    BY <2>2, <2>3, <2>4, <2>5
  <2>6. ASSUME NEW d \in Client, NEW e \in Client, d # e, receipt'[d] # NoReceipt,
               receipt'[e] # NoReceipt, receipt'[d].acquired, receipt'[e].acquired
        PROVE  receipt'[d].lease.lease_id # receipt'[e].lease.lease_id
    <3>1. CASE d = c \/ e = c
      BY <2>1, <2>5, <2>6, <3>1
    <3>2. CASE d # c /\ e # c
      BY <2>2, <2>6, <3>2 DEF IInv, AcquiredOnce
    <3> QED BY <3>1, <3>2
  <2> QED BY <2>6 DEF AcquiredOnce
<1>8. Incarnations'
  <2>1. proc[svc] <= started
    BY <1>0 DEF IInv, Incarnations
  <2>2. ASSUME NEW g \in LeaseId PROVE owner'[g] <= started /\ (g <= created' => owner'[g] # 0)
    <3>1. CASE g = l.lease_id
      BY <1>0, <1>2, <2>1, <3>1
    <3>2. CASE g # l.lease_id
      <4>1. g <= created' => g <= created
        BY <3>2 DEF TypeOK, LeaseId
      <4> QED BY <1>2, <3>2, <4>1 DEF IInv, Incarnations
    <3> QED BY <3>1, <3>2
  <2> QED BY <2>2 DEF IInv, Incarnations
<1>9. OwnersMatch'
  <2> SUFFICES ASSUME NEW u \in Thread, leases'[u] # NoLease
               PROVE  /\ leases'[u].identity # Unknown =>
                           owner'[leases'[u].lease_id] = leases'[u].identity
                      /\ Alive(owner'[leases'[u].lease_id]) =>
                           proc[leases'[u].pid] = owner'[leases'[u].lease_id]
    BY DEF OwnersMatch, Alive
  <2>1. CASE u = t
    BY <1>0, <1>1, <1>2, <2>1
  <2>2. CASE u # t
    <3>1. leases'[u] = leases[u] /\ leases[u].lease_id # l.lease_id /\ leases[u].lease_id \in LeaseId
      BY <1>1, <2>2 DEF TypeOK, LeaseRecord
    <3> QED BY <1>2, <3>1 DEF IInv, OwnersMatch
  <2> QED BY <2>1, <2>2
<1>10. PrunedOnlyAfterOwnerDied'
  <2> SUFFICES ASSUME NEW g \in LeaseId, ended'[g] = "pruned" PROVE ~Alive(owner'[g])
    BY DEF PrunedOnlyAfterOwnerDied, Alive
  <2>1. owner'[g] = owner[g]
    BY <1>1, <1>2
  <2> QED BY <1>1, <2>1 DEF IInv, PrunedOnlyAfterOwnerDied
<1>11. CaptureMatches'
  <2>1. ASSUME NEW x \in capture
        PROVE  /\ x.lease.lease_id <= created'
               /\ HeldId(leases'[x.thread]) = x.lease.lease_id => leases'[x.thread] = x.lease
               /\ x \notin todo => HeldId(leases'[x.thread]) # x.lease.lease_id
    <3>1. /\ x.thread \in Thread /\ x.lease \in LeaseRecord /\ x.lease.lease_id \in LeaseId
          /\ x.lease.lease_id <= created /\ x.lease.pid = svc /\ x.lease.identity = self
          /\ HeldId(leases[x.thread]) = x.lease.lease_id => leases[x.thread] = x.lease
          /\ x \notin todo => HeldId(leases[x.thread]) # x.lease.lease_id
      BY DEF TypeOK, CapturedLease, LeaseRecord, IInv, CaptureMatches
    <3>2. x.lease.lease_id <= created'
      BY <3>1 DEF TypeOK, LeaseId
    <3>3. CASE x.thread # t
      BY <1>0, <1>1, <3>1, <3>2, <3>3
    <3>4. CASE x.thread = t /\ HeldId(leases'[t]) = x.lease.lease_id
      <4>1. l.lease_id = x.lease.lease_id /\ l.lease_id <= created
        BY <1>0, <1>1, <3>1, <3>4
      <4>2. /\ leases[t] \in LeaseRecord
            /\ l = [leases[t] EXCEPT !.pid = svc, !.identity = self]
        BY <4>1 DEF Granted, TypeOK, Pruned, LeaseId
      <4>3. HeldId(leases[t]) = l.lease_id
        BY <4>2, NullsAssumption DEF HeldId, LeaseRecord
      <4>4. leases[t] = x.lease
        BY <3>1, <3>4, <4>1, <4>3
      <4>5. l = leases[t]
        BY <3>1, <4>2, <4>4 DEF LeaseRecord
      <4> QED BY <1>1, <3>1, <3>2, <3>4, <4>1, <4>3, <4>4, <4>5
    <3> QED BY <3>2, <3>3, <3>4
  <2> QED BY <2>1 DEF IInv, CaptureMatches
<1> QED BY <1>3, <1>4, <1>5, <1>6, <1>7, <1>8, <1>9, <1>10, <1>11 DEF IInv

-----------------------------------------------------------------------------
(* Processes.                                                               *)

LEMMA ProcessStepKeepsInvariant ==
  ASSUME TypeOK, TypeOK', IInv, ProcessStep
  PROVE  IInv'
<1>1. leases' = leases /\ created' = created /\ ended' = ended /\ owner' = owner
  BY DEF ProcessStep, ServiceStart, ForeignStart, ForeignExit, ServiceExit
<1>2. GenerationsNeverReturn' /\ FreshGenerations'
  BY <1>1 DEF IInv, GenerationsNeverReturn, FreshGenerations
<1>3. ASSUME NEW i, NEW p \in Pid, i \in Nat, i # 0, i <= started, proc'[p] = i
      PROVE  proc[p] = i
  <2>1. ASSUME NEW q \in Pid, StartProcess(q) PROVE proc[p] = i
    BY <1>3, <2>1 DEF StartProcess, TypeOK
  <2>2. ASSUME NEW q, proc' = [proc EXCEPT ![q] = 0] PROVE proc[p] = i
    BY <1>3, <2>2 DEF TypeOK
  <2> QED BY <2>1, <2>2 DEF ProcessStep, ServiceStart, ForeignStart, ForeignExit, ServiceExit
<1>4. Incarnations'
  <2>1. ASSUME NEW p \in Pid, StartProcess(p) PROVE Incarnations'
    <3>1. started' = started + 1 /\ proc' = [proc EXCEPT ![p] = started + 1]
      BY <2>1 DEF StartProcess
    <3>2. \A q \in Pid : proc'[q] <= started'
      BY <3>1 DEF IInv, Incarnations, TypeOK
    <3>3. \A q, r \in Pid : proc'[q] # 0 /\ q # r => proc'[q] # proc'[r]
      BY <3>1 DEF IInv, Incarnations, TypeOK
    <3>4. \A g \in LeaseId : owner'[g] <= started' /\ (g <= created' => owner'[g] # 0)
      BY <1>1, <3>1 DEF IInv, Incarnations, TypeOK
    <3> QED BY <3>2, <3>3, <3>4 DEF Incarnations
  <2>2. ASSUME NEW p, proc' = [proc EXCEPT ![p] = 0], started' = started PROVE Incarnations'
    BY <1>1, <2>2 DEF IInv, Incarnations, TypeOK
  <2> QED BY <2>1, <2>2 DEF ProcessStep, ServiceStart, ForeignStart, ForeignExit, ServiceExit
<1>5. \A g \in LeaseId : owner[g] # 0 /\ Alive(owner[g])' => Alive(owner[g])
  BY <1>1, <1>3 DEF Alive, TypeOK, IInv, Incarnations
<1>6. PrunedOnlyAfterOwnerDied'
  <2> SUFFICES ASSUME NEW g \in LeaseId, ended[g] = "pruned" PROVE ~Alive(owner[g])'
    BY <1>1 DEF PrunedOnlyAfterOwnerDied
  <2>1. g <= created /\ owner[g] # 0
    BY DEF IInv, FreshGenerations, Incarnations, TypeOK, LeaseId
  <2> QED BY <1>5, <2>1 DEF IInv, PrunedOnlyAfterOwnerDied
<1>7. OwnersMatch'
  <2> SUFFICES ASSUME NEW t \in Thread, leases[t] # NoLease
               PROVE  /\ leases[t].identity # Unknown =>
                           owner[leases[t].lease_id] = leases[t].identity
                      /\ Alive(owner[leases[t].lease_id])' =>
                           proc'[leases[t].pid] = owner[leases[t].lease_id]
    BY <1>1 DEF OwnersMatch
  <2> DEFINE i == owner[leases[t].lease_id]
  <2>1. /\ leases[t].pid \in Pid /\ leases[t].lease_id \in LeaseId /\ i # 0 /\ i <= started
        /\ i \in Nat
    BY DEF TypeOK, LeaseRecord, IInv, GenerationsNeverReturn, Incarnations
  <2>2. /\ leases[t].identity # Unknown => i = leases[t].identity
        /\ Alive(i) => proc[leases[t].pid] = i
    BY DEF IInv, OwnersMatch
  <2>3. ASSUME NEW p \in Pid, proc'[p] = i PROVE proc'[leases[t].pid] = i
    <3>1. proc[p] = i /\ proc[leases[t].pid] = i
      BY <1>3, <2>1, <2>2, <2>3 DEF Alive
    <3>2. p = leases[t].pid
      BY <2>1, <3>1 DEF IInv, Incarnations
    <3> QED BY <2>3, <3>2
  <2>4. Alive(i)' => \E p \in Pid : proc'[p] = i
    BY <1>1 DEF Alive
  <2> QED BY <2>2, <2>3, <2>4
<1>8. CASE \E p \in Pid : ServiceStart(p)
  <2>1. PICK p \in Pid : ServiceStart(p)
    BY <1>8
  <2>2. \A c \in Client : receipt'[c] = NoReceipt
    BY <2>1 DEF ServiceStart, IInv, ReceiptsMatchLedger, ReceiptMatches
  <2>3. ReceiptsMatchLedger' /\ AcquiredOnce'
    BY <2>2 DEF ReceiptsMatchLedger, AcquiredOnce
  <2>4. ServiceAlive'
    BY <2>1 DEF ServiceStart, StartProcess, ServiceAlive, TypeOK
  <2>5. capture = {} /\ ~resetting /\ capture' = capture /\ resetting' = resetting
    BY <2>1 DEF ServiceStart, IInv, CaptureMatches, TypeOK
  <2>6. CaptureMatches'
    BY <2>5 DEF CaptureMatches
  <2> QED BY <1>2, <1>4, <1>6, <1>7, <2>3, <2>4, <2>6 DEF IInv
<1>9. CASE \E p \in Pid : ForeignStart(p) \/ ForeignExit(p)
  <2>1. /\ UNCHANGED <<svc, self, receipt, capture, todo, resetting>>
        /\ svc # NoPid => proc'[svc] = proc[svc]
    BY <1>9 DEF ForeignStart, StartProcess, ForeignExit, TypeOK, IInv, ServiceAlive
  <2>2. ServiceAlive'
    BY <2>1 DEF IInv, ServiceAlive
  <2>3. ReceiptsMatchLedger' /\ AcquiredOnce'
    BY <1>1, <2>1 DEF IInv, ReceiptsMatchLedger, ReceiptMatches, AcquiredOnce, HeldId
  <2>4. CaptureMatches'
    BY <1>1, <2>1 DEF IInv, CaptureMatches, HeldId
  <2> QED BY <1>2, <1>4, <1>6, <1>7, <2>2, <2>3, <2>4 DEF IInv
<1>10. CASE ServiceExit
  <2>1. ReceiptsMatchLedger' /\ AcquiredOnce' /\ ServiceAlive' /\ CaptureMatches'
    BY <1>10 DEF ServiceExit, ReceiptsMatchLedger, AcquiredOnce, ServiceAlive, CaptureMatches
  <2> QED BY <1>2, <1>4, <1>6, <1>7, <2>1 DEF IInv
<1> QED BY <1>8, <1>9, <1>10 DEF ProcessStep

-----------------------------------------------------------------------------
(* The invariant is inductive.                                              *)

LEMMA InitInvariant == Init => IInv
<1> SUFFICES ASSUME Init PROVE IInv
  OBVIOUS
<1>1. GenerationsNeverReturn /\ FreshGenerations /\ ServiceAlive /\ OwnersMatch
  BY DEF Init, GenerationsNeverReturn, FreshGenerations, ServiceAlive, OwnersMatch
<1>2. ReceiptsMatchLedger /\ AcquiredOnce /\ CaptureMatches
  BY DEF Init, ReceiptsMatchLedger, AcquiredOnce, CaptureMatches
<1>3. Incarnations /\ PrunedOnlyAfterOwnerDied
  BY DEF Init, Incarnations, PrunedOnlyAfterOwnerDied, LeaseId
<1> QED BY <1>1, <1>2, <1>3 DEF IInv

\* The step every proof below splits on: a step shrinks the ledger, grants a
\* generation, or belongs to a process.
LEMMA StepKinds ==
  ASSUME TypeOK, TypeOK', IInv, [Next]_vars
  PROVE  \/ LedgerShrinks /\ CaptureMatches'
         \/ \E R \in SUBSET Pid, t \in Thread, c \in Client :
              AcquireNew(c, t, R) \/ AcquireRefresh(c, t, R)
         \/ ProcessStep
<1> DEFINE Goal == LedgerShrinks /\ CaptureMatches'
<1>0. LedgerShrinks /\ UNCHANGED <<capture, todo, resetting>> => Goal
  BY ShrinkKeepsCapture
<1>1. ASSUME NEW R \in SUBSET Pid, NEW t \in Thread,
             \/ Load(t, R) \/ ThreadClosed(t, R)
             \/ \E c \in Client : AcquireDenied(c, t, R) \/ ReleaseMatchingBlankForHolder(c, t, R)
             \/ \E turn \in Turn : TurnStarted(t, turn, R) \/ TurnCompleted(t, turn, R)
             \/ \E h \in Holder : OfflineRelease(t, h, R)
      PROVE  Goal
  <2>1. LedgerShrinks
    BY <1>1, StoreStepsShrink
  <2>2. UNCHANGED <<capture, todo, resetting>>
    BY <1>1 DEF Load, ThreadClosed, AcquireDenied, ReleaseMatchingBlankForHolder, TurnStarted,
                TurnCompleted, OfflineRelease
  <2> QED BY <1>0, <2>1, <2>2
<1>2. ASSUME NEW R \in SUBSET Pid, SettleStep(R) PROVE Goal
  <2>1. LedgerShrinks
    BY <1>2, SettleStepsShrink DEF SettleStep
  <2>2. UNCHANGED <<capture, todo, resetting>>
    BY <1>2 DEF SettleStep, ReleaseIfMatches, ActivateTurn
  <2> QED BY <1>0, <2>1, <2>2
<1>3. ASSUME NEW c \in Client, Forget(c) PROVE Goal
  BY <1>0, <1>3, MemoryStepsShrink DEF Forget
<1>4. CASE UNCHANGED vars
  BY <1>0, <1>4, MemoryStepsShrink DEF vars
<1>5. CASE RetireDone \/ RetireFailed
  <2>1. capture' = {} /\ resetting' = FALSE
    BY <1>5 DEF RetireDone, RetireFailed
  <2> QED BY <1>5, <2>1, MemoryStepsShrink DEF CaptureMatches
<1>6. ASSUME NEW x \in todo, RetireOne(x) PROVE Goal
  <2>1. LedgerShrinks /\ HeldId(leases'[x.thread]) # x.lease.lease_id
    BY <1>6, RetireShrinks
  <2>2. capture' = capture /\ resetting' = resetting /\ todo' = todo \ {x}
    BY <1>6 DEF RetireOne
  <2> QED BY <2>1, <2>2, ShrinkKeepsCapture
<1>7. CASE CaptureForBackendStop
  <2>1. LedgerShrinks
    BY <1>7, MemoryStepsShrink
  <2>2. /\ resetting' = TRUE /\ todo' = capture' /\ svc # NoPid /\ self # Unknown
        /\ UNCHANGED <<svc, self, leases, created>>
    BY <1>7 DEF CaptureForBackendStop, LoopIdle
  <2>3. ASSUME NEW x \in capture'
        PROVE  /\ leases[x.thread] = x.lease /\ x.lease.lease_id <= created
               /\ x.lease.pid = svc /\ x.lease.identity = self
    BY <1>7 DEF CaptureForBackendStop, OwnIncarnation, IInv, GenerationsNeverReturn
  <2>4. CaptureMatches'
    BY <2>2, <2>3 DEF CaptureMatches
  <2> QED BY <2>1, <2>4
<1> QED BY <1>1, <1>2, <1>3, <1>4, <1>5, <1>6, <1>7 DEF Next, StoreStep, ResetStep

LEMMA AcquireKeepsInvariant ==
  ASSUME TypeOK, TypeOK', IInv, NEW R \in SUBSET Pid, NEW t \in Thread, NEW c \in Client,
         AcquireNew(c, t, R) \/ AcquireRefresh(c, t, R)
  PROVE  IInv'
<1>1. CASE AcquireNew(c, t, R)
  <2> DEFINE l == [holder |-> HolderOf[c], pid |-> svc, identity |-> self,
                   lease_id |-> NewLeaseId, turn_id |-> NoTurn]
  <2>1. /\ l \in LeaseRecord /\ l.pid = svc /\ l.identity = self /\ l.holder = HolderOf[c]
        /\ l.lease_id = created + 1
    <3>1. svc \in Pid /\ created + 1 \in LeaseId
      BY <1>1, ConstantsAssumption DEF AcquireNew, CanRun, TypeOK, LeaseId
    <3> QED BY <3>1, ConstantsAssumption DEF TypeOK, LeaseRecord, NewLeaseId
  <2>2. /\ svc # NoPid /\ receipt[c] = NoReceipt /\ Pruned(R)[t] = NoLease
        /\ Commit(R, t, l, "pruned")
        /\ receipt' = [receipt EXCEPT ![c] = [thread |-> t, lease |-> l, acquired |-> TRUE]]
        /\ created' = created + 1
        /\ owner' = [owner EXCEPT ![l.lease_id] = proc[svc]]
        /\ UNCHANGED <<proc, started, svc, self, capture, todo, resetting>>
    BY <1>1 DEF AcquireNew, CanRun
  <2> HIDE DEF l
  <2>3. Granted(R, t, l)
    BY <2>1, <2>2 DEF Granted
  <2>4. /\ created' >= created /\ l.lease_id <= created'
        /\ \A g \in LeaseId : g > created /\ g <= created' => g = l.lease_id
    BY <2>1, <2>2 DEF TypeOK, LeaseId
  <2> QED BY <2>1, <2>2, <2>3, <2>4, GrantKeepsInvariant
<1>2. CASE AcquireRefresh(c, t, R)
  <2> DEFINE l == [leases[t] EXCEPT !.pid = svc, !.identity = self]
  <2>1. /\ Pruned(R)[t] # NoLease /\ leases[t] \in LeaseRecord /\ leases[t] # NoLease
        /\ svc \in Pid /\ svc # NoPid /\ leases[t].holder = HolderOf[c]
    BY <1>2 DEF AcquireRefresh, CanRun, TypeOK, Pruned, same_holder
  <2>2. /\ l \in LeaseRecord /\ l.pid = svc /\ l.identity = self /\ l.holder = HolderOf[c]
        /\ l.lease_id = leases[t].lease_id
    BY <2>1 DEF TypeOK, LeaseRecord
  <2>3. /\ receipt[c] = NoReceipt /\ Commit(R, t, l, "pruned")
        /\ receipt' = [receipt EXCEPT ![c] = [thread |-> t, lease |-> l, acquired |-> FALSE]]
        /\ created' = created
        /\ owner' = [owner EXCEPT ![l.lease_id] = proc[svc]]
        /\ UNCHANGED <<proc, started, svc, self, capture, todo, resetting>>
    BY <1>2 DEF AcquireRefresh
  <2>4. Granted(R, t, l)
    BY <2>1, <2>2 DEF Granted
  <2> HIDE DEF l
  <2>5. /\ created' >= created /\ l.lease_id <= created'
        /\ \A g \in LeaseId : g > created /\ g <= created' => g = l.lease_id
    BY <2>1, <2>2, <2>3 DEF TypeOK, LeaseId, IInv, GenerationsNeverReturn
  <2> QED BY <2>1, <2>2, <2>3, <2>4, <2>5, GrantKeepsInvariant
<1> QED BY <1>1, <1>2

LEMMA InvariantHolds == Spec => []IInv
<1>1. TypeOK /\ TypeOK' /\ IInv /\ [Next]_vars => IInv'
  BY StepKinds, ShrinkKeepsInvariant, AcquireKeepsInvariant, ProcessStepKeepsInvariant
<1> QED BY <1>1, InitInvariant, TypeCorrect, PTL DEF Spec

-----------------------------------------------------------------------------
(* The theorems.                                                            *)

\* A stale acquire, activation or compare-and-set never brings an ended
\* generation back (lease_id is a fresh uuid4 per acquire).
THEOREM EndedGenerationsStayEnded == Spec => []GenerationsNeverReturn
<1>1. IInv => GenerationsNeverReturn
  BY DEF IInv
<1> QED BY <1>1, InvariantHolds, PTL

\* _prune_stale_leases never evicts the lease of a live process, whatever the
\* pid reuse and however often identities are unreadable.
THEOREM PruningIsSafe == Spec => []PrunedOnlyAfterOwnerDied
<1>1. IInv => PrunedOnlyAfterOwnerDied
  BY DEF IInv
<1> QED BY <1>1, InvariantHolds, PTL

\* acquire never lets a second frontend in beside a request in flight.
THEOREM InFlightRequestIsSafe == Spec => []InFlightRequestKeepsThread
<1>1. TypeOK /\ IInv => InFlightRequestKeepsThread
  <2> SUFFICES ASSUME TypeOK, IInv, NEW c \in Client, receipt[c] # NoReceipt
               PROVE  LET r == receipt[c]
                      IN \/ HeldId(leases[r.thread]) = r.lease.lease_id
                         \/ ended[r.lease.lease_id] \in {"completed", "closed", "retired", "no_start"}
                         \/ ~r.acquired /\ ended[r.lease.lease_id] = "released"
    BY DEF InFlightRequestKeepsThread
  <2>1. ReceiptMatches(c) /\ ended[receipt[c].lease.lease_id] \in Cause
    BY DEF IInv, ReceiptsMatchLedger, TypeOK, Receipt, LeaseRecord
  <2> QED BY <2>1 DEF ReceiptMatches, Cause
<1> QED BY <1>1, InvariantHolds, TypeCorrect, PTL

\* Mutual exclusion between logical holders on one thread.
THEOREM MainTurnMutex == Spec => []OneFrontendPerThread
<1>1. TypeOK /\ IInv => OneFrontendPerThread
  <2> SUFFICES ASSUME TypeOK, IInv, NEW c \in Client, NEW d \in Client,
                      receipt[c] # NoReceipt, receipt[d] # NoReceipt,
                      receipt[c].thread = receipt[d].thread,
                      ended[receipt[c].lease.lease_id] = "live",
                      ended[receipt[d].lease.lease_id] = "live"
               PROVE  HolderOf[c] = HolderOf[d]
    BY DEF OneFrontendPerThread
  <2>1. ReceiptMatches(c) /\ ReceiptMatches(d)
    BY DEF IInv, ReceiptsMatchLedger
  <2> QED BY <2>1 DEF ReceiptMatches
<1> QED BY <1>1, InvariantHolds, TypeCorrect, PTL

\* retire_after_backend_stop leaves no captured record behind.
THEOREM RetirementCompletes == Spec => []RetirementIsComplete
<1>1. TypeOK /\ IInv => RetirementIsComplete
  <2> SUFFICES ASSUME TypeOK, IInv, resetting, todo = {}, NEW x \in capture
               PROVE  leases[x.thread] # x.lease
    BY DEF RetirementIsComplete
  <2>1. HeldId(leases[x.thread]) # x.lease.lease_id /\ x.lease \in LeaseRecord
    BY DEF IInv, CaptureMatches, TypeOK, CapturedLease
  <2> QED BY <2>1, NullsAssumption DEF HeldId
<1> QED BY <1>1, InvariantHolds, TypeCorrect, PTL

\* What a grant does to the ledger, for the action properties.
LEMMA AcquireEffect ==
  ASSUME TypeOK, TypeOK', IInv, NEW R \in SUBSET Pid, NEW t \in Thread, NEW c \in Client,
         AcquireNew(c, t, R) \/ AcquireRefresh(c, t, R)
  PROVE  \E l : Granted(R, t, l) /\ Commit(R, t, l, "pruned")
<1>1. CASE AcquireNew(c, t, R)
  <2> DEFINE l == [holder |-> HolderOf[c], pid |-> svc, identity |-> self,
                   lease_id |-> NewLeaseId, turn_id |-> NoTurn]
  <2>1. svc \in Pid /\ created + 1 \in LeaseId
    BY <1>1, ConstantsAssumption DEF AcquireNew, CanRun, TypeOK, LeaseId
  <2>2. l \in LeaseRecord /\ l.pid = svc /\ l.identity = self /\ l.lease_id = created + 1
    BY <2>1, ConstantsAssumption DEF TypeOK, LeaseRecord, NewLeaseId
  <2>3. Pruned(R)[t] = NoLease /\ Commit(R, t, l, "pruned")
    BY <1>1 DEF AcquireNew
  <2> HIDE DEF l
  <2> QED BY <2>2, <2>3 DEF Granted
<1>2. CASE AcquireRefresh(c, t, R)
  <2> DEFINE l == [leases[t] EXCEPT !.pid = svc, !.identity = self]
  <2>1. Pruned(R)[t] # NoLease /\ leases[t] \in LeaseRecord /\ svc \in Pid
    BY <1>2 DEF AcquireRefresh, CanRun, TypeOK, Pruned
  <2>2. l \in LeaseRecord /\ l.pid = svc /\ l.identity = self
    BY <2>1 DEF TypeOK, LeaseRecord
  <2>3. Commit(R, t, l, "pruned")
    BY <1>2 DEF AcquireRefresh
  <2>4. Granted(R, t, l)
    BY <2>1, <2>2 DEF Granted
  <2> HIDE DEF l
  <2> QED BY <2>3, <2>4
<1> QED BY <1>1, <1>2

\* acquire, activate_turn and every other writer leave the holder and the bound
\* turn of a generation alone.
THEOREM GenerationsAreStable == Spec => GenerationIsStable
<1> DEFINE Stable(t) ==
      (leases[t] # NoLease /\ HeldId(leases'[t]) = HeldId(leases[t])) =>
        /\ leases'[t].holder = leases[t].holder
        /\ leases[t].turn_id # NoTurn => leases'[t].turn_id = leases[t].turn_id
<1>1. TypeOK /\ TypeOK' /\ IInv /\ [Next]_vars => \A t \in Thread : Stable(t)
  <2> SUFFICES ASSUME TypeOK, TypeOK', IInv, [Next]_vars, NEW t \in Thread,
                      leases[t] # NoLease, HeldId(leases'[t]) = HeldId(leases[t])
               PROVE  /\ leases'[t].holder = leases[t].holder
                      /\ leases[t].turn_id # NoTurn => leases'[t].turn_id = leases[t].turn_id
    OBVIOUS
  <2>1. /\ leases[t] \in LeaseRecord /\ leases[t].lease_id \in LeaseId
        /\ leases[t].lease_id <= created
        /\ leases'[t] # NoLease /\ leases'[t].lease_id = leases[t].lease_id
    BY DEF TypeOK, HeldId, LeaseRecord, LeaseId, IInv, GenerationsNeverReturn
  <2>2. CASE LedgerShrinks
    BY <2>1, <2>2 DEF LedgerShrinks, SameRecord
  <2>3. ASSUME NEW R \in SUBSET Pid, NEW u \in Thread, NEW c \in Client,
               AcquireNew(c, u, R) \/ AcquireRefresh(c, u, R)
        PROVE  /\ leases'[t].holder = leases[t].holder
               /\ leases[t].turn_id # NoTurn => leases'[t].turn_id = leases[t].turn_id
    <3>1. PICK l : Granted(R, u, l) /\ Commit(R, u, l, "pruned")
      BY <2>3, AcquireEffect
    <3>2. /\ leases'[u] = l
          /\ \A v \in Thread \ {u} : leases'[v] \in {leases[v], NoLease}
      BY <3>1 DEF Commit, Pruned
    <3>3. CASE t # u
      BY <2>1, <3>2, <3>3
    <3>4. CASE t = u
      <4>1. l = [leases[t] EXCEPT !.pid = svc, !.identity = self]
        BY <2>1, <3>1, <3>2, <3>4 DEF Granted, TypeOK, LeaseId
      <4> QED BY <2>1, <3>2, <3>4, <4>1 DEF LeaseRecord
    <3> QED BY <3>3, <3>4
  <2>4. CASE ProcessStep
    BY <2>4 DEF ProcessStep, ServiceStart, ForeignStart, ForeignExit, ServiceExit
  <2> QED BY <2>2, <2>3, <2>4, StepKinds
<1> QED BY <1>1, InvariantHolds, TypeCorrect, PTL DEF Spec, GenerationIsStable

\* retire_after_backend_stop ends only generations captured before the stop
\* and held by this very process incarnation.
THEOREM RetirementOnlyTakesItsOwn == Spec => RetirementIsExact
<1> DEFINE Exact ==
      \A g \in LeaseId : (ended[g] # "retired" /\ ended'[g] = "retired") =>
        /\ \E x \in capture : x.lease.lease_id = g
        /\ owner[g] = proc[svc]
<1>1. TypeOK /\ TypeOK' /\ IInv /\ [Next]_vars => Exact
  <2> SUFFICES ASSUME TypeOK, TypeOK', IInv, [Next]_vars, NEW g \in LeaseId,
                      ended[g] # "retired", ended'[g] = "retired"
               PROVE  /\ \E x \in capture : x.lease.lease_id = g
                      /\ owner[g] = proc[svc]
    OBVIOUS
  <2>1. CASE LedgerShrinks
    <3>1. PICK t \in Thread : /\ leases[t] # NoLease /\ leases[t].lease_id = g
                              /\ Accountable(t, "retired")
      BY <2>1 DEF LedgerShrinks
    <3> DEFINE x == [thread |-> t, lease |-> leases[t]]
    <3>2. x \in capture /\ x.lease.lease_id = g
      BY <3>1 DEF Accountable
    <3>3. leases[t].identity = self /\ self # Unknown /\ svc # NoPid
      BY <3>2 DEF IInv, CaptureMatches, TypeOK
    <3>4. owner[g] = proc[svc]
      BY <3>1, <3>3 DEF IInv, OwnersMatch, ServiceAlive
    <3> QED BY <3>2, <3>4
  <2>2. ASSUME NEW R \in SUBSET Pid, NEW u \in Thread, NEW c \in Client,
               AcquireNew(c, u, R) \/ AcquireRefresh(c, u, R)
        PROVE  FALSE
    <3>1. PICK l : Granted(R, u, l) /\ Commit(R, u, l, "pruned")
      BY <2>2, AcquireEffect
    <3>2. ended'[g] # ended[g] => ended'[g] = "pruned"
      BY <3>1, GrantEffect
    <3> QED BY <3>2
  <2>3. ~ProcessStep
    BY DEF ProcessStep, ServiceStart, ForeignStart, ForeignExit, ServiceExit
  <2> QED BY <2>1, <2>2, <2>3, StepKinds
<1> QED BY <1>1, InvariantHolds, TypeCorrect, PTL DEF Spec, RetirementIsExact

\* The whole invariant of the main-turn lease store: exclusion, honest pruning,
\* generations that stay ended and a retirement that leaves nothing behind.
THEOREM MainTurnSafety == Spec => []MainTurnInvariant
<1>1. /\ TypeOK /\ GenerationsNeverReturn /\ PrunedOnlyAfterOwnerDied
      /\ InFlightRequestKeepsThread /\ OneFrontendPerThread /\ RetirementIsComplete
      => MainTurnInvariant
  BY DEF MainTurnInvariant
<1> QED
  BY <1>1, TypeCorrect, EndedGenerationsStayEnded, PruningIsSafe,
     InFlightRequestIsSafe, MainTurnMutex, RetirementCompletes, PTL

\* No step changes the identity of a generation or retires one that the
\* pre-stop capture did not name.
THEOREM MainTurnStepsAreSafe == Spec => MainTurnSteps
BY GenerationsAreStable, RetirementOnlyTakesItsOwn DEF MainTurnSteps

-----------------------------------------------------------------------------
(***************************************************************************)
(* Proofs about the machine-wide runtime ledger, for every set of threads, *)
(* instances, pids and participants and every bound: what a generation was *)
(* granted stays its own, nothing of an earlier generation is left when a  *)
(* generation is up, a compare-and-release is exact, and the ledger        *)
(* implements RuntimeOwnership.                                            *)
(***************************************************************************)

(* The inductive invariant.                                                 *)

\* A live generation runs under its own pid, two generations with the lock of
\* one instance are the same one, and only a generation that is up or stopping
\* still holds anything.
Lives ==
  /\ \A g \in Gen : born[g] = NoEntry <=> phase[g] = "unborn"
  /\ \A g \in Gen : phase[g] \in Living => occupant[born[g].pid] = g
  /\ \A g, k \in Gen : phase[g] \in HoldsLock /\ phase[k] \in HoldsLock /\ born[g].inst = born[k].inst => g = k
  /\ \A g \in Gen : held[g] # {} => phase[g] \in {"up", "stopping"}

\* A record names one generation, its holders name the process of that one, and
\* the service holder among them is that generation.
Backed(l) ==
  /\ born[l.token] # NoEntry /\ born[l.token].inst = l.inst
  /\ \A h \in DOMAIN l.holders : /\ l.holders[h].token = l.token
                                 /\ l.holders[h].pid = born[l.token].pid
                                 /\ l.holders[h].ident \in {0, l.token}
                                 /\ h \in Gen => h = l.token

RecordsBacked == \A t \in Threads : ledger[t] # NoRecord => Backed(ledger[t])

\* From the purge on, and not only once it is up, a generation finds no record
\* of another one of its instance.
NoResidue ==
  \A g \in Gen, t \in Threads :
    phase[g] \in {"prepared", "up"} /\ ledger[t] # NoRecord /\ ledger[t].inst = born[g].inst
    => ledger[t].token = g

LedgerInd ==
  /\ LedgerTypeOK /\ Lives /\ RecordsBacked /\ HolderKeepsThread /\ NoResidue

-----------------------------------------------------------------------------
(* Records.                                                                 *)

IsLease(l) == \E S \in (SUBSET HolderId) \ {{}} : l \in LeaseOf(S)

LEMMA LeaseElim ==
  ASSUME NEW l, IsLease(l)
  PROVE  /\ l.inst \in Instance /\ l.token \in Gen
         /\ DOMAIN l.holders \subseteq HolderId /\ DOMAIN l.holders # {}
         /\ \A h \in DOMAIN l.holders : l.holders[h] \in HolderRecord
<1>1. PICK S \in (SUBSET HolderId) \ {{}} : l \in LeaseOf(S)
  BY DEF IsLease
<1>2. l.inst \in Instance /\ l.token \in Gen /\ l.holders \in [S -> HolderRecord]
  BY <1>1 DEF LeaseOf
<1> QED BY <1>2

LEMMA LeaseIntro ==
  ASSUME LedgerNulls, NEW i \in Instance, NEW k \in Gen, NEW S \in SUBSET HolderId, S # {},
         NEW f \in [S -> HolderRecord]
  PROVE  /\ IsLease([inst |-> i, token |-> k, holders |-> f])
         /\ [inst |-> i, token |-> k, holders |-> f] # NoRecord
<1>1. [inst |-> i, token |-> k, holders |-> f] \in LeaseOf(S)
  BY DEF LeaseOf
<1>2. NoRecord \notin LeaseOf(S)
  BY DEF LedgerNulls
<1> QED BY <1>1, <1>2 DEF IsLease

\* What an operation other than acquire() may leave of a record l.
Reduces(l, m) ==
  \/ m = NoRecord
  \/ /\ l # NoRecord /\ IsLease(m) /\ m.inst = l.inst /\ m.token = l.token
     /\ DOMAIN m.holders \subseteq DOMAIN l.holders
     /\ \A h \in DOMAIN m.holders : m.holders[h] = l.holders[h]

LEMMA ReducesTransitive ==
  ASSUME NEW l, NEW m, NEW n, Reduces(l, m), Reduces(m, n)
  PROVE  Reduces(l, n)
BY DEF Reduces

LEMMA ReducesBacked ==
  ASSUME NEW l, NEW m, Reduces(l, m), m # NoRecord, Backed(l)
  PROVE  Backed(m)
BY DEF Reduces, Backed

LEMMA RetainReduces ==
  ASSUME LedgerNulls, NEW l, IsLease(l), Backed(l), NEW S \in SUBSET DOMAIN l.holders
  PROVE  /\ l # NoRecord => Reduces(l, Retain(l, S))
         /\ S # {} => /\ Retain(l, S) # NoRecord /\ DOMAIN Retain(l, S).holders = S
                      /\ Retain(l, S).inst = l.inst /\ Retain(l, S).token = l.token
                      /\ \A h \in S : Retain(l, S).holders[h] = l.holders[h]
<1>1. CASE S = {}
  BY <1>1 DEF Retain, Reduces
<1>2. CASE S # {}
  <2> DEFINE h0 == CHOOSE h \in S : TRUE
             f == [h \in S |-> l.holders[h]]
  <2>1. h0 \in S
    BY <1>2
  <2>2. l.holders[h0].token = l.token
    BY <2>1 DEF Backed
  <2>3. /\ l.inst \in Instance /\ l.token \in Gen /\ S \in SUBSET HolderId
        /\ f \in [S -> HolderRecord]
    BY LeaseElim
  <2>4. Retain(l, S) = [inst |-> l.inst, token |-> l.token, holders |-> f]
    BY <1>2, <2>2 DEF Retain
  <2>5. IsLease(Retain(l, S)) /\ Retain(l, S) # NoRecord
    BY <1>2, <2>3, <2>4, LeaseIntro
  <2> QED BY <2>4, <2>5 DEF Reduces
<1> QED BY <1>1, <1>2

LEMMA PruneSlot ==
  ASSUME LedgerNulls, LedgerTypeOK, NEW R, NEW t \in Threads
  PROVE  LET live == LiveHolders(ledger[t], R)
             m == PruneStaleLeases(R)[t]
         IN /\ ledger[t] = NoRecord \/ live = {} => m = NoRecord
            /\ ledger[t] # NoRecord /\ live # {} =>
                 /\ m # NoRecord /\ IsLease(m) /\ m.inst = ledger[t].inst /\ m.token = ledger[t].token
                 /\ DOMAIN m.holders = live /\ live \subseteq DOMAIN ledger[t].holders
                 /\ \A h \in live : m.holders[h] = ledger[t].holders[h]
<1> DEFINE l == ledger[t]
           live == LiveHolders(l, R)
           f == [h \in live |-> l.holders[h]]
<1>1. CASE l = NoRecord \/ live = {}
  BY <1>1 DEF PruneStaleLeases
<1>2. CASE l # NoRecord /\ live # {}
  <2>1. IsLease(l)
    BY <1>2 DEF LedgerTypeOK, IsLease
  <2>2. live \subseteq DOMAIN l.holders
    BY DEF LiveHolders
  <2>3. /\ l.inst \in Instance /\ l.token \in Gen /\ live \in SUBSET HolderId
        /\ f \in [live -> HolderRecord]
    BY <2>1, <2>2, LeaseElim
  <2>6. PruneStaleLeases(R)[t] = [inst |-> l.inst, token |-> l.token, holders |-> f]
    BY <1>2 DEF PruneStaleLeases
  <2>7. IsLease(PruneStaleLeases(R)[t]) /\ PruneStaleLeases(R)[t] # NoRecord
    BY <1>2, <2>3, <2>6, LeaseIntro
  <2> QED BY <1>2, <2>2, <2>6, <2>7
<1> QED BY <1>1, <1>2

LEMMA PruneReduces ==
  ASSUME LedgerNulls, LedgerTypeOK, NEW R, NEW t \in Threads
  PROVE  Reduces(ledger[t], PruneStaleLeases(R)[t])
BY PruneSlot DEF Reduces

-----------------------------------------------------------------------------
(* What an operation on the ledger preserves.                               *)

LEMMA LedgerType ==
  ASSUME LedgerTypeOK, NEW t \in Threads, ledger[t] # NoRecord
  PROVE  IsLease(ledger[t])
BY DEF LedgerTypeOK, IsLease

\* The ledger's share of the invariant.
LedgerGood ==
  /\ \A t \in Threads : ledger[t] # NoRecord => IsLease(ledger[t])
  /\ RecordsBacked

LEMMA Shrink ==
  ASSUME LedgerInd, UNCHANGED born, \A t \in Threads : Reduces(ledger[t], ledger'[t])
  PROVE  /\ LedgerGood'
         /\ \A g \in Gen, t \in Threads :
              phase[g] \in {"prepared", "up"} /\ ledger'[t] # NoRecord /\ ledger'[t].inst = born[g].inst
              => ledger'[t].token = g
<1>1. \A t \in Threads : ledger'[t] # NoRecord => IsLease(ledger'[t]) /\ ledger[t] # NoRecord
                          /\ ledger'[t].inst = ledger[t].inst /\ ledger'[t].token = ledger[t].token
  BY DEF Reduces
<1>2. \A t \in Threads : ledger'[t] # NoRecord => Backed(ledger'[t])
  BY <1>1, ReducesBacked DEF LedgerInd, RecordsBacked
<1>3. \A t \in Threads : ledger'[t] # NoRecord => Backed(ledger[t])'
  BY <1>2 DEF Backed
<1> QED BY <1>1, <1>3 DEF LedgerInd, NoResidue, LedgerGood, RecordsBacked, IsLease

\* th is granted to g by the record l.
Kept(g, th, l) ==
  /\ l # NoRecord /\ l.inst = born[g].inst /\ l.token = g
  /\ th[2] \in DOMAIN l.holders /\ l.holders[th[2]].token = g

LEMMA HeldIsKept ==
  ASSUME LedgerInd, NEW g \in Gen, NEW th \in held[g]
  PROVE  /\ th[1] \in Threads /\ th[2] \in HolderId /\ th = <<th[1], th[2]>>
         /\ Kept(g, th, ledger[th[1]]) /\ phase[g] \in {"up", "stopping"}
         /\ born[g] # NoEntry /\ occupant[born[g].pid] = g
<1>1. th \in Threads \X HolderId
  BY DEF LedgerInd, LedgerTypeOK
<1>2. phase[g] \in {"up", "stopping"}
  BY DEF LedgerInd, Lives
<1>3. born[g] # NoEntry /\ occupant[born[g].pid] = g
  BY <1>2 DEF LedgerInd, Lives, Living, HoldsLock
<1> QED BY <1>1, <1>2, <1>3 DEF LedgerInd, HolderKeepsThread, Kept

\* Pruning never takes a holder of a live generation.
LEMMA HeldSurvivesPrune ==
  ASSUME LedgerAssumption, LedgerNulls, LedgerInd, NEW g \in Gen, NEW th \in held[g], NEW R
  PROVE  Kept(g, th, PruneStaleLeases(R)[th[1]])
<1> DEFINE t == th[1]
           l == ledger[t]
           r == l.holders[th[2]]
<1>1. t \in Threads /\ Kept(g, th, l) /\ occupant[born[g].pid] = g
  BY HeldIsKept
<1>2. Backed(l)
  BY <1>1 DEF LedgerInd, RecordsBacked, Kept
<1>3. r.pid = born[g].pid /\ r.ident \in {0, g}
  BY <1>1, <1>2 DEF Backed, Kept
<1>4. ~Stale(r.pid, r.ident, R)
  BY <1>1, <1>3 DEF Stale, Gen
<1>5. th[2] \in LiveHolders(l, R)
  BY <1>1, <1>4 DEF LiveHolders, Kept
<1>6. LedgerTypeOK
  BY DEF LedgerInd
<1> HIDE DEF t, l, r
<1> QED BY <1>1, <1>5, <1>6, PruneSlot DEF Kept, t, l

-----------------------------------------------------------------------------
(* Steps that leave the ledger alone, and what a step that shrinks it needs.*)

\* Purging an instance takes nothing of a generation of another instance.
LEMMA PurgeShrinks ==
  ASSUME LedgerNulls, LedgerTypeOK, NEW R, NEW i, NEW t \in Threads
  PROVE  /\ Reduces(ledger[t], PurgeAllForInstance(i, R)[t])
         /\ PurgeAllForInstance(i, R)[t] # NoRecord => PurgeAllForInstance(i, R)[t].inst # i
         /\ PruneStaleLeases(R)[t] # NoRecord /\ PruneStaleLeases(R)[t].inst # i
            => PurgeAllForInstance(i, R)[t] = PruneStaleLeases(R)[t]
<1>1. Reduces(ledger[t], PruneStaleLeases(R)[t])
  BY PruneReduces
<1> HIDE DEF PruneStaleLeases
<1> QED BY <1>1 DEF PurgeAllForInstance, Reduces

\* Taking the holders outside S from one pruned record.
LEMMA RetainShrinks ==
  ASSUME LedgerNulls, LedgerInd, NEW R, NEW t \in Threads, PruneStaleLeases(R)[t] # NoRecord,
         NEW S \in SUBSET DOMAIN PruneStaleLeases(R)[t].holders
  PROVE  LET m == PruneStaleLeases(R)[t]
         IN /\ Reduces(ledger[t], Retain(m, S))
            /\ S # {} => /\ Retain(m, S) # NoRecord /\ DOMAIN Retain(m, S).holders = S
                         /\ Retain(m, S).inst = m.inst /\ Retain(m, S).token = m.token
                         /\ \A h \in S : Retain(m, S).holders[h] = m.holders[h]
<1> DEFINE m == PruneStaleLeases(R)[t]
<1>1. LedgerTypeOK /\ RecordsBacked
  BY DEF LedgerInd
<1>2. Reduces(ledger[t], m)
  BY <1>1, PruneReduces
<1>3. IsLease(m) /\ ledger[t] # NoRecord
  BY <1>2 DEF Reduces
<1>4. Backed(m)
  BY <1>1, <1>2, <1>3, ReducesBacked DEF RecordsBacked
<1> HIDE DEF m
<1>5. Reduces(m, Retain(m, S))
  BY <1>3, <1>4, RetainReduces DEF m
<1>6. Reduces(ledger[t], Retain(m, S))
  BY <1>2, <1>5, ReducesTransitive
<1> QED BY <1>3, <1>4, <1>6, RetainReduces DEF m

\* A release by holder id shrinks the ledger and keeps the other holders.
LEMMA ReleasedShrinks ==
  ASSUME LedgerNulls, LedgerInd, NEW R, NEW t \in Threads, PruneStaleLeases(R)[t] # NoRecord, NEW h
  PROVE  /\ \A u \in Threads : Reduces(ledger[u], Released(t, h, PruneStaleLeases(R))[u])
         /\ \A g \in Gen : \A th \in held[g] :
              Kept(g, th, PruneStaleLeases(R)[th[1]]) /\ th # <<t, h>>
              => Kept(g, th, Released(t, h, PruneStaleLeases(R))[th[1]])
<1> DEFINE P == PruneStaleLeases(R)
           m == P[t]
           S == DOMAIN m.holders \ {h}
<1>1. /\ P = [u \in Threads |-> P[u]]
      /\ \A u \in Threads : Released(t, h, P)[u] = IF u = t THEN Retain(m, S) ELSE P[u]
  BY DEF PruneStaleLeases, Released
<1>2. LedgerTypeOK
  BY DEF LedgerInd
<1>3. \A u \in Threads : Reduces(ledger[u], P[u])
  BY <1>2, PruneReduces
<1>4. Reduces(ledger[t], Retain(m, S))
  BY RetainShrinks
<1>5. \A u \in Threads : Reduces(ledger[u], Released(t, h, P)[u])
  <2> HIDE DEF P, S
  <2> QED BY <1>1, <1>3, <1>4
<1>6. ASSUME NEW g \in Gen, NEW th \in held[g], Kept(g, th, P[th[1]]), th # <<t, h>>
      PROVE  Kept(g, th, Released(t, h, P)[th[1]])
  <2>1. th[1] \in Threads /\ th = <<th[1], th[2]>>
    BY HeldIsKept
  <2>2. CASE th[1] # t
    <3> HIDE DEF P, S
    <3> QED BY <1>1, <1>6, <2>1, <2>2
  <2>3. CASE th[1] = t
    <3>1. th[2] \in S
      BY <1>6, <2>1, <2>3 DEF Kept
    <3>a. S \in SUBSET DOMAIN m.holders /\ S # {}
      BY <3>1
    <3> HIDE DEF S
    <3>2. /\ Retain(m, S) # NoRecord /\ DOMAIN Retain(m, S).holders = S
          /\ Retain(m, S).inst = m.inst /\ Retain(m, S).token = m.token
          /\ \A k \in S : Retain(m, S).holders[k] = m.holders[k]
      BY <3>a, RetainShrinks
    <3> HIDE DEF P
    <3> QED BY <1>1, <1>6, <2>3, <3>1, <3>2 DEF Kept
  <2> QED BY <2>2, <2>3
<1> QED BY <1>5, <1>6

-----------------------------------------------------------------------------
(* The parts of the invariant, put together again.                          *)

OtherTypes ==
  /\ born \in [Gen -> Born \cup {NoEntry}]
  /\ phase \in [Gen -> Phase]
  /\ occupant \in [Pids -> 0..Foreign]
  /\ registry \in [Instance -> Entry \cup {NoEntry}]
  /\ preflight \in [Gen -> SUBSET Threads]
  /\ loaded \in [Gen -> SUBSET Threads]
  /\ captured \in [Gen -> Capture \cup {NoHolder}]
  /\ stamp \in 0..MaxStamp
  /\ held \in [Gen -> SUBSET (Threads \X HolderId)]

LEMMA TypeParts == LedgerTypeOK <=> OtherTypes /\ (\A t \in Threads : ledger[t] # NoRecord => IsLease(ledger[t]))
BY DEF LedgerTypeOK, OtherTypes, IsLease

HeldKept == \A g \in Gen : \A th \in held[g] : Kept(g, th, ledger[th[1]])

LEMMA KeptParts == HolderKeepsThread <=> HeldKept
BY DEF HolderKeepsThread, HeldKept, Kept

LEMMA Parts ==
  ASSUME OtherTypes', Lives', LedgerGood', HeldKept', NoResidue'
  PROVE  LedgerInd'
<1>1. LedgerTypeOK'
  BY TypeParts, PTL DEF LedgerGood
<1>2. HolderKeepsThread'
  BY KeptParts, PTL
<1> QED BY <1>1, <1>2 DEF LedgerInd, LedgerGood

\* An operation that only shrinks the ledger and gives up what it takes.
LEMMA ShrinkStep ==
  ASSUME LedgerInd, UNCHANGED procVars, OtherTypes',
         \A t \in Threads : Reduces(ledger[t], ledger'[t]),
         \A g \in Gen : held'[g] \subseteq held[g],
         \A g \in Gen : \A th \in held'[g] : Kept(g, th, ledger'[th[1]])
  PROVE  LedgerInd'
<1>1. LedgerGood' /\ NoResidue'
  BY Shrink DEF procVars, NoResidue
<1>2. Lives'
  BY DEF LedgerInd, Lives, procVars
<1>3. HeldKept'
  BY DEF HeldKept, Kept, procVars
<1> QED BY <1>1, <1>2, <1>3, Parts

\* An operation that leaves ledger, processes and grants alone.
LEMMA QuietStep ==
  ASSUME LedgerInd, UNCHANGED <<procVars, ledger, held>>, OtherTypes'
  PROVE  LedgerInd'
<1>1. LedgerGood'
  <2>1. LedgerGood
    BY TypeParts DEF LedgerInd, LedgerGood
  <2> QED BY <2>1 DEF LedgerGood, RecordsBacked, Backed, procVars, IsLease
<1>2. Lives' /\ NoResidue'
  BY DEF LedgerInd, Lives, NoResidue, procVars
<1>3. HeldKept'
  BY KeptParts DEF LedgerInd, HeldKept, Kept, procVars
<1> QED BY <1>1, <1>2, <1>3, Parts

LEMMA PrunedEntries ==
  ASSUME LedgerTypeOK, NEW R
  PROVE  PruneStaleEntries(R) \in [Instance -> Entry \cup {NoEntry}]
BY DEF LedgerTypeOK, PruneStaleEntries

LEMMA InitInd ==
  ASSUME LedgerAssumption, LedgerInit
  PROVE  LedgerInd
<1>1. LedgerTypeOK
  BY DEF LedgerInit, LedgerTypeOK, LedgerAssumption, Phase, Foreign
<1>2. Lives
  BY DEF LedgerInit, Lives, Living, HoldsLock
<1>3. RecordsBacked /\ HolderKeepsThread /\ NoResidue
  BY DEF LedgerInit, RecordsBacked, HolderKeepsThread, NoResidue
<1> QED BY <1>1, <1>2, <1>3 DEF LedgerInd

-----------------------------------------------------------------------------
(* One lemma per operation.                                                 *)

LEMMA ServiceStartInd ==
  ASSUME LedgerAssumption, LedgerNulls, LedgerInd,
         NEW g \in Gen, NEW i \in Instance, NEW p \in Pids, GenerationStarts(g, i, p)
  PROVE  LedgerInd'
<1> USE DEF LedgerInd
<1>1. /\ phase[g] = "unborn" /\ born[g] = NoEntry
      /\ born' = [born EXCEPT ![g] = [inst |-> i, pid |-> p]]
      /\ phase' = [phase EXCEPT ![g] = "locked"] /\ occupant' = [occupant EXCEPT ![p] = g]
      /\ occupant[p] = 0 /\ \A k \in Gen : phase[k] \in HoldsLock => born[k].inst # i
      /\ UNCHANGED <<storeVars, preflight, loaded, captured, held>>
  BY DEF GenerationStarts, Lives, Gen, LedgerAssumption, LedgerTypeOK
<1>2. [inst |-> i, pid |-> p] \in Born /\ [inst |-> i, pid |-> p] # NoEntry
  BY DEF Born, LedgerNulls
<1>3. OtherTypes'
  BY <1>1, <1>2 DEF OtherTypes, LedgerTypeOK, storeVars, Phase, Gen, Foreign, LedgerAssumption
<1>4. \A k \in Gen : k # g => born'[k] = born[k] /\ phase'[k] = phase[k]
  BY <1>1 DEF LedgerTypeOK
<1>5. /\ born'[g] = [inst |-> i, pid |-> p] /\ phase'[g] = "locked"
      /\ born'[g].inst = i /\ born'[g].pid = p
  BY <1>1 DEF LedgerTypeOK
<1>6. \A k \in Gen : phase[k] \in Living => born[k].pid # p
  BY <1>1 DEF Lives, Gen
<1>7. Lives'
  <2>1. \A k \in Gen : born'[k] = NoEntry <=> phase'[k] = "unborn"
    BY <1>2, <1>4, <1>5 DEF Lives
  <2>2. \A k \in Gen : phase[k] \in Living /\ k # g => born[k].pid \in Pids
    BY DEF LedgerTypeOK, Born, Lives, Living, HoldsLock
  <2>3. \A k \in Gen : phase'[k] \in Living => occupant'[born'[k].pid] = k
    BY <1>1, <1>4, <1>5, <1>6, <2>2 DEF Lives, LedgerTypeOK
  <2>4. \A k, j \in Gen : phase'[k] \in HoldsLock /\ phase'[j] \in HoldsLock /\ born'[k].inst = born'[j].inst => k = j
    BY <1>1, <1>4, <1>5 DEF Lives
  <2>5. \A k \in Gen : held'[k] # {} => phase'[k] \in {"up", "stopping"}
    BY <1>1, <1>4, <1>5 DEF Lives
  <2> QED BY <2>1, <2>3, <2>4, <2>5 DEF Lives
<1>8. \A t \in Threads : ledger[t] # NoRecord => ledger[t].token \in Gen /\ ledger[t].token # g
  BY <1>1, LedgerType, LeaseElim DEF RecordsBacked, Backed
<1>9. LedgerGood'
  <2>1. \A t \in Threads : ledger[t] # NoRecord => Backed(ledger[t])'
    BY <1>1, <1>4, <1>8 DEF RecordsBacked, Backed, storeVars
  <2> QED BY <1>1, <2>1, LedgerType DEF LedgerGood, RecordsBacked, storeVars, IsLease
<1>10. HeldKept'
  <2>1. \A k \in Gen : held[k] # {} => k # g
    BY <1>1 DEF Lives
  <2> QED BY <1>1, <1>4, <2>1, KeptParts DEF HeldKept, Kept, storeVars
<1>11. NoResidue'
  BY <1>1, <1>4, <1>5 DEF NoResidue, storeVars
<1> QED BY <1>3, <1>7, <1>9, <1>10, <1>11, Parts

\* A step of one generation's life that moves its phase between two phases with
\* the lock, or out of them, and leaves the ledger alone.
LEMMA PhaseStep ==
  ASSUME LedgerInd, NEW g \in Gen, NEW ph, phase' = [phase EXCEPT ![g] = ph],
         UNCHANGED <<born, occupant, ledger>>, OtherTypes', phase[g] \in HoldsLock,
         held' = held, phase[g] \in {"up", "stopping"} \/ held[g] = {},
         \/ ph = "stopping"
         \/ ph = "closed" /\ held[g] = {}
         \/ ph = "up" /\ phase[g] = "prepared"
  PROVE  LedgerInd'
<1> USE DEF LedgerInd
<1>1. /\ phase'[g] = ph /\ \A k \in Gen : k # g => phase'[k] = phase[k]
      /\ held' = held /\ ph \in {"up", "stopping", "closed"}
  BY DEF LedgerTypeOK
<1>2. Lives'
  <2>1. phase[g] # "unborn" /\ phase[g] \in Living
    BY DEF HoldsLock, Living
  <2>2. ph # "unborn" /\ (ph \in HoldsLock => phase[g] \in HoldsLock)
    BY <1>1 DEF HoldsLock
  <2> QED BY <1>1, <2>1, <2>2 DEF Lives
<1>3. LedgerGood'
  <2>1. LedgerGood
    BY TypeParts DEF LedgerGood
  <2> QED BY <2>1 DEF LedgerGood, RecordsBacked, Backed, IsLease
<1>4. HeldKept'
  BY <1>1, KeptParts DEF HeldKept, Kept
<1>5. NoResidue'
  BY <1>1 DEF NoResidue
<1> QED BY <1>2, <1>3, <1>4, <1>5, Parts

LEMMA RegisterInd ==
  ASSUME LedgerAssumption, LedgerNulls, LedgerInd, NEW g \in Gen, NEW R, RegisterInstanceRuntime(g, R)
  PROVE  LedgerInd'
<1> USE DEF LedgerInd
<1> DEFINE i == born[g].inst
           pruned == PruneStaleEntries(R)
<1>1. pruned \in [Instance -> Entry \cup {NoEntry}]
  BY PrunedEntries
<1>2. phase[g] = "prepared" /\ UNCHANGED <<born, occupant, ledger, stamp, preflight, loaded, captured, held>>
  BY DEF RegisterInstanceRuntime
<1>3. born[g] \in Born
  BY <1>2 DEF Lives, LedgerTypeOK
<1>4. CASE registry' = pruned /\ UNCHANGED phase
  <2>1. OtherTypes'
    BY <1>1, <1>2, <1>4 DEF OtherTypes, LedgerTypeOK
  <2> QED BY <1>2, <1>4, <2>1, QuietStep DEF procVars
<1>5. CASE /\ registry' = [pruned EXCEPT ![i] = [gen |-> g, pid |-> born[g].pid, ident |-> OwnIdentity(g, R)]]
           /\ phase' = [phase EXCEPT ![g] = "up"]
  <2>1. [gen |-> g, pid |-> born[g].pid, ident |-> OwnIdentity(g, R)] \in Entry
    BY <1>3 DEF Entry, Born, OwnIdentity
  <2>2. OtherTypes'
    <3> HIDE DEF pruned
    <3> QED BY <1>1, <1>2, <1>5, <2>1 DEF OtherTypes, LedgerTypeOK, Phase
  <2>3. phase[g] \in HoldsLock /\ held[g] = {}
    BY <1>2 DEF HoldsLock, Lives
  <2> QED BY <1>2, <1>5, <2>2, <2>3, PhaseStep
<1> QED BY <1>4, <1>5 DEF RegisterInstanceRuntime

LEMMA StopInd ==
  ASSUME LedgerInd, NEW g \in Gen, StopRuntime(g)
  PROVE  LedgerInd'
<1> USE DEF LedgerInd
<1>1. OtherTypes'
  BY DEF StopRuntime, OtherTypes, LedgerTypeOK, Phase, storeVars
<1>2. phase[g] \in HoldsLock /\ (phase[g] \in {"up", "stopping"} \/ held[g] = {})
  BY DEF StopRuntime, HoldsLock, Lives
<1> QED BY <1>1, <1>2, PhaseStep DEF StopRuntime, storeVars

LEMMA PrepareInd ==
  ASSUME LedgerAssumption, LedgerNulls, LedgerInd, NEW g \in Gen, NEW R, PrepareOwnedState(g, R)
  PROVE  LedgerInd'
<1> USE DEF LedgerInd
<1> DEFINE i == born[g].inst
           new == PurgeAllForInstance(i, R)
<1>1. /\ phase[g] = "locked" /\ ledger' = new /\ phase' = [phase EXCEPT ![g] = "prepared"]
      /\ UNCHANGED <<born, occupant, registry, stamp, preflight, loaded, captured, held>>
  BY DEF PrepareOwnedState
<1>2. phase'[g] = "prepared" /\ \A k \in Gen : k # g => phase'[k] = phase[k]
  BY <1>1 DEF LedgerTypeOK
<1>3. \A t \in Threads : /\ Reduces(ledger[t], ledger'[t])
                         /\ ledger'[t] # NoRecord => ledger'[t].inst # i
  BY <1>1, PurgeShrinks
<1>4. OtherTypes'
  BY <1>1 DEF OtherTypes, LedgerTypeOK, Phase
<1>5. held[g] = {} /\ phase[g] \in HoldsLock /\ phase[g] \in Living
  BY <1>1 DEF Lives, HoldsLock, Living
<1>6. Lives'
  BY <1>1, <1>2, <1>5 DEF Lives, Living, HoldsLock
<1>7. LedgerGood'
  BY <1>1, <1>3, Shrink
<1>8. HeldKept'
  <2> SUFFICES ASSUME NEW k \in Gen, NEW th \in held[k] PROVE Kept(k, th, new[th[1]])
    BY <1>1 DEF HeldKept, Kept
  <2>1. k # g /\ th[1] \in Threads /\ phase[k] \in HoldsLock
    BY <1>5, HeldIsKept DEF HoldsLock
  <2>2. Kept(k, th, PruneStaleLeases(R)[th[1]])
    BY HeldSurvivesPrune
  <2>3. born[k].inst # i
    BY <1>5, <2>1 DEF Lives
  <2>4. new[th[1]] = PruneStaleLeases(R)[th[1]]
    BY <2>1, <2>2, <2>3, PurgeShrinks DEF Kept
  <2> QED BY <2>2, <2>4
<1>9. NoResidue'
  <2> HIDE DEF new
  <2> QED BY <1>1, <1>2, <1>3, Shrink DEF NoResidue
<1> QED BY <1>4, <1>6, <1>7, <1>8, <1>9, Parts

\* The holders of g leave the records of its instance; another generation's
\* records are of another instance or of another token.
LEMMA WithoutShrinks ==
  ASSUME LedgerAssumption, LedgerNulls, LedgerInd, NEW g \in Gen, NEW R
  PROVE  /\ \A t \in Threads : Reduces(ledger[t], WithoutGeneration(g, R)[t])
         /\ \A k \in Gen : \A th \in held[k] : k # g => Kept(k, th, WithoutGeneration(g, R)[th[1]])
<1> USE DEF LedgerInd
<1> DEFINE P == PruneStaleLeases(R)
           W == WithoutGeneration(g, R)
           Left(t) == {h \in DOMAIN P[t].holders : P[t].holders[h].token # g}
<1>1. \A t \in Threads : W[t] = IF P[t] = NoRecord \/ P[t].inst # born[g].inst THEN P[t] ELSE Retain(P[t], Left(t))
  BY DEF WithoutGeneration
<1>2. \A t \in Threads : Reduces(ledger[t], P[t])
  BY PruneReduces
<1>3. \A t \in Threads : Left(t) \in SUBSET DOMAIN P[t].holders
  OBVIOUS
<1>4. \A t \in Threads : P[t] # NoRecord => Reduces(ledger[t], Retain(P[t], Left(t)))
  BY <1>3, RetainShrinks
<1>5. \A t \in Threads : Reduces(ledger[t], W[t])
  <2> HIDE DEF P, W, Left
  <2> QED BY <1>1, <1>2, <1>4
<1>6. ASSUME NEW k \in Gen, NEW th \in held[k], k # g PROVE Kept(k, th, W[th[1]])
  <2> DEFINE t == th[1]
             L == Left(t)
  <2>1. t \in Threads /\ Kept(k, th, P[t])
    BY HeldIsKept, HeldSurvivesPrune
  <2>2. L \in SUBSET DOMAIN P[t].holders /\ th[2] \in L
    BY <1>6, <2>1 DEF Kept
  <2>3. P[t] # NoRecord
    BY <2>1 DEF Kept
  <2> HIDE DEF L
  <2>4. /\ Retain(P[t], L) # NoRecord /\ DOMAIN Retain(P[t], L).holders = L
        /\ Retain(P[t], L).inst = P[t].inst /\ Retain(P[t], L).token = P[t].token
        /\ \A h \in L : Retain(P[t], L).holders[h] = P[t].holders[h]
    BY <2>1, <2>2, <2>3, RetainShrinks
  <2>5. Kept(k, th, Retain(P[t], L))
    <3> HIDE DEF P
    <3> QED BY <2>1, <2>2, <2>4 DEF Kept
  <2>6. W[t] = P[t] \/ W[t] = Retain(P[t], L)
    BY <1>1, <2>1 DEF L
  <2> QED BY <2>1, <2>5, <2>6
<1> QED BY <1>5, <1>6

LEMMA ReleaseAuthorityInd ==
  ASSUME LedgerAssumption, LedgerNulls, LedgerInd, NEW g \in Gen, NEW R,
         NEW ok \in SUBSET {"registry", "holders", "feishu"}, ReleaseServiceAuthority(g, ok, R)
  PROVE  LedgerInd'
<1> USE DEF LedgerInd
<1>1. /\ phase[g] = "stopping" /\ UNCHANGED <<born, occupant, stamp, preflight, loaded, captured>>
      /\ ledger' = IF "holders" \in ok THEN WithoutGeneration(g, R) ELSE ledger
      /\ held' = IF "holders" \in ok THEN [held EXCEPT ![g] = {}] ELSE held
      /\ phase' = IF ok = {"registry", "holders", "feishu"}
                  THEN [phase EXCEPT ![g] = "closed"] ELSE phase
  BY DEF ReleaseServiceAuthority
<1>2. registry' \in [Instance -> Entry \cup {NoEntry}]
  <2>1. PruneStaleEntries(R) \in [Instance -> Entry \cup {NoEntry}]
    BY PrunedEntries
  <2> QED BY <2>1 DEF ReleaseServiceAuthority, LedgerTypeOK
<1>3. OtherTypes'
  BY <1>1, <1>2 DEF OtherTypes, LedgerTypeOK, Phase
<1>4. /\ \A k \in Gen : k # g => phase'[k] = phase[k] /\ held'[k] = held[k]
      /\ phase'[g] \in {"stopping", "closed"} /\ held'[g] \subseteq held[g]
      /\ "holders" \in ok \/ phase'[g] = "closed" => held'[g] = {}
  BY <1>1 DEF LedgerTypeOK
<1>5. Lives'
  BY <1>1, <1>4 DEF Lives, Living, HoldsLock
<1>6. \A t \in Threads : Reduces(ledger[t], ledger'[t])
  <2>1. \A t \in Threads : Reduces(ledger[t], ledger[t])
    BY LedgerType DEF Reduces
  <2> QED BY <1>1, <2>1, WithoutShrinks
<1>7. LedgerGood' /\ NoResidue'
  BY <1>1, <1>4, <1>6, Shrink DEF NoResidue
<1>8. HeldKept'
  <2> SUFFICES ASSUME NEW k \in Gen, NEW th \in held'[k] PROVE Kept(k, th, ledger'[th[1]])
    BY <1>1 DEF HeldKept, Kept
  <2>1. th \in held[k] /\ ("holders" \in ok => k # g)
    BY <1>4
  <2>2. Kept(k, th, ledger[th[1]])
    BY <2>1, HeldIsKept
  <2> QED BY <1>1, <2>1, <2>2, WithoutShrinks
<1> QED BY <1>3, <1>5, <1>7, <1>8, Parts

\* A process ends.
LEMMA ExitInd ==
  ASSUME LedgerAssumption, LedgerInd, NEW g \in Gen, ProcessExit(g)
  PROVE  LedgerInd'
<1> USE DEF LedgerInd
<1>1. OtherTypes'
  <2>1. occupant' \in [Pids -> 0..Foreign]
    <3>1. 0 \in 0..Foreign
      BY DEF Foreign, LedgerAssumption
    <3> QED BY <3>1 DEF ProcessExit, LedgerTypeOK
  <2>2. phase' \in [Gen -> Phase]
    BY DEF ProcessExit, LedgerTypeOK, Phase
  <2>3. /\ loaded' \in [Gen -> SUBSET Threads] /\ preflight' \in [Gen -> SUBSET Threads]
        /\ captured' \in [Gen -> Capture \cup {NoHolder}]
        /\ held' \in [Gen -> SUBSET (Threads \X HolderId)]
    BY DEF ProcessExit, LedgerTypeOK
  <2> QED BY <2>1, <2>2, <2>3 DEF ProcessExit, OtherTypes, LedgerTypeOK, storeVars
<1>2. /\ phase[g] \in Living /\ phase'[g] = "dead" /\ held'[g] = {} /\ born' = born /\ ledger' = ledger
      /\ \A k \in Gen : k # g => phase'[k] = phase[k] /\ held'[k] = held[k]
      /\ occupant' = [occupant EXCEPT ![born[g].pid] = 0]
  BY DEF ProcessExit, LedgerTypeOK, storeVars
<1>3. occupant[born[g].pid] = g
  BY <1>2 DEF Lives
<1>4. \A k \in Gen : phase[k] \in Living /\ k # g => born[k].pid # born[g].pid /\ occupant'[born[k].pid] = occupant[born[k].pid]
  <2>1. \A k \in Gen : phase[k] \in Living => born[k].pid \in Pids
    BY DEF Lives, LedgerTypeOK, Born, Living, HoldsLock
  <2> QED BY <1>2, <1>3, <2>1 DEF Lives, LedgerTypeOK
<1>5. Lives'
  BY <1>2, <1>4 DEF Lives, Living, HoldsLock
<1>6. LedgerGood'
  BY <1>2, TypeParts DEF LedgerGood, RecordsBacked, Backed, IsLease
<1>7. HeldKept' /\ NoResidue'
  BY <1>2, KeptParts DEF HeldKept, Kept, NoResidue
<1> QED BY <1>1, <1>5, <1>6, <1>7, Parts

LEMMA ForeignInd ==
  ASSUME LedgerAssumption, LedgerInd, NEW p \in Pids, OtherProcessStarts(p) \/ OtherProcessExits(p)
  PROVE  LedgerInd'
<1> USE DEF LedgerInd
<1>1. OtherTypes'
  BY DEF OtherProcessStarts, OtherProcessExits, OtherTypes, LedgerTypeOK, storeVars, Foreign, LedgerAssumption
<1>2. /\ UNCHANGED <<born, phase, ledger, held>> /\ occupant[p] \in {0, Foreign}
      /\ \A q \in Pids : q # p => occupant'[q] = occupant[q]
  BY DEF OtherProcessStarts, OtherProcessExits, storeVars, LedgerTypeOK
<1>3. \A k \in Gen : phase[k] \in Living => born[k].pid \in Pids /\ born[k].pid # p
  BY <1>2 DEF Lives, LedgerTypeOK, Born, Living, HoldsLock, Foreign, Gen, LedgerAssumption
<1>4. Lives'
  BY <1>2, <1>3 DEF Lives
<1>5. LedgerGood'
  BY <1>2, TypeParts DEF LedgerGood, RecordsBacked, Backed, IsLease
<1>6. HeldKept' /\ NoResidue'
  BY <1>2, KeptParts DEF HeldKept, Kept, NoResidue
<1> QED BY <1>1, <1>4, <1>5, <1>6, Parts

LEMMA PreflightInd ==
  ASSUME LedgerInd, NEW g \in Gen, NEW t \in Threads, NEW R, Preflight(g, t, R)
  PROVE  LedgerInd'
<1>1. PruneStaleEntries(R) \in [Instance -> Entry \cup {NoEntry}]
  BY PrunedEntries DEF LedgerInd
<1>2. OtherTypes'
  BY <1>1 DEF LedgerInd, Preflight, OtherTypes, LedgerTypeOK, procVars
<1> QED BY <1>2, QuietStep DEF Preflight

LEMMA LoadInd ==
  ASSUME LedgerInd, NEW g \in Gen, NEW t \in Threads, LoadThread(g, t) \/ Unload(g, t)
  PROVE  LedgerInd'
<1>1. OtherTypes'
  BY DEF LedgerInd, LoadThread, Unload, OtherTypes, LedgerTypeOK, procVars, storeVars
<1> QED BY <1>1, QuietStep DEF LoadThread, Unload, storeVars

LEMMA LoadLeaseInd ==
  ASSUME LedgerAssumption, LedgerNulls, LedgerInd, NEW R, LoadLease(R)
  PROVE  LedgerInd'
<1>1. OtherTypes'
  BY DEF LedgerInd, LoadLease, OtherTypes, LedgerTypeOK, procVars
<1>2. \A t \in Threads : Reduces(ledger[t], ledger'[t])
  BY PruneReduces DEF LoadLease, LedgerInd
<1>3. \A g \in Gen : \A th \in held'[g] : Kept(g, th, ledger'[th[1]])
  BY HeldSurvivesPrune DEF LoadLease
<1> QED BY <1>1, <1>2, <1>3, ShrinkStep DEF LoadLease

LEMMA CaptureInd ==
  ASSUME LedgerAssumption, LedgerNulls, LedgerInd, NEW g \in Gen, NEW t \in Threads, NEW R, CaptureServiceHolder(g, t, R)
  PROVE  LedgerInd'
<1>1. ledger' = PruneStaleLeases(R) /\ UNCHANGED <<procVars, registry, stamp, preflight, loaded, held>>
  BY DEF CaptureServiceHolder
<1>2. \A u \in Threads : Reduces(ledger[u], ledger'[u])
  BY <1>1, PruneReduces DEF LedgerInd
<1>3. PruneStaleLeases(R)[t].holders[g] \in HolderRecord
  <2>1. PruneStaleLeases(R)[t] # NoRecord /\ g \in DOMAIN PruneStaleLeases(R)[t].holders
    BY DEF CaptureServiceHolder
  <2>2. IsLease(PruneStaleLeases(R)[t])
    BY <1>1, <1>2, <2>1 DEF Reduces
  <2> HIDE DEF PruneStaleLeases
  <2> QED BY <2>1, <2>2, LeaseElim
<1>4. captured' \in [Gen -> Capture \cup {NoHolder}]
  BY <1>3 DEF CaptureServiceHolder, LedgerInd, LedgerTypeOK, Capture
<1>5. OtherTypes'
  BY <1>1, <1>4 DEF LedgerInd, OtherTypes, LedgerTypeOK, procVars
<1>6. \A k \in Gen : \A th \in held'[k] : Kept(k, th, ledger'[th[1]])
  BY <1>1, HeldSurvivesPrune
<1> QED BY <1>1, <1>2, <1>5, <1>6, ShrinkStep

\* A release of holder h of t by g: nobody else is granted that holder.
LEMMA ReleaseStep ==
  ASSUME LedgerAssumption, LedgerNulls, LedgerInd, NEW g \in Gen, NEW t \in Threads, NEW h, NEW R,
         PruneStaleLeases(R)[t] # NoRecord, h \in DOMAIN PruneStaleLeases(R)[t].holders,
         PruneStaleLeases(R)[t].holders[h].token = g,
         ledger' = Released(t, h, PruneStaleLeases(R)), held' = [held EXCEPT ![g] = @ \ {<<t, h>>}],
         UNCHANGED procVars, OtherTypes'
  PROVE  LedgerInd'
<1>1. \A u \in Threads : Reduces(ledger[u], ledger'[u])
  BY ReleasedShrinks
<1>2. \A k \in Gen : held'[k] \subseteq held[k] /\ (k = g => <<t, h>> \notin held'[k])
  BY DEF LedgerInd, LedgerTypeOK
<1>3. ASSUME NEW k \in Gen, NEW th \in held'[k] PROVE Kept(k, th, ledger'[th[1]])
  <2>1. th \in held[k] /\ Kept(k, th, PruneStaleLeases(R)[th[1]])
    BY <1>2, HeldSurvivesPrune
  <2>2. th # <<t, h>>
    BY <1>2, <2>1 DEF Kept
  <2> QED BY <2>1, <2>2, ReleasedShrinks
<1> QED BY <1>1, <1>2, <1>3, ShrinkStep

LEMMA ReleaseInd ==
  ASSUME LedgerAssumption, LedgerNulls, LedgerInd, NEW g \in Gen, NEW t \in Threads, NEW h \in HolderId, NEW R, Release(g, t, h, R)
  PROVE  LedgerInd'
<1>1. OtherTypes'
  BY DEF LedgerInd, Release, OtherTypes, LedgerTypeOK, procVars
<1> QED BY <1>1, ReleaseStep DEF Release

\* The holder captured for the service is the service's own: Backed says so of
\* every record of g's token.
LEMMA ReleaseIfMatchesInd ==
  ASSUME LedgerAssumption, LedgerNulls, LedgerInd, NEW g \in Gen, NEW R, ReleaseHolderIfMatches(g, R)
  PROVE  LedgerInd'
<1> DEFINE P == PruneStaleLeases(R)
           t == captured[g].thread
           matches == /\ P[t] # NoRecord /\ g \in DOMAIN P[t].holders
                      /\ HolderMatches(P[t].holders[g], captured[g].holder)
<1>1. /\ ledger' = IF matches THEN Released(t, g, P) ELSE P
      /\ held' = IF matches THEN [held EXCEPT ![g] = @ \ {<<t, g>>}] ELSE held
      /\ captured[g] # NoHolder /\ captured' = [captured EXCEPT ![g] = NoHolder]
      /\ UNCHANGED <<procVars, registry, stamp, preflight, loaded>>
  BY DEF ReleaseHolderIfMatches
<1>2. t \in Threads
  BY <1>1 DEF LedgerInd, LedgerTypeOK, Capture
<1>3. OtherTypes'
  <2>1. held' \in [Gen -> SUBSET (Threads \X HolderId)]
    <3> HIDE DEF matches
    <3> QED BY <1>1 DEF LedgerInd, LedgerTypeOK
  <2> QED BY <1>1, <2>1 DEF LedgerInd, OtherTypes, LedgerTypeOK, procVars
<1>4. CASE ~matches
  <2>1. ledger' = P /\ held' = held
    BY <1>1, <1>4
  <2>2. \A u \in Threads : Reduces(ledger[u], ledger'[u])
    BY <2>1, PruneReduces DEF LedgerInd
  <2>3. \A k \in Gen : \A th \in held'[k] : Kept(k, th, ledger'[th[1]])
    BY <2>1, HeldSurvivesPrune
  <2> QED BY <1>1, <1>3, <2>1, <2>2, <2>3, ShrinkStep
<1>5. CASE matches
  <2>1. Reduces(ledger[t], P[t])
    BY <1>2, PruneReduces DEF LedgerInd
  <2>2. Backed(P[t])
    BY <1>2, <1>5, <2>1, ReducesBacked DEF LedgerInd, RecordsBacked, Reduces
  <2>3. P[t].holders[g].token = g
    <3> HIDE DEF P
    <3> QED BY <1>5, <2>2 DEF Backed
  <2> QED BY <1>1, <1>2, <1>3, <1>5, <2>3, ReleaseStep
<1> QED BY <1>4, <1>5

LEMMA ResetInd ==
  ASSUME LedgerAssumption, LedgerNulls, LedgerInd, NEW g \in Gen, NEW R, ResetBackend(g, R)
  PROVE  LedgerInd'
<1> DEFINE i == born[g].inst
           new == PurgeAllForInstance(i, R)
<1>1. /\ phase[g] = "up" /\ ledger' = new /\ held' = [held EXCEPT ![g] = {}]
      /\ UNCHANGED <<procVars, registry, stamp, preflight, captured>>
  BY DEF ResetBackend
<1>2. OtherTypes'
  BY DEF ResetBackend, LedgerInd, OtherTypes, LedgerTypeOK, procVars
<1>3. \A t \in Threads : Reduces(ledger[t], ledger'[t])
  BY <1>1, PurgeShrinks DEF LedgerInd
<1>4. \A k \in Gen : held'[k] \subseteq held[k] /\ (k = g => held'[k] = {})
  BY <1>1 DEF LedgerInd, LedgerTypeOK
<1>5. ASSUME NEW k \in Gen, NEW th \in held'[k] PROVE Kept(k, th, ledger'[th[1]])
  <2>1. k # g /\ th \in held[k]
    BY <1>4
  <2>2. th[1] \in Threads /\ Kept(k, th, PruneStaleLeases(R)[th[1]]) /\ phase[k] \in HoldsLock
    BY <2>1, HeldIsKept, HeldSurvivesPrune DEF HoldsLock
  <2>3. born[k].inst # i
    BY <1>1, <2>1, <2>2 DEF LedgerInd, Lives, HoldsLock
  <2>4. new[th[1]] = PruneStaleLeases(R)[th[1]]
    BY <2>2, <2>3, PurgeShrinks DEF Kept, LedgerInd
  <2> QED BY <1>1, <2>2, <2>4
<1> QED BY <1>1, <1>2, <1>3, <1>4, <1>5, ShrinkStep

\* acquire(): the record is g's already or there is none.
LEMMA AcquireInd ==
  ASSUME LedgerAssumption, LedgerNulls, LedgerInd, NEW g \in Gen, NEW t \in Threads, NEW h \in HolderId, NEW R, Acquire(g, t, h, R)
  PROVE  LedgerInd'
<1> DEFINE P == PruneStaleLeases(R)
           mine == [token |-> g, pid |-> born[g].pid, ident |-> OwnIdentity(g, R), stamp |-> stamp + 1]
           D == IF P[t] = NoRecord THEN {h} ELSE DOMAIN P[t].holders \cup {h}
           f == [k \in D |-> IF k = h THEN mine ELSE P[t].holders[k]]
           new == [inst |-> born[g].inst, token |-> g, holders |-> f]
<1>0. LedgerTypeOK /\ Lives /\ RecordsBacked /\ NoResidue
  BY DEF LedgerInd
<1>1. /\ phase[g] = "up" /\ h \in {g} \cup Participant /\ UNCHANGED <<procVars, registry, loaded, captured>>
      /\ preflight' = [preflight EXCEPT ![g] = @ \ {t}]
  BY DEF Acquire
<1>2. \A u \in Threads : Reduces(ledger[u], P[u])
  BY <1>0, PruneReduces
<1>3. \A k \in Gen : \A th \in held[k] : Kept(k, th, P[th[1]])
  BY HeldSurvivesPrune
<1>4. CASE ~Admits(g, P[t])
  <2>1. ledger' = P /\ UNCHANGED <<stamp, held>>
    BY <1>4 DEF Acquire
  <2>2. OtherTypes'
    BY <1>0, <1>1, <2>1 DEF OtherTypes, LedgerTypeOK, procVars
  <2> QED BY <1>1, <1>2, <1>3, <2>1, <2>2, ShrinkStep
<1>5. CASE Admits(g, P[t])
  <2>1. /\ stamp < MaxStamp /\ stamp' = stamp + 1 /\ held' = [held EXCEPT ![g] = @ \cup {<<t, h>>}]
        /\ ledger' = [P EXCEPT ![t] = [inst |-> born[g].inst, token |-> g,
             holders |-> IF P[t] = NoRecord THEN [k \in {h} |-> mine]
                         ELSE [k \in DOMAIN P[t].holders \cup {h} |->
                                 IF k = h THEN mine ELSE P[t].holders[k]]]]
    BY <1>5 DEF Acquire
  <2>2. f = IF P[t] = NoRecord THEN [k \in {h} |-> mine]
            ELSE [k \in DOMAIN P[t].holders \cup {h} |-> IF k = h THEN mine ELSE P[t].holders[k]]
    OBVIOUS
  <2>3. /\ P = [u \in Threads |-> P[u]] /\ ledger'[t] = new
        /\ \A u \in Threads : u # t => ledger'[u] = P[u]
    BY <2>1, <2>2 DEF PruneStaleLeases
  <2>4. born[g] \in Born
    BY <1>0, <1>1 DEF Lives, LedgerTypeOK
  <2>5. mine \in HolderRecord /\ stamp' \in 0..MaxStamp
    BY <1>0, <2>1, <2>4 DEF HolderRecord, Born, OwnIdentity, LedgerTypeOK, LedgerAssumption
  <2>6. P[t] # NoRecord => /\ IsLease(P[t]) /\ Backed(P[t]) /\ P[t].token = g /\ P[t].inst = born[g].inst
    BY <1>0, <1>2, <1>5, ReducesBacked DEF Reduces, RecordsBacked, Admits
  <2>7. D \in SUBSET HolderId /\ D # {} /\ f \in [D -> HolderRecord]
    <3> HIDE DEF P, mine
    <3> QED BY <2>5, <2>6, LeaseElim
  <2>8. IsLease(new) /\ new # NoRecord
    <3> HIDE DEF D, f
    <3> QED BY <2>4, <2>7, LeaseIntro DEF Born
  <2>9. Backed(new)
    <3>1. mine.token = g /\ mine.pid = born[g].pid /\ mine.ident \in {0, g}
      BY DEF OwnIdentity
    <3>2. h \in Gen => h = g
      BY <1>1 DEF LedgerAssumption
    <3>3. born[g] # NoEntry
      BY <1>0, <1>1 DEF Lives
    <3> HIDE DEF P, mine
    <3> QED BY <2>6, <3>1, <3>2, <3>3 DEF Backed
  <2>10. held' \in [Gen -> SUBSET (Threads \X HolderId)]
    BY <1>0, <2>1 DEF LedgerTypeOK
  <2>11. OtherTypes'
    BY <1>0, <1>1, <2>1, <2>5, <2>10 DEF OtherTypes, LedgerTypeOK, procVars
  <2>12. Lives'
    BY <1>0, <1>1, <2>1 DEF Lives, procVars, LedgerTypeOK
  <2>13. LedgerGood'
    <3>1. \A u \in Threads : u # t /\ ledger'[u] # NoRecord => IsLease(ledger'[u]) /\ Backed(ledger'[u])
      <4> HIDE DEF P, new
      <4> QED BY <1>0, <1>2, <2>3, ReducesBacked DEF Reduces, RecordsBacked
    <3>2. \A u \in Threads : ledger'[u] # NoRecord => IsLease(ledger'[u]) /\ Backed(ledger'[u])
      <4> HIDE DEF P, new
      <4> QED BY <2>3, <2>8, <2>9, <3>1
    <3> QED BY <1>1, <3>2 DEF LedgerGood, RecordsBacked, Backed, procVars, IsLease
  <2>14. HeldKept'
    <3> SUFFICES ASSUME NEW k \in Gen, NEW th \in held'[k] PROVE Kept(k, th, ledger'[th[1]])
      BY <1>1 DEF HeldKept, Kept, procVars
    <3>1. CASE th \in held[k]
      <4>1. th[1] \in Threads /\ Kept(k, th, P[th[1]])
        BY <1>3, <3>1, HeldIsKept
      <4>2. CASE th[1] # t
        <5> HIDE DEF P, new
        <5> QED BY <2>3, <4>1, <4>2
      <4>3. CASE th[1] = t
        <5>1. k = g /\ P[t] # NoRecord /\ th[2] \in DOMAIN P[t].holders /\ P[t].holders[th[2]].token = g
          BY <2>6, <4>1, <4>3 DEF Kept
        <5>2. th[2] \in D /\ f[th[2]].token = g
          <6> HIDE DEF P
          <6> QED BY <5>1
        <5> HIDE DEF P, f, D
        <5> QED BY <2>3, <2>7, <2>8, <4>3, <5>1, <5>2 DEF Kept
      <4> QED BY <4>2, <4>3
    <3>2. CASE th \notin held[k]
      <4>1. k = g /\ th = <<t, h>>
        BY <1>0, <2>1, <3>2 DEF LedgerTypeOK
      <4>2. h \in D /\ f[h].token = g
        <5> HIDE DEF P
        <5> QED OBVIOUS
      <4> HIDE DEF P, f, D
      <4> QED BY <2>3, <2>7, <2>8, <4>1, <4>2 DEF Kept
    <3> QED BY <3>1, <3>2
  <2>15. NoResidue'
    <3> SUFFICES ASSUME NEW k \in Gen, NEW u \in Threads, phase[k] \in {"prepared", "up"},
                        ledger'[u] # NoRecord, ledger'[u].inst = born[k].inst
                 PROVE  ledger'[u].token = k
      BY <1>1 DEF NoResidue, procVars
    <3>1. CASE u = t
      <4>1. born[g].inst = born[k].inst /\ ledger'[u].token = g
        <5> HIDE DEF f
        <5> QED BY <2>3, <3>1
      <4> QED BY <1>0, <1>1, <4>1 DEF Lives, HoldsLock
    <3>2. CASE u # t
      <4> HIDE DEF P
      <4> QED BY <1>0, <1>2, <2>3, <3>2 DEF Reduces, NoResidue
    <3> QED BY <3>1, <3>2
  <2> QED BY <2>11, <2>12, <2>13, <2>14, <2>15, Parts
<1> QED BY <1>4, <1>5

-----------------------------------------------------------------------------
(* The theorems.                                                            *)

LEMMA NextInd ==
  ASSUME LedgerAssumption, LedgerNulls, LedgerInd, [LedgerNext]_ledgerVars
  PROVE  LedgerInd'
<1>1. CASE UNCHANGED ledgerVars
  <2>1. OtherTypes'
    BY <1>1 DEF LedgerInd, OtherTypes, LedgerTypeOK, ledgerVars, procVars, storeVars
  <2> QED BY <1>1, <2>1, QuietStep DEF ledgerVars, storeVars
<1>2. ASSUME NEW p \in Pids, OtherProcessStarts(p) \/ OtherProcessExits(p) PROVE LedgerInd'
  BY <1>2, ForeignInd
<1>3. ASSUME NEW R \in SUBSET Pids, LoadLease(R) PROVE LedgerInd'
  BY <1>3, LoadLeaseInd
<1>4. ASSUME NEW g \in Gen, NEW i \in Instance, NEW p \in Pids, GenerationStarts(g, i, p) PROVE LedgerInd'
  BY <1>4, ServiceStartInd
<1>5. ASSUME NEW g \in Gen, StopRuntime(g) \/ ProcessExit(g) PROVE LedgerInd'
  BY <1>5, StopInd, ExitInd
<1>6. ASSUME NEW g \in Gen, NEW t \in Threads, LoadThread(g, t) \/ Unload(g, t) PROVE LedgerInd'
  BY <1>6, LoadInd
<1>7. ASSUME NEW g \in Gen, NEW R \in SUBSET Pids,
             \/ PrepareOwnedState(g, R) \/ RegisterInstanceRuntime(g, R)
             \/ ReleaseHolderIfMatches(g, R) \/ ResetBackend(g, R)
      PROVE  LedgerInd'
  BY <1>7, PrepareInd, RegisterInd, ReleaseIfMatchesInd, ResetInd
<1>8. ASSUME NEW g \in Gen, NEW R \in SUBSET Pids, NEW ok \in SUBSET {"registry", "holders", "feishu"},
             ReleaseServiceAuthority(g, ok, R)
      PROVE  LedgerInd'
  BY <1>8, ReleaseAuthorityInd
<1>9. ASSUME NEW g \in Gen, NEW R \in SUBSET Pids, NEW t \in Threads,
             Preflight(g, t, R) \/ CaptureServiceHolder(g, t, R)
      PROVE  LedgerInd'
  BY <1>9, PreflightInd, CaptureInd
<1>10. ASSUME NEW g \in Gen, NEW R \in SUBSET Pids, NEW t \in Threads, NEW h \in HolderId,
              Acquire(g, t, h, R) \/ Release(g, t, h, R)
       PROVE  LedgerInd'
  BY <1>10, AcquireInd, ReleaseInd
<1> QED BY <1>1, <1>2, <1>3, <1>4, <1>5, <1>6, <1>7, <1>8, <1>9, <1>10 DEF LedgerNext

\* The ledger, the registry and the OS lock together: whatever pids die, are
\* reused or cannot be read, a generation keeps the records it was granted, and
\* one that is up meets none of an earlier generation.
THEOREM LedgerSafety ==
  ASSUME LedgerAssumption, LedgerNulls
  PROVE  LedgerSpec => []LedgerInvariant
<1>1. LedgerInit => LedgerInd
  BY InitInd
<1>2. LedgerInd /\ [LedgerNext]_ledgerVars => LedgerInd'
  BY NextInd
<1>3. LedgerInd => LedgerInvariant
  <2> SUFFICES ASSUME LedgerInd PROVE LedgerInvariant
    OBVIOUS
  <2>1. NoResidueOfOldGenerations
    BY DEF LedgerInd, NoResidue, RecordsBacked, Backed, NoResidueOfOldGenerations
  <2> QED BY <2>1 DEF LedgerInd, LedgerInvariant
<1> QED BY <1>1, <1>2, <1>3, PTL DEF LedgerSpec

\* Only the compare-and-release itself spends a capture of a generation that
\* goes on.
LEMMA OnlyReleaseForgets ==
  ASSUME LedgerTypeOK, LedgerNext, NEW g \in Gen, captured[g] # NoHolder, captured'[g] = NoHolder, phase'[g] = "up"
  PROVE  \E R : ReleaseHolderIfMatches(g, R)
<1>1. ASSUME NEW p \in Pids, OtherProcessStarts(p) \/ OtherProcessExits(p) PROVE FALSE
  BY <1>1 DEF OtherProcessStarts, OtherProcessExits
<1>2. ASSUME NEW R \in SUBSET Pids, LoadLease(R) PROVE FALSE
  BY <1>2 DEF LoadLease
<1>3. ASSUME NEW k \in Gen, NEW i \in Instance, NEW p \in Pids, GenerationStarts(k, i, p) PROVE FALSE
  BY <1>3 DEF GenerationStarts
<1>4. ASSUME NEW k \in Gen, StopRuntime(k) \/ ProcessExit(k) PROVE FALSE
  BY <1>4 DEF StopRuntime, ProcessExit, LedgerTypeOK
<1>5. ASSUME NEW k \in Gen, NEW t \in Threads, LoadThread(k, t) \/ Unload(k, t) PROVE FALSE
  BY <1>5 DEF LoadThread, Unload
<1>6. ASSUME NEW k \in Gen, NEW R \in SUBSET Pids,
             PrepareOwnedState(k, R) \/ RegisterInstanceRuntime(k, R) \/ ResetBackend(k, R)
      PROVE  FALSE
  BY <1>6 DEF PrepareOwnedState, RegisterInstanceRuntime, ResetBackend
<1>7. ASSUME NEW k \in Gen, NEW R \in SUBSET Pids, ReleaseHolderIfMatches(k, R)
      PROVE  k = g
  BY <1>7 DEF ReleaseHolderIfMatches, LedgerTypeOK
<1>8. ASSUME NEW k \in Gen, NEW R \in SUBSET Pids, NEW ok \in SUBSET {"registry", "holders", "feishu"},
             ReleaseServiceAuthority(k, ok, R)
      PROVE  FALSE
  BY <1>8 DEF ReleaseServiceAuthority
<1>9. ASSUME NEW k \in Gen, NEW R \in SUBSET Pids, NEW t \in Threads, Preflight(k, t, R)
      PROVE  FALSE
  BY <1>9 DEF Preflight
<1>10. ASSUME NEW k \in Gen, NEW R \in SUBSET Pids, NEW t \in Threads, CaptureServiceHolder(k, t, R)
       PROVE  FALSE
  BY <1>10 DEF CaptureServiceHolder, LedgerTypeOK
<1>11. ASSUME NEW k \in Gen, NEW R \in SUBSET Pids, NEW t \in Threads, NEW h \in HolderId,
              Acquire(k, t, h, R) \/ Release(k, t, h, R)
       PROVE  FALSE
  BY <1>11 DEF Acquire, Release
<1> QED BY <1>1, <1>2, <1>3, <1>4, <1>5, <1>6, <1>7, <1>8, <1>9, <1>10, <1>11 DEF LedgerNext

\* The compare-and-release of a cleanup drops only the holder it captured: one
\* acquired again meanwhile has another stamp and stays.
THEOREM CasReleaseExact ==
  ASSUME LedgerAssumption, LedgerNulls
  PROVE  LedgerSpec => CasReleaseIsExact
<1>1. LedgerInit => LedgerInd
  BY InitInd
<1>2. LedgerInd /\ [LedgerNext]_ledgerVars => LedgerInd'
  BY NextInd
<1>3. LedgerInd /\ [LedgerNext]_ledgerVars => [CasReleaseStep]_ledgerVars
  <2> SUFFICES ASSUME LedgerInd, LedgerNext,
                      NEW g \in Gen, NEW t \in Threads,
                      captured[g] # NoHolder, captured'[g] = NoHolder, phase'[g] = "up",
                      ledger[t] # NoRecord, g \in DOMAIN ledger[t].holders,
                      <<t, g>> \in held[g], <<t, g>> \notin held'[g]
               PROVE  /\ captured[g].thread = t
                      /\ captured[g].holder.stamp = ledger[t].holders[g].stamp
    BY DEF CasReleaseStep
  <2>0. LedgerTypeOK
    BY DEF LedgerInd
  <2>1. PICK R : ReleaseHolderIfMatches(g, R)
    BY <2>0, OnlyReleaseForgets
  <2> DEFINE P == PruneStaleLeases(R)
             u == captured[g].thread
  <2>2. /\ P[u] # NoRecord /\ g \in DOMAIN P[u].holders /\ P[u].holders[g] = captured[g].holder
        /\ held' = [held EXCEPT ![g] = @ \ {<<u, g>>}]
    BY <2>1 DEF ReleaseHolderIfMatches, HolderMatches
  <2>3. u = t
    BY <2>0, <2>2 DEF LedgerTypeOK
  <2>4. P[t].holders[g] = ledger[t].holders[g]
    <3>1. Reduces(ledger[t], P[t])
      BY <2>0, PruneReduces
    <3> HIDE DEF P
    <3> QED BY <2>2, <2>3, <3>1 DEF Reduces
  <2> HIDE DEF P
  <2> QED BY <2>2, <2>3, <2>4
<1> QED BY <1>1, <1>2, <1>3, PTL DEF LedgerSpec, CasReleaseIsExact

-----------------------------------------------------------------------------
(* The refinement of RuntimeOwnership.                                      *)

Running == {g \in Gen : phase[g] \in Living}
OwnersOf == [t \in Threads |-> Owners(t)]

\* A thread has one owner.
LEMMA OneOwner ==
  ASSUME LedgerInd, NEW t \in Threads, NEW g \in Gen, NEW k \in Gen, NEW h, NEW j,
         <<t, h>> \in held[g], <<t, j>> \in held[k]
  PROVE  g = k
<1>1. Kept(g, <<t, h>>, ledger[t]) /\ Kept(k, <<t, j>>, ledger[t])
  BY HeldIsKept
<1> QED BY <1>1 DEF Kept

\* Only the living hold anything, so the owners are those who hold.
OwnersHold == \A t \in Threads : Owners(t) = {g \in Gen : \E h \in HolderId : <<t, h>> \in held[g]}

LEMMA OwnersAreHolders == LedgerInd => OwnersHold
BY DEF LedgerInd, Lives, Owners, OwnersHold, Living, HoldsLock

\* Giving up some grants of g.
LEMMA YieldStep ==
  ASSUME LedgerInd, LedgerInd', NEW g \in Gen, g \in Running, Running' = Running,
         \A k \in Gen : k # g => held'[k] = held[k], held'[g] \subseteq held[g]
  PROVE  \E S \in SUBSET Threads : Own!Yield(g, S)
<1> DEFINE S == {t \in Threads : g \in Owners(t) /\ \A h \in HolderId : <<t, h>> \notin held'[g]}
<1>0. OwnersHold /\ OwnersHold'
  BY OwnersAreHolders, PTL
<1>1. \A t \in S : OwnersOf[t] = {g}
  <2> SUFFICES ASSUME NEW t \in S, NEW k \in Owners(t) PROVE k = g
    BY DEF OwnersOf
  <2>1. PICK h : <<t, h>> \in held[g]
    BY <1>0 DEF OwnersHold
  <2>2. k \in Gen /\ \E j : <<t, j>> \in held[k]
    BY <1>0 DEF OwnersHold
  <2> QED BY <2>1, <2>2, OneOwner
<1>2. \A t \in Threads : Owners(t)' = {k \in Gen : \E h \in HolderId : <<t, h>> \in held'[k]}
  BY <1>0 DEF OwnersHold
<1>3. \A t \in Threads : Owners(t)' = IF t \in S THEN {} ELSE Owners(t)
  <2> SUFFICES ASSUME NEW t \in Threads PROVE Owners(t)' = IF t \in S THEN {} ELSE Owners(t)
    OBVIOUS
  <2>1. Owners(t)' = {k \in Gen : \E h \in HolderId : <<t, h>> \in held'[k]}
    BY <1>2
  <2>2. Owners(t) = {k \in Gen : \E h \in HolderId : <<t, h>> \in held[k]}
    BY <1>0 DEF OwnersHold
  <2>3. CASE t \in S
    BY <1>1, <2>1, <2>2, <2>3 DEF OwnersOf
  <2>4. CASE t \notin S
    BY <2>1, <2>2, <2>4
  <2> QED BY <2>3, <2>4
<1>4. OwnersOf' = [t \in Threads |-> IF t \in S THEN {} ELSE OwnersOf[t]]
  BY <1>3 DEF OwnersOf
<1>5. Own!Yield(g, S)
  <2> HIDE DEF S
  <2> QED BY <1>1, <1>4 DEF Own!Yield, Running, OwnersOf
<1> QED BY <1>5

\* Nobody begins or ends, nobody is granted or gives up anything.
LEMMA IdleStep ==
  ASSUME LedgerInd, Running' = Running, UNCHANGED held
  PROVE  UNCHANGED <<Running, OwnersOf>>
BY DEF OwnersOf, Owners, Running

LEMMA BeginStep ==
  ASSUME LedgerInd, LedgerInd', NEW g \in Gen, NEW i \in Instance, NEW p \in Pids, GenerationStarts(g, i, p)
  PROVE  Own!Begin(g)
<1>1. g \notin Running /\ Running' = Running \cup {g}
  BY DEF GenerationStarts, Running, LedgerInd, LedgerTypeOK, Lives, Living, HoldsLock, Gen
<1>2. OwnersHold /\ OwnersHold'
  BY OwnersAreHolders, PTL
<1>3. held' = held
  BY DEF GenerationStarts
<1>4. OwnersOf' = OwnersOf
  BY <1>2, <1>3 DEF OwnersHold, OwnersOf
<1> QED BY <1>1, <1>4 DEF Own!Begin, Running, OwnersOf

LEMMA EndStep ==
  ASSUME LedgerInd, LedgerInd', NEW g \in Gen, ProcessExit(g)
  PROVE  Own!End(g)
<1>1. g \in Running /\ Running' = Running \ {g}
  BY DEF ProcessExit, Running, LedgerInd, LedgerTypeOK, Living, HoldsLock
<1>2. OwnersHold /\ OwnersHold'
  BY OwnersAreHolders, PTL
<1>3. held'[g] = {} /\ \A k \in Gen : k # g => held'[k] = held[k]
  BY DEF ProcessExit, LedgerInd, LedgerTypeOK
<1>4. \A t \in Threads : Owners(t)' = Owners(t) \ {g}
  BY <1>2, <1>3 DEF OwnersHold
<1>5. OwnersOf' = [t \in Threads |-> OwnersOf[t] \ {g}]
  BY <1>4 DEF OwnersOf
<1> QED BY <1>1, <1>5 DEF Own!End, Running, OwnersOf

\* acquire(): nobody else owns what g is granted.
LEMMA ClaimStep ==
  ASSUME LedgerAssumption, LedgerNulls, LedgerInd, LedgerInd',
         NEW g \in Gen, NEW t \in Threads, NEW h \in HolderId, NEW R, Acquire(g, t, h, R)
  PROVE  Own!Claim(g, t) \/ UNCHANGED <<Running, OwnersOf>>
<1>1. g \in Running /\ Running' = Running
  BY DEF Acquire, Running, procVars, Living, HoldsLock
<1>2. CASE ~Admits(g, PruneStaleLeases(R)[t])
  BY <1>1, <1>2, IdleStep DEF Acquire
<1>3. CASE Admits(g, PruneStaleLeases(R)[t])
  <2>1. OwnersHold /\ OwnersHold'
    BY OwnersAreHolders, PTL
  <2>2. held'[g] = held[g] \cup {<<t, h>>} /\ \A k \in Gen : k # g => held'[k] = held[k]
    BY <1>3 DEF Acquire, LedgerInd, LedgerTypeOK
  <2>3. Owners(t) \subseteq {g}
    <3> SUFFICES ASSUME NEW k \in Owners(t) PROVE k = g
      OBVIOUS
    <3>1. k \in Gen /\ \E j \in HolderId : <<t, j>> \in held[k]
      BY <2>1 DEF OwnersHold
    <3>2. PICK j \in HolderId : <<t, j>> \in held[k]
      BY <3>1
    <3>3. Kept(k, <<t, j>>, PruneStaleLeases(R)[<<t, j>>[1]])
      BY <3>1, <3>2, HeldSurvivesPrune
    <3> QED BY <1>3, <3>3 DEF Kept, Admits
  <2>4. ASSUME NEW u \in Threads, u # t PROVE Owners(u)' = Owners(u)
    <3>1. Owners(u) = {k \in Gen : \E j \in HolderId : <<u, j>> \in held[k]}
      BY <2>1 DEF OwnersHold
    <3>2. Owners(u)' = {k \in Gen : \E j \in HolderId : <<u, j>> \in held'[k]}
      BY <2>1 DEF OwnersHold
    <3>3. ASSUME NEW k \in Gen, NEW j \in HolderId
          PROVE  <<u, j>> \in held'[k] <=> <<u, j>> \in held[k]
      BY <2>2, <2>4
    <3> QED BY <3>1, <3>2, <3>3
  <2>5. Owners(t)' = {g}
    BY <2>1, <2>2, <2>3 DEF OwnersHold
  <2>6. OwnersOf' = [OwnersOf EXCEPT ![t] = {g}]
    BY <2>4, <2>5 DEF OwnersOf
  <2>7. CASE Owners(t) = {}
    BY <1>1, <2>6, <2>7 DEF Own!Claim, Running, OwnersOf
  <2>8. CASE Owners(t) = {g}
    BY <1>1, <2>6, <2>8 DEF OwnersOf
  <2> QED BY <2>3, <2>7, <2>8
<1> QED BY <1>2, <1>3

LEMMA OwnershipStep ==
  ASSUME LedgerAssumption, LedgerNulls, LedgerInd, LedgerInd', LedgerNext
  PROVE  [Own!OwnNext]_<<Running, OwnersOf>>
<1> USE DEF Own!OwnNext
<1>0. LedgerTypeOK
  BY DEF LedgerInd
<1>1. ASSUME NEW p \in Pids, OtherProcessStarts(p) \/ OtherProcessExits(p) PROVE UNCHANGED <<Running, OwnersOf>>
  BY <1>1, IdleStep DEF OtherProcessStarts, OtherProcessExits, Running
<1>2. ASSUME NEW R \in SUBSET Pids, LoadLease(R) PROVE UNCHANGED <<Running, OwnersOf>>
  BY <1>2, IdleStep DEF LoadLease, Running, procVars
<1>3. ASSUME NEW g \in Gen, NEW i \in Instance, NEW p \in Pids, GenerationStarts(g, i, p) PROVE Own!OwnNext
  BY <1>3, BeginStep
<1>4. ASSUME NEW g \in Gen, StopRuntime(g) PROVE UNCHANGED <<Running, OwnersOf>>
  <2>1. Running' = Running /\ held' = held
    BY <1>0, <1>4 DEF StopRuntime, Running, LedgerTypeOK, Living, HoldsLock
  <2> QED BY <2>1, IdleStep
<1>5. ASSUME NEW g \in Gen, ProcessExit(g) PROVE Own!OwnNext
  BY <1>5, EndStep
<1>6. ASSUME NEW g \in Gen, NEW t \in Threads, LoadThread(g, t) \/ Unload(g, t)
      PROVE  UNCHANGED <<Running, OwnersOf>>
  BY <1>6, IdleStep DEF LoadThread, Unload, Running, procVars
<1>7. ASSUME NEW g \in Gen, NEW R \in SUBSET Pids, PrepareOwnedState(g, R) \/ RegisterInstanceRuntime(g, R)
      PROVE  UNCHANGED <<Running, OwnersOf>>
  <2>1. Running' = Running /\ held' = held
    BY <1>0, <1>7 DEF PrepareOwnedState, RegisterInstanceRuntime, Running, LedgerTypeOK, Living, HoldsLock
  <2> QED BY <2>1, IdleStep
<1>8. ASSUME NEW g \in Gen, NEW R \in SUBSET Pids, ReleaseHolderIfMatches(g, R) PROVE Own!OwnNext
  <2>1. g \in Running /\ Running' = Running
    BY <1>8 DEF ReleaseHolderIfMatches, Running, procVars, Living, HoldsLock
  <2>2. held'[g] \subseteq held[g] /\ \A k \in Gen : k # g => held'[k] = held[k]
    BY <1>0, <1>8 DEF ReleaseHolderIfMatches, LedgerTypeOK
  <2> QED BY <2>1, <2>2, YieldStep
<1>9. ASSUME NEW g \in Gen, NEW R \in SUBSET Pids, ResetBackend(g, R) PROVE Own!OwnNext
  <2>1. g \in Running /\ Running' = Running
    BY <1>9 DEF ResetBackend, Running, procVars, Living, HoldsLock
  <2>2. held'[g] \subseteq held[g] /\ \A k \in Gen : k # g => held'[k] = held[k]
    BY <1>0, <1>9 DEF ResetBackend, LedgerTypeOK
  <2> QED BY <2>1, <2>2, YieldStep
<1>10. ASSUME NEW g \in Gen, NEW R \in SUBSET Pids, NEW ok \in SUBSET {"registry", "holders", "feishu"},
              ReleaseServiceAuthority(g, ok, R)
       PROVE  Own!OwnNext
  <2>1. g \in Running /\ Running' = Running
    BY <1>0, <1>10 DEF ReleaseServiceAuthority, Running, LedgerTypeOK, Living, HoldsLock
  <2>2. held'[g] \subseteq held[g] /\ \A k \in Gen : k # g => held'[k] = held[k]
    BY <1>0, <1>10 DEF ReleaseServiceAuthority, LedgerTypeOK
  <2> QED BY <2>1, <2>2, YieldStep
<1>11. ASSUME NEW g \in Gen, NEW R \in SUBSET Pids, NEW t \in Threads,
              Preflight(g, t, R) \/ CaptureServiceHolder(g, t, R)
       PROVE  UNCHANGED <<Running, OwnersOf>>
  BY <1>11, IdleStep DEF Preflight, CaptureServiceHolder, Running, procVars
<1>12. ASSUME NEW g \in Gen, NEW R \in SUBSET Pids, NEW t \in Threads, NEW h \in HolderId, Acquire(g, t, h, R)
       PROVE  [Own!OwnNext]_<<Running, OwnersOf>>
  BY <1>12, ClaimStep
<1>13. ASSUME NEW g \in Gen, NEW R \in SUBSET Pids, NEW t \in Threads, NEW h \in HolderId, Release(g, t, h, R)
       PROVE  Own!OwnNext
  <2>1. g \in Running /\ Running' = Running
    BY <1>13 DEF Release, Running, procVars, Living, HoldsLock
  <2>2. held'[g] \subseteq held[g] /\ \A k \in Gen : k # g => held'[k] = held[k]
    BY <1>0, <1>13 DEF Release, LedgerTypeOK
  <2> QED BY <2>1, <2>2, YieldStep
<1> HIDE DEF Own!OwnNext
<1> QED BY <1>1, <1>2, <1>3, <1>4, <1>5, <1>6, <1>7, <1>8, <1>9, <1>10, <1>11, <1>12, <1>13 DEF LedgerNext

\* The files of the ledger, the registry and the OS locks implement exclusive
\* ownership: a generation only comes to own a thread that no live generation
\* owns, and only gives up its own.
THEOREM LedgerImplementsOwnership ==
  ASSUME LedgerAssumption, LedgerNulls
  PROVE  LedgerSpec => ImplementsRuntimeOwnership
<1>1. LedgerInit => LedgerInd
  BY InitInd
<1>2. LedgerInd /\ [LedgerNext]_ledgerVars => LedgerInd'
  BY NextInd
<1>3. LedgerInit => Own!OwnInit
  BY DEF LedgerInit, Own!OwnInit, Owners, Living, HoldsLock
<1>4. LedgerInd /\ LedgerInd' /\ [LedgerNext]_ledgerVars => [Own!OwnNext]_<<Running, OwnersOf>>
  <2>1. ASSUME LedgerInd, UNCHANGED ledgerVars PROVE UNCHANGED <<Running, OwnersOf>>
    BY <2>1, IdleStep DEF ledgerVars, procVars, Running
  <2> QED BY <2>1, OwnershipStep
<1>5. <<Running, OwnersOf>> = <<{g \in Gen : phase[g] \in Living}, [t \in Threads |-> Owners(t)]>>
  BY DEF Running, OwnersOf
<1>6. LedgerInd /\ LedgerInd' /\ [LedgerNext]_ledgerVars
      => [Own!OwnNext]_<<{g \in Gen : phase[g] \in Living}, [t \in Threads |-> Owners(t)]>>
  BY <1>4 DEF Running, OwnersOf
<1> QED BY <1>1, <1>2, <1>3, <1>6, PTL DEF LedgerSpec, ImplementsRuntimeOwnership, Own!OwnSpec
=============================================================================
