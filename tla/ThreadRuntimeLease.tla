------------------------- MODULE ThreadRuntimeLease -------------------------
(***************************************************************************)
(* Live-runtime ownership of threads between service instances of one      *)
(* machine: bot/stores/thread_runtime_lease_store.py (the ledger),         *)
(* bot/stores/instance_registry_store.py, the service instance lease, the  *)
(* loaded gate of bot/thread_runtime_coordination.py and their use by      *)
(* bot/focus_runtime/service_authority.py.                                 *)
(*                                                                         *)
(* A generation is one run of a service: a process with the OS lock of its *)
(* instance and a fresh token.  Every store operation holds the file lock  *)
(* from read to write and prunes first, so it is one action; R is the set  *)
(* of pids whose identity the platform can report during it.  A generation *)
(* checks that no other instance has the thread loaded (Preflight), then   *)
(* claims the ledger (Acquire), then loads the thread (Load): three steps. *)
(***************************************************************************)
EXTENDS Naturals

CONSTANTS
  Threads, Instance, Pids,
  Participant,     \* fcodex participants, the holders besides the service
  MaxGen,          \* bound: generations ever started
  MaxStamp,        \* bound: ledger writes that refresh updated_at
  NoRecord, NoEntry, NoHolder

Gen == 1..MaxGen
Foreign == MaxGen + 1      \* a process that is no service
HolderId == Gen \cup Participant
HolderRecord == [token : Gen, pid : Pids, ident : {0} \cup Gen, stamp : 0..MaxStamp]
LeaseOf(S) == [inst : Instance, token : Gen, holders : [S -> HolderRecord]]
Capture == [thread : Threads, holder : HolderRecord]
Entry == [gen : Gen, pid : Pids, ident : {0} \cup Gen]
Born == [inst : Instance, pid : Pids]

LedgerAssumption ==
  /\ MaxGen \in Nat /\ MaxStamp \in Nat
  /\ Participant \cap Gen = {}

LedgerNulls ==
  /\ \A S \in SUBSET HolderId : NoRecord \notin LeaseOf(S)
  /\ NoHolder \notin Capture
  /\ NoEntry \notin Entry \cup Born

VARIABLES
  born,       \* instance and process of each generation, NoEntry before
  phase,      \* how far its life got
  occupant,       \* who runs under each pid: 0, a generation or Foreign
  registry,   \* instance_registry.json
  ledger,     \* thread_runtime_leases.json
  preflight,  \* loaded-gate receipts a generation has not spent yet
  loaded,     \* threads its backend keeps in memory
  captured,   \* the service holder captured for a compare-and-release
  stamp,      \* the clock behind updated_at
  held        \* history: what a generation was granted and did not give up

storeVars == <<registry, ledger, stamp>>
procVars == <<born, phase, occupant>>
ledgerVars == <<procVars, storeVars, preflight, loaded, captured, held>>

Phase == {"unborn", "locked", "prepared", "up", "stopping", "closed", "dead"}
HoldsLock == {"locked", "prepared", "up", "stopping"}
Living == HoldsLock \cup {"closed"}

LedgerInit ==
  /\ born = [g \in Gen |-> NoEntry]
  /\ phase = [g \in Gen |-> "unborn"]
  /\ occupant = [p \in Pids |-> 0]
  /\ registry = [i \in Instance |-> NoEntry]
  /\ ledger = [t \in Threads |-> NoRecord]
  /\ preflight = [g \in Gen |-> {}]
  /\ loaded = [g \in Gen |-> {}]
  /\ captured = [g \in Gen |-> NoHolder]
  /\ stamp = 0
  /\ held = [g \in Gen |-> {}]

-----------------------------------------------------------------------------
(* Reads of the two files.                                                  *)

\* Mutant: an identity that was not readable when recorded counts as stale.
StaleUnlessProven(pid, ident, R) ==
  occupant[pid] = 0 \/ (pid \in R /\ ident # occupant[pid])

Stale(pid, ident, R) ==
  occupant[pid] = 0 \/ (ident # 0 /\ pid \in R /\ ident # occupant[pid])

\* A lease reduced to some of its holders; the first one names the owner.
\* Holders of one record share their token, so any of them may be first.
\* Mutant: a record is kept when its last holder leaves.
KeepsEmptyRecord(l, S) == [l EXCEPT !.holders = [h \in S |-> l.holders[h]]]

Retain(l, S) ==
  IF S = {} THEN NoRecord
  ELSE [inst |-> l.inst, token |-> l.holders[CHOOSE h \in S : TRUE].token,
        holders |-> [h \in S |-> l.holders[h]]]

LiveHolders(l, R) ==
  {h \in DOMAIN l.holders : ~Stale(l.holders[h].pid, l.holders[h].ident, R)}

PruneStaleLeases(R) ==
  [t \in Threads |->
     IF ledger[t] = NoRecord THEN NoRecord
     ELSE LET live == LiveHolders(ledger[t], R)
          IN IF live = {} THEN NoRecord
             ELSE [inst |-> ledger[t].inst, token |-> ledger[t].token,
                   holders |-> [h \in live |-> ledger[t].holders[h]]]]

PruneStaleEntries(R) ==
  [i \in Instance |->
     IF registry[i] # NoEntry /\ Stale(registry[i].pid, registry[i].ident, R)
     THEN NoEntry ELSE registry[i]]

\* process_identity of g's own process, 0 when it cannot be read.
OwnIdentity(g, R) == IF born[g].pid \in R THEN g ELSE 0

-----------------------------------------------------------------------------
(* The life of a generation.                                                *)

\* The process starts and takes the OS lock of its instance.
GenerationStarts(g, i, p) ==
  /\ \A k \in Gen : k < g <=> phase[k] # "unborn"
  /\ \A k \in Gen : phase[k] \in HoldsLock => born[k].inst # i
  /\ occupant[p] = 0
  /\ born' = [born EXCEPT ![g] = [inst |-> i, pid |-> p]]
  /\ phase' = [phase EXCEPT ![g] = "locked"]
  /\ occupant' = [occupant EXCEPT ![p] = g]
  /\ UNCHANGED <<storeVars, preflight, loaded, captured, held>>

\* Mutant: only the records whose process is gone are purged.
PurgesDeadOnly(i, R) == PruneStaleLeases(R)

\* purge_all_for_instance: whatever the token, holders of one record are all
\* of its instance.
PurgeAllForInstance(i, R) ==
  LET pruned == PruneStaleLeases(R)
  IN [t \in Threads |-> IF pruned[t] # NoRecord /\ pruned[t].inst = i
                        THEN NoRecord ELSE pruned[t]]

\* The previous generation's backend is proved stopped, its records purged.
PrepareOwnedState(g, R) ==
  /\ phase[g] = "locked"
  /\ ledger' = PurgeAllForInstance(born[g].inst, R)
  /\ phase' = [phase EXCEPT ![g] = "prepared"]
  /\ UNCHANGED <<born, occupant, registry, stamp, preflight, loaded, captured, held>>

\* Registration refuses while another token is on record.
RegisterInstanceRuntime(g, R) ==
  LET i == born[g].inst
      pruned == PruneStaleEntries(R)
  IN /\ phase[g] = "prepared"
     /\ IF pruned[i] # NoEntry /\ pruned[i].gen # g
        THEN registry' = pruned /\ UNCHANGED phase
        ELSE /\ registry' = [pruned EXCEPT ![i] =
                  [gen |-> g, pid |-> born[g].pid, ident |-> OwnIdentity(g, R)]]
             /\ phase' = [phase EXCEPT ![g] = "up"]
     /\ UNCHANGED <<born, occupant, ledger, stamp, preflight, loaded, captured, held>>

\* Backend, ingress and RuntimeLoop are stopped; the machine authority stays.
StopRuntime(g) ==
  /\ phase[g] \in {"locked", "prepared", "up"}
  /\ phase' = [phase EXCEPT ![g] = "stopping"]
  /\ loaded' = [loaded EXCEPT ![g] = {}]
  /\ preflight' = [preflight EXCEPT ![g] = {}]
  /\ captured' = [captured EXCEPT ![g] = NoHolder]
  /\ UNCHANGED <<born, occupant, storeVars, held>>

WithoutGeneration(g, R) ==
  LET pruned == PruneStaleLeases(R)
  IN [t \in Threads |->
        IF pruned[t] = NoRecord \/ pruned[t].inst # born[g].inst THEN pruned[t]
        ELSE Retain(pruned[t], {h \in DOMAIN pruned[t].holders :
                                  pruned[t].holders[h].token # g})]

\* release_service_authority_after_runtime_barrier; ok are the releases that
\* succeed.  The OS lock is only given up when all of them did; otherwise the
\* stop stage is retried.
ReleaseServiceAuthority(g, ok, R) ==
  LET i == born[g].inst
      pruned == PruneStaleEntries(R)
  IN /\ phase[g] = "stopping"
     /\ registry' = IF "registry" \notin ok THEN registry
                    ELSE IF pruned[i] # NoEntry /\ pruned[i].gen = g
                    THEN [pruned EXCEPT ![i] = NoEntry] ELSE pruned
     /\ ledger' = IF "holders" \in ok THEN WithoutGeneration(g, R) ELSE ledger
     /\ held' = IF "holders" \in ok THEN [held EXCEPT ![g] = {}] ELSE held
     /\ phase' = IF ok = {"registry", "holders", "feishu"}
                 THEN [phase EXCEPT ![g] = "closed"] ELSE phase
     /\ UNCHANGED <<born, occupant, stamp, preflight, loaded, captured>>

\* The process ends, cleanly or not; the kernel drops its lock.
ProcessExit(g) ==
  /\ phase[g] \in Living
  /\ phase' = [phase EXCEPT ![g] = "dead"]
  /\ occupant' = [occupant EXCEPT ![born[g].pid] = 0]
  /\ loaded' = [loaded EXCEPT ![g] = {}]
  /\ preflight' = [preflight EXCEPT ![g] = {}]
  /\ captured' = [captured EXCEPT ![g] = NoHolder]
  /\ held' = [held EXCEPT ![g] = {}]
  /\ UNCHANGED <<born, storeVars>>

OtherProcessStarts(p) ==
  /\ occupant[p] = 0 /\ occupant' = [occupant EXCEPT ![p] = Foreign]
  /\ UNCHANGED <<born, phase, storeVars, preflight, loaded, captured, held>>

OtherProcessExits(p) ==
  /\ occupant[p] = Foreign /\ occupant' = [occupant EXCEPT ![p] = 0]
  /\ UNCHANGED <<born, phase, storeVars, preflight, loaded, captured, held>>

-----------------------------------------------------------------------------
(* Admission of a thread.                                                   *)

\* The other registered instances answer, and none has the thread loaded.
GateAllows(g, t, reg) ==
  \A i \in Instance \ {born[g].inst} :
    reg[i] # NoEntry =>
      \E k \in Gen : /\ phase[k] = "up" /\ born[k].inst = i
                     /\ t \notin loaded[k]

Preflight(g, t, R) ==
  /\ phase[g] = "up" /\ t \notin preflight[g]
  /\ registry' = PruneStaleEntries(R)
  /\ GateAllows(g, t, registry')
  /\ preflight' = [preflight EXCEPT ![g] = @ \cup {t}]
  /\ UNCHANGED <<procVars, ledger, stamp, loaded, captured, held>>

\* Mutant: only the token is compared, and an ended owner has none.
AdmitsAnyone(g, l) == TRUE

Admits(g, l) ==
  l = NoRecord \/ (l.inst = born[g].inst /\ l.token = g)

\* acquire() by the service or by one of its fcodex participants.
Acquire(g, t, h, R) ==
  LET pruned == PruneStaleLeases(R)
      mine == [token |-> g, pid |-> born[g].pid, ident |-> OwnIdentity(g, R),
               stamp |-> stamp + 1]
  IN /\ phase[g] = "up" /\ t \in preflight[g]
     /\ h \in {g} \cup Participant
     /\ preflight' = [preflight EXCEPT ![g] = @ \ {t}]
     /\ IF Admits(g, pruned[t])
        THEN /\ stamp < MaxStamp /\ stamp' = stamp + 1
             /\ ledger' = [pruned EXCEPT ![t] =
                  [inst |-> born[g].inst, token |-> g,
                   holders |-> IF pruned[t] = NoRecord THEN [k \in {h} |-> mine]
                     ELSE [k \in DOMAIN pruned[t].holders \cup {h} |->
                             IF k = h THEN mine ELSE pruned[t].holders[k]]]]
             /\ held' = [held EXCEPT ![g] = @ \cup {<<t, h>>}]
        ELSE ledger' = pruned /\ UNCHANGED <<stamp, held>>
     /\ UNCHANGED <<procVars, registry, loaded, captured>>

\* load() and list() only prune.
LoadLease(R) ==
  /\ ledger' = PruneStaleLeases(R)
  /\ UNCHANGED <<procVars, registry, stamp, preflight, loaded, captured, held>>

Released(t, h, pruned) ==
  [pruned EXCEPT ![t] = Retain(pruned[t], DOMAIN pruned[t].holders \ {h})]

\* release() by holder id.
Release(g, t, h, R) ==
  LET pruned == PruneStaleLeases(R)
  IN /\ phase[g] = "up" /\ h \in {g} \cup Participant
     /\ pruned[t] # NoRecord /\ h \in DOMAIN pruned[t].holders
     /\ pruned[t].holders[h].token = g
     /\ ledger' = Released(t, h, pruned)
     /\ held' = [held EXCEPT ![g] = @ \ {<<t, h>>}]
     /\ UNCHANGED <<procVars, registry, stamp, preflight, loaded, captured>>

\* prepare_service_thread_runtime_lease_release
CaptureServiceHolder(g, t, R) ==
  LET pruned == PruneStaleLeases(R)
  IN /\ phase[g] = "up" /\ captured[g] = NoHolder
     /\ pruned[t] # NoRecord /\ g \in DOMAIN pruned[t].holders
     /\ ledger' = pruned
     /\ captured' = [captured EXCEPT ![g] =
                       [thread |-> t, holder |-> pruned[t].holders[g]]]
     /\ UNCHANGED <<procVars, registry, stamp, preflight, loaded, held>>

\* Mutant: the stable holder id is taken for the holder.
SameHolderId(holder, expected) == holder.token = expected.token

HolderMatches(holder, expected) == holder = expected

\* release_prepared_service_thread_runtime_lease: compare and release.
ReleaseHolderIfMatches(g, R) ==
  LET t == captured[g].thread
      pruned == PruneStaleLeases(R)
      matches == /\ pruned[t] # NoRecord /\ g \in DOMAIN pruned[t].holders
                 /\ HolderMatches(pruned[t].holders[g], captured[g].holder)
  IN /\ phase[g] = "up" /\ captured[g] # NoHolder
     /\ ledger' = IF matches THEN Released(t, g, pruned) ELSE pruned
     /\ held' = IF matches THEN [held EXCEPT ![g] = @ \ {<<t, g>>}] ELSE held
     /\ captured' = [captured EXCEPT ![g] = NoHolder]
     /\ UNCHANGED <<procVars, registry, stamp, preflight, loaded>>

\* thread/resume is acknowledged upstream.
LoadThread(g, t) ==
  /\ phase[g] = "up" /\ t \notin loaded[g]
  /\ \E h \in HolderId : <<t, h>> \in held[g]
  /\ loaded' = [loaded EXCEPT ![g] = @ \cup {t}]
  /\ UNCHANGED <<procVars, storeVars, preflight, captured, held>>

\* The backend unloads a thread some time after its last subscriber left.
Unload(g, t) ==
  /\ t \in loaded[g] /\ \A h \in HolderId : <<t, h>> \notin held[g]
  /\ loaded' = [loaded EXCEPT ![g] = @ \ {t}]
  /\ UNCHANGED <<procVars, storeVars, preflight, captured, held>>

\* A backend reset: stop, purge, replace.
ResetBackend(g, R) ==
  /\ phase[g] = "up"
  /\ loaded' = [loaded EXCEPT ![g] = {}]
  /\ ledger' = PurgeAllForInstance(born[g].inst, R)
  /\ held' = [held EXCEPT ![g] = {}]
  /\ UNCHANGED <<procVars, registry, stamp, preflight, captured>>

LedgerNext ==
  \/ \E p \in Pids : OtherProcessStarts(p) \/ OtherProcessExits(p)
  \/ \E R \in SUBSET Pids : LoadLease(R)
  \/ \E g \in Gen :
       \/ \E i \in Instance, p \in Pids : GenerationStarts(g, i, p)
       \/ StopRuntime(g) \/ ProcessExit(g)
       \/ \E t \in Threads : LoadThread(g, t) \/ Unload(g, t)
       \/ \E R \in SUBSET Pids :
            \/ PrepareOwnedState(g, R) \/ RegisterInstanceRuntime(g, R)
            \/ ReleaseHolderIfMatches(g, R) \/ ResetBackend(g, R)
            \/ \E ok \in SUBSET {"registry", "holders", "feishu"} :
                 ReleaseServiceAuthority(g, ok, R)
            \/ \E t \in Threads :
                 \/ Preflight(g, t, R) \/ CaptureServiceHolder(g, t, R)
                 \/ \E h \in HolderId : Acquire(g, t, h, R) \/ Release(g, t, h, R)

LedgerSpec == LedgerInit /\ [][LedgerNext]_ledgerVars

-----------------------------------------------------------------------------
(* Properties.                                                              *)

\* Well-typed: in particular no record without holders is ever written.
LedgerTypeOK ==
  /\ born \in [Gen -> Born \cup {NoEntry}]
  /\ phase \in [Gen -> Phase]
  /\ occupant \in [Pids -> 0..Foreign]
  /\ registry \in [Instance -> Entry \cup {NoEntry}]
  /\ \A t \in Threads : ledger[t] # NoRecord =>
       \E S \in (SUBSET HolderId) \ {{}} : ledger[t] \in LeaseOf(S)
  /\ preflight \in [Gen -> SUBSET Threads]
  /\ loaded \in [Gen -> SUBSET Threads]
  /\ captured \in [Gen -> Capture \cup {NoHolder}]
  /\ stamp \in 0..MaxStamp
  /\ held \in [Gen -> SUBSET (Threads \X HolderId)]

\* What a live generation was granted and has not given up is still its
\* record: no pruning (dead, reused or unreadable pids), no purge of a starting
\* generation and no release of another one takes it away.
HolderKeepsThread ==
  \A g \in Gen : \A th \in held[g] :
    LET l == ledger[th[1]]
    IN /\ l # NoRecord /\ l.inst = born[g].inst /\ l.token = g
       /\ th[2] \in DOMAIN l.holders /\ l.holders[th[2]].token = g

\* A generation that is up finds no record of an earlier generation of its
\* instance, even one that crashed and whose pid now belongs to another
\* process: nothing blocks its admission for ever.
NoResidueOfOldGenerations ==
  \A g \in Gen, t \in Threads :
    phase[g] = "up" /\ ledger[t] # NoRecord /\ ledger[t].inst = born[g].inst
    => /\ ledger[t].token = g
       /\ \A h \in DOMAIN ledger[t].holders : ledger[t].holders[h].token = g

\* The compare-and-release of a cleanup never drops a holder that was
\* acquired again after the cleanup captured it.
CasReleaseStep ==
  \A g \in Gen, t \in Threads :
    /\ captured[g] # NoHolder /\ captured'[g] = NoHolder /\ phase'[g] = "up"
    /\ ledger[t] # NoRecord /\ g \in DOMAIN ledger[t].holders
    /\ <<t, g>> \in held[g] /\ <<t, g>> \notin held'[g]
    => /\ captured[g].thread = t
       /\ captured[g].holder.stamp = ledger[t].holders[g].stamp

\* release_if_matches in every step: only the captured holder is dropped.
CasReleaseIsExact == [][CasReleaseStep]_ledgerVars

Owners(t) ==
  {g \in Gen : phase[g] \in Living /\ \E h \in HolderId : <<t, h>> \in held[g]}

Own == INSTANCE RuntimeOwnership WITH
  Thread <- Threads,
  running <- {g \in Gen : phase[g] \in Living},
  owners <- [t \in Threads |-> Owners(t)]

\* The ledger implements exclusive ownership (RuntimeOwnership): a generation
\* only comes to own a thread that no live generation owns.
ImplementsRuntimeOwnership == Own!OwnSpec

\* docs/decisions/cross-instance-live-runtime-admission.md:173 excludes a
\* continuation "when another running instance may still hold a loaded
\* in-memory copy": who holds the lease of a thread is the only one with a copy.
NoContinuationOverLoadedCopy ==
  \A g, k \in Gen, t \in Threads :
    /\ \E h \in HolderId : <<t, h>> \in held[g]
    /\ phase[k] = "up" /\ t \in loaded[k]
    => born[k].inst = born[g].inst

\* The machine-wide ledger keeps what it granted and nothing of a generation
\* that is over.
LedgerInvariant ==
  /\ LedgerTypeOK
  /\ HolderKeepsThread
  /\ NoResidueOfOldGenerations
=============================================================================
