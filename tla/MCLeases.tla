----------------------------- MODULE MCLeases -------------------------------
(***************************************************************************)
(* The two lease stores for TLC: the main-turn lease of the service        *)
(* (InteractionLease) and the live-runtime lease of the machine            *)
(* (ThreadRuntimeLease). Each is explored on its own: one of them moves    *)
(* in a behaviour.                                                         *)
(***************************************************************************)
EXTENDS InteractionLease, ThreadRuntimeLease, TLC

CONSTANTS feishu, web, f1     \* names for HolderOf

VARIABLE part                 \* the component that moves in this behaviour

ASSUME MachineAssumption == LedgerAssumption /\ LedgerNulls

MCHolderOf == [c \in Client |-> IF c = f1 THEN feishu ELSE web]

MCInit ==
  /\ part \in {"turns", "runtime"}
  /\ Init
  /\ LedgerInit

MCNext ==
  \/ part = "turns" /\ Next /\ UNCHANGED <<part, ledgerVars>>
  \/ part = "runtime" /\ LedgerNext /\ UNCHANGED <<part, vars>>

MCSpec == MCInit /\ [][MCNext]_<<part, vars, ledgerVars>>

MCSymmetry ==
  Permutations(Pid) \cup Permutations(Turn) \cup
  Permutations(Pids) \cup Permutations(Instance)
=============================================================================
