----------------------------- MODULE MCThreads ------------------------------
(***************************************************************************)
(* The threads of the service for TLC: the RuntimeLoop and the staged      *)
(* start and stop of the service (ServiceRuntimeLifecycle). One of them    *)
(* moves in a behaviour.                                                   *)
(***************************************************************************)
EXTENDS RuntimeLoop, ServiceRuntimeLifecycle, TLC

VARIABLE part   \* the component that moves in this behaviour

ASSUME ThreadsAssumption == LifecycleAssumption

MCInit ==
  /\ part \in {"loop", "lifecycle"}
  /\ Init
  /\ LifecycleInit

MCNext ==
  \/ part = "loop" /\ Next /\ UNCHANGED <<part, lifecycleVars>>
  \/ part = "lifecycle" /\ LifecycleNext /\ UNCHANGED <<part, vars>>
  \/ part = "lifecycle" /\ UNCHANGED <<part, vars, lifecycleVars>>   \* may stop

MCSpec == MCInit /\ [][MCNext]_<<part, vars, lifecycleVars>>

MCSymmetry == Permutations(Thread) \cup Permutations(Threads) \cup Permutations(Receipt)
=============================================================================
