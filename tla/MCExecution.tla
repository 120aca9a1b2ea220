---------------------------- MODULE MCExecution -----------------------------
(***************************************************************************)
(* The execution of a Feishu binding for TLC. In some behaviours terminal  *)
(* notifications are lost; in others compactions, page rollovers, a        *)
(* disconnect and failing reads happen; in others first pages are          *)
(* rejected; in others the service is shut down; in the last ones the      *)
(* execution's pages and cards move.                                       *)
(***************************************************************************)
EXTENDS ExecutionRecovery, ExecutionOutput, TLC

VARIABLE part  \* the component that moves in this behaviour; the others rest

Lost == INSTANCE ExecutionRecovery WITH
  Kinds <- {"prompt"}, Rejects <- FALSE, Finals <- {"idle"}, Stops <- FALSE,
  MaxPages <- 1, MaxFaults <- 0, MaxConns <- 1

Pages == INSTANCE ExecutionRecovery WITH
  Rejects <- FALSE, Stops <- FALSE, MaxWork <- 0, MaxLost <- 0

Rejected == INSTANCE ExecutionRecovery WITH
  Kinds <- {"prompt"}, Finals <- {"idle"}, Stops <- FALSE,
  MaxPages <- 1, MaxWork <- 0, MaxLost <- 0, MaxFaults <- 0

Shutdowns == INSTANCE ExecutionRecovery WITH
  Rejects <- FALSE, Finals <- {"idle"}, MaxPages <- 1, MaxWork <- 0, MaxLost <- 0, MaxConns <- 1

MCInit ==
  /\ part \in {"lost", "pages", "rejected", "stopped", "output"}
  /\ part \in {"lost", "output"} => Lost!Init
  /\ part = "pages" => Pages!Init
  /\ part = "rejected" => Rejected!Init
  /\ part = "stopped" => Shutdowns!Init
  /\ OutputInit

MCNext ==
  \/ part = "lost" /\ Lost!Next /\ UNCHANGED <<part, outputVars>>
  \/ part = "pages" /\ Pages!Next /\ UNCHANGED <<part, outputVars>>
  \/ part = "rejected" /\ Rejected!Next /\ UNCHANGED <<part, outputVars>>
  \/ part = "stopped" /\ Shutdowns!Next /\ UNCHANGED <<part, outputVars>>
  \/ part = "output" /\ OutputNext /\ UNCHANGED <<part, vars>>

MCSpec == MCInit /\ [][MCNext]_<<part, vars, outputVars>>

\* One permutation renames the watchdog workers and the patch workers.
MCSymmetry == Permutations(Workers)
=============================================================================
