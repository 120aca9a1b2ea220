--------------------------- MODULE MCConnection -----------------------------
(***************************************************************************)
(* The connection to the backend for TLC: the ingress gate of the service  *)
(* (AdapterIngressGate) and the RPC connection below it                    *)
(* (CodexRpcConnection). One of them moves in a behaviour.                 *)
(***************************************************************************)
EXTENDS AdapterIngressGate, CodexRpcConnection, TLC

VARIABLE part   \* the component that moves in this behaviour

ASSUME ClientAssumption == ConnectionAssumption

MCInit ==
  /\ part \in {"gate", "rpc"}
  /\ Init
  /\ RpcInit

MCNext ==
  \/ part = "gate" /\ Next /\ UNCHANGED <<part, rpcVars>>
  \/ part = "rpc" /\ RpcNext /\ UNCHANGED <<part, vars>>

MCSpec == MCInit /\ [][MCNext]_<<part, vars, rpcVars>>

MCSymmetry == Permutations(Worker) \cup Permutations(Client)
=============================================================================
