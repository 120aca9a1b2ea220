---------------------------- MODULE MCRequests ------------------------------
(***************************************************************************)
(* The callbacks of the app-server for TLC: one request, a shared          *)
(* approval in some behaviours and a request with a timer in the others.   *)
(***************************************************************************)
EXTENDS ServerRequests, TLC

VARIABLE part  \* the corner of the state space this behaviour explores

Approvals == INSTANCE ServerRequests WITH
  Approval <- Req

Inputs == INSTANCE ServerRequests WITH
  Approval <- {}, MaxFrame <- 2

MCInit ==
  /\ part \in {"approval", "input"}
  /\ Init

MCNext ==
  \/ part = "approval" /\ Approvals!Next /\ UNCHANGED <<part>>
  \/ part = "input" /\ Inputs!Next /\ UNCHANGED <<part>>

MCSpec == MCInit /\ [][MCNext]_<<part, vars>>

MCSymmetry == Permutations(Proxy)
=============================================================================
