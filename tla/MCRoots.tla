------------------------------ MODULE MCRoots -------------------------------
(***************************************************************************)
(* Operations on threads for TLC: the resume and unsubscribe receipts of   *)
(* all surfaces (ThreadResume), the main turn of Feishu bindings           *)
(* (FeishuRootOperation), and the bindings themselves (Bindings). One of   *)
(* them moves in a behaviour.                                              *)
(***************************************************************************)
EXTENDS ThreadResume, FeishuRootOperation, Bindings, TLC

VARIABLE part  \* the component that moves in this behaviour; the others rest

ASSUME RootAssumption == HoldersAssumption /\ BoundsAssumption
ASSUME BindingsAssumption == BindingConstants

MCInit ==
  /\ part \in {"resume", "root", "bindings"}
  /\ Init
  /\ RootInit
  /\ BindingsInit
  /\ part # "root" => ~up.loaded /\ up.goal = "none"

MCNext ==
  \/ part = "resume" /\ Next /\ UNCHANGED <<part, rootVars, bindingsVars>>
  \/ part = "root" /\ RootNext /\ UNCHANGED <<part, vars, bindingsVars>>
  \/ part = "bindings" /\ BindingsNext /\ UNCHANGED <<part, vars, rootVars>>

MCSpec == MCInit /\ [][MCNext]_<<part, vars, rootVars, bindingsVars>>

\* Chats and Bindings are one set of chats here.
MCSymmetry == Permutations(Chats)
=============================================================================
