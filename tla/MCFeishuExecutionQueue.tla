----------------------- MODULE MCFeishuExecutionQueue -----------------------
(* Two bindings on two roots; a prompt message and a /compact message.     *)
EXTENDS FeishuExecutionQueue, TLC

MCSymmetry == Permutations(Root) \cup Permutations(Binding)
=============================================================================
