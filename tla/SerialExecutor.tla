--------------------------- MODULE SerialExecutor ---------------------------
(***************************************************************************)
(* What bot/runtime_loop.py promises: accepted tasks run one at a time in  *)
(* the order of their acceptance, a caller is told exactly what became of  *)
(* its task, and a drained executor has nothing left to run.  No threads,  *)
(* queue or clock.                                                         *)
(***************************************************************************)
EXTENDS Naturals

CONSTANT MaxTask   \* bound: tasks ever accepted

VARIABLES
  fate,     \* what became of each task
  told,     \* what its synchronous caller was told
  open,     \* tasks are still accepted
  drained   \* someone was told that the executor has shut down

vars == <<fate, told, open, drained>>

Task == 1..MaxTask
Over == {"ran", "revoked"}

Init ==
  /\ fate = [n \in Task |-> "new"]
  /\ told = [n \in Task |-> "nothing"]
  /\ open = TRUE /\ drained = FALSE

Accept(n) ==
  /\ open /\ fate[n] = "new"
  /\ \A m \in 1..(n - 1) : fate[m] # "new"
  /\ fate' = [fate EXCEPT ![n] = "pending"]
  /\ UNCHANGED <<told, open, drained>>

Start(n) ==
  /\ fate[n] = "pending"
  /\ \A m \in 1..(n - 1) : fate[m] \in Over
  /\ fate' = [fate EXCEPT ![n] = "running"]
  /\ UNCHANGED <<told, open, drained>>

Finish(n) ==
  /\ fate[n] = "running"
  /\ fate' = [fate EXCEPT ![n] = "ran"]
  /\ UNCHANGED <<told, open, drained>>

\* A task past its deadline is taken back before it starts; its caller may be
\* told in the same step.
Revoke(n) ==
  /\ fate[n] = "pending"
  /\ fate' = [fate EXCEPT ![n] = "revoked"]
  /\ told' \in {told, [told EXCEPT ![n] = "cancelled"]}
  /\ UNCHANGED <<open, drained>>

Tell(n) ==
  /\ told[n] = "nothing"
  /\ \E a \in {"result", "may_still_run", "cancelled"} :
       /\ a = "result" => fate[n] = "ran"
       /\ a = "may_still_run" => fate[n] \in {"running", "ran"}
       /\ a = "cancelled" => fate[n] = "revoked"
       /\ told' = [told EXCEPT ![n] = a]
  /\ UNCHANGED <<fate, open, drained>>

Close ==
  /\ open /\ open' = FALSE
  /\ UNCHANGED <<fate, told, drained>>

Drained ==
  /\ ~open /\ \A n \in Task : fate[n] \in Over \cup {"new"}
  /\ drained' = TRUE
  /\ UNCHANGED <<fate, told, open>>

Next ==
  \/ Close \/ Drained
  \/ \E n \in Task : Accept(n) \/ Start(n) \/ Finish(n) \/ Revoke(n) \/ Tell(n)

Spec == Init /\ [][Next]_vars
=============================================================================
