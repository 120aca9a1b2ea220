-------------------------- MODULE RuntimeOwnership --------------------------
(***************************************************************************)
(* What the machine-wide runtime ledger promises, without files, pids or   *)
(* holders: a thread is live in one service generation at a time, and only *)
(* the end of that ownership lets another generation in.                   *)
(***************************************************************************)
CONSTANTS Thread, Gen

VARIABLES
  running,   \* the generations alive
  owners     \* who owns each thread: nobody or one generation

OwnInit == running = {} /\ owners = [t \in Thread |-> {}]

Begin(g) == g \notin running /\ running' = running \cup {g} /\ UNCHANGED owners

\* A generation ends, and with it everything it owned.
End(g) ==
  /\ g \in running
  /\ running' = running \ {g}
  /\ owners' = [t \in Thread |-> owners[t] \ {g}]

Claim(g, t) ==
  /\ g \in running /\ owners[t] = {}
  /\ owners' = [owners EXCEPT ![t] = {g}]
  /\ UNCHANGED running

\* A generation gives up some of its threads.
Yield(g, S) ==
  /\ g \in running /\ \A t \in S : owners[t] = {g}
  /\ owners' = [t \in Thread |-> IF t \in S THEN {} ELSE owners[t]]
  /\ UNCHANGED running

OwnNext ==
  \E g \in Gen : \/ Begin(g) \/ End(g)
                 \/ \E t \in Thread : Claim(g, t)
                 \/ \E S \in SUBSET Thread : Yield(g, S)

OwnSpec == OwnInit /\ [][OwnNext]_<<running, owners>>
=============================================================================
