---------------------------- MODULE MCFrontends ----------------------------
(***************************************************************************)
(* The fcodex participants and the Web prompts for TLC; one of the two     *)
(* moves in a behaviour. Of the participants some behaviours are about the *)
(* requests of two connections, with store calls that fail or with threads *)
(* that are gone, some about connects, heartbeats and timers of three,     *)
(* some about thread/start; those instances differ from the outer          *)
(* specification in the bounds only.                                       *)
(***************************************************************************)
EXTENDS FcodexParticipants, WebPromptSubmission, TLC

CONSTANTS proxy1, c1, c2, c3, post1, post2

VARIABLE part  \* the corner of the state space this behaviour explores

MCOwner == [c \in {c1, c2, c3} |-> proxy1]

Sources == INSTANCE FcodexParticipants WITH
  MaxFailures <- 1, MaxTimers <- 4, MaxGone <- 0, MaxEpochs <- 0

Gone == INSTANCE FcodexParticipants WITH
  MaxFailures <- 0, MaxTimers <- 4, MaxEpochs <- 0

Endpoints == INSTANCE FcodexParticipants WITH
  MaxRequests <- 0, MaxGone <- 0

Create == INSTANCE FcodexParticipants WITH
  MaxRequests <- 2, MaxFailures <- 1, MaxTimers <- 4, MaxGone <- 0

MCInit ==
  /\ part \in {"sources", "gone", "endpoints", "create", "prompts"}
  /\ part = "endpoints" => Endpoints!FcodexInit
  /\ part = "create" => Create!FcodexInit
  /\ part = "gone" => Gone!FcodexInit
  /\ part \in {"sources", "prompts"} => Sources!FcodexInit
  /\ Init

\* Two connections, and no thread is created.
SourcesCorner ==
  /\ px'[c3] = "idle"
  /\ \A k \in Keys : reqs'[k] # NoRequest => reqs'[k].method # "start"

\* Two connections, and nothing but threads that are created.
CreateCorner ==
  /\ px'[c3] = "idle"
  /\ \A k \in Keys : reqs'[k] # NoRequest => reqs'[k].t \in NewThreads

MCNext ==
  \/ part = "sources" /\ Sources!FcodexNext /\ SourcesCorner /\ UNCHANGED <<part, vars>>
  \/ part = "gone" /\ Gone!FcodexNext /\ SourcesCorner /\ UNCHANGED <<part, vars>>
  \/ part = "endpoints" /\ Endpoints!FcodexNext /\ UNCHANGED <<part, vars>>
  \/ part = "create" /\ Create!FcodexNext /\ CreateCorner /\ UNCHANGED <<part, vars>>
  \/ part = "prompts" /\ Next /\ UNCHANGED <<part, fcodexVars>>

MCSpec == MCInit /\ [][MCNext]_<<part, vars, fcodexVars>>

\* Connections and POSTs are interchangeable.
MCSymmetry == Permutations({c1, c2}) \cup Permutations({post1, post2})
=============================================================================
