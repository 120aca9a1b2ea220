---------------------- MODULE WebPromptSubmissionProofs ----------------------
(***************************************************************************)
(* Proofs about Web prompt submissions, for every number of requests,      *)
(* mutation ids, documents and connection generations and for every limit  *)
(* of the registry: PromptInvariant and ReceiptsAreFinal.                  *)
(*                                                                         *)
(* A receipt outlives the worker that caused it and is written by three    *)
(* parties: the worker, the handler that abandons, and reconciliation.     *)
(* The inductive invariant follows one attempt through them: its mutation  *)
(* has a pending or a terminal receipt and never both (Attempts), a slot   *)
(* is granted only under one of them (Slots), and what a request may still *)
(* send is decided by how far it got (Unsent).                             *)
(***************************************************************************)
EXTENDS WebPromptSubmission, FiniteSetTheorems, SequenceTheorems, TLAPS

Executing == {"granted", "sending", "replied", "settling"}
Pending == Executing \cup {"prepared", "abandoning", "started", "ready"}

\* One receipt per mutation, and none while an attempt is pending.
UniqueReceipts ==
  \A i, j \in DOMAIN terminal : terminal[i].m = terminal[j].m => i = j

Attempts ==
  \A m \in Mutation :
    /\ active[m] # NoPost =>
         /\ ~HasTerminal(m)
         /\ req[active[m]].m = m /\ req[active[m]].fresh /\ req[active[m]].pc \in Pending
    /\ m \in executing => active[m] # NoPost /\ req[active[m]].pc \in Executing

Slots ==
  \A m \in Mutation : slots[m] = 0 \/ (slots[m] = 1 /\ (m \in executing \/ HasTerminal(m)))

\* A request that is told or tells "known no effect" has nothing on the wire
\* and had nothing taken.
NotSent(p) == p \notin taken /\ ~req[p].wire

Unsent ==
  \A p \in Post :
    \/ req[p].pc \in {"idle", "prepared", "abandoning", "started", "ready", "granted"}
    \/ req[p].pc \in {"replied", "settling", "answered"} /\ req[p].res = "known_no_effect"
    => NotSent(p)

\* Nothing is told before the request is over.
Silent == \A p \in Post : req[p].pc # "done" => req[p].told = "none"

ReceiptsAreTrue ==
  \A i \in DOMAIN terminal :
    /\ terminal[i].status = "known_no_effect" =>
         req[terminal[i].by].pc = "done" /\ NotSent(terminal[i].by)
    /\ terminal[i].status = "succeeded" => terminal[i].m \in Transcript

ResultsAreTrue ==
  \A p \in Post :
    req[p].pc \in {"replied", "settling", "answered"} /\ req[p].res = "succeeded" => req[p].m \in Transcript

\* The request that has the file: it may read it, or it sent it.
Holds(p) ==
  /\ req[p].withFile
  /\ p \in taken \/ req[p].wire \/ p \in pins \/ req[p].pc \in {"ready", "granted", "sending"}

OneHolder ==
  /\ \A p, q \in Post : Holds(p) /\ Holds(q) => p = q
  /\ file = "pending" => \A p \in Post : ~Holds(p)

Bytes ==
  /\ file # "gone" => bytes
  /\ \A p \in pins : req[p].withFile

PromptInd ==
  /\ TypeOK
  /\ UniqueReceipts
  /\ Attempts
  /\ Slots
  /\ Silent
  /\ Unsent
  /\ ReceiptsAreTrue
  /\ ResultsAreTrue
  /\ SuccessIsTrue
  /\ OneHolder
  /\ Bytes
  /\ PinsHold

-----------------------------------------------------------------------------
(* The registry keeps one receipt per mutation.                             *)

LEMMA WithoutFacts ==
  ASSUME terminal \in Seq(Receipt), UniqueReceipts, NEW m \in Mutation
  PROVE  /\ Without(m) \in Seq(Receipt) /\ Len(Without(m)) <= Len(terminal)
         /\ \A i, j \in 1..Len(Without(m)) : Without(m)[i].m = Without(m)[j].m => i = j
         /\ \A i \in 1..Len(Without(m)) :
              Without(m)[i].m # m /\ \E j \in 1..Len(terminal) : Without(m)[i] = terminal[j]
         /\ \A j \in 1..Len(terminal) :
              terminal[j].m # m => \E i \in 1..Len(Without(m)) : Without(m)[i] = terminal[j]
<1> DEFINE n == Len(terminal)
<1>0. n \in Nat /\ DOMAIN terminal = 1..n /\ \A j \in 1..n : terminal[j] \in Receipt
  BY LenProperties, ElementOfSeq
<1>1. CASE ~HasTerminal(m)
  <2>1. Without(m) = terminal
    BY <1>1 DEF Without
  <2> QED BY <1>0, <1>1, <2>1 DEF UniqueReceipts, HasTerminal
<1>2. CASE HasTerminal(m)
  <2> DEFINE i == CHOOSE i \in DOMAIN terminal : terminal[i].m = m
  <2> DEFINE w == [k \in 1..(n - 1) |-> IF k < i THEN terminal[k] ELSE terminal[k + 1]]
  <2>1. i \in 1..n /\ terminal[i].m = m
    BY <1>0, <1>2 DEF HasTerminal
  <2>2. Without(m) = w
    BY <1>2 DEF Without
  <2> HIDE DEF i
  <2>3. n - 1 \in Nat /\ w \in [1..(n - 1) -> Receipt]
    BY <1>0, <2>1
  <2>4. w \in Seq(Receipt)
    BY <2>3, SeqDef
  <2>5. Len(w) = n - 1
    BY <2>3, <2>4, LenProperties
  <2>6. \A k \in 1..(n - 1) : w[k] = IF k < i THEN terminal[k] ELSE terminal[k + 1]
    OBVIOUS
  <2> HIDE DEF w, n
  <2>7. ASSUME NEW k \in 1..(n - 1), NEW l \in 1..(n - 1), w[k].m = w[l].m PROVE k = l
    <3>1. PICK a \in 1..n : w[k] = terminal[a] /\ a = IF k < i THEN k ELSE k + 1
      BY <1>0, <2>1, <2>6
    <3>2. PICK b \in 1..n : w[l] = terminal[b] /\ b = IF l < i THEN l ELSE l + 1
      BY <1>0, <2>1, <2>6
    <3>3. a = b
      BY <1>0, <2>7, <3>1, <3>2 DEF UniqueReceipts, n
    <3> QED BY <1>0, <2>1, <3>1, <3>2, <3>3
  <2>8. ASSUME NEW k \in 1..(n - 1)
        PROVE  w[k].m # m /\ \E j \in 1..n : w[k] = terminal[j]
    <3>1. PICK a \in 1..n : w[k] = terminal[a] /\ a # i
      BY <1>0, <2>1, <2>6
    <3> QED BY <1>0, <2>1, <3>1 DEF UniqueReceipts, n
  <2>9. ASSUME NEW j \in 1..n, terminal[j].m # m
        PROVE  \E k \in 1..(n - 1) : w[k] = terminal[j]
    <3>1. j # i
      BY <2>1, <2>9
    <3>2. CASE j < i
      <4>1. j \in 1..(n - 1) /\ w[j] = terminal[j]
        BY <1>0, <2>1, <2>6, <3>2
      <4> QED BY <4>1
    <3>3. CASE j > i
      <4>1. j - 1 \in 1..(n - 1) /\ w[j - 1] = terminal[(j - 1) + 1] /\ (j - 1) + 1 = j
        BY <1>0, <2>1, <2>6, <3>3
      <4> QED BY <4>1
    <3> QED BY <1>0, <2>1, <3>1, <3>2, <3>3
  <2> QED BY <1>0, <2>2, <2>4, <2>5, <2>7, <2>8, <2>9 DEF n
<1> QED BY <1>1, <1>2

\* _remember_terminal: the new receipt is there, no other is invented or
\* changed, and one that left took its slots along.
LEMMA RememberFacts ==
  ASSUME terminal \in Seq(Receipt), Len(terminal) <= ResultLimit, UniqueReceipts,
         source \in [Mutation -> 0..MaxDoc], slots \in [Mutation -> Nat],
         NEW r \in Receipt, Remember(r)
  PROVE  /\ terminal' \in Seq(Receipt) /\ Len(terminal') <= ResultLimit
         /\ source' \in [Mutation -> 0..MaxDoc] /\ slots' \in [Mutation -> Nat]
         /\ UniqueReceipts'
         /\ \E i \in DOMAIN terminal' : terminal'[i] = r
         /\ \A i \in DOMAIN terminal' :
              \/ terminal'[i] = r
              \/ terminal'[i].m # r.m /\ \E j \in DOMAIN terminal : terminal'[i] = terminal[j]
         /\ \A m \in Mutation : slots'[m] \in {slots[m], 0}
         /\ \A j \in DOMAIN terminal :
              \/ terminal[j].m = r.m \/ slots'[terminal[j].m] = 0
              \/ \E i \in DOMAIN terminal' : terminal'[i] = terminal[j]
<1> USE ConstantsAssumption
<1> DEFINE w == Without(r.m)
           kept == Append(w, r)
           evicted == IF Len(kept) > ResultLimit THEN {kept[1].m} ELSE {}
<1>0. r.m \in Mutation
  BY DEF Receipt
<1>1. /\ w \in Seq(Receipt) /\ Len(w) <= Len(terminal)
      /\ \A i, j \in 1..Len(w) : w[i].m = w[j].m => i = j
      /\ \A i \in 1..Len(w) : w[i].m # r.m /\ \E j \in 1..Len(terminal) : w[i] = terminal[j]
      /\ \A j \in 1..Len(terminal) : terminal[j].m # r.m => \E i \in 1..Len(w) : w[i] = terminal[j]
  BY <1>0, WithoutFacts
<1>2. /\ terminal' = IF evicted # {} THEN Tail(kept) ELSE kept
      /\ source' = [m \in Mutation |-> IF m \in evicted THEN 0 ELSE source[m]]
      /\ slots' = [m \in Mutation |-> IF m \in evicted THEN 0 ELSE slots[m]]
  BY DEF Remember
<1>3. source' \in [Mutation -> 0..MaxDoc] /\ slots' \in [Mutation -> Nat]
      /\ \A m \in Mutation : slots'[m] \in {slots[m], 0}
  <2> HIDE DEF evicted
  <2> QED BY <1>2
<1> HIDE DEF w
<1>4. Len(terminal) \in Nat /\ DOMAIN terminal = 1..Len(terminal) /\ Len(w) \in Nat
  BY <1>1, LenProperties
<1>5. /\ kept \in Seq(Receipt) /\ Len(kept) = Len(w) + 1 /\ kept[Len(w) + 1] = r
      /\ \A i \in 1..Len(w) : kept[i] = w[i]
  BY <1>1
<1> HIDE DEF kept
<1>6. CASE Len(kept) > ResultLimit
  <2>1. evicted = {kept[1].m} /\ terminal' = Tail(kept) /\ kept # <<>> /\ Len(w) >= 1
    BY <1>2, <1>4, <1>5, <1>6
  <2>2. /\ terminal' \in Seq(Receipt) /\ Len(terminal') = Len(w)
        /\ DOMAIN terminal' = 1..Len(w) /\ \A i \in 1..Len(w) : terminal'[i] = kept[i + 1]
    BY <1>5, <2>1, <1>4, HeadTailProperties, LenProperties
  <2>3. Len(terminal') <= ResultLimit
    BY <1>1, <1>4, <2>2
  <2>4. terminal'[Len(w)] = r /\ \A i \in 1..(Len(w) - 1) : terminal'[i] = w[i + 1]
    BY <1>4, <1>5, <2>1, <2>2
  <2>5. ASSUME NEW i \in 1..Len(w)
        PROVE  \/ i = Len(w) /\ terminal'[i] = r
               \/ /\ i < Len(w) /\ i + 1 \in 1..Len(w) /\ terminal'[i] = w[i + 1]
                  /\ terminal'[i].m # r.m /\ \E j \in DOMAIN terminal : terminal'[i] = terminal[j]
    <3>1. CASE i = Len(w)
      BY <2>4, <3>1
    <3>2. CASE i # Len(w)
      <4>1. i < Len(w) /\ i + 1 \in 1..Len(w) /\ terminal'[i] = w[i + 1]
        BY <1>4, <2>4, <3>2
      <4>2. w[i + 1].m # r.m /\ \E j \in DOMAIN terminal : w[i + 1] = terminal[j]
        BY <1>1, <1>4, <4>1
      <4> QED BY <4>1, <4>2
    <3> QED BY <3>1, <3>2
  <2>6. UniqueReceipts'
    <3> SUFFICES ASSUME NEW i \in 1..Len(w), NEW j \in 1..Len(w), terminal'[i].m = terminal'[j].m
                 PROVE  i = j
      BY <2>2 DEF UniqueReceipts
    <3>1. CASE i = Len(w) \/ j = Len(w)
      <4>1. terminal'[i].m = r.m /\ terminal'[j].m = r.m
        BY <2>4, <3>1
      <4>2. i = Len(w) /\ j = Len(w)
        BY <2>5, <4>1
      <4> QED BY <4>2
    <3>2. CASE i # Len(w) /\ j # Len(w)
      <4>1. terminal'[i] = w[i + 1] /\ terminal'[j] = w[j + 1]
            /\ i + 1 \in 1..Len(w) /\ j + 1 \in 1..Len(w)
        BY <2>5, <3>2
      <4>2. i + 1 = j + 1
        BY <1>1, <4>1
      <4> QED BY <4>2, <1>4
    <3> QED BY <3>1, <3>2
  <2>7. ASSUME NEW j \in DOMAIN terminal, terminal[j].m # r.m
        PROVE  \/ slots'[terminal[j].m] = 0
               \/ \E i \in DOMAIN terminal' : terminal'[i] = terminal[j]
    <3>1. PICK k \in 1..Len(w) : w[k] = terminal[j]
      BY <1>1, <1>4, <2>7
    <3>2. CASE k = 1
      <4>1. terminal[j].m \in evicted
        BY <1>5, <2>1, <3>1, <3>2
      <4>2. terminal[j].m \in Mutation
        <5>1. terminal[j] \in Receipt
          BY <1>4, ElementOfSeq
        <5> QED BY <5>1 DEF Receipt
      <4> HIDE DEF evicted
      <4> QED BY <1>2, <4>1, <4>2
    <3>3. CASE k > 1
      <4>1. k - 1 \in 1..(Len(w) - 1) /\ k - 1 \in DOMAIN terminal' /\ (k - 1) + 1 = k
        BY <1>4, <2>2, <3>3
      <4>2. terminal'[k - 1] = terminal[j]
        BY <2>4, <3>1, <4>1
      <4> QED BY <4>1, <4>2
    <3> QED BY <1>4, <3>2, <3>3
  <2>8. \E i \in DOMAIN terminal' : terminal'[i] = r
    <3>1. Len(w) \in DOMAIN terminal'
      BY <1>4, <2>1, <2>2
    <3> QED BY <2>4, <3>1
  <2>9. \A i \in DOMAIN terminal' :
          \/ terminal'[i] = r
          \/ terminal'[i].m # r.m /\ \E j \in DOMAIN terminal : terminal'[i] = terminal[j]
    BY <2>2, <2>5
  <2> QED BY <1>3, <2>2, <2>3, <2>6, <2>7, <2>8, <2>9
<1>7. CASE ~(Len(kept) > ResultLimit)
  <2>1. terminal' = kept
    BY <1>2, <1>7
  <2>2. /\ terminal' \in Seq(Receipt) /\ Len(terminal') <= ResultLimit
        /\ DOMAIN terminal' = 1..(Len(w) + 1)
    BY <1>4, <1>5, <1>7, <2>1, LenProperties
  <2>3. ASSUME NEW i \in 1..(Len(w) + 1)
        PROVE  \/ i = Len(w) + 1 /\ terminal'[i] = r
               \/ /\ i \in 1..Len(w) /\ terminal'[i] = w[i]
                  /\ terminal'[i].m # r.m /\ \E j \in DOMAIN terminal : terminal'[i] = terminal[j]
    <3>1. CASE i = Len(w) + 1
      BY <1>5, <2>1, <3>1
    <3>2. CASE i \in 1..Len(w)
      <4>1. terminal'[i] = w[i]
        BY <1>5, <2>1, <3>2
      <4>2. w[i].m # r.m /\ \E j \in DOMAIN terminal : w[i] = terminal[j]
        BY <1>1, <1>4, <3>2
      <4> QED BY <3>2, <4>1, <4>2
    <3> QED BY <1>4, <3>1, <3>2
  <2>4. UniqueReceipts'
    <3> SUFFICES ASSUME NEW i \in 1..(Len(w) + 1), NEW j \in 1..(Len(w) + 1), terminal'[i].m = terminal'[j].m
                 PROVE  i = j
      BY <2>2 DEF UniqueReceipts
    <3> QED BY <1>1, <2>3
  <2>5. ASSUME NEW j \in DOMAIN terminal, terminal[j].m # r.m
        PROVE  \E i \in DOMAIN terminal' : terminal'[i] = terminal[j]
    <3>1. PICK k \in 1..Len(w) : w[k] = terminal[j]
      BY <1>1, <1>4, <2>5
    <3>2. k \in DOMAIN terminal' /\ terminal'[k] = terminal[j]
      BY <1>4, <1>5, <2>1, <2>2, <3>1
    <3> QED BY <3>2
  <2>6. Len(w) + 1 \in DOMAIN terminal' /\ terminal'[Len(w) + 1] = r
    BY <1>4, <1>5, <2>1, <2>2
  <2> QED BY <1>3, <2>2, <2>3, <2>4, <2>5, <2>6
<1> QED BY <1>6, <1>7

-----------------------------------------------------------------------------
(* TypeOK in two halves.                                                    *)

Types ==
  /\ gen \in 1..MaxGen /\ doc \in 1..MaxDoc
  /\ active \in [Mutation -> Post \cup {NoPost}] /\ executing \subseteq Mutation
  /\ terminal \in Seq(Receipt) /\ Len(terminal) <= ResultLimit
  /\ source \in [Mutation -> 0..MaxDoc]
  /\ taken \subseteq Post /\ slots \in [Mutation -> Nat]
  /\ file \in {"pending", "submitted", "gone"} /\ pins \subseteq Post /\ bytes \in BOOLEAN

Requests == req \in [Post -> Request]

Parts ==
  /\ Types /\ Requests /\ UniqueReceipts /\ Attempts /\ Slots /\ Silent /\ Unsent
  /\ ReceiptsAreTrue /\ ResultsAreTrue /\ SuccessIsTrue /\ OneHolder /\ Bytes /\ PinsHold

LEMMA PromptParts == PromptInd <=> Parts
BY DEF PromptInd, Parts, TypeOK, Types, Requests

-----------------------------------------------------------------------------
LEMMA TerminalFacts ==
  ASSUME Types, NEW m \in Mutation, HasTerminal(m)
  PROVE  /\ TerminalOf(m) \in Receipt /\ TerminalOf(m).m = m
         /\ \E i \in DOMAIN terminal : TerminalOf(m) = terminal[i]
<1> DEFINE i == CHOOSE i \in DOMAIN terminal : terminal[i].m = m
<1>1. i \in DOMAIN terminal /\ terminal[i].m = m
  BY DEF HasTerminal
<1>2. TerminalOf(m) = terminal[i]
  BY DEF TerminalOf
<1> HIDE DEF i
<1>3. terminal[i] \in Receipt
  BY <1>1, LenProperties, ElementOfSeq DEF Types
<1> QED BY <1>1, <1>2, <1>3

-----------------------------------------------------------------------------
(* Steps of one request.                                                    *)

\* What a step of request p leaves alone: every other request, and the input
\* and the file that the request came with once it was prepared.
Moves(p) ==
  /\ \A q \in Post : q # p => req'[q] = req[q]
  /\ req[p].pc # "idle" =>
       req'[p].m = req[p].m /\ req'[p].fresh = req[p].fresh /\ req'[p].withFile = req[p].withFile

MayRead == {"ready", "granted", "sending"}

\* It goes on with its attempt, and only a finished request is over.
Respects(p) ==
  /\ req[p].pc # "done" /\ req'[p].pc # "idle"
  /\ active[req[p].m] = p /\ req[p].pc \in Pending =>
       req'[p].pc \in Pending /\ (req[p].pc \in Executing => req'[p].pc \in Executing)

\* What it tells, and what it takes its own call to have done, is true.
TellsTheTruth(p) ==
  /\ req'[p].pc # "done" => req[p].pc # "done" /\ req'[p].told = req[p].told
  /\ \/ req'[p].pc \in {"idle", "prepared", "abandoning", "started", "ready", "granted"}
     \/ req'[p].pc \in {"replied", "settling", "answered"} /\ req'[p].res = "known_no_effect"
     => p \notin taken /\ ~req'[p].wire
  /\ req'[p].pc \in {"replied", "settling", "answered"} /\ req'[p].res = "succeeded" => req'[p].m \in Transcript
  /\ req'[p].told = "succeeded" => req'[p].m \in Transcript

\* It does not read a file that it has not claimed.
LeavesFile(p) ==
  /\ req'[p].wire => req[p].wire \/ req[p].pc = "granted"
  /\ req'[p].pc \in MayRead => req[p].pc \in MayRead
  /\ p \in pins => req'[p].pc \in MayRead \cup {"replied", "answered"}

LEMMA IdleIsUntouched ==
  ASSUME Parts, NEW p \in Post, req[p].pc = "idle"
  PROVE  p \notin taken /\ p \notin pins /\ ~req[p].wire /\ \A m \in Mutation : active[m] # p
<1>1. p \notin taken /\ p \notin pins /\ ~req[p].wire
  BY DEF Parts, Unsent, NotSent, PinsHold
<1>2. ASSUME NEW m \in Mutation, active[m] = p PROVE FALSE
  BY <1>2, ConstantsAssumption DEF Parts, Attempts, Pending, Executing
<1> QED BY <1>1, <1>2

\* The transcript and what the requests say of it.
LEMMA RequestSteps ==
  ASSUME Parts, NEW p \in Post, Moves(p), TellsTheTruth(p), UNCHANGED taken
  PROVE  Transcript' = Transcript /\ Silent' /\ Unsent' /\ ResultsAreTrue' /\ SuccessIsTrue'
<1> USE DEF Parts
<1>1. \A q \in taken : req'[q].m = req[q].m
  BY IdleIsUntouched DEF Moves, Types
<1>2. Transcript' = Transcript
  BY <1>1 DEF Transcript
<1>3. Silent'
  BY DEF Silent, Moves, TellsTheTruth
<1>4. Unsent'
  <2> SUFFICES ASSUME NEW q \in Post,
                      \/ req'[q].pc \in {"idle", "prepared", "abandoning", "started", "ready", "granted"}
                      \/ req'[q].pc \in {"replied", "settling", "answered"} /\ req'[q].res = "known_no_effect"
               PROVE  q \notin taken /\ ~req'[q].wire
    BY DEF Unsent, NotSent
  <2>1. CASE q = p
    BY <2>1 DEF TellsTheTruth
  <2>2. CASE q # p
    BY <2>2 DEF Unsent, NotSent, Moves
  <2> QED BY <2>1, <2>2
<1>5. ResultsAreTrue' /\ SuccessIsTrue'
  BY <1>2 DEF ResultsAreTrue, SuccessIsTrue, Moves, TellsTheTruth
<1> QED BY <1>2, <1>3, <1>4, <1>5

\* The receipts, while the registry stays as it is.
LEMMA ReceiptsStay ==
  ASSUME Parts, NEW p \in Post, Moves(p), Respects(p), Transcript \subseteq Transcript',
         req[p].pc = "done" => p \notin taken', req'[p].wire => req[p].wire \/ req[p].pc # "done",
         taken' \subseteq taken \cup {p}, UNCHANGED <<active, executing, terminal, slots>>
  PROVE  UniqueReceipts' /\ Slots' /\ Attempts' /\ ReceiptsAreTrue'
<1> USE DEF Parts
<1>1. UniqueReceipts' /\ Slots'
  BY DEF UniqueReceipts, Slots, HasTerminal
<1>2. Attempts'
  <2> SUFFICES ASSUME NEW m \in Mutation, active[m] # NoPost
               PROVE  /\ ~HasTerminal(m) /\ req'[active[m]].m = m /\ req'[active[m]].fresh
                      /\ req'[active[m]].pc \in Pending
                      /\ m \in executing => req'[active[m]].pc \in Executing
    BY DEF Attempts, HasTerminal
  <2>1. active[m] \in Post
    BY DEF Types
  <2>2. /\ ~HasTerminal(m) /\ req[active[m]].m = m /\ req[active[m]].fresh
        /\ req[active[m]].pc \in Pending
        /\ m \in executing => req[active[m]].pc \in Executing
    BY DEF Attempts
  <2>3. CASE active[m] # p
    BY <2>1, <2>2, <2>3 DEF Moves
  <2>4. CASE active[m] = p
    BY IdleIsUntouched, <2>1, <2>2, <2>4 DEF Moves, Respects
  <2> QED BY <2>3, <2>4
<1>3. ReceiptsAreTrue'
  <2> SUFFICES ASSUME NEW i \in DOMAIN terminal
               PROVE  /\ terminal[i].status = "known_no_effect" =>
                           /\ req'[terminal[i].by].pc = "done"
                           /\ terminal[i].by \notin taken' /\ ~req'[terminal[i].by].wire
                      /\ terminal[i].status = "succeeded" => terminal[i].m \in Transcript'
    BY DEF ReceiptsAreTrue, NotSent
  <2>1. terminal[i] \in Receipt
    BY LenProperties, ElementOfSeq DEF Types
  <2>2. terminal[i].by \in Post
    BY <2>1 DEF Receipt
  <2> QED BY <2>2 DEF ReceiptsAreTrue, NotSent, Moves, Respects
<1> QED BY <1>1, <1>2, <1>3

\* The file, while nothing claims it, returns it or sends it on.
LEMMA FileStays ==
  ASSUME Parts, NEW p \in Post, Moves(p), LeavesFile(p), UNCHANGED <<taken, file, pins, bytes>>
  PROVE  OneHolder' /\ Bytes' /\ PinsHold'
<1> USE DEF Parts
<1>1. \A q \in Post : Holds(q)' => Holds(q)
  <2> SUFFICES ASSUME NEW q \in Post, Holds(q)'
               PROVE  Holds(q)
    OBVIOUS
  <2>1. CASE q # p
    BY <2>1 DEF Holds, Moves
  <2>2. CASE q = p
    BY IdleIsUntouched, <2>2 DEF Holds, Moves, LeavesFile, MayRead
  <2> QED BY <2>1, <2>2
<1>2. OneHolder'
  BY <1>1 DEF OneHolder
<1>3. \A q \in pins : req'[q].withFile /\ req'[q].pc \in {"ready", "granted", "sending", "replied", "answered"}
  BY IdleIsUntouched DEF Bytes, PinsHold, Moves, LeavesFile, MayRead, Types
<1>4. Bytes' /\ PinsHold'
  BY <1>3 DEF Bytes, PinsHold
<1> QED BY <1>2, <1>4

\* All of them at once.
LEMMA OneRequestSteps ==
  ASSUME Parts, NEW p \in Post, Requests',
         Moves(p), Respects(p), TellsTheTruth(p), LeavesFile(p),
         UNCHANGED <<gen, doc, active, executing, terminal, source, taken, slots, attachment>>
  PROVE  Parts'
<1>1. UNCHANGED <<taken, file, pins, bytes>> /\ UNCHANGED <<active, executing, terminal, slots>>
  BY DEF attachment
<1>2. Types'
  BY DEF Parts, Types, attachment
<1>3. Transcript' = Transcript /\ Silent' /\ Unsent' /\ ResultsAreTrue' /\ SuccessIsTrue'
  BY <1>1, RequestSteps
<1>4. UniqueReceipts' /\ Slots' /\ Attempts' /\ ReceiptsAreTrue'
  BY <1>1, <1>3, ReceiptsStay DEF Respects
<1>5. OneHolder' /\ Bytes' /\ PinsHold'
  BY <1>1, FileStays
<1> QED BY <1>2, <1>3, <1>4, <1>5 DEF Parts

\* A receipt of a pending or an unknown attempt is written.
LEMMA ReceiptWritten ==
  ASSUME Parts, NEW r \in Receipt, Remember(r), taken' = taken, Transcript \subseteq Transcript',
         \A m \in Mutation : active'[m] = IF m = r.m THEN NoPost ELSE active[m],
         \A m \in Mutation : m \in executing' <=> m \in executing /\ m # r.m,
         r.status = "known_no_effect" =>
           req'[r.by].pc = "done" /\ r.by \notin taken /\ ~req'[r.by].wire,
         r.status = "succeeded" => r.m \in Transcript,
         \A q \in Post :
           /\ req[q].pc = "done" => req'[q].pc = "done" /\ (req'[q].wire => req[q].wire)
           /\ req[q].m # r.m => req'[q] = req[q]
  PROVE  /\ UniqueReceipts' /\ Slots' /\ Attempts' /\ ReceiptsAreTrue'
         /\ terminal' \in Seq(Receipt) /\ Len(terminal') <= ResultLimit
         /\ source' \in [Mutation -> 0..MaxDoc] /\ slots' \in [Mutation -> Nat]
<1>1. /\ terminal' \in Seq(Receipt) /\ Len(terminal') <= ResultLimit
      /\ source' \in [Mutation -> 0..MaxDoc] /\ slots' \in [Mutation -> Nat]
      /\ UniqueReceipts'
      /\ \E i \in DOMAIN terminal' : terminal'[i] = r
      /\ \A i \in DOMAIN terminal' :
           \/ terminal'[i] = r
           \/ terminal'[i].m # r.m /\ \E j \in DOMAIN terminal : terminal'[i] = terminal[j]
      /\ \A m \in Mutation : slots'[m] \in {slots[m], 0}
      /\ \A j \in DOMAIN terminal :
           \/ terminal[j].m = r.m \/ slots'[terminal[j].m] = 0
           \/ \E i \in DOMAIN terminal' : terminal'[i] = terminal[j]
  <2>1. /\ terminal \in Seq(Receipt) /\ Len(terminal) <= ResultLimit /\ UniqueReceipts
        /\ source \in [Mutation -> 0..MaxDoc] /\ slots \in [Mutation -> Nat]
    BY DEF Parts, Types
  <2> QED BY <2>1, RememberFacts
<1>2. r.m \in Mutation
  BY DEF Receipt
<1>3. \A j \in DOMAIN terminal : terminal[j].m \in Mutation /\ terminal[j].by \in Post
  <2>1. \A j \in DOMAIN terminal : terminal[j] \in Receipt
    BY LenProperties, ElementOfSeq DEF Parts, Types
  <2> QED BY <2>1 DEF Receipt
<1>4. Slots'
  <2> SUFFICES ASSUME NEW m \in Mutation, slots'[m] # 0
               PROVE  slots'[m] = 1 /\ (m \in executing' \/ \E i \in DOMAIN terminal' : terminal'[i].m = m)
    BY DEF Slots, HasTerminal
  <2>1. slots'[m] = 1 /\ (m \in executing \/ HasTerminal(m))
    <3>1. slots'[m] = slots[m]
      BY <1>1
    <3> QED BY <3>1 DEF Parts, Slots
  <2>2. CASE m = r.m
    BY <1>1, <2>1, <2>2
  <2>3. CASE m # r.m /\ m \in executing
    BY <2>1, <2>3
  <2>4. CASE m # r.m /\ HasTerminal(m)
    BY <1>1, <2>1, <2>4 DEF HasTerminal
  <2> QED BY <2>1, <2>2, <2>3, <2>4
<1>5. Attempts'
  <2> SUFFICES ASSUME NEW m \in Mutation
               PROVE  /\ active'[m] # NoPost =>
                           /\ ~(\E i \in DOMAIN terminal' : terminal'[i].m = m)
                           /\ req'[active'[m]].m = m /\ req'[active'[m]].fresh
                           /\ req'[active'[m]].pc \in Pending
                      /\ m \in executing' => active'[m] # NoPost /\ req'[active'[m]].pc \in Executing
    BY DEF Attempts, HasTerminal
  <2>1. CASE m = r.m
    BY <2>1
  <2>2. CASE m # r.m
    <3>1. active'[m] = active[m] /\ (m \in executing' <=> m \in executing)
      BY <2>2
    <3>2. active[m] # NoPost => active[m] \in Post
      BY DEF Parts, Types
    <3>3. active[m] # NoPost =>
            /\ ~HasTerminal(m) /\ req[active[m]].m = m /\ req[active[m]].fresh
            /\ req[active[m]].pc \in Pending
      BY DEF Parts, Attempts
    <3>4. m \in executing => active[m] # NoPost /\ req[active[m]].pc \in Executing
      BY DEF Parts, Attempts
    <3>5. active[m] # NoPost => req'[active[m]] = req[active[m]]
      BY <2>2, <3>2, <3>3
    <3>6. ~HasTerminal(m) => ~(\E i \in DOMAIN terminal' : terminal'[i].m = m)
      BY <1>1, <2>2 DEF HasTerminal
    <3> QED BY <3>1, <3>3, <3>4, <3>5, <3>6
  <2> QED BY <2>1, <2>2
<1>6. ReceiptsAreTrue'
  <2> SUFFICES ASSUME NEW i \in DOMAIN terminal'
               PROVE  /\ terminal'[i].status = "known_no_effect" =>
                           /\ req'[terminal'[i].by].pc = "done"
                           /\ terminal'[i].by \notin taken /\ ~req'[terminal'[i].by].wire
                      /\ terminal'[i].status = "succeeded" => terminal'[i].m \in Transcript'
    BY DEF ReceiptsAreTrue, NotSent
  <2>1. CASE terminal'[i] = r
    BY <2>1
  <2>2. CASE terminal'[i] # r
    <3>1. PICK j \in DOMAIN terminal : terminal'[i] = terminal[j]
      BY <1>1, <2>2
    <3>2. /\ terminal[j].status = "known_no_effect" =>
               /\ req[terminal[j].by].pc = "done"
               /\ terminal[j].by \notin taken /\ ~req[terminal[j].by].wire
          /\ terminal[j].status = "succeeded" => terminal[j].m \in Transcript
      BY DEF Parts, ReceiptsAreTrue, NotSent
    <3> QED BY <1>3, <3>1, <3>2
  <2> QED BY <2>1, <2>2
<1> QED BY <1>1, <1>4, <1>5, <1>6

LEMMA PrepareRefusedInd ==
  ASSUME Parts, NEW p \in Post, NEW m \in Mutation, PrepareRefused(p, m)
  PROVE  Parts'
<1> DEFINE r == [req[p] EXCEPT !.pc = "done", !.m = m, !.told = "error"]
<1>1. Requests /\ req[p] \in Request
  BY DEF Parts, Requests
<1>2. r \in Request
  BY <1>1 DEF Request, Pc, Outcome, Told
<1>3. req' = [req EXCEPT ![p] = r]
  BY DEF PrepareRefused
<1>4. /\ r.pc = "done" /\ r.m = m /\ r.told = "error"
      /\ r.fresh = req[p].fresh /\ r.withFile = req[p].withFile
      /\ r.wire = req[p].wire /\ r.res = req[p].res
  BY <1>1 DEF Request
<1> HIDE DEF r
<1>5. Requests' /\ req'[p] = r /\ \A q \in Post : q # p => req'[q] = req[q]
  BY <1>1, <1>2, <1>3 DEF Requests
<1>6. Moves(p)
  BY <1>4, <1>5 DEF PrepareRefused, Moves
<1>7. Respects(p) /\ TellsTheTruth(p) /\ LeavesFile(p)
  BY <1>4, <1>5 DEF Parts, PrepareRefused, Respects, TellsTheTruth, LeavesFile, MayRead, Unsent,
       NotSent, Silent, PinsHold, Pending, Executing
<1>8. UNCHANGED <<gen, doc, active, executing, terminal, source, taken, slots, attachment>>
  BY DEF PrepareRefused, registry
<1> QED BY <1>5, <1>6, <1>7, <1>8, OneRequestSteps

LEMMA StartInd ==
  ASSUME Parts, NEW p \in Post, Start(p)
  PROVE  Parts'
<1> DEFINE r == [req[p] EXCEPT !.pc = "started"]
<1>1. Requests /\ req[p] \in Request
  BY DEF Parts, Requests
<1>2. r \in Request
  BY <1>1 DEF Request, Pc, Outcome, Told
<1>3. req' = [req EXCEPT ![p] = r]
  BY DEF Start
<1>4. /\ r.pc = "started"
      /\ r.m = req[p].m /\ r.fresh = req[p].fresh /\ r.withFile = req[p].withFile
      /\ r.wire = req[p].wire /\ r.res = req[p].res /\ r.told = req[p].told
  BY <1>1 DEF Request
<1> HIDE DEF r
<1>5. Requests' /\ req'[p] = r /\ \A q \in Post : q # p => req'[q] = req[q]
  BY <1>1, <1>2, <1>3 DEF Requests
<1>6. Moves(p)
  BY <1>4, <1>5 DEF Start, Moves
<1>7. Respects(p) /\ TellsTheTruth(p) /\ LeavesFile(p)
  BY <1>4, <1>5 DEF Parts, Start, Respects, TellsTheTruth, LeavesFile, MayRead, Unsent, NotSent,
       Silent, PinsHold, Pending, Executing
<1>8. UNCHANGED <<gen, doc, active, executing, terminal, source, taken, slots, attachment>>
  BY DEF Start, registry
<1> QED BY <1>5, <1>6, <1>7, <1>8, OneRequestSteps

LEMMA CancelHandlerInd ==
  ASSUME Parts, NEW p \in Post, CancelHandler(p)
  PROVE  Parts'
<1> DEFINE r == [req[p] EXCEPT !.pc = "abandoning"]
<1>1. Requests /\ req[p] \in Request
  BY DEF Parts, Requests
<1>2. r \in Request
  BY <1>1 DEF Request, Pc, Outcome, Told
<1>3. req' = [req EXCEPT ![p] = r]
  BY DEF CancelHandler
<1>4. /\ r.pc = "abandoning"
      /\ r.m = req[p].m /\ r.fresh = req[p].fresh /\ r.withFile = req[p].withFile
      /\ r.wire = req[p].wire /\ r.res = req[p].res /\ r.told = req[p].told
  BY <1>1 DEF Request
<1> HIDE DEF r
<1>5. Requests' /\ req'[p] = r /\ \A q \in Post : q # p => req'[q] = req[q]
  BY <1>1, <1>2, <1>3 DEF Requests
<1>6. Moves(p)
  BY <1>4, <1>5 DEF CancelHandler, Moves
<1>7. Respects(p) /\ TellsTheTruth(p) /\ LeavesFile(p)
  BY <1>4, <1>5 DEF Parts, CancelHandler, Respects, TellsTheTruth, LeavesFile, MayRead, Unsent,
       NotSent, Silent, PinsHold, Pending, Executing
<1>8. UNCHANGED <<gen, doc, active, executing, terminal, source, taken, slots, attachment>>
  BY DEF CancelHandler, registry
<1> QED BY <1>5, <1>6, <1>7, <1>8, OneRequestSteps

LEMMA RefuseInd ==
  ASSUME Parts, NEW p \in Post, Refuse(p)
  PROVE  Parts'
<1> DEFINE r == [req[p] EXCEPT !.pc = "replied", !.res = "known_no_effect"]
<1>1. Requests /\ req[p] \in Request
  BY DEF Parts, Requests
<1>2. r \in Request
  BY <1>1 DEF Request, Pc, Outcome, Told
<1>3. req' = [req EXCEPT ![p] = r]
  BY DEF Refuse
<1>4. /\ r.pc = "replied" /\ r.res = "known_no_effect"
      /\ r.m = req[p].m /\ r.fresh = req[p].fresh /\ r.withFile = req[p].withFile
      /\ r.wire = req[p].wire /\ r.told = req[p].told
  BY <1>1 DEF Request
<1> HIDE DEF r
<1>5. Requests' /\ req'[p] = r /\ \A q \in Post : q # p => req'[q] = req[q]
  BY <1>1, <1>2, <1>3 DEF Requests
<1>6. Moves(p)
  BY <1>4, <1>5 DEF Refuse, Moves
<1>7. Respects(p) /\ TellsTheTruth(p) /\ LeavesFile(p)
  BY <1>4, <1>5 DEF Parts, Refuse, Respects, TellsTheTruth, LeavesFile, MayRead, Unsent, NotSent,
       Silent, PinsHold, Pending, Executing
<1>8. UNCHANGED <<gen, doc, active, executing, terminal, source, taken, slots, attachment>>
  BY DEF Refuse, registry
<1> QED BY <1>5, <1>6, <1>7, <1>8, OneRequestSteps

LEMMA SendInd ==
  ASSUME Parts, NEW p \in Post, Send(p)
  PROVE  Parts'
<1> DEFINE r == IF req[p].gen = gen
                THEN [req[p] EXCEPT !.pc = "sending", !.wire = TRUE]
                ELSE [req[p] EXCEPT !.pc = "replied", !.res = "known_no_effect"]
<1>1. Requests /\ req[p] \in Request
  BY DEF Parts, Requests
<1>2. r \in Request
  BY <1>1 DEF Request, Pc, Outcome, Told
<1>3. req' = [req EXCEPT ![p] = r]
  BY DEF Send
<1>4. /\ r.m = req[p].m /\ r.fresh = req[p].fresh /\ r.withFile = req[p].withFile /\ r.told = req[p].told
      /\ \/ r.pc = "sending" /\ r.res = req[p].res
         \/ r.pc = "replied" /\ r.res = "known_no_effect" /\ r.wire = req[p].wire
  BY <1>1 DEF Request
<1> HIDE DEF r
<1>5. Requests' /\ req'[p] = r /\ \A q \in Post : q # p => req'[q] = req[q]
  BY <1>1, <1>2, <1>3 DEF Requests
<1>6. Moves(p)
  BY <1>4, <1>5 DEF Send, Moves
<1>7. Respects(p) /\ TellsTheTruth(p) /\ LeavesFile(p)
  BY <1>4, <1>5 DEF Parts, Send, Respects, TellsTheTruth, LeavesFile, MayRead, Unsent, NotSent,
       Silent, PinsHold, Pending, Executing
<1>8. UNCHANGED <<gen, doc, active, executing, terminal, source, taken, slots, attachment>>
  BY DEF Send, registry
<1> QED BY <1>5, <1>6, <1>7, <1>8, OneRequestSteps

LEMMA ReplyInd ==
  ASSUME Parts, NEW p \in Post, Reply(p)
  PROVE  Parts'
<1>1. Requests /\ req[p] \in Request /\ req[p].wire \in BOOLEAN
  BY DEF Parts, Requests, Request
<1>2. PICK res \in ResultOf(p) :
        req' = [req EXCEPT ![p].pc = "replied", ![p].res = res,
                           ![p].wire = @ /\ res = "outcome_unknown"]
  BY DEF Reply
<1> DEFINE wire == req[p].wire /\ res = "outcome_unknown"
           r == [req[p] EXCEPT !.pc = "replied", !.res = res, !.wire = wire]
<1>3. /\ res \in Outcome /\ wire \in BOOLEAN /\ (wire => req[p].wire /\ res = "outcome_unknown")
      /\ (res = "succeeded" => p \in taken) /\ (res = "known_no_effect" => p \notin taken)
  BY <1>1 DEF ResultOf, Outcome
<1>4. req' = [req EXCEPT ![p] = r]
  BY <1>2
<1> HIDE DEF wire
<1>5. r \in Request
  BY <1>1, <1>3 DEF Request, Pc
<1>6. /\ r.pc = "replied" /\ r.res = res /\ r.wire = wire
      /\ r.m = req[p].m /\ r.fresh = req[p].fresh
      /\ r.withFile = req[p].withFile /\ r.told = req[p].told
  BY <1>1 DEF Request
<1> HIDE DEF r
<1>7. Requests' /\ req'[p] = r /\ \A q \in Post : q # p => req'[q] = req[q]
  BY <1>1, <1>4, <1>5 DEF Requests
<1>8. Moves(p)
  BY <1>6, <1>7 DEF Reply, Moves
<1>9. p \in taken => req[p].m \in Transcript
  BY DEF Transcript
<1>10. Respects(p) /\ TellsTheTruth(p) /\ LeavesFile(p)
  BY <1>3, <1>6, <1>7, <1>9 DEF Parts, Reply, Respects, TellsTheTruth, LeavesFile, PinsHold,
       MayRead, Silent, Pending, Executing
<1>11. UNCHANGED <<gen, doc, active, executing, terminal, source, taken, slots, attachment>>
  BY DEF Reply, registry
<1> QED BY <1>7, <1>8, <1>10, <1>11, OneRequestSteps

LEMMA StatusFacts ==
  ASSUME Types, ReceiptsAreTrue, NEW m \in Mutation
  PROVE  StatusOf(m) \in Told /\ (StatusOf(m) = "succeeded" => m \in Transcript)
<1>1. CASE HasTerminal(m)
  <2>1. PICK i \in DOMAIN terminal : TerminalOf(m) = terminal[i]
    BY <1>1, TerminalFacts
  <2>2. TerminalOf(m) \in Receipt /\ TerminalOf(m).m = m
    BY <1>1, TerminalFacts
  <2> QED BY <2>1, <2>2 DEF StatusOf, ReceiptsAreTrue, Receipt, Told
<1>2. CASE ~HasTerminal(m)
  BY <1>2 DEF StatusOf, Told
<1> QED BY <1>1, <1>2

LEMMA ReadDuplicateInd ==
  ASSUME Parts, NEW p \in Post, ReadDuplicate(p)
  PROVE  Parts'
<1> DEFINE told == StatusOf(req[p].m)
<1>0. /\ told \in Told /\ (told = "succeeded" => req[p].m \in Transcript)
      /\ active[req[p].m] = p => req[p].pc # "started"
  <2>1. req[p].m \in Mutation
    BY DEF Parts, Requests, Request
  <2>2. active[req[p].m] = p => req[p].fresh
    BY <2>1, ConstantsAssumption DEF Parts, Attempts
  <2> QED BY <2>1, <2>2, StatusFacts DEF Parts, ReadDuplicate
<1>a. req' = [req EXCEPT ![p].pc = "done", ![p].told = told, ![p].gen = 1, ![p].doc = 1,
                         ![p].res = "known_no_effect"]
  BY DEF ReadDuplicate, Finish
<1>b. 1 \in 1..MaxGen /\ 1 \in 1..MaxDoc
  BY ConstantsAssumption
<1> HIDE DEF told
<1> DEFINE r == [req[p] EXCEPT !.pc = "done", !.told = told, !.gen = 1, !.doc = 1, !.res = "known_no_effect"]
<1>1. Requests /\ req[p] \in Request
  BY DEF Parts, Requests
<1>2. r \in Request
  BY <1>1, <1>0, <1>b DEF Request, Pc, Outcome, Told
<1>3. req' = [req EXCEPT ![p] = r]
  BY <1>a
<1>4. /\ r.pc = "done" /\ r.told = told /\ r.res = "known_no_effect"
      /\ r.m = req[p].m /\ r.fresh = req[p].fresh
      /\ r.withFile = req[p].withFile /\ r.wire = req[p].wire
  BY <1>1 DEF Request
<1> HIDE DEF r
<1>5. Requests' /\ req'[p] = r /\ \A q \in Post : q # p => req'[q] = req[q]
  BY <1>1, <1>2, <1>3 DEF Requests
<1>6. Moves(p)
  BY <1>4, <1>5 DEF ReadDuplicate, Moves
<1>7. Respects(p) /\ TellsTheTruth(p) /\ LeavesFile(p)
  BY <1>4, <1>5, <1>0 DEF Parts, ReadDuplicate, Respects, TellsTheTruth, LeavesFile, MayRead,
       Unsent, NotSent, Silent, PinsHold, Pending, Executing
<1>8. UNCHANGED <<gen, doc, active, executing, terminal, source, taken, slots, attachment>>
  BY DEF ReadDuplicate, registry
<1> QED BY <1>5, <1>6, <1>7, <1>8, OneRequestSteps

LEMMA PrepareInd ==
  ASSUME Parts, NEW p \in Post, NEW m \in Mutation, NEW f \in BOOLEAN, Prepare(p, m, f)
  PROVE  Parts'
<1> DEFINE new == ~Known(m)
           r == [req[p] EXCEPT !.pc = "prepared", !.m = m, !.gen = gen, !.doc = doc,
                               !.withFile = f, !.fresh = new]
<1>1. Requests /\ req[p] \in Request /\ req[p].pc = "idle" /\ gen \in 1..MaxGen /\ doc \in 1..MaxDoc
  BY DEF Parts, Requests, Types, Prepare
<1>2. new \in BOOLEAN /\ (new <=> active[m] = NoPost /\ ~HasTerminal(m))
  BY DEF Known
<1>3. req' = [req EXCEPT ![p] = r]
  BY DEF Prepare
<1> HIDE DEF new
<1>4. r \in Request
  BY <1>1, <1>2 DEF Request, Pc
<1>5. /\ r.pc = "prepared" /\ r.m = m /\ r.withFile = f /\ r.fresh = new
      /\ r.wire = req[p].wire /\ r.res = req[p].res /\ r.told = req[p].told
  BY <1>1 DEF Request
<1> HIDE DEF r
<1>6. Requests' /\ req'[p] = r /\ \A q \in Post : q # p => req'[q] = req[q]
  BY <1>1, <1>3, <1>4 DEF Requests
<1>7. p \notin taken /\ p \notin pins /\ ~req[p].wire /\ (\A n \in Mutation : active[n] # p)
      /\ req[p].told = "none"
  BY <1>1, IdleIsUntouched DEF Parts, Silent
<1>8. Moves(p)
  BY <1>1, <1>6 DEF Moves
<1>9. TellsTheTruth(p) /\ LeavesFile(p)
  BY <1>1, <1>5, <1>6, <1>7 DEF TellsTheTruth, LeavesFile, MayRead
<1>10. UNCHANGED <<gen, doc, taken, slots, terminal, attachment>>
  BY DEF Prepare, registry, Begin
<1>11. CASE Known(m)
  <2>1. UNCHANGED <<active, executing, source>>
    BY <1>11 DEF Prepare, registry
  <2>2. Respects(p)
    <3>1. req[p].m \in Mutation
      BY <1>1 DEF Request
    <3> QED BY <1>1, <1>5, <1>6, <1>7, <3>1 DEF Respects
  <2> QED BY <1>6, <1>8, <1>9, <1>10, <2>1, <2>2, OneRequestSteps
<1>12. CASE ~Known(m)
  <2>1. /\ active' = [active EXCEPT ![m] = p] /\ source' = [source EXCEPT ![m] = doc]
        /\ executing' = executing \ {m}
    BY <1>12 DEF Prepare, Begin
  <2>a. active[m] = NoPost /\ ~HasTerminal(m)
    BY <1>12 DEF Known
  <2>b. new
    BY <1>2, <2>a
  <2>2. Types'
    BY <1>1, <1>10, <2>1 DEF Parts, Types, attachment
  <2>3. UNCHANGED <<taken, file, pins, bytes>>
    BY <1>10 DEF attachment
  <2>4. Transcript' = Transcript /\ Silent' /\ Unsent' /\ ResultsAreTrue' /\ SuccessIsTrue'
    BY <1>8, <1>9, <2>3, RequestSteps
  <2>5. OneHolder' /\ Bytes' /\ PinsHold'
    BY <1>8, <1>9, <2>3, FileStays
  <2>6. UniqueReceipts' /\ Slots'
    BY <1>10, <2>1, <2>a DEF Parts, Types, UniqueReceipts, Slots, Attempts, HasTerminal
  <2>7. ReceiptsAreTrue'
    <3> SUFFICES ASSUME NEW i \in DOMAIN terminal
                 PROVE  /\ terminal[i].status = "known_no_effect" =>
                             /\ req'[terminal[i].by].pc = "done"
                             /\ terminal[i].by \notin taken /\ ~req'[terminal[i].by].wire
                        /\ terminal[i].status = "succeeded" => terminal[i].m \in Transcript
      BY <1>10, <2>4 DEF ReceiptsAreTrue, NotSent
    <3>1. terminal[i] \in Receipt
      BY LenProperties, ElementOfSeq DEF Parts, Types
    <3>2. terminal[i].by \in Post
      BY <3>1 DEF Receipt
    <3> QED BY <1>1, <1>8, <3>2 DEF Parts, ReceiptsAreTrue, NotSent, Moves
  <2>8. Attempts'
    <3> SUFFICES ASSUME NEW n \in Mutation
                 PROVE  /\ active'[n] # NoPost =>
                             /\ ~HasTerminal(n) /\ req'[active'[n]].m = n /\ req'[active'[n]].fresh
                             /\ req'[active'[n]].pc \in Pending
                        /\ n \in executing' => active'[n] # NoPost /\ req'[active'[n]].pc \in Executing
      BY <1>10 DEF Attempts, HasTerminal
    <3>1. CASE n = m
      BY <1>5, <1>6, <2>1, <2>a, <2>b, <3>1, ConstantsAssumption DEF Parts, Types, Pending
    <3>2. CASE n # m
      <4>1. active'[n] = active[n] /\ (n \in executing' => n \in executing) /\ active[n] \in Post \cup {NoPost}
        BY <2>1, <3>2 DEF Parts, Types
      <4>2. active[n] # NoPost => req'[active[n]] = req[active[n]]
        BY <1>6, <1>7, <4>1
      <4> QED BY <4>1, <4>2 DEF Parts, Attempts
    <3> QED BY <3>1, <3>2
  <2> QED BY <1>6, <2>2, <2>4, <2>5, <2>6, <2>7, <2>8 DEF Parts
<1> QED BY <1>11, <1>12

LEMMA ClaimFileInd ==
  ASSUME Parts, NEW p \in Post, ClaimFile(p)
  PROVE  Parts'
<1> DEFINE r == [req[p] EXCEPT !.pc = "ready"]
<1>1. Requests /\ req[p] \in Request
  BY DEF Parts, Requests
<1>2. r \in Request
  BY <1>1 DEF Request, Pc, Outcome, Told
<1>3. req' = [req EXCEPT ![p] = r]
  BY DEF ClaimFile
<1>4. /\ r.pc = "ready"
      /\ r.m = req[p].m /\ r.fresh = req[p].fresh /\ r.withFile = req[p].withFile
      /\ r.wire = req[p].wire /\ r.res = req[p].res /\ r.told = req[p].told
  BY <1>1 DEF Request
<1> HIDE DEF r
<1>5. Requests' /\ req'[p] = r /\ \A q \in Post : q # p => req'[q] = req[q]
  BY <1>1, <1>2, <1>3 DEF Requests
<1>6. Moves(p)
  BY <1>4, <1>5 DEF Moves
<1>7. req[p].pc = "started" /\ p \notin taken /\ ~req[p].wire
  BY DEF Parts, ClaimFile, Unsent, NotSent
<1>8. Respects(p) /\ TellsTheTruth(p)
  BY <1>4, <1>5, <1>7 DEF Parts, Respects, TellsTheTruth, Silent, Pending, Executing
<1>9. UNCHANGED <<gen, doc, active, executing, terminal, source, taken, slots>>
  BY DEF ClaimFile, registry
<1>10. Transcript' = Transcript /\ Silent' /\ Unsent' /\ ResultsAreTrue' /\ SuccessIsTrue'
  BY <1>6, <1>8, <1>9, RequestSteps
<1>11. UniqueReceipts' /\ Slots' /\ Attempts' /\ ReceiptsAreTrue'
  BY <1>4, <1>5, <1>6, <1>7, <1>8, <1>9, <1>10, ReceiptsStay
<1>12. Types' /\ OneHolder' /\ Bytes' /\ PinsHold'
  <2>1. CASE req[p].withFile
    <3>1. file = "pending" /\ file' = "submitted" /\ pins' = pins \cup {p} /\ bytes' = bytes
      BY <2>1 DEF ClaimFile
    <3>2. \A q \in Post : Holds(q)' => q = p
      BY <1>5, <1>9, <3>1 DEF Parts, OneHolder, Holds
    <3>3. OneHolder'
      BY <3>1, <3>2 DEF OneHolder
    <3> QED BY <1>4, <1>5, <1>9, <2>1, <3>1, <3>3 DEF Parts, Types, Bytes, PinsHold
  <2>2. CASE ~req[p].withFile
    <3>1. UNCHANGED <<file, pins, bytes>>
      BY <2>2 DEF ClaimFile, attachment
    <3>2. \A q \in Post : Holds(q)' => Holds(q)
      BY <1>4, <1>5, <1>9, <2>2, <3>1 DEF Holds
    <3>3. OneHolder'
      BY <3>1, <3>2 DEF Parts, OneHolder
    <3> QED BY <1>4, <1>5, <1>9, <3>1, <3>3 DEF Parts, Types, Bytes, PinsHold
  <2> QED BY <2>1, <2>2
<1> QED BY <1>5, <1>10, <1>11, <1>12 DEF Parts

\* The file is given back by a request that will not read it again.
LEMMA ReturnFileFacts ==
  ASSUME Parts, NEW p \in Post, ReturnFile(p), Moves(p), UNCHANGED taken,
         req[p].pc \in {"replied", "answered"}, req'[p].pc \notin MayRead,
         req'[p].wire = req[p].wire
  PROVE  /\ file' \in {"pending", "submitted", "gone"} /\ pins' \subseteq Post /\ bytes' \in BOOLEAN
         /\ OneHolder' /\ Bytes' /\ PinsHold'
<1>1. req'[p].withFile = req[p].withFile /\ \A q \in Post : q # p => req'[q] = req[q]
  BY DEF Moves
<1>2. CASE p \in pins
  <2>1. /\ pins' = pins \ {p} /\ bytes' = (bytes /\ (file # "gone" \/ pins # {p}))
        /\ file' \in {"submitted", "pending", "gone"} /\ (file' = "gone" <=> file = "gone")
        /\ file' = "pending" => file = "pending" \/ req[p].res = "known_no_effect"
    BY <1>2 DEF ReturnFile, Release, Parts, Types
  <2>2. \A q \in Post : Holds(q)' => Holds(q)
    BY <1>1, <2>1 DEF Holds, MayRead
  <2>3. Holds(p)
    BY <1>2 DEF Holds, Parts, Bytes
  <2>4. file' = "pending" => ~Holds(p)'
    BY <1>1, <2>1, <2>3 DEF Parts, Holds, Unsent, NotSent, OneHolder, MayRead
  <2>5. OneHolder'
    BY <2>1, <2>2, <2>3, <2>4 DEF Parts, OneHolder
  <2>6. bytes' \in BOOLEAN /\ (file' # "gone" => bytes') /\ (pins' # {} => bytes')
    <3>1. bytes' \in BOOLEAN
      BY <2>1
    <3>2. pins # {} /\ bytes
      BY <1>2 DEF Parts, PinsHold
    <3> QED BY <2>1, <3>1, <3>2
  <2> QED BY <1>1, <2>1, <2>5, <2>6 DEF Parts, Types, Bytes, PinsHold
<1>3. CASE p \notin pins
  <2>1. UNCHANGED <<file, pins, bytes>>
    BY <1>3 DEF ReturnFile, attachment
  <2>2. LeavesFile(p)
    BY <1>3 DEF LeavesFile
  <2> QED BY <2>1, <2>2, FileStays DEF Parts, Types
<1> QED BY <1>2, <1>3

LEMMA SettleFileInd ==
  ASSUME Parts, NEW p \in Post, SettleFile(p)
  PROVE  Parts'
<1> DEFINE r == [req[p] EXCEPT !.pc = "settling"]
<1>1. Requests /\ req[p] \in Request
  BY DEF Parts, Requests
<1>2. r \in Request
  BY <1>1 DEF Request, Pc, Outcome, Told
<1>3. req' = [req EXCEPT ![p] = r]
  BY DEF SettleFile
<1>4. /\ r.pc = "settling"
      /\ r.m = req[p].m /\ r.fresh = req[p].fresh /\ r.withFile = req[p].withFile
      /\ r.wire = req[p].wire /\ r.res = req[p].res /\ r.told = req[p].told
  BY <1>1 DEF Request
<1> HIDE DEF r
<1>5. Requests' /\ req'[p] = r /\ \A q \in Post : q # p => req'[q] = req[q]
  BY <1>1, <1>2, <1>3 DEF Requests
<1>6. Moves(p)
  BY <1>4, <1>5 DEF Moves
<1>7. req[p].pc = "replied"
  BY DEF SettleFile
<1>8. Respects(p) /\ TellsTheTruth(p)
  BY <1>4, <1>5, <1>7 DEF Parts, Respects, TellsTheTruth, Silent, Unsent, NotSent, ResultsAreTrue,
       SuccessIsTrue, Pending, Executing
<1>9. UNCHANGED <<gen, doc, active, executing, terminal, source, taken, slots>>
  BY DEF SettleFile, registry
<1>10. Transcript' = Transcript /\ Silent' /\ Unsent' /\ ResultsAreTrue' /\ SuccessIsTrue'
  BY <1>6, <1>8, <1>9, RequestSteps
<1>11. UniqueReceipts' /\ Slots' /\ Attempts' /\ ReceiptsAreTrue'
  BY <1>4, <1>5, <1>6, <1>7, <1>8, <1>9, <1>10, ReceiptsStay
<1>12. Types' /\ OneHolder' /\ Bytes' /\ PinsHold'
  <2>1. ReturnFile(p) /\ UNCHANGED taken
    BY DEF SettleFile
  <2>2. req'[p].pc \notin MayRead /\ req'[p].wire = req[p].wire
    BY <1>4, <1>5 DEF MayRead
  <2> QED BY <1>6, <1>7, <1>9, <2>1, <2>2, ReturnFileFacts DEF Parts, Types
<1> QED BY <1>5, <1>10, <1>11, <1>12 DEF Parts

LEMMA TakeInd ==
  ASSUME Parts, NEW p \in Post, Take(p)
  PROVE  Parts'
<1> DEFINE r == [req[p] EXCEPT !.wire = FALSE]
<1>1. Requests /\ req[p] \in Request
  BY DEF Parts, Requests
<1>2. r \in Request
  BY <1>1 DEF Request, Pc, Outcome, Told
<1>3. req' = [req EXCEPT ![p] = r]
  BY DEF Take
<1>4. /\ r.wire = FALSE
      /\ r.pc = req[p].pc /\ r.m = req[p].m /\ r.fresh = req[p].fresh
      /\ r.withFile = req[p].withFile /\ r.res = req[p].res /\ r.told = req[p].told
  BY <1>1 DEF Request
<1> HIDE DEF r
<1>5. Requests' /\ req'[p] = r /\ \A q \in Post : q # p => req'[q] = req[q]
  BY <1>1, <1>2, <1>3 DEF Requests
<1>6. req[p].wire /\ taken' = taken \cup {p} /\ req[p].pc # "idle"
      /\ UNCHANGED <<gen, doc, active, executing, terminal, source, slots, file, pins, bytes>>
  BY DEF Take, registry, attachment, Parts, Unsent, NotSent
<1>7. \A q \in Post :
        /\ req'[q].pc = req[q].pc /\ req'[q].m = req[q].m /\ req'[q].fresh = req[q].fresh
        /\ req'[q].withFile = req[q].withFile /\ req'[q].res = req[q].res /\ req'[q].told = req[q].told
  BY <1>4, <1>5
<1>8. Transcript \subseteq Transcript'
  BY <1>6, <1>7 DEF Transcript, Parts, Types
<1>9. \A q \in Post : NotSent(q) => NotSent(q)'
  BY <1>4, <1>5, <1>6 DEF NotSent
<1>10. Types' /\ UniqueReceipts' /\ Slots'
  BY <1>6 DEF Parts, Types, UniqueReceipts, Slots, HasTerminal
<1>11. Attempts' /\ Silent'
  <2>1. \A m \in Mutation : active[m] # NoPost => active[m] \in Post
    BY DEF Parts, Types
  <2> QED BY <1>6, <1>7, <2>1 DEF Parts, Attempts, HasTerminal, Silent
<1>12. Unsent'
  BY <1>7, <1>9 DEF Parts, Unsent
<1>13. ReceiptsAreTrue'
  <2> SUFFICES ASSUME NEW i \in DOMAIN terminal
               PROVE  /\ terminal[i].status = "known_no_effect" =>
                           /\ req'[terminal[i].by].pc = "done"
                           /\ terminal[i].by \notin taken' /\ ~req'[terminal[i].by].wire
                      /\ terminal[i].status = "succeeded" => terminal[i].m \in Transcript'
    BY <1>6 DEF ReceiptsAreTrue, NotSent
  <2>1. terminal[i] \in Receipt
    BY LenProperties, ElementOfSeq DEF Parts, Types
  <2>2. terminal[i].by \in Post
    BY <2>1 DEF Receipt
  <2> QED BY <1>6, <1>7, <1>8, <1>5, <2>2 DEF Parts, ReceiptsAreTrue, NotSent
<1>14. ResultsAreTrue' /\ SuccessIsTrue'
  BY <1>7, <1>8 DEF Parts, ResultsAreTrue, SuccessIsTrue
<1>15. OneHolder' /\ Bytes' /\ PinsHold'
  <2>1. \A q \in Post : Holds(q)' => Holds(q)
    BY <1>4, <1>5, <1>6, <1>7 DEF Holds
  <2>2. OneHolder'
    BY <1>6, <2>1 DEF Parts, OneHolder
  <2>3. Bytes' /\ PinsHold'
    BY <1>6, <1>7 DEF Parts, Types, Bytes, PinsHold
  <2> QED BY <2>2, <2>3
<1> QED BY <1>5, <1>10, <1>11, <1>12, <1>13, <1>14, <1>15 DEF Parts

LEMMA ClaimEffectInd ==
  ASSUME Parts, NEW p \in Post, ClaimEffect(p)
  PROVE  Parts'
<1> DEFINE m == req[p].m
<1>1. /\ Requests /\ req[p] \in Request /\ m \in Mutation /\ req[p].pc = "ready"
      /\ p \notin taken /\ ~req[p].wire
  BY DEF Parts, Requests, Request, ClaimEffect, Unsent, NotSent
<1>2. UNCHANGED <<gen, doc, active, terminal, source, taken, file, pins, bytes, attachment>>
  BY DEF ClaimEffect, attachment
<1>3. ASSUME NEW pc \in {"replied", "answered"}, NEW res \in Outcome,
             res = "succeeded" => m \in Transcript,
             pc = "answered" => HasTerminal(m),
             req' = [req EXCEPT ![p].pc = pc, ![p].res = res]
      PROVE  /\ Requests' /\ req'[p].pc = pc
             /\ Moves(p) /\ Respects(p) /\ TellsTheTruth(p) /\ LeavesFile(p)
  <2> DEFINE r == [req[p] EXCEPT !.pc = pc, !.res = res]
  <2>1. r \in Request
    BY <1>1 DEF Request, Pc
  <2>2. req' = [req EXCEPT ![p] = r]
    BY <1>3
  <2>3. /\ r.pc = pc /\ r.res = res /\ r.m = m /\ r.fresh = req[p].fresh
        /\ r.withFile = req[p].withFile /\ r.wire = req[p].wire /\ r.told = req[p].told
    BY <1>1 DEF Request
  <2> HIDE DEF r
  <2>4. Requests' /\ req'[p] = r /\ \A q \in Post : q # p => req'[q] = req[q]
    BY <1>1, <2>1, <2>2 DEF Requests
  <2>5. Moves(p)
    BY <2>3, <2>4 DEF Moves
  <2>6. TellsTheTruth(p) /\ LeavesFile(p)
    BY <1>1, <1>3, <2>3, <2>4 DEF Parts, TellsTheTruth, LeavesFile, MayRead, Silent, PinsHold
  <2>7. pc = "answered" => active[m] # p
    BY <1>1, <1>3, ConstantsAssumption DEF Parts, Attempts
  <2>8. Respects(p)
    BY <1>1, <2>3, <2>4, <2>7 DEF Respects, Pending, Executing
  <2> QED BY <2>3, <2>4, <2>5, <2>6, <2>8
<1>4. \/ /\ HasTerminal(m) /\ req' = [req EXCEPT ![p].pc = "answered", ![p].res = TerminalOf(m).status]
         /\ UNCHANGED <<executing, slots>>
      \/ /\ OwnsAttempt(p) /\ m \notin executing /\ ~HasTerminal(m)
         /\ executing' = executing \cup {m} /\ slots' = [slots EXCEPT ![m] = @ + 1]
         /\ req' = [req EXCEPT ![p].pc = "granted"]
      \/ /\ req' = [req EXCEPT ![p].pc = "replied", ![p].res = "known_no_effect"]
         /\ UNCHANGED <<executing, slots>>
  BY DEF ClaimEffect
<1>5. CASE /\ HasTerminal(m)
           /\ req' = [req EXCEPT ![p].pc = "answered", ![p].res = TerminalOf(m).status]
           /\ UNCHANGED <<executing, slots>>
  <2>1. TerminalOf(m).status \in Outcome /\ (TerminalOf(m).status = "succeeded" => m \in Transcript)
    BY <1>1, <1>5, TerminalFacts DEF Parts, ReceiptsAreTrue, Receipt
  <2>2. Requests' /\ Moves(p) /\ Respects(p) /\ TellsTheTruth(p) /\ LeavesFile(p)
    BY <1>3, <1>5, <2>1
  <2> QED BY <1>2, <1>5, <2>2, OneRequestSteps
<1>6. CASE /\ req' = [req EXCEPT ![p].pc = "replied", ![p].res = "known_no_effect"]
           /\ UNCHANGED <<executing, slots>>
  <2>1. Requests' /\ Moves(p) /\ Respects(p) /\ TellsTheTruth(p) /\ LeavesFile(p)
    BY <1>3, <1>6 DEF Outcome
  <2> QED BY <1>2, <1>6, <2>1, OneRequestSteps
<1>7. CASE /\ OwnsAttempt(p) /\ m \notin executing /\ ~HasTerminal(m)
           /\ executing' = executing \cup {m} /\ slots' = [slots EXCEPT ![m] = @ + 1]
           /\ req' = [req EXCEPT ![p].pc = "granted"]
  <2>1. req[p].res \in Outcome
    BY <1>1 DEF Request
  <2> DEFINE r == [req[p] EXCEPT !.pc = "granted"]
  <2>3. r \in Request
    BY <1>1 DEF Request, Pc
  <2>4. req' = [req EXCEPT ![p] = r]
    BY <1>7
  <2>5. /\ r.pc = "granted" /\ r.res = req[p].res /\ r.m = m /\ r.fresh = req[p].fresh
        /\ r.withFile = req[p].withFile /\ r.wire = req[p].wire /\ r.told = req[p].told
    BY <1>1 DEF Request
  <2> HIDE DEF r
  <2>6. Requests' /\ req'[p] = r /\ \A q \in Post : q # p => req'[q] = req[q]
    BY <1>1, <2>3, <2>4 DEF Requests
  <2>7. Moves(p)
    BY <2>5, <2>6 DEF Moves
  <2>8. TellsTheTruth(p) /\ LeavesFile(p)
    BY <1>1, <2>5, <2>6 DEF Parts, TellsTheTruth, LeavesFile, MayRead, Silent
  <2>9. Transcript' = Transcript /\ Silent' /\ Unsent' /\ ResultsAreTrue' /\ SuccessIsTrue'
    BY <1>2, <2>7, <2>8, RequestSteps
  <2>10. OneHolder' /\ Bytes' /\ PinsHold'
    BY <1>2, <2>7, <2>8, FileStays
  <2>11. slots[m] = 0
    BY <1>1, <1>7 DEF Parts, Slots
  <2>12. Types' /\ UniqueReceipts' /\ Slots'
    BY <1>1, <1>2, <1>7, <2>11 DEF Parts, Types, UniqueReceipts, Slots, HasTerminal
  <2>13. Attempts'
    <3> SUFFICES ASSUME NEW n \in Mutation
                 PROVE  /\ active[n] # NoPost =>
                             /\ ~HasTerminal(n) /\ req'[active[n]].m = n /\ req'[active[n]].fresh
                             /\ req'[active[n]].pc \in Pending
                        /\ n \in executing' => active[n] # NoPost /\ req'[active[n]].pc \in Executing
      BY <1>2 DEF Attempts, HasTerminal
    <3>1. active[n] # NoPost => active[n] \in Post
      BY DEF Parts, Types
    <3>2. active[m] = p /\ req[p].fresh /\ p # NoPost
      BY <1>7, ConstantsAssumption DEF OwnsAttempt
    <3>3. CASE n = m
      BY <1>7, <2>5, <2>6, <3>2, <3>3 DEF Pending, Executing
    <3>4. CASE n # m
      <4>1. active[n] # p
        BY <1>1, <3>4, ConstantsAssumption DEF Parts, Attempts
      <4> QED BY <1>7, <2>6, <3>1, <3>4, <4>1 DEF Parts, Attempts
    <3> QED BY <3>3, <3>4
  <2>14. ReceiptsAreTrue'
    <3> SUFFICES ASSUME NEW i \in DOMAIN terminal
                 PROVE  /\ terminal[i].status = "known_no_effect" =>
                             /\ req'[terminal[i].by].pc = "done"
                             /\ terminal[i].by \notin taken /\ ~req'[terminal[i].by].wire
                        /\ terminal[i].status = "succeeded" => terminal[i].m \in Transcript
      BY <1>2, <2>9 DEF ReceiptsAreTrue, NotSent
    <3>1. terminal[i] \in Receipt
      BY LenProperties, ElementOfSeq DEF Parts, Types
    <3>2. terminal[i].by \in Post
      BY <3>1 DEF Receipt
    <3> QED BY <1>1, <2>7, <3>2 DEF Parts, ReceiptsAreTrue, NotSent, Moves
  <2> QED BY <2>6, <2>9, <2>10, <2>12, <2>13, <2>14 DEF Parts
<1> QED BY <1>4, <1>5, <1>6, <1>7

-----------------------------------------------------------------------------
(* Steps of the rest of the system.                                         *)

LEMMA SurroundingsInd ==
  ASSUME Parts, ReplaceDocument \/ Disconnect
  PROVE  Parts'
<1>1. /\ UNCHANGED <<active, executing, terminal, source, req, taken, slots, file, pins, bytes>>
      /\ gen' \in 1..MaxGen /\ doc' \in 1..MaxDoc
  BY ConstantsAssumption DEF Parts, Types, ReplaceDocument, Disconnect, registry, attachment
<1>2. Types' /\ Requests' /\ UniqueReceipts' /\ Slots' /\ Attempts'
  BY <1>1 DEF Parts, Types, Requests, UniqueReceipts, Slots, Attempts, HasTerminal
<1>3. Transcript' = Transcript
  BY <1>1 DEF Transcript
<1>4. Silent' /\ Unsent' /\ ReceiptsAreTrue' /\ ResultsAreTrue' /\ SuccessIsTrue'
  BY <1>1, <1>3 DEF Parts, Silent, Unsent, NotSent, ReceiptsAreTrue, ResultsAreTrue, SuccessIsTrue
<1>5. OneHolder' /\ Bytes' /\ PinsHold'
  BY <1>1 DEF Parts, OneHolder, Holds, Bytes, PinsHold
<1> QED BY <1>2, <1>4, <1>5 DEF Parts

LEMMA RetireFileInd ==
  ASSUME Parts, RetireFile
  PROVE  Parts'
<1>1. /\ UNCHANGED <<gen, doc, active, executing, terminal, source, req, taken, slots, pins>>
      /\ file' = "gone" /\ bytes' \in BOOLEAN /\ (bytes' <=> pins # {})
  BY DEF RetireFile, registry
<1>2. Types' /\ Requests' /\ UniqueReceipts' /\ Slots' /\ Attempts'
  BY <1>1 DEF Parts, Types, Requests, UniqueReceipts, Slots, Attempts, HasTerminal
<1>3. Transcript' = Transcript
  BY <1>1 DEF Transcript
<1>4. Silent' /\ Unsent' /\ ReceiptsAreTrue' /\ ResultsAreTrue' /\ SuccessIsTrue'
  BY <1>1, <1>3 DEF Parts, Silent, Unsent, NotSent, ReceiptsAreTrue, ResultsAreTrue, SuccessIsTrue
<1>5. OneHolder' /\ Bytes' /\ PinsHold'
  BY <1>1 DEF Parts, OneHolder, Holds, Bytes, PinsHold
<1> QED BY <1>2, <1>4, <1>5 DEF Parts

LEMMA BackendResetInd ==
  ASSUME Parts, BackendReset
  PROVE  Parts'
<1>1. /\ UNCHANGED <<doc, taken, file, pins, bytes>> /\ gen' \in 1..MaxGen
      /\ active' = [m \in Mutation |-> NoPost] /\ executing' = {} /\ terminal' = <<>>
      /\ source' = [m \in Mutation |-> 0] /\ slots' = [m \in Mutation |-> 0]
      /\ req' = [p \in Post |-> [req[p] EXCEPT !.wire = FALSE]]
  BY ConstantsAssumption DEF Parts, Types, BackendReset, attachment
<1>2. \A p \in Post : req[p] \in Request
  BY DEF Parts, Requests
<1>3. \A p \in Post :
        /\ req'[p] \in Request /\ ~req'[p].wire
        /\ req'[p].pc = req[p].pc /\ req'[p].m = req[p].m /\ req'[p].fresh = req[p].fresh
        /\ req'[p].withFile = req[p].withFile /\ req'[p].res = req[p].res /\ req'[p].told = req[p].told
  BY <1>1, <1>2 DEF Request
<1>4. Requests'
  BY <1>1, <1>3 DEF Requests
<1>5. \A i \in DOMAIN terminal' : FALSE
  BY <1>1
<1>6. UniqueReceipts' /\ Slots' /\ Attempts' /\ ReceiptsAreTrue'
  BY <1>1, <1>5 DEF UniqueReceipts, Slots, Attempts, ReceiptsAreTrue
<1>7. terminal' \in Seq(Receipt) /\ Len(terminal') <= ResultLimit
  BY <1>1, ConstantsAssumption
<1>8. Types'
  BY <1>1, <1>7, ConstantsAssumption DEF Parts, Types
<1>9. Transcript' = Transcript
  <2>1. \A p \in taken : req'[p].m = req[p].m
    BY <1>3 DEF Parts, Types
  <2> QED BY <1>1, <2>1 DEF Transcript
<1>10. Silent' /\ Unsent'
  BY <1>1, <1>3 DEF Parts, Silent, Unsent, NotSent
<1>11. ResultsAreTrue' /\ SuccessIsTrue'
  BY <1>3, <1>9 DEF Parts, ResultsAreTrue, SuccessIsTrue
<1>12. \A p \in Post : Holds(p)' => Holds(p)
  BY <1>1, <1>3 DEF Holds
<1>13. OneHolder' /\ Bytes' /\ PinsHold'
  BY <1>1, <1>3, <1>12 DEF Parts, Types, OneHolder, Bytes, PinsHold
<1> QED BY <1>4, <1>6, <1>8, <1>10, <1>11, <1>13 DEF Parts

-----------------------------------------------------------------------------
(* The steps that write a receipt.                                          *)

\* _finish: the request is over.
LEMMA FinishFacts ==
  ASSUME Requests, NEW p \in Post, NEW told \in Told, Finish(p, told)
  PROVE  /\ Requests' /\ \A q \in Post : q # p => req'[q] = req[q]
         /\ req'[p].pc = "done" /\ req'[p].told = told /\ req'[p].wire = req[p].wire
         /\ req'[p].m = req[p].m /\ req'[p].fresh = req[p].fresh /\ req'[p].withFile = req[p].withFile
<1> DEFINE r == [req[p] EXCEPT !.pc = "done", !.told = told, !.gen = 1, !.doc = 1,
                               !.res = "known_no_effect"]
<1>1. req[p] \in Request /\ 1 \in 1..MaxGen /\ 1 \in 1..MaxDoc
  BY ConstantsAssumption DEF Requests
<1>2. r \in Request
  BY <1>1 DEF Request, Pc, Outcome
<1>3. req' = [req EXCEPT ![p] = r]
  BY DEF Finish
<1>4. /\ r.pc = "done" /\ r.told = told /\ r.wire = req[p].wire /\ r.m = req[p].m
      /\ r.fresh = req[p].fresh /\ r.withFile = req[p].withFile
  BY <1>1 DEF Request
<1> HIDE DEF r
<1> QED BY <1>2, <1>3, <1>4 DEF Requests

\* A request ends: it settles its attempt with receipt r, or it leaves the
\* registry alone because it has no attempt.
LEMMA AttemptEnds ==
  ASSUME Parts, NEW p \in Post, NEW told \in Told, Finish(p, told),
         req[p].pc \in {"abandoning", "settling"}, p \notin pins,
         told = "succeeded" => req[p].m \in Transcript,
         UNCHANGED <<gen, doc, taken, attachment>>,
         \/ UNCHANGED <<registry, slots>> /\ active[req[p].m] # p
         \/ \E status \in Outcome :
              /\ Retire(req[p].m) /\ Remember([m |-> req[p].m, status |-> status, by |-> p])
              /\ status = "known_no_effect" => NotSent(p)
              /\ status = "succeeded" => req[p].m \in Transcript
  PROVE  Parts'
<1>1. /\ Requests' /\ \A q \in Post : q # p => req'[q] = req[q]
      /\ req'[p].pc = "done" /\ req'[p].told = told /\ req'[p].wire = req[p].wire
      /\ req'[p].m = req[p].m /\ req'[p].fresh = req[p].fresh /\ req'[p].withFile = req[p].withFile
  BY FinishFacts DEF Parts
<1>2. Moves(p)
  BY <1>1 DEF Moves
<1>3. TellsTheTruth(p) /\ LeavesFile(p)
  BY <1>1 DEF TellsTheTruth, LeavesFile, MayRead
<1>4. UNCHANGED <<taken, file, pins, bytes>>
  BY DEF attachment
<1>5. Transcript' = Transcript /\ Silent' /\ Unsent' /\ ResultsAreTrue' /\ SuccessIsTrue'
  BY <1>2, <1>3, <1>4, RequestSteps
<1>6. OneHolder' /\ Bytes' /\ PinsHold'
  BY <1>2, <1>3, <1>4, FileStays
<1>7. CASE UNCHANGED <<registry, slots>> /\ active[req[p].m] # p
  <2>1. UNCHANGED <<active, executing, terminal, source, slots>>
    BY <1>7 DEF registry
  <2>2. Respects(p)
    BY <1>1, <1>7 DEF Respects
  <2>3. UniqueReceipts' /\ Slots' /\ Attempts' /\ ReceiptsAreTrue'
    BY <1>2, <1>4, <1>5, <2>1, <2>2, ReceiptsStay DEF Respects
  <2>4. Types'
    BY <1>4, <2>1 DEF Parts, Types
  <2> QED BY <1>1, <1>5, <1>6, <2>3, <2>4 DEF Parts
<1>8. ASSUME NEW status \in Outcome,
             Retire(req[p].m), Remember([m |-> req[p].m, status |-> status, by |-> p]),
             status = "known_no_effect" => NotSent(p),
             status = "succeeded" => req[p].m \in Transcript
      PROVE  Parts'
  <2> DEFINE r == [m |-> req[p].m, status |-> status, by |-> p]
  <2>1. req[p].m \in Mutation
    BY DEF Parts, Requests, Request
  <2>2. r \in Receipt /\ r.m = req[p].m /\ r.status = status /\ r.by = p /\ Remember(r)
    BY <1>8, <2>1 DEF Receipt
  <2> HIDE DEF r
  <2>3. /\ \A m \in Mutation : active'[m] = IF m = r.m THEN NoPost ELSE active[m]
        /\ \A m \in Mutation : m \in executing' <=> m \in executing /\ m # r.m
        /\ active' \in [Mutation -> Post \cup {NoPost}] /\ executing' \subseteq Mutation
    BY <1>8, <2>2 DEF Retire, Parts, Types
  <2>4. r.status = "known_no_effect" =>
          req'[r.by].pc = "done" /\ r.by \notin taken /\ ~req'[r.by].wire
    BY <1>1, <1>8, <2>2 DEF NotSent
  <2>5. \A q \in Post :
          /\ req[q].pc = "done" => req'[q].pc = "done" /\ (req'[q].wire => req[q].wire)
          /\ req[q].m # r.m => req'[q] = req[q]
    BY <1>1, <2>2
  <2>6. /\ UniqueReceipts' /\ Slots' /\ Attempts' /\ ReceiptsAreTrue'
        /\ terminal' \in Seq(Receipt) /\ Len(terminal') <= ResultLimit
        /\ source' \in [Mutation -> 0..MaxDoc] /\ slots' \in [Mutation -> Nat]
    BY <1>4, <1>5, <1>8, <2>2, <2>3, <2>4, <2>5, ReceiptWritten
  <2>7. Types'
    BY <1>4, <2>3, <2>6 DEF Parts, Types
  <2> QED BY <1>1, <1>5, <1>6, <2>6, <2>7 DEF Parts
<1> QED BY <1>7, <1>8

LEMMA ReturnCapturedInd ==
  ASSUME Parts, NEW p \in Post, ReturnCaptured(p)
  PROVE  Parts'
<1>1. /\ req[p].pc = "answered" /\ ReturnFile(p) /\ Finish(p, req[p].res)
      /\ UNCHANGED <<gen, doc, active, executing, terminal, source, taken, slots>>
  BY DEF ReturnCaptured, registry
<1>2. req[p].res \in Told /\ (req[p].res = "succeeded" => req[p].m \in Transcript)
  BY <1>1 DEF Parts, Requests, Request, Told, ResultsAreTrue
<1>3. /\ Requests' /\ \A q \in Post : q # p => req'[q] = req[q]
      /\ req'[p].pc = "done" /\ req'[p].told = req[p].res /\ req'[p].wire = req[p].wire
      /\ req'[p].m = req[p].m /\ req'[p].fresh = req[p].fresh /\ req'[p].withFile = req[p].withFile
  BY <1>1, <1>2, FinishFacts DEF Parts
<1>4. Moves(p)
  BY <1>3 DEF Moves
<1>5. Respects(p) /\ TellsTheTruth(p)
  BY <1>1, <1>2, <1>3 DEF Respects, TellsTheTruth, Pending, Executing
<1>6. Transcript' = Transcript /\ Silent' /\ Unsent' /\ ResultsAreTrue' /\ SuccessIsTrue'
  BY <1>1, <1>4, <1>5, RequestSteps
<1>7. UniqueReceipts' /\ Slots' /\ Attempts' /\ ReceiptsAreTrue'
  BY <1>1, <1>3, <1>4, <1>5, <1>6, ReceiptsStay
<1>8. /\ file' \in {"pending", "submitted", "gone"} /\ pins' \subseteq Post /\ bytes' \in BOOLEAN
      /\ OneHolder' /\ Bytes' /\ PinsHold'
  BY <1>1, <1>3, <1>4, ReturnFileFacts DEF MayRead
<1>9. Types'
  BY <1>1, <1>8 DEF Parts, Types
<1> QED BY <1>3, <1>6, <1>7, <1>8, <1>9 DEF Parts

LEMMA AbandonInd ==
  ASSUME Parts, NEW p \in Post, Abandon(p)
  PROVE  Parts'
<1>1. /\ Finish(p, "error") /\ "error" \in Told /\ req[p].pc = "abandoning"
      /\ UNCHANGED <<gen, doc, taken, attachment>>
  BY DEF Abandon, Told
<1>2. p \notin pins /\ NotSent(p)
  BY <1>1 DEF Parts, PinsHold, Unsent
<1>3. CASE OwnsAttempt(p) /\ req[p].m \notin executing
  <2>1. /\ Retire(req[p].m) /\ "known_no_effect" \in Outcome
        /\ Remember([m |-> req[p].m, status |-> "known_no_effect", by |-> p])
    BY <1>3 DEF Abandon, Outcome
  <2> QED BY <1>1, <1>2, <2>1, AttemptEnds
<1>4. CASE ~(OwnsAttempt(p) /\ req[p].m \notin executing)
  <2>1. UNCHANGED <<registry, slots>>
    BY <1>4 DEF Abandon
  <2>2. active[req[p].m] # p
    <3>1. req[p].m \in Mutation
      BY DEF Parts, Requests, Request
    <3>2. CASE active[req[p].m] = p
      <4>1. req[p].fresh /\ req[p].m \notin executing
        BY <1>1, <3>1, <3>2, ConstantsAssumption DEF Parts, Attempts, Executing
      <4> QED BY <1>4, <3>2, <4>1 DEF OwnsAttempt
    <3> QED BY <3>2
  <2> QED BY <1>1, <1>2, <2>1, <2>2, AttemptEnds
<1> QED BY <1>3, <1>4

LEMMA SettleInd ==
  ASSUME Parts, NEW p \in Post, Settle(p)
  PROVE  Parts'
<1> DEFINE m == req[p].m
<1>1. /\ req[p].pc = "settling" /\ p \notin pins /\ UNCHANGED <<gen, doc, taken, attachment>>
      /\ m \in Mutation /\ req[p].res \in Outcome
  BY DEF Settle, Parts, PinsHold, Requests, Request
<1>2. CASE HasTerminal(m)
  <2>1. Finish(p, TerminalOf(m).status) /\ UNCHANGED <<registry, slots>>
    BY <1>2 DEF Settle
  <2>2. TerminalOf(m).status \in Told /\ (TerminalOf(m).status = "succeeded" => m \in Transcript)
    BY <1>1, <1>2, TerminalFacts DEF Parts, ReceiptsAreTrue, Receipt, Told
  <2>3. active[m] # p
    BY <1>1, <1>2, ConstantsAssumption DEF Parts, Attempts
  <2> QED BY <1>1, <2>1, <2>2, <2>3, AttemptEnds
<1>3. CASE ~HasTerminal(m) /\ OwnsAttempt(p)
  <2>1. /\ Retire(m) /\ Remember([m |-> m, status |-> req[p].res, by |-> p])
        /\ Finish(p, req[p].res) /\ req[p].res \in Told
    BY <1>1, <1>3 DEF Settle, Told
  <2>2. /\ req[p].res = "known_no_effect" => NotSent(p)
        /\ req[p].res = "succeeded" => m \in Transcript
    BY <1>1 DEF Parts, Unsent, ResultsAreTrue
  <2> QED BY <1>1, <2>1, <2>2, AttemptEnds
<1>4. CASE ~HasTerminal(m) /\ ~OwnsAttempt(p)
  <2>1. Finish(p, "error") /\ "error" \in Told /\ UNCHANGED <<registry, slots>>
    BY <1>4 DEF Settle, Told
  <2>2. active[m] # p
    BY <1>1, <1>4, ConstantsAssumption DEF Parts, Attempts, OwnsAttempt
  <2> QED BY <1>1, <2>1, <2>2, AttemptEnds
<1> QED BY <1>2, <1>3, <1>4

LEMMA ReconcileInd ==
  ASSUME Parts, NEW m \in Mutation, Reconcile(m)
  PROVE  Parts'
<1>1. m \in Transcript /\ UNCHANGED <<gen, doc, req, taken, file, pins, bytes>>
  BY DEF Reconcile, attachment
<1>2. Transcript' = Transcript
  BY <1>1 DEF Transcript
<1>3. ASSUME NEW r \in Receipt, r.m = m, r.status = "succeeded", Remember(r),
             \A n \in Mutation : active'[n] = IF n = r.m THEN NoPost ELSE active[n],
             \A n \in Mutation : n \in executing' <=> n \in executing /\ n # r.m,
             active' \in [Mutation -> Post \cup {NoPost}], executing' \subseteq Mutation
      PROVE  Parts'
  <2>1. /\ UniqueReceipts' /\ Slots' /\ Attempts' /\ ReceiptsAreTrue'
        /\ terminal' \in Seq(Receipt) /\ Len(terminal') <= ResultLimit
        /\ source' \in [Mutation -> 0..MaxDoc] /\ slots' \in [Mutation -> Nat]
    BY <1>1, <1>2, <1>3, ReceiptWritten
  <2>2. Types' /\ Requests'
    BY <1>1, <1>3, <2>1 DEF Parts, Types, Requests
  <2>3. Silent' /\ Unsent' /\ ResultsAreTrue' /\ SuccessIsTrue' /\ OneHolder' /\ Bytes' /\ PinsHold'
    BY <1>1, <1>2
       DEF Parts, Silent, Unsent, NotSent, ResultsAreTrue, SuccessIsTrue, OneHolder, Holds, Bytes, PinsHold
  <2> QED BY <2>1, <2>2, <2>3 DEF Parts
<1>4. CASE /\ active[m] # NoPost /\ Retire(m)
           /\ Remember([m |-> m, status |-> "succeeded", by |-> active[m]])
  <2> DEFINE r == [m |-> m, status |-> "succeeded", by |-> active[m]]
  <2>1. active[m] \in Post
    BY <1>4 DEF Parts, Types
  <2>2. r \in Receipt /\ r.m = m /\ r.status = "succeeded" /\ Remember(r)
    BY <1>4, <2>1 DEF Receipt, Outcome
  <2> HIDE DEF r
  <2>3. /\ \A n \in Mutation : active'[n] = IF n = r.m THEN NoPost ELSE active[n]
        /\ \A n \in Mutation : n \in executing' <=> n \in executing /\ n # r.m
        /\ active' \in [Mutation -> Post \cup {NoPost}] /\ executing' \subseteq Mutation
    BY <1>4, <2>2 DEF Retire, Parts, Types
  <2> QED BY <1>3, <2>2, <2>3
<1>5. CASE /\ active[m] = NoPost /\ HasTerminal(m)
           /\ Remember([TerminalOf(m) EXCEPT !.status = "succeeded"])
           /\ UNCHANGED <<active, executing>>
  <2> DEFINE r == [TerminalOf(m) EXCEPT !.status = "succeeded"]
  <2>1. TerminalOf(m) \in Receipt /\ TerminalOf(m).m = m
    BY <1>5, TerminalFacts DEF Parts
  <2>2. r \in Receipt /\ r.m = m /\ r.status = "succeeded" /\ Remember(r)
    BY <1>5, <2>1 DEF Receipt, Outcome
  <2> HIDE DEF r
  <2>3. /\ \A n \in Mutation : active'[n] = IF n = r.m THEN NoPost ELSE active[n]
        /\ \A n \in Mutation : n \in executing' <=> n \in executing /\ n # r.m
        /\ active' \in [Mutation -> Post \cup {NoPost}] /\ executing' \subseteq Mutation
    BY <1>5, <2>2 DEF Parts, Types, Attempts
  <2> QED BY <1>3, <2>2, <2>3
<1> QED BY <1>4, <1>5 DEF Reconcile

-----------------------------------------------------------------------------
(* The invariant.                                                           *)

LEMMA PromptInit == Init => PromptInd
<1> SUFFICES ASSUME Init PROVE Parts
  BY PromptParts
<1>1. (CHOOSE m \in Mutation : TRUE) \in Mutation
  BY ConstantsAssumption
<1>2. \A p \in Post :
        /\ req[p].pc = "idle" /\ req[p].told = "none" /\ ~req[p].wire /\ ~req[p].withFile
        /\ req[p] \in Request
  BY <1>1, ConstantsAssumption DEF Init, Request, Pc, Outcome, Told
<1>3. req \in [Post -> Request]
  BY <1>2 DEF Init
<1>4. terminal \in Seq(Receipt) /\ Len(terminal) <= ResultLimit /\ \A i \in DOMAIN terminal : FALSE
  BY ConstantsAssumption DEF Init
<1>5. Types /\ Requests
  BY <1>3, <1>4, ConstantsAssumption DEF Init, Types, Requests
<1>6. UniqueReceipts /\ Attempts /\ Slots /\ ReceiptsAreTrue
  BY <1>4 DEF Init, UniqueReceipts, Attempts, Slots, ReceiptsAreTrue
<1>7. Silent /\ Unsent /\ ResultsAreTrue /\ SuccessIsTrue
  BY <1>2 DEF Init, Silent, Unsent, NotSent, ResultsAreTrue, SuccessIsTrue
<1>8. OneHolder /\ Bytes /\ PinsHold
  BY <1>2 DEF Init, OneHolder, Holds, Bytes, PinsHold
<1> QED BY <1>5, <1>6, <1>7, <1>8 DEF Parts

LEMMA PromptStep == PromptInd /\ [Next]_vars => PromptInd'
<1> SUFFICES ASSUME Parts, [Next]_vars PROVE Parts'
  BY PromptParts, PTL
<1>1. ASSUME NEW p \in Post, Worker(p) \/ Start(p) \/ CancelHandler(p) \/ Take(p)
      PROVE  Parts'
  BY <1>1, AbandonInd, ReadDuplicateInd, RefuseInd, ClaimFileInd, ClaimEffectInd, SendInd, ReplyInd,
     SettleFileInd, ReturnCapturedInd, SettleInd, StartInd, CancelHandlerInd, TakeInd DEF Worker
<1>2. ASSUME NEW p \in Post, NEW m \in Mutation, PrepareRefused(p, m) PROVE Parts'
  BY <1>2, PrepareRefusedInd
<1>3. ASSUME NEW p \in Post, NEW m \in Mutation, NEW f \in BOOLEAN, Prepare(p, m, f) PROVE Parts'
  BY <1>3, PrepareInd
<1>4. ASSUME NEW m \in Mutation, Reconcile(m) PROVE Parts'
  BY <1>4, ReconcileInd
<1>5. CASE ReplaceDocument \/ Disconnect
  BY <1>5, SurroundingsInd
<1>6. CASE BackendReset
  BY <1>6, BackendResetInd
<1>7. CASE RetireFile
  BY <1>7, RetireFileInd
<1>8. CASE UNCHANGED vars
  <2>1. UNCHANGED <<gen, doc, active, executing, terminal, source, req, taken, slots, file, pins, bytes>>
    BY <1>8 DEF vars, registry, attachment
  <2>2. Types' /\ Requests' /\ UniqueReceipts' /\ Slots' /\ Attempts'
    BY <2>1 DEF Parts, Types, Requests, UniqueReceipts, Slots, Attempts, HasTerminal
  <2>3. Transcript' = Transcript
    BY <2>1 DEF Transcript
  <2>4. Silent' /\ Unsent' /\ ReceiptsAreTrue' /\ ResultsAreTrue' /\ SuccessIsTrue'
    BY <2>1, <2>3 DEF Parts, Silent, Unsent, NotSent, ReceiptsAreTrue, ResultsAreTrue, SuccessIsTrue
  <2>5. OneHolder' /\ Bytes' /\ PinsHold'
    BY <2>1 DEF Parts, OneHolder, Holds, Bytes, PinsHold
  <2> QED BY <2>2, <2>4, <2>5 DEF Parts
<1> QED BY <1>1, <1>2, <1>3, <1>4, <1>5, <1>6, <1>7, <1>8 DEF Next

LEMMA HolderSendsOnce == Parts => FileSentOnce
<1> SUFFICES ASSUME Parts PROVE FileSentOnce
  OBVIOUS
<1> DEFINE sent == {p \in taken : req[p].withFile}
<1>1. \A p, q \in sent : p = q
  BY DEF Parts, Types, OneHolder, Holds
<1>2. CASE sent = {}
  BY <1>2, FS_EmptySet DEF FileSentOnce
<1>3. CASE sent # {}
  <2>1. PICK p \in sent : TRUE
    BY <1>3
  <2>2. sent = {p}
    BY <1>1, <2>1
  <2>3. Cardinality(sent) = 1
    BY <2>2, FS_Singleton
  <2> QED BY <2>3 DEF FileSentOnce
<1> QED BY <1>2, <1>3

LEMMA PromptIndSafe == PromptInd => PromptInvariant
<1> SUFFICES ASSUME PromptInd, Parts PROVE PromptInvariant
  BY PromptParts
<1>1. OneSlot
  BY DEF Parts, Slots, OneSlot
<1>2. NoEffectIsTrue
  BY DEF Parts, ReceiptsAreTrue, NotSent, NoEffectIsTrue
<1> QED BY <1>1, <1>2, HolderSendsOnce DEF PromptInd, PromptInvariant

\* Whatever requests are repeated, abandoned, lost or reset, in every reachable
\* state a receipt that says "known no effect" (prompt_submission.py) is of an
\* input that the app-server neither took nor can take, a success is of one that
\* it took, a mutation gets one effect slot per receipt, a file reaches the
\* app-server in one input and is there while a worker may read it.
THEOREM PromptSafety == Spec => []PromptInvariant
<1>1. Spec => []PromptInd
  BY PromptInit, PromptStep, PTL DEF Spec
<1> QED BY <1>1, PromptIndSafe, PTL

-----------------------------------------------------------------------------
(* Receipts are final.                                                      *)

LEMMA OtherReceiptsStay ==
  ASSUME Parts, NEW r \in Receipt, Remember(r), NEW m \in Mutation, m # r.m,
         HasTerminal(m), HasTerminal(m)'
  PROVE  TerminalOf(m)' = TerminalOf(m)
<1>1. /\ UniqueReceipts'
      /\ \A i \in DOMAIN terminal' :
           \/ terminal'[i] = r
           \/ terminal'[i].m # r.m /\ \E j \in DOMAIN terminal : terminal'[i] = terminal[j]
  <2>1. /\ terminal \in Seq(Receipt) /\ Len(terminal) <= ResultLimit /\ UniqueReceipts
        /\ source \in [Mutation -> 0..MaxDoc] /\ slots \in [Mutation -> Nat]
    BY DEF Parts, Types
  <2> QED BY <2>1, RememberFacts
<1> DEFINE i == CHOOSE i \in DOMAIN terminal' : terminal'[i].m = m
           j == CHOOSE j \in DOMAIN terminal : terminal[j].m = m
<1>2. i \in DOMAIN terminal' /\ terminal'[i].m = m /\ TerminalOf(m)' = terminal'[i]
  BY DEF HasTerminal, TerminalOf
<1>3. j \in DOMAIN terminal /\ terminal[j].m = m /\ TerminalOf(m) = terminal[j]
  BY DEF HasTerminal, TerminalOf
<1> HIDE DEF i, j
<1>4. PICK k \in DOMAIN terminal : terminal'[i] = terminal[k]
  BY <1>1, <1>2
<1>5. k = j
  BY <1>2, <1>3, <1>4 DEF Parts, UniqueReceipts
<1> QED BY <1>2, <1>3, <1>4, <1>5

LEMMA NewReceiptIsRead ==
  ASSUME Parts, NEW r \in Receipt, Remember(r)
  PROVE  TerminalOf(r.m)' = r
<1>1. UniqueReceipts' /\ \E i \in DOMAIN terminal' : terminal'[i] = r
  <2>1. /\ terminal \in Seq(Receipt) /\ Len(terminal) <= ResultLimit /\ UniqueReceipts
        /\ source \in [Mutation -> 0..MaxDoc] /\ slots \in [Mutation -> Nat]
    BY DEF Parts, Types
  <2> QED BY <2>1, RememberFacts
<1>2. PICK k \in DOMAIN terminal' : terminal'[k] = r
  BY <1>1
<1> DEFINE i == CHOOSE i \in DOMAIN terminal' : terminal'[i].m = r.m
<1>3. i \in DOMAIN terminal' /\ terminal'[i].m = r.m
  BY <1>2
<1>4. \A m : TerminalOf(m)' = terminal'[CHOOSE x \in DOMAIN terminal' : terminal'[x].m = m]
  BY DEF TerminalOf
<1> HIDE DEF i
<1>5. i = k
  BY <1>1, <1>2, <1>3 DEF UniqueReceipts
<1> QED BY <1>2, <1>4, <1>5 DEF i

FinalStep ==
  \A m \in Mutation :
    HasTerminal(m) /\ HasTerminal(m)' /\ TerminalOf(m)' # TerminalOf(m) =>
      TerminalOf(m).status = "outcome_unknown" /\ TerminalOf(m)'.status = "succeeded"

\* A step that writes a receipt for a mutation without one changes no other.
LEMMA FirstReceiptIsFinal ==
  ASSUME Parts, NEW r \in Receipt, Remember(r), ~HasTerminal(r.m)
  PROVE  FinalStep
BY OtherReceiptsStay DEF FinalStep

LEMMA ReceiptStep ==
  ASSUME Parts, [Next]_vars
  PROVE  FinalStep
<1>1. CASE terminal' = terminal
  BY <1>1 DEF FinalStep, TerminalOf
<1>2. CASE terminal' = <<>>
  BY <1>2 DEF FinalStep, HasTerminal
<1>3. ASSUME NEW p \in Post, Abandon(p) \/ Settle(p), terminal' # terminal PROVE FinalStep
  <2>1. OwnsAttempt(p) /\ \E s \in Outcome : Remember([m |-> req[p].m, status |-> s, by |-> p])
    <3>1. req[p].res \in Outcome /\ "known_no_effect" \in Outcome
      BY DEF Parts, Requests, Request, Outcome
    <3> QED BY <1>3, <3>1 DEF Abandon, Settle, registry
  <2>2. PICK s \in Outcome : Remember([m |-> req[p].m, status |-> s, by |-> p])
    BY <2>1
  <2> DEFINE r == [m |-> req[p].m, status |-> s, by |-> p]
  <2>3. req[p].m \in Mutation
    BY DEF Parts, Requests, Request
  <2>4. ~HasTerminal(req[p].m)
    BY <2>1, <2>3, ConstantsAssumption DEF OwnsAttempt, Parts, Attempts
  <2>5. r \in Receipt /\ r.m = req[p].m /\ Remember(r)
    BY <2>2, <2>3 DEF Receipt
  <2> HIDE DEF r
  <2> QED BY <2>4, <2>5, FirstReceiptIsFinal
<1>4. ASSUME NEW m \in Mutation, Reconcile(m) PROVE FinalStep
  <2>1. CASE active[m] # NoPost /\ Remember([m |-> m, status |-> "succeeded", by |-> active[m]])
    <3> DEFINE r == [m |-> m, status |-> "succeeded", by |-> active[m]]
    <3>1. active[m] \in Post /\ ~HasTerminal(m)
      BY <2>1 DEF Parts, Types, Attempts
    <3>2. r \in Receipt /\ r.m = m /\ Remember(r)
      BY <2>1, <3>1 DEF Receipt, Outcome
    <3> HIDE DEF r
    <3> QED BY <3>1, <3>2, FirstReceiptIsFinal
  <2>2. CASE /\ HasTerminal(m) /\ TerminalOf(m).status = "outcome_unknown"
             /\ Remember([TerminalOf(m) EXCEPT !.status = "succeeded"])
    <3> DEFINE r == [TerminalOf(m) EXCEPT !.status = "succeeded"]
    <3>1. TerminalOf(m) \in Receipt /\ TerminalOf(m).m = m
      BY <2>2, TerminalFacts DEF Parts
    <3>2. r \in Receipt /\ r.m = m /\ r.status = "succeeded" /\ Remember(r)
      BY <2>2, <3>1 DEF Receipt, Outcome
    <3> HIDE DEF r
    <3>3. TerminalOf(m)' = r
      BY <3>2, NewReceiptIsRead
    <3>4. \A n \in Mutation : n # m /\ HasTerminal(n) /\ HasTerminal(n)' => TerminalOf(n)' = TerminalOf(n)
      BY <3>2, OtherReceiptsStay
    <3> QED BY <2>2, <3>2, <3>3, <3>4 DEF FinalStep
  <2> QED BY <1>4, <2>1, <2>2 DEF Reconcile
<1>5. ASSUME NEW p \in Post,
             \/ ReadDuplicate(p) \/ Refuse(p) \/ ClaimFile(p) \/ ClaimEffect(p) \/ Send(p) \/ Reply(p)
             \/ SettleFile(p) \/ ReturnCaptured(p) \/ Start(p) \/ CancelHandler(p) \/ Take(p)
             \/ \E m \in Mutation : PrepareRefused(p, m) \/ \E f \in BOOLEAN : Prepare(p, m, f)
      PROVE  terminal' = terminal
  <2>1. CASE \/ ReadDuplicate(p) \/ Refuse(p) \/ ClaimFile(p) \/ ClaimEffect(p) \/ Send(p) \/ Reply(p)
    BY <2>1 DEF ReadDuplicate, Refuse, ClaimFile, ClaimEffect, Send, Reply, registry
  <2>2. CASE SettleFile(p) \/ ReturnCaptured(p) \/ Start(p) \/ CancelHandler(p) \/ Take(p)
    BY <2>2 DEF SettleFile, ReturnCaptured, Start, CancelHandler, Take, registry
  <2>3. CASE \E m \in Mutation : PrepareRefused(p, m) \/ \E f \in BOOLEAN : Prepare(p, m, f)
    BY <2>3 DEF PrepareRefused, Prepare, Begin, registry
  <2> QED BY <1>5, <2>1, <2>2, <2>3
<1>6. ASSUME ReplaceDocument \/ Disconnect \/ BackendReset \/ RetireFile \/ UNCHANGED vars
      PROVE  terminal' = terminal \/ terminal' = <<>>
  BY <1>6 DEF ReplaceDocument, Disconnect, BackendReset, RetireFile, registry, vars
<1>7. CASE \E p \in Post : Worker(p) \/ Start(p) \/ CancelHandler(p) \/ Take(p)
  BY <1>1, <1>3, <1>5, <1>7 DEF Worker
<1>8. CASE \/ \E p \in Post, m \in Mutation : PrepareRefused(p, m)
           \/ \E p \in Post, m \in Mutation, f \in BOOLEAN : Prepare(p, m, f)
  BY <1>1, <1>5, <1>8
<1> QED BY <1>1, <1>2, <1>4, <1>6, <1>7, <1>8 DEF Next

\* Once a receipt is settled it stays as the browser read it, unless the
\* transcript later proves that an unknown outcome was a success
\* (reconcile_turns): no late worker, abandonment or retry rewrites it.
THEOREM ReceiptsStayFinal == Spec => ReceiptsAreFinal
<1>1. Spec => []PromptInd
  BY PromptInit, PromptStep, PTL DEF Spec
<1>2. PromptInd /\ [Next]_vars => [FinalStep]_vars
  BY PromptParts, ReceiptStep
<1>3. Spec => [][FinalStep]_vars
  BY <1>1, <1>2, PTL DEF Spec
<1> QED BY <1>3 DEF ReceiptsAreFinal, FinalStep
=============================================================================
