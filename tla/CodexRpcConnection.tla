------------------------- MODULE CodexRpcConnection -------------------------
(***************************************************************************)
(* The websocket client of the Codex app-server:                           *)
(* bot/codex_protocol/connection.py (handshake, reader, pending requests), *)
(* stop_barrier.py (single-flight, retryable stop) and managed_process.py. *)
(*                                                                         *)
(* Client threads start and stop the connection; a request is an actor of  *)
(* its own, pinned to the generation it saw READY.  What the code does     *)
(* under the identity lock is one action.                                  *)
(***************************************************************************)
EXTENDS Naturals, Sequences, FiniteSets

CONSTANTS
  Client,       \* threads that start and stop
  MaxSocket,       \* bound: websockets ever opened
  MaxAttempt,   \* bound: handshake attempts
  MaxReq,       \* bound: requests
  MaxNote,      \* bound: notifications of the server
  MaxFail,      \* bound: failures of start, handshake and drain
  MaxStop,      \* bound: calls of stop()
  NoClient, NoRes

ConnectionAssumption ==
  /\ MaxSocket \in Nat /\ MaxAttempt \in Nat /\ MaxReq \in Nat /\ MaxNote \in Nat
  /\ MaxFail \in Nat /\ MaxStop \in Nat /\ NoClient \notin Client

Gens == 1..MaxSocket
Raw == MaxSocket + 1        \* a socket that never got a reader
Req == 1..MaxReq

VARIABLES
  state, ws, gen,               \* _connection_state, _ws, _connection_generation
  owner, hsGen, attempt,        \* the handshake in progress
  lastFailed,                   \* attempt of _last_handshake_failure
  ingressFailed,                \* _handshake_ingress_failure
  buffer,                       \* _handshake_notifications
  closing,                      \* _closing
  proc,                         \* the managed process
  requested, draining, res,     \* the stop barrier
  pc, at, atGen, flush,         \* client threads and their locals
  rstate, note, taken,          \* reader threads and their locals
  pending, req,                 \* requests
  noteNo, delivered,            \* notifications received and handed on
  fails, stops

hsVars == <<owner, hsGen, attempt, lastFailed, ingressFailed, buffer>>
sockVars == <<state, ws, gen, closing, proc>>
stopVars == <<requested, draining, res>>
clientVars == <<pc, at, atGen, flush>>
readerVars == <<rstate, note, taken>>
noteVars == <<noteNo, delivered>>
bounds == <<fails, stops>>
rpcVars == <<hsVars, sockVars, stopVars, clientVars, readerVars, pending, req,
             noteVars, bounds>>

\* What the stop barrier holds on to until it is proved down.
Retained == [ws : 0..Raw, proc : BOOLEAN, readers : SUBSET Gens]

Request == [st : {"new", "pinned", "registered", "sent", "done"},
            pin : 0..MaxSocket, wrote : 0..MaxSocket, by : 0..Raw,
            out : {"none", "result", "presend", "protocol", "transport", "timeout"}]

NewReq == [st |-> "new", pin |-> 0, wrote |-> 0, out |-> "none", by |-> 0]

RpcInit ==
  /\ state = "disconnected" /\ ws = 0 /\ gen = 0 /\ closing = FALSE /\ proc = "none"
  /\ owner = NoClient /\ hsGen = 0 /\ attempt = 0 /\ lastFailed = 0
  /\ ingressFailed = FALSE /\ buffer = <<>>
  /\ requested = FALSE /\ draining = NoClient /\ res = NoRes
  /\ pc = [c \in Client |-> "idle"] /\ at = [c \in Client |-> 0]
  /\ atGen = [c \in Client |-> 0] /\ flush = [c \in Client |-> <<>>]
  /\ rstate = [g \in Gens |-> "none"] /\ note = [g \in Gens |-> 0]
  /\ taken = [g \in Gens |-> {}]
  /\ pending = {} /\ req = [r \in Req |-> NewReq]
  /\ noteNo = 0 /\ delivered = <<>>
  /\ fails = 0 /\ stops = 0

IsConnected == ws # 0 /\ proc = "running"
Ready == ~requested /\ state = "ready" /\ IsConnected

Goto(c, p) == pc' = [pc EXCEPT ![c] = p]
MayFail == fails < MaxFail /\ fails' = fails + 1 /\ UNCHANGED stops

-----------------------------------------------------------------------------
(* start().                                                                 *)

CallStart(c) ==
  /\ pc[c] = "idle" /\ ~requested /\ ~Ready /\ attempt < MaxAttempt
  /\ Goto(c, "start")
  /\ UNCHANGED <<hsVars, sockVars, stopVars, at, atGen, flush, readerVars,
                 pending, req, noteVars, bounds>>

\* Mutant: resources of a failed stop do not hold up a new start.
StartsOverRetained == draining = NoClient

\* wait_until_startable_locked came back.
Startable == draining = NoClient /\ res = NoRes /\ ~requested

\* The barrier refuses, the connection is ready, or another thread's
\* handshake is waited for.
StartElsewhere(c) ==
  /\ pc[c] = "start" /\ draining = NoClient
  /\ \/ ~Startable /\ Goto(c, "idle") /\ UNCHANGED at
     \/ Startable /\ Ready /\ Goto(c, "idle") /\ UNCHANGED at
     \/ /\ Startable /\ (attempt = MaxAttempt \/ gen = MaxSocket)   \* the bound
        /\ ~Ready /\ state # "handshaking" /\ Goto(c, "idle") /\ UNCHANGED at
     \/ /\ Startable /\ ~Ready /\ state = "handshaking"
        /\ Goto(c, "waiting") /\ at' = [at EXCEPT ![c] = attempt]
  /\ UNCHANGED <<hsVars, sockVars, stopVars, atGen, flush, readerVars,
                 pending, req, noteVars, bounds>>

\* Mutant: the waiter looks only for its own attempt to be published as failed.
WaitsForFailure(c) ==
  /\ pc[c] = "waiting" /\ lastFailed = at[c] /\ Goto(c, "idle")
  /\ UNCHANGED <<hsVars, sockVars, stopVars, at, atGen, flush, readerVars,
                 pending, req, noteVars, bounds>>

\* The waiter wakes when the attempt it saw is over; it returns or raises.
HandshakeOver(c) ==
  /\ pc[c] = "waiting"
  /\ state # "handshaking" \/ attempt # at[c] \/ lastFailed = at[c]
  /\ Goto(c, "idle")
  /\ UNCHANGED <<hsVars, sockVars, stopVars, at, atGen, flush, readerVars,
                 pending, req, noteVars, bounds>>

\* A new attempt: _start_locked runs under the lock.  It reuses the running
\* process or launches one, connects, and starts the reader.  A failed one
\* leaves a process and perhaps a socket without a reader.
Connect(c) ==
  /\ pc[c] = "start" /\ Startable /\ ~Ready /\ state # "handshaking"
  /\ attempt < MaxAttempt
  /\ attempt' = attempt + 1 /\ at' = [at EXCEPT ![c] = attempt + 1]
  /\ state' = "handshaking" /\ owner' = c /\ closing' = FALSE
  /\ ingressFailed' = FALSE /\ buffer' = <<>>
  /\ \/ /\ gen < MaxSocket /\ gen' = gen + 1 /\ ws' = gen + 1 /\ proc' = "running"
        /\ rstate' = [rstate EXCEPT ![gen + 1] = "loop"]
        /\ hsGen' = gen + 1 /\ atGen' = [atGen EXCEPT ![c] = gen + 1]
        /\ lastFailed' = 0 /\ Goto(c, "handshake") /\ UNCHANGED bounds
     \/ /\ MayFail /\ proc' \in {"none", "running"} /\ ws' \in {0, Raw}
        /\ hsGen' = IF ws' = 0 THEN 0 ELSE gen
        /\ atGen' = [atGen EXCEPT ![c] = hsGen']
        /\ lastFailed' = attempt + 1 /\ Goto(c, "cleanup")
        /\ UNCHANGED <<gen, rstate>>
  /\ UNCHANGED <<stopVars, flush, note, taken, pending, req, noteVars>>

\* initialize, initialized and configRequirements/read are answered; READY is
\* published only for the attempt and socket this thread started.
HandshakeCurrent(c) ==
  /\ state = "handshaking" /\ owner = c /\ attempt = at[c] /\ hsGen = atGen[c]
  /\ ~ingressFailed /\ IsConnected

PublishReady(c) ==
  /\ pc[c] = "handshake" /\ HandshakeCurrent(c)
  /\ state' = "ready" /\ owner' = NoClient /\ hsGen' = 0
  /\ flush' = [flush EXCEPT ![c] = buffer] /\ buffer' = <<>>
  /\ Goto(c, "flush")
  /\ UNCHANGED <<attempt, lastFailed, ingressFailed, ws, gen, closing, proc,
                 stopVars, at, atGen, readerVars, pending, req, noteVars, bounds>>

\* A handshake request fails, or the connection changed meanwhile.
HandshakeFails(c) ==
  /\ pc[c] = "handshake"
  /\ MayFail \/ (~HandshakeCurrent(c) /\ UNCHANGED bounds)
  /\ Goto(c, "cleanup")
  /\ UNCHANGED <<hsVars, sockVars, stopVars, at, atGen, flush, readerVars,
                 pending, req, noteVars>>

\* Requests that are still waiting when the pending table is emptied.
Failed(S, out, by) ==
  [r \in Req |-> IF r \in S /\ req[r].st = "sent"
                 THEN [req[r] EXCEPT !.st = "done", !.out = out, !.by = by]
                 ELSE req[r]]

\* _dispatch_payload, for a notification n of generation g.  Before READY it is
\* buffered; from a connection that is gone, it fails the handshake in progress
\* and every pending request, whosever they are.
Dispatch(n, g) ==
  \/ /\ Ready /\ ~closing /\ gen = g
     /\ delivered' = Append(delivered, n)
     /\ UNCHANGED <<buffer, ingressFailed, lastFailed, pending, req>>
  \/ /\ state = "handshaking" /\ gen = g /\ ws # 0
     /\ buffer' = Append(buffer, n)
     /\ UNCHANGED <<delivered, ingressFailed, lastFailed, pending, req>>
  \/ /\ ~(Ready /\ ~closing /\ gen = g) /\ ~(state = "handshaking" /\ gen = g /\ ws # 0)
     /\ ingressFailed' = (ingressFailed \/ state = "handshaking")
     /\ lastFailed' = IF state = "handshaking" THEN attempt ELSE lastFailed
     /\ req' = Failed(pending, "protocol", g) /\ pending' = {}
     /\ UNCHANGED <<delivered, buffer>>

\* The buffered notifications are dispatched by the starter, after READY.
Flush(c) ==
  /\ pc[c] = "flush"
  /\ \/ /\ flush[c] = <<>> /\ Goto(c, "idle")
        /\ UNCHANGED <<flush, buffer, ingressFailed, lastFailed, delivered, pending, req>>
     \/ /\ flush[c] # <<>> /\ Dispatch(Head(flush[c]), atGen[c])
        /\ flush' = [flush EXCEPT ![c] = Tail(@)] /\ UNCHANGED pc
  /\ UNCHANGED <<owner, hsGen, attempt, sockVars, stopVars, at, atGen, readerVars,
                 noteNo, bounds>>

-----------------------------------------------------------------------------
(* stop() and the cleanup of a failed start.                                *)

CallStop(c) ==
  /\ pc[c] = "idle" /\ stops < MaxStop /\ stops' = stops + 1
  /\ requested' = TRUE /\ Goto(c, "stop")
  /\ UNCHANGED <<hsVars, sockVars, draining, res, at, atGen, flush, readerVars,
                 pending, req, noteVars, fails>>

\* The identity lock is held by a stuck send: stop fails, its request stays.
StopGivesUp(c) ==
  /\ pc[c] = "stop" /\ MayFail /\ Goto(c, "idle")
  /\ UNCHANGED <<hsVars, sockVars, stopVars, at, atGen, flush, readerVars,
                 pending, req, noteVars>>

\* A cleanup may only close what its attempt created.
OwnsHandshake(c) ==
  state = "handshaking" /\ at[c] = attempt /\ atGen[c] = hsGen

\* Mutant: the joiner leaves its handshake to the stop it joins.
SettlesNothing(c) == UNCHANGED <<state, owner, hsGen, lastFailed>>

\* Mutant: the state is reset, its owner is not.
SettlesStateOnly(c) ==
  IF pc[c] = "cleanup"
  THEN state' = "disconnected" /\ hsGen' = 0 /\ lastFailed' = at[c] /\ UNCHANGED owner
  ELSE UNCHANGED <<state, owner, hsGen, lastFailed>>

\* _settle_handshake_stop_locked, for a cleanup that joins a running stop.
SettleHandshakeStop(c) ==
  IF pc[c] = "cleanup"
  THEN /\ state' = "disconnected" /\ owner' = NoClient /\ hsGen' = 0
       /\ lastFailed' = at[c]
  ELSE UNCHANGED <<state, owner, hsGen, lastFailed>>

MayStop(c) == pc[c] = "stop" \/ (pc[c] = "cleanup" /\ OwnsHandshake(c))

JoinActiveStop(c) ==
  /\ MayStop(c) /\ draining # NoClient
  /\ requested' = TRUE /\ SettleHandshakeStop(c) /\ Goto(c, "joining")
  /\ UNCHANGED <<attempt, ingressFailed, buffer, ws, gen, closing, proc, draining,
                 res, at, atGen, flush, readerVars, pending, req, noteVars, bounds>>

\* Mutant: a stop ends the handshake it interrupts, its starter still running.
BeginStopSettles(c) ==
  /\ MayStop(c) /\ draining = NoClient
  /\ requested' = TRUE /\ closing' = TRUE /\ draining' = c
  /\ IF res # NoRes THEN UNCHANGED <<res, ws>>
     ELSE /\ res' = [ws |-> ws, proc |-> proc # "none",
                     readers |-> {g \in Gens : rstate[g] \in {"loop", "dispatch", "disconnected"}}]
          /\ ws' = 0
  /\ ingressFailed' = FALSE /\ buffer' = <<>>
  /\ lastFailed' = IF state = "handshaking" THEN attempt ELSE lastFailed
  /\ state' = "disconnected" /\ owner' = NoClient /\ hsGen' = 0
  /\ req' = Failed(pending, "transport", ws) /\ pending' = {}
  /\ Goto(c, "draining")
  /\ UNCHANGED <<attempt, gen, proc, at, atGen, flush, readerVars, noteVars, bounds>>

\* begin_locked: the resources of the connection become those of the barrier,
\* or a retry takes up the retained ones.  A handshake that somebody else owns
\* stays owned until its starter comes back.
BeginStop(c) ==
  /\ MayStop(c) /\ draining = NoClient
  /\ requested' = TRUE /\ closing' = TRUE /\ draining' = c
  /\ IF res # NoRes THEN UNCHANGED <<res, ws>>
     ELSE /\ res' = [ws |-> ws, proc |-> proc # "none",
                     readers |-> {g \in Gens : rstate[g] \in {"loop", "dispatch", "disconnected"}}]
          /\ ws' = 0
  /\ ingressFailed' = FALSE /\ buffer' = <<>>
  /\ lastFailed' = IF state = "handshaking" THEN attempt ELSE lastFailed
  /\ IF state = "handshaking" /\ pc[c] = "stop"
     THEN UNCHANGED <<state, owner, hsGen>>
     ELSE state' = "disconnected" /\ owner' = NoClient /\ hsGen' = 0
  /\ req' = Failed(pending, "transport", ws) /\ pending' = {}
  /\ Goto(c, "draining")
  /\ UNCHANGED <<attempt, gen, proc, at, atGen, flush, readerVars, noteVars, bounds>>

\* Everything is proved down: the socket closed, the process reaped, the
\* readers joined.
StopDrained(c) ==
  /\ pc[c] = "draining" /\ \A g \in res.readers : rstate[g] = "dead"
  /\ proc' = (IF res.proc THEN "none" ELSE proc) /\ res' = NoRes
  /\ requested' = FALSE /\ draining' = NoClient /\ Goto(c, "idle")
  /\ UNCHANGED <<hsVars, state, ws, gen, closing, at, atGen, flush, readerVars,
                 pending, req, noteVars, bounds>>

\* The deadline passed; the exact resources are kept for a retry.
StopDrainTimesOut(c) ==
  /\ pc[c] = "draining" /\ MayFail
  /\ proc' \in (IF res.proc THEN {proc, "none"} ELSE {proc})
  /\ draining' = NoClient /\ Goto(c, "idle")
  /\ UNCHANGED <<hsVars, state, ws, gen, closing, requested, res, at, atGen, flush,
                 readerVars, pending, req, noteVars>>

\* The joined attempt is complete, or the joiner's own deadline passed.
JoinEnds(c) ==
  /\ pc[c] = "joining"
  /\ (draining = NoClient /\ UNCHANGED bounds) \/ MayFail
  /\ Goto(c, "idle")
  /\ UNCHANGED <<hsVars, sockVars, stopVars, at, atGen, flush, readerVars,
                 pending, req, noteVars>>

ProcessExits ==
  /\ proc = "running" /\ proc' = "exited"
  /\ UNCHANGED <<hsVars, state, ws, gen, closing, stopVars, clientVars, readerVars,
                 pending, req, noteVars, bounds>>

-----------------------------------------------------------------------------
(* The reader of a generation.                                              *)

ReaderMayGoOn(g) == ~closing /\ ~requested /\ ws = g /\ gen = g

ReceiveNotification(g) ==
  /\ rstate[g] = "loop" /\ ReaderMayGoOn(g) /\ noteNo < MaxNote
  /\ noteNo' = noteNo + 1 /\ note' = [note EXCEPT ![g] = noteNo + 1]
  /\ rstate' = [rstate EXCEPT ![g] = "dispatch"]
  /\ UNCHANGED <<hsVars, sockVars, stopVars, clientVars, taken, pending, req,
                 delivered, bounds>>

DispatchNotification(g) ==
  /\ rstate[g] = "dispatch" /\ rstate' = [rstate EXCEPT ![g] = "loop"]
  /\ Dispatch(note[g], g)
  /\ UNCHANGED <<owner, hsGen, attempt, sockVars, stopVars, clientVars, note, taken,
                 noteNo, bounds>>

ReceiveResponse(g, r) ==
  /\ rstate[g] = "loop" /\ ReaderMayGoOn(g) /\ r \in pending /\ req[r].wrote = g
  /\ pending' = pending \ {r} /\ req' = Failed({r}, "result", g)
  /\ UNCHANGED <<hsVars, sockVars, stopVars, clientVars, readerVars, noteVars, bounds>>

ReaderReturns(g) ==
  /\ rstate[g] = "loop" /\ ~ReaderMayGoOn(g)
  /\ rstate' = [rstate EXCEPT ![g] = "dead"]
  /\ UNCHANGED <<hsVars, sockVars, stopVars, clientVars, note, taken, pending, req,
                 noteVars, bounds>>

\* The socket is lost: it is detached and its requests are taken under one
\* lock; they are failed, and the surfaces told, outside it.
Disconnect(g) ==
  /\ rstate[g] = "loop" /\ ReaderMayGoOn(g)
  /\ ws' = 0 /\ taken' = [taken EXCEPT ![g] = pending] /\ pending' = {}
  /\ IF state = "handshaking"
     THEN lastFailed' = attempt /\ UNCHANGED <<state, owner, hsGen>>
     ELSE state' = "disconnected" /\ owner' = NoClient /\ hsGen' = 0 /\ UNCHANGED lastFailed
  /\ rstate' = [rstate EXCEPT ![g] = "disconnected"]
  /\ UNCHANGED <<attempt, ingressFailed, buffer, gen, closing, proc, stopVars, clientVars,
                 note, req, noteVars, bounds>>

\* Mutant: whatever is pending by now is failed.
FailsCurrentPending(g) ==
  /\ rstate[g] = "disconnected"
  /\ req' = Failed(taken[g] \cup pending, "transport", g)
  /\ taken' = [taken EXCEPT ![g] = {}]
  /\ rstate' = [rstate EXCEPT ![g] = "dead"]
  /\ UNCHANGED <<hsVars, sockVars, stopVars, clientVars, note, pending, noteVars, bounds>>

DisconnectCleanup(g) ==
  /\ rstate[g] = "disconnected"
  /\ req' = Failed(taken[g], "transport", g)
  /\ taken' = [taken EXCEPT ![g] = {}]
  /\ rstate' = [rstate EXCEPT ![g] = "dead"]
  /\ UNCHANGED <<hsVars, sockVars, stopVars, clientVars, note, pending, noteVars, bounds>>

-----------------------------------------------------------------------------
(* request().                                                               *)

ReqStep(r, new) ==
  /\ req' = [req EXCEPT ![r] = new]
  /\ UNCHANGED <<hsVars, sockVars, stopVars, clientVars, readerVars, noteVars, bounds>>

\* _assert_existing_connection
PinRequest(r) ==
  /\ req[r].st = "new" /\ Ready
  /\ \A k \in Req : k < r => req[k].st # "new"
  /\ UNCHANGED pending /\ ReqStep(r, [req[r] EXCEPT !.st = "pinned", !.pin = gen])

RegisterRequest(r) ==
  /\ req[r].st = "pinned" /\ pending' = pending \cup {r}
  /\ ReqStep(r, [req[r] EXCEPT !.st = "registered"])

\* Mutant: the socket is looked at, its generation is not.
SendsOnCurrent(r) == ~requested /\ IsConnected

MaySend(r) == ~requested /\ IsConnected /\ gen = req[r].pin

\* Once ws.send was entered, a failure says nothing about what was sent.
FailedWrite == "transport"

\* _send_serialized_json: refused before the write, written, or written with
\* an unknown result.
SendRequest(r) ==
  /\ req[r].st = "registered"
  /\ \/ /\ ~MaySend(r) /\ pending' = pending \ {r}
        /\ ReqStep(r, [req[r] EXCEPT !.st = "done", !.out = "presend"])
     \/ /\ MaySend(r) /\ UNCHANGED pending
        /\ ReqStep(r, IF r \in pending
                      THEN [req[r] EXCEPT !.st = "sent", !.wrote = gen]
                      ELSE [req[r] EXCEPT !.st = "done", !.wrote = gen, !.out = "transport",
                                          !.by = req[r].pin])
     \/ /\ MaySend(r) /\ pending' = pending \ {r}
        /\ ReqStep(r, [req[r] EXCEPT !.st = "done", !.wrote = gen, !.out = FailedWrite,
                                     !.by = gen])

TimeOutRequest(r) ==
  /\ req[r].st = "sent" /\ pending' \in {pending, pending \ {r}}
  /\ ReqStep(r, [req[r] EXCEPT !.st = "done", !.out = "timeout"])

ClientStep(c) ==
  \/ StartElsewhere(c) \/ HandshakeOver(c) \/ Connect(c) \/ PublishReady(c)
  \/ HandshakeFails(c) \/ Flush(c) \/ StopGivesUp(c)
  \/ JoinActiveStop(c) \/ BeginStop(c) \/ StopDrained(c) \/ StopDrainTimesOut(c) \/ JoinEnds(c)

ReaderEnds(g) == ReaderReturns(g) \/ DispatchNotification(g) \/ DisconnectCleanup(g)

RpcNext ==
  \/ \E c \in Client : CallStart(c) \/ CallStop(c) \/ ClientStep(c)
  \/ \E g \in Gens : \/ ReceiveNotification(g) \/ Disconnect(g) \/ ReaderEnds(g)
                     \/ \E r \in Req : ReceiveResponse(g, r)
  \/ \E r \in Req : PinRequest(r) \/ RegisterRequest(r) \/ SendRequest(r) \/ TimeOutRequest(r)
  \/ ProcessExits

RpcSpec == RpcInit /\ [][RpcNext]_rpcVars

\* Threads keep running; a reader whose socket is closed gets out of recv.
Fairness ==
  /\ \A c \in Client : WF_rpcVars(ClientStep(c))
  /\ \A g \in Gens : WF_rpcVars(ReaderEnds(g))

RpcFairSpec == RpcSpec /\ Fairness

-----------------------------------------------------------------------------
(* Properties.                                                              *)

RpcTypeOK ==
  /\ state \in {"disconnected", "handshaking", "ready"}
  /\ state = "handshaking" <=> owner # NoClient
  /\ ws \in {0, gen, Raw} /\ gen \in 0..MaxSocket /\ hsGen \in 0..MaxSocket
  /\ owner \in Client \cup {NoClient} /\ draining \in Client \cup {NoClient}
  /\ attempt \in 0..MaxAttempt /\ lastFailed \in 0..MaxAttempt
  /\ proc \in {"none", "running", "exited"} /\ res \in Retained \cup {NoRes}
  /\ ingressFailed \in BOOLEAN /\ closing \in BOOLEAN /\ requested \in BOOLEAN
  /\ pc \in [Client -> {"idle", "start", "waiting", "handshake", "cleanup", "flush",
                         "stop", "joining", "draining"}]
  /\ at \in [Client -> 0..MaxAttempt] /\ atGen \in [Client -> 0..MaxSocket]
  /\ buffer \in Seq(0..MaxNote) /\ flush \in [Client -> Seq(0..MaxNote)]
  /\ rstate \in [Gens -> {"none", "loop", "dispatch", "disconnected", "dead"}]
  /\ note \in [Gens -> 0..MaxNote] /\ taken \in [Gens -> SUBSET Req]
  /\ pending \subseteq Req /\ req \in [Req -> Request]
  /\ noteNo \in 0..MaxNote /\ delivered \in Seq(0..MaxNote)
  /\ fails \in 0..MaxFail /\ stops \in 0..MaxStop

\* A request is written only on the socket its caller saw ready, never on the
\* replacement; and an answer that says "not sent" is true, so that retrying
\* it repeats nothing.
PinnedAndHonest ==
  \A r \in Req : /\ req[r].wrote \in {0, req[r].pin}
                 /\ req[r].out = "presend" => req[r].wrote = 0

\* The loss of a socket never fails a request of its replacement, although
\* that may be up before the old reader got to fail what it took.
NotFailedByOlderSocket ==
  \A r \in Req : req[r].out = "transport" /\ req[r].by # 0 => req[r].by >= req[r].pin

\* Until a starter has unwound, its attempt is the current one, even when
\* somebody else stops the connection meanwhile: no successor exists that its
\* late cleanup could close.
OwnedUntilUnwound ==
  \A c \in Client : pc[c] \in {"handshake", "cleanup"} => OwnsHandshake(c)

\* Nothing is started over a stop that is not proved complete: while its
\* resources are retained there is no socket and no process but theirs.
NoStartOverRetained ==
  res # NoRes => /\ ws = 0 /\ state # "ready"
                 /\ proc = "running" => res.proc

\* A start() or stop() returns: no handshake and no stop stays behind whose
\* owner is gone, whatever fails in between.
CallsReturn == \A c \in Client : pc[c] # "idle" ~> pc[c] = "idle"

\* The client is always startable again once stop() has succeeded: a handshake
\* state nobody owns any more is never left behind.
HandshakeHasOwner ==
  state = "handshaking" => /\ pc[owner] \in {"handshake", "cleanup"}
                           /\ at[owner] = attempt

\* "Fence reconnect while this socket identity is still locked"
\* (connection.py): a socket is detached, by its reader or by a stop, before
\* another one takes its place.
NoSilentReplacement == [][ws # 0 => ws' \in {0, ws}]_rpcVars

\* "Otherwise a new connection could register a request [...] and be failed as if
\* it belonged to the old websocket" (connection.py): no request fails for what
\* happened to an older socket.
FailedOnlyForItsSocket == \A r \in Req : req[r].by # 0 => req[r].by >= req[r].pin

\* "Calling it in reader order preserves request/lifecycle ordering"
\* (connection.py): notifications are handed on as they were received.
DeliveredInReaderOrder ==
  \A i, j \in 1..Len(delivered) : i < j => delivered[i] < delivered[j]

\* Sockets, requests and processes of the RPC connection keep their owner
\* through reconnects, failed handshakes and timed-out stops.
RpcInvariant ==
  /\ RpcTypeOK
  /\ PinnedAndHonest
  /\ NotFailedByOlderSocket
  /\ OwnedUntilUnwound
  /\ NoStartOverRetained
  /\ HandshakeHasOwner
=============================================================================
