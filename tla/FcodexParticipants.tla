------------------------- MODULE FcodexParticipants -------------------------
(***************************************************************************)
(* fcodex participants, their runtime sources and the machine holder.      *)
(*                                                                         *)
(* A participant is one fcodex proxy process; each of its websockets is a  *)
(* connection with an id of its own.  The proxy asks the service to admit  *)
(* every request before it forwards it to the shared app-server and tells  *)
(* the service the outcome afterwards (operation/admit and                 *)
(* operation/client-response).  The registry of                            *)
(* bot/fcodex/participant_runtime_registry.py keeps the reasons (sources)  *)
(* why the service must hold the machine runtime lease of a thread for a   *)
(* participant: a confirmed subscription of a connection, a request in     *)
(* flight, an outcome that was never learnt.  Only it acquires and         *)
(* releases that holder, through a store whose calls can fail before or    *)
(* after their effect.                                                     *)
(*                                                                         *)
(* Abstractions.  A source generation and a request token are both drawn   *)
(* once per admitted request, so a source carries its request's token.     *)
(* Settled transition tombstones are acknowledged in the handler that      *)
(* makes them; only a discard whose release was not confirmed outlives it  *)
(* (staged).  An authoritative cleanup removes the sources it names in the *)
(* call that creates it and generations never repeat, so a retry has only  *)
(* the participants left to release (cleanup).  The main-turn lease that   *)
(* some requests also take is the subject of InteractionLease.             *)
(***************************************************************************)
EXTENDS Integers, Sequences, FiniteSets

CONSTANTS Participants, Connections,
          Owner,          \* the participant of a connection
          Threads,        \* threads that exist
          NewThreads,     \* identities thread/start may return
          RequestIds,     \* JSON-RPC ids a connection uses
          MaxRequests,    \* admitted requests
          MaxFailures,    \* failing store, gate and timer calls
          MaxTimers,      \* liveness generations drawn by connects and heartbeats
          MaxGone,        \* authoritative "thread gone" frames
          MaxEpochs,      \* disconnects and resets of the backend
          NoConn

ASSUME OwnerAssumption == Owner \in [Connections -> Participants]
ASSUME NoConnAssumption == NoConn \notin Connections
ASSUME FreshAssumption == Threads \cap NewThreads = {}
ASSUME NamesAssumption == Participants \cap Connections = {}
ASSUME FiniteAssumption == IsFiniteSet(Participants) /\ IsFiniteSet(Threads \cup NewThreads)
ASSUME BoundsAssumption ==
    {MaxRequests, MaxFailures, MaxTimers, MaxGone, MaxEpochs} \subseteq Nat

AllThreads == Threads \cup NewThreads
Pairs == Participants \X AllThreads
Keys == Connections \X RequestIds
Methods == {"resume", "unsubscribe", "start"}
Outcomes == {"success", "error", "unknown"}

NoRequest == [tok |-> 0]

VARIABLES
    pstate,     \* participant record: "none" when there is none
    live,       \* connections the registry counts as live endpoints
    cgen,       \* current expiry generation of a connection, 0 for none
    pgen,       \* current expiry generation of a participant
    lseq,       \* _liveness_generation_sequence
    timers,     \* started threading.Timers; stale is a history flag
    connSrc,    \* confirmed subscriptions, <<connection, thread>>
    unkSrc,     \* unresolved outcomes, <<participant, thread>>
    pending,    \* in-flight request sources
    staged,     \* keys of requests whose discard awaits its release
    cleanup,    \* participants an authoritative cleanup still has to release
    pres,       \* holder presence of a pair, as the registry knows it
    store,      \* pairs whose holder really is in the machine lease store
    fails,      \* failures left
    reqs,       \* _client_requests
    seq,        \* _request_token_sequence
    attempts,   \* tokens of unconsumed external create capabilities
    backend,    \* backend connections and epochs seen
    job,        \* the disconnect handler the RuntimeLoop is in, if any
    px,         \* the proxy side of a connection
    wire,       \* frames from the app-server, in order
    sub,        \* what the app-server has subscribed, <<connection, thread>>
    late,       \* client-response calls their proxy gave up on
    gone, made, \* gone frames sent, threads created
    loose       \* history: subscriptions the service knows it does not cover

endpoints == <<pstate, live, cgen, pgen, lseq, timers>>
sources == <<connSrc, unkSrc, pending, staged, cleanup>>
machine == <<pres, store, fails>>
requests == <<reqs, seq, attempts, backend>>
world == <<px, wire, sub, late, gone, made, loose>>
fcodexVars == <<endpoints, sources, machine, requests, job, world>>

Idle == job.conn = NoConn

-----------------------------------------------------------------------------
(* Sources and the machine holder.                                         *)

(* _thread_has_source: whether a pair still needs its holder.              *)
HasSource(w, cs, us, pe) ==
    \/ w \in us
    \/ \E c \in Connections : Owner[c] = w[1] /\ <<c, w[2]>> \in cs
    \/ \E s \in pe : Owner[s.key[1]] = w[1] /\ s.t = w[2]

Holder == [pres |-> pres, store |-> store, fails |-> fails]

SetHolder(h) == pres' = h.pres /\ store' = h.store /\ fails' = h.fails

(* How one release attempt ends: the lease cannot be read ("blind"), the   *)
(* holder is already absent or its release confirmed ("ok"), or the store  *)
(* does not confirm, having kept or dropped the holder.                    *)
ReleaseEnds(h, w) ==
    IF w \in h.store THEN {"ok", "blind", "kept", "dropped"} ELSE {"ok", "blind"}

(* MUTANT of PresenceAfter: a release that raised is taken for done.       *)
PresenceForgotten(h, w, end) ==
    IF end = "blind" THEN h.pres[w] ELSE "absent"

PresenceAfter(h, w, end) ==
    CASE end = "ok" -> "absent"
      [] end = "blind" -> h.pres[w]
      [] OTHER -> "unknown"

(* _release_machine_holder_if_unneeded for every pair of D, which are the  *)
(* tracked pairs no source needs.                                          *)
Releases(h, D) ==
    {g \in {[pres |-> [w \in Pairs |->
                         IF w \in D THEN PresenceAfter(h, w, e[w]) ELSE h.pres[w]],
             store |-> h.store \ {w \in D : e[w] \in {"ok", "dropped"}},
             fails |-> h.fails - Cardinality({w \in D : e[w] # "ok"})]
             : e \in {f \in [D -> {"ok", "blind", "kept", "dropped"}] :
                         \A w \in D : f[w] \in ReleaseEnds(h, w)}} :
        g.fails >= 0}

Unneeded(W, h, cs, us, pe) ==
    {w \in W : h.pres[w] # "absent" /\ ~HasSource(w, cs, us, pe)}

(* MUTANT of Acquires: a holder of unknown presence is not acquired again. *)
AcquiresTracked(h, w) ==
    IF h.pres[w] # "absent" THEN {[h EXCEPT !.pres[w] = "confirmed"]}
    ELSE {[h EXCEPT !.pres[w] = "confirmed", !.store = @ \cup {w}]}

(* _ensure_machine_holder: refused by the loaded gate; confirmed, at once  *)
(* or by reading the lease back; failed and read back as absent; or        *)
(* failed and unreadable, with or without the effect.                      *)
Acquires(h, w) ==
    IF h.pres[w] = "confirmed" THEN {h}
    ELSE {[h EXCEPT !.pres[w] = "confirmed", !.store = @ \cup {w}]}
         \cup IF h.fails = 0 THEN {}
              ELSE {[h EXCEPT !.fails = @ - 1],
                    [h EXCEPT !.fails = @ - 1,
                              !.pres[w] = IF w \in h.store THEN "confirmed" ELSE "absent"],
                    [h EXCEPT !.fails = @ - 1, !.pres[w] = "unknown"],
                    [h EXCEPT !.fails = @ - 1, !.pres[w] = "unknown",
                              !.store = @ \cup {w}]}

(* MUTANT of Retired: an unresolved outcome does not keep the record.      *)
RetiredEarly(P, ps, h, cs, us, pe) ==
    [p \in Participants |->
        IF p \in P /\ ps[p] = "orphaned" /\ \A c \in live : Owner[c] # p
        THEN "none" ELSE ps[p]]

(* _retire_orphaned_participant_if_empty.                                  *)
Retired(P, ps, h, cs, us, pe) ==
    [p \in Participants |->
        IF /\ p \in P /\ ps[p] = "orphaned"
           /\ \A c \in live : Owner[c] # p
           /\ \A t \in AllThreads :
                 h.pres[<<p, t>>] = "absent" /\ ~HasSource(<<p, t>>, cs, us, pe)
        THEN "none" ELSE ps[p]]

(* release_unneeded_sources, with the retirement it ends in.               *)
ReleaseUnneeded(p, ps, h, cs, us, pe) ==
    \E g \in Releases(h, Unneeded({p} \X AllThreads, h, cs, us, pe)) :
        /\ SetHolder(g)
        /\ pstate' = Retired({p}, ps, g, cs, us, pe)

-----------------------------------------------------------------------------
FcodexInit ==
    /\ pstate = [p \in Participants |-> "none"]
    /\ live = {}
    /\ cgen = [c \in Connections |-> 0]
    /\ pgen = [p \in Participants |-> 0]
    /\ lseq = 0
    /\ timers = {}
    /\ connSrc = {} /\ unkSrc = {} /\ pending = {} /\ staged = {}
    /\ cleanup = [t \in AllThreads |-> {}]
    /\ pres = [w \in Pairs |-> "absent"]
    /\ store = {}
    /\ fails = MaxFailures
    /\ reqs = [k \in Keys |-> NoRequest]
    /\ seq = 0 /\ attempts = {} /\ backend = 0
    /\ job = [conn |-> NoConn, todo |-> {}]
    /\ px = [c \in Connections |-> "idle"]
    /\ wire = [c \in Connections |-> <<>>]
    /\ sub = {} /\ late = {} /\ gone = 0 /\ made = {} /\ loose = {}

-----------------------------------------------------------------------------
(* Participant and endpoint liveness.                                      *)

(* MUTANT of NextLiveness: numbering starts again with an empty registry.  *)
NextLivenessRestarts == IF \A p \in Participants : pstate[p] = "none" THEN 1 ELSE lseq + 1

NextLiveness == lseq + 1

(* History: what an outstanding timer was armed for has moved on.          *)
MarkStale(ts, W) == {IF tm.who \in W THEN [tm EXCEPT !.stale = TRUE] ELSE tm : tm \in ts}

(* _touch_connection_liveness                                              *)
Touch(c, n, W) ==
    /\ timers' = MarkStale(timers, W) \cup {[who |-> c, gen |-> n, stale |-> FALSE]}
    /\ cgen' = [cgen EXCEPT ![c] = n]

(* connect, called by a proxy that opens its websocket.  The proxy may not *)
(* get the answer; it then gives the connection up without a disconnect.   *)
Connect(c) ==
    LET p == Owner[c] IN
    /\ Idle /\ px[c] = "idle" /\ lseq + 2 <= MaxTimers
    /\ Touch(c, NextLiveness, {c, p})
    /\ live' = live \cup {c}
    /\ pgen' = [pgen EXCEPT ![p] = NextLiveness + 1]
    /\ lseq' = NextLiveness + 1
    /\ ReleaseUnneeded(p, [pstate EXCEPT ![p] = "connected"], Holder, connSrc, unkSrc, pending)
    /\ px' \in {[px EXCEPT ![c] = "open"], [px EXCEPT ![c] = "closed"]}
    /\ UNCHANGED <<sources, requests, job, wire, sub, late, gone, made, loose>>

(* MUTANT of Heartbeat: a heartbeat does not retry deferred releases.      *)
HeartbeatOnly(c) ==
    /\ Idle /\ px[c] = "open" /\ c \in live /\ lseq < MaxTimers
    /\ Touch(c, NextLiveness, {c}) /\ lseq' = NextLiveness
    /\ UNCHANGED <<pstate, live, pgen, sources, machine, requests, job, world>>

(* heartbeat: also the only driver of a release that was put off.  Past    *)
(* the bound a heartbeat keeps its generation and timer.                   *)
Heartbeat(c) ==
    /\ Idle /\ px[c] = "open" /\ c \in live
    /\ IF lseq < MaxTimers
       THEN Touch(c, NextLiveness, {c}) /\ lseq' = NextLiveness
       ELSE UNCHANGED <<timers, cgen, lseq>>
    /\ ReleaseUnneeded(Owner[c], pstate, Holder, connSrc, unkSrc, pending)
    /\ UNCHANGED <<live, pgen, sources, requests, job, world>>

(* disconnect of a live endpoint and the start of participant_disconnected.*)
(* The grace timer may fail to start.  ts are the timers still running.    *)
DropEndpoint(c, ts) ==
    LET p == Owner[c]
        cs == {s \in connSrc : s[1] # c}
        W == {<<p, s[2]>> : s \in connSrc \ cs}
        lastOne == {d \in live : Owner[d] = p} = {c}
    IN /\ live' = live \ {c}
       /\ cgen' = [cgen EXCEPT ![c] = 0]
       /\ lseq' = NextLiveness
       /\ connSrc' = cs
       /\ \E scheduled \in IF lastOne THEN BOOLEAN ELSE {TRUE} :
            /\ pstate' = [pstate EXCEPT ![p] =
                  IF ~lastOne THEN @ ELSE IF scheduled THEN "grace" ELSE "orphaned"]
            /\ pgen' = [pgen EXCEPT ![p] = IF lastOne THEN NextLiveness ELSE @]
            /\ timers' = ts \cup IF lastOne /\ scheduled
                         THEN {[who |-> p, gen |-> NextLiveness, stale |-> FALSE]} ELSE {}
            /\ \E g \in Releases(Holder, Unneeded(W, Holder, cs, unkSrc, pending)) :
                  LET cost == IF scheduled THEN 0 ELSE 1 IN
                  g.fails >= cost /\ SetHolder([g EXCEPT !.fails = @ - cost])
       /\ job' = [conn |-> c, todo |-> {k \in Keys : k[1] = c /\ reqs[k] # NoRequest}]

(* participant_disconnected: an unknown participant is left alone, and a   *)
(* second call for a connection retries what connection_lost left behind.  *)
ParticipantDisconnects(c) ==
    \/ /\ pstate[Owner[c]] = "none"
       /\ UNCHANGED <<endpoints, connSrc, machine, job>>
    \/ c \in live /\ DropEndpoint(c, timers)
    \/ /\ pstate[Owner[c]] # "none" /\ c \notin live
       /\ job' = [conn |-> c, todo |-> {k \in Keys : k[1] = c /\ reqs[k] # NoRequest}]
       /\ UNCHANGED <<endpoints, connSrc, machine>>

(* expire_connection: a timer that is no longer current does nothing.      *)
ExpireConnection(tm) ==
    /\ Idle /\ tm.who \in Connections
    /\ \/ tm.who \in live /\ cgen[tm.who] = tm.gen /\ DropEndpoint(tm.who, timers \ {tm})
       \/ /\ tm.who \notin live \/ cgen[tm.who] # tm.gen
          /\ timers' = timers \ {tm}
          /\ UNCHANGED <<pstate, live, cgen, pgen, lseq, connSrc, machine, job>>
    /\ UNCHANGED <<unkSrc, pending, staged, cleanup, requests, world>>

(* expire_participant, then release_unneeded_sources.                      *)
ExpireParticipant(tm) ==
    LET p == tm.who
        current == /\ p \in Participants
                   /\ pgen[p] = tm.gen /\ pstate[p] = "grace"
                   /\ \A c \in live : Owner[c] # p
    IN /\ Idle /\ p \in Participants
       /\ timers' = timers \ {tm}
       /\ IF current
          THEN ReleaseUnneeded(p, [pstate EXCEPT ![p] = "orphaned"], Holder,
                               connSrc, unkSrc, pending)
          ELSE UNCHANGED <<pstate, machine>>
       /\ UNCHANGED <<live, cgen, pgen, lseq, sources, requests, job, world>>

-----------------------------------------------------------------------------
(* Requests of a proxy.                                                    *)

Track(k, m, t) ==
    /\ reqs' = [reqs EXCEPT ![k] = [tok |-> seq + 1, method |-> m, t |-> t,
                                    revoked |-> FALSE, epoch |-> backend]]
    /\ seq' = seq + 1

(* The app-server takes a forwarded request and answers it.  A resume or   *)
(* a start that ends in "unknown" may have had its effect, and so may a    *)
(* start that ends in an error.                                            *)
Answer(k, m, t) ==
    \E o \in Outcomes, effect \in BOOLEAN :
        /\ effect = (o = "success") \/ o = "unknown" \/ m = "start"
        /\ o = "success" => effect
        /\ sub' = IF ~effect THEN sub
                  ELSE IF m = "unsubscribe" THEN sub \ {<<k[1], t>>}
                  ELSE sub \cup {<<k[1], t>>}
        /\ made' = IF m = "start" /\ effect THEN made \cup {t} ELSE made
        /\ loose' = IF m = "start" /\ effect THEN loose \cup {<<k[1], t>>} ELSE loose \cap sub'
        /\ wire' = [wire EXCEPT ![k[1]] =
                      Append(@, [kind |-> "response", key |-> k, tok |-> seq',
                                 out |-> o, t |-> t])]

(* The proxy did not get the admission and answers its client itself.      *)
NotForwarded == UNCHANGED <<wire, sub, made, loose>>

(* _admit_thread_resume: a failed holder acquire denies the request.       *)
AdmitResume(k, t) ==
    LET c == k[1]  w == <<Owner[c], t>> IN
    /\ Idle /\ px[c] = "open" /\ c \in live
    /\ reqs[k] = NoRequest /\ seq < MaxRequests /\ t \in Threads \cup made
    /\ \E h \in Acquires(Holder, w) :
         /\ SetHolder(h)
         /\ IF h.pres[w] = "confirmed"
            THEN /\ Track(k, "resume", t)
                 /\ pending' = pending \cup {[key |-> k, tok |-> seq', t |-> t]}
                 /\ Answer(k, "resume", t) \/ NotForwarded
            ELSE UNCHANGED <<reqs, seq, pending>> /\ NotForwarded
    /\ UNCHANGED <<endpoints, connSrc, unkSrc, staged, cleanup, attempts, backend, job,
                   px, late, gone>>

(* admit of thread/unsubscribe: tracked, no source of its own.             *)
AdmitUnsubscribe(k, t) ==
    /\ Idle /\ px[k[1]] = "open" /\ k[1] \in live
    /\ reqs[k] = NoRequest /\ seq < MaxRequests /\ <<k[1], t>> \in sub
    /\ Track(k, "unsubscribe", t)
    /\ Answer(k, "unsubscribe", t) \/ NotForwarded
    /\ UNCHANGED <<endpoints, sources, machine, attempts, backend, job, px, late, gone>>

(* admit of thread/start: begin_external_thread_create issues a capability *)
(* of the current backend connection.                                      *)
AdmitStart(k, t) ==
    /\ Idle /\ px[k[1]] = "open" /\ k[1] \in live
    /\ reqs[k] = NoRequest /\ seq < MaxRequests /\ t \in NewThreads \ made
    /\ Track(k, "start", t)
    /\ attempts' = attempts \cup {seq'}
    /\ Answer(k, "start", t) \/ NotForwarded
    /\ UNCHANGED <<endpoints, sources, machine, backend, job, px, late, gone>>

-----------------------------------------------------------------------------
(* Outcomes.                                                               *)

(* MUTANT of Drop: a settled request only loses its token.                 *)
DropToken(k) == [reqs EXCEPT ![k].tok = 0]

(* A request whose outcome is settled leaves _client_requests.             *)
Drop(k) == [reqs EXCEPT ![k] = NoRequest]
PendingOf(k) == {s \in pending : s.key = k}

(* promote_request_to_connection, then the request is settled.             *)
ResumeSucceeded(k, w) ==
    /\ PendingOf(k) # {} /\ k[1] \in live
    /\ \E h \in Acquires(Holder, w) :
         /\ SetHolder(h)
         /\ IF h.pres[w] = "confirmed"
            THEN /\ connSrc' = connSrc \cup {<<k[1], w[2]>>}
                 /\ pending' = pending \ PendingOf(k)
                 /\ reqs' = Drop(k)
            ELSE UNCHANGED <<connSrc, pending, reqs>>
    /\ UNCHANGED <<unkSrc, staged, pstate>>

(* discard_request_source: the release decides whether it is settled.      *)
ResumeRejected(k, w) ==
    LET pe == pending \ PendingOf(k) IN
    /\ PendingOf(k) # {} \/ k \in staged
    /\ pending' = pe
    /\ \E h \in Releases(Holder, Unneeded({w}, Holder, connSrc, unkSrc, pe)) :
         /\ SetHolder(h)
         /\ IF Unneeded({w}, h, connSrc, unkSrc, pe) = {}
            THEN /\ staged' = staged \ {k} /\ reqs' = Drop(k)
                 /\ pstate' = Retired({w[1]}, pstate, h, connSrc, unkSrc, pe)
            ELSE staged' = staged \cup {k} /\ UNCHANGED <<reqs, pstate>>
    /\ UNCHANGED <<connSrc, unkSrc>>

(* MUTANT of ResumeUnknown: an unknown outcome is dropped like a rejection.*)
ResumeUnknownDropped(k, w) ==
    /\ PendingOf(k) # {} \/ k \in staged
    /\ \E h \in Releases(Holder, Unneeded({w}, Holder, connSrc, unkSrc, pending \ PendingOf(k))) :
         SetHolder(h)
    /\ pending' = pending \ PendingOf(k)
    /\ staged' = staged \ {k}
    /\ reqs' = Drop(k)
    /\ UNCHANGED <<connSrc, unkSrc, pstate>>

(* promote_request_to_unknown, also of a discard that is still staged.     *)
ResumeUnknown(k, w) ==
    /\ PendingOf(k) # {} \/ k \in staged
    /\ \E h \in Acquires(Holder, w) :
         /\ SetHolder(h)
         /\ IF h.pres[w] = "confirmed"
            THEN /\ unkSrc' = unkSrc \cup {w}
                 /\ pending' = pending \ PendingOf(k)
                 /\ staged' = staged \ {k}
                 /\ reqs' = Drop(k)
            ELSE UNCHANGED <<unkSrc, pending, staged, reqs>>
    /\ UNCHANGED <<connSrc, pstate>>

(* The transition a resume is refused: nothing changes, nothing settles.   *)
ResumeConflict(k, out) ==
    /\ CASE out = "success" -> PendingOf(k) = {} \/ k[1] \notin live
         [] OTHER -> PendingOf(k) = {} /\ k \notin staged
    /\ UNCHANGED <<connSrc, unkSrc, pending, staged, machine, reqs, pstate>>

ResumeResponse(k, out) ==
    LET w == <<Owner[k[1]], reqs[k].t>> IN
    /\ \/ out = "success" /\ ResumeSucceeded(k, w)
       \/ out = "error" /\ ResumeRejected(k, w)
       \/ out = "unknown" /\ ResumeUnknown(k, w)
       \/ ResumeConflict(k, out)
    /\ UNCHANGED attempts

(* forget_connection_source; its result does not hold the request back.    *)
UnsubscribeResponse(k, out) ==
    LET w == <<Owner[k[1]], reqs[k].t>>
        cs == IF out = "success" THEN connSrc \ {<<k[1], w[2]>>} ELSE connSrc
    IN /\ connSrc' = cs
       /\ \E h \in Releases(Holder, IF out = "success"
                                    THEN Unneeded({w}, Holder, cs, unkSrc, pending) ELSE {}) :
            /\ SetHolder(h)
            /\ pstate' = Retired({w[1]}, pstate, h, cs, unkSrc, pending)
       /\ reqs' = Drop(k)
       /\ UNCHANGED <<unkSrc, pending, staged, attempts>>

(* MUTANT of StartResponse: a revoked capability still commits.            *)
StartResponseRevoked(k, out, t) ==
    LET w == <<Owner[k[1]], t>> IN
    /\ attempts' = attempts \ {reqs[k].tok}
    /\ reqs' = Drop(k)
    /\ \E h \in IF out = "success" /\ k[1] \in live THEN Acquires(Holder, w) ELSE {Holder} :
         /\ SetHolder(h)
         /\ IF out = "success" /\ k[1] \in live /\ h.pres[w] = "confirmed"
            THEN connSrc' = connSrc \cup {<<k[1], t>>}
            ELSE UNCHANGED connSrc
    /\ UNCHANGED <<unkSrc, pending, staged, pstate>>

(* settle_client_response and settle_response of a create: the capability  *)
(* is consumed whatever the outcome; only a trusted success commits a      *)
(* source, retained and promoted in one go.  A request of a revoked        *)
(* backend connection stays unsettled.                                     *)
StartResponse(k, out, t) ==
    LET w == <<Owner[k[1]], t>>  r == reqs[k] IN
    IF r.revoked
    THEN UNCHANGED <<connSrc, unkSrc, pending, staged, machine, reqs, pstate, attempts>>
    ELSE /\ r.tok \in attempts
         /\ attempts' = attempts \ {r.tok}
         /\ reqs' = Drop(k)
         /\ \E h \in IF out = "success" /\ k[1] \in live THEN Acquires(Holder, w) ELSE {Holder} :
              /\ SetHolder(h)
              /\ IF out = "success" /\ k[1] \in live /\ h.pres[w] = "confirmed"
                 THEN connSrc' = connSrc \cup {<<k[1], t>>}
                 ELSE UNCHANGED connSrc
         /\ UNCHANGED <<unkSrc, pending, staged, pstate>>

(* _request_token_matches: a call speaks of the request it was issued for. *)
TokenMatches(k, tok) == reqs[k].tok = tok

(* client_response                                                         *)
ClientResponse(f) ==
    /\ IF ~TokenMatches(f.key, f.tok)
       THEN UNCHANGED <<connSrc, unkSrc, pending, staged, machine, reqs, pstate, attempts>>
       ELSE \/ reqs[f.key].method = "resume" /\ ResumeResponse(f.key, f.out)
            \/ reqs[f.key].method = "unsubscribe" /\ UnsubscribeResponse(f.key, f.out)
            \/ reqs[f.key].method = "start" /\ StartResponse(f.key, f.out, f.t)
    /\ loose' = loose \ connSrc'

(* The proxy reports an answer; without a settled receipt, or when the     *)
(* answer was unusable, it quarantines the websocket.                      *)
DeliverResponse(c) ==
    /\ Idle /\ px[c] = "open" /\ wire[c] # <<>> /\ Head(wire[c]).kind = "response"
    /\ wire' = [wire EXCEPT ![c] = Tail(@)]
    /\ ClientResponse(Head(wire[c]))
    /\ LET f == Head(wire[c]) IN
       px' = [px EXCEPT ![c] =
                IF /\ TokenMatches(f.key, f.tok) /\ reqs'[f.key] = NoRequest
                   /\ f.out # "unknown"
                THEN "open" ELSE "quarantined"]
    /\ UNCHANGED <<live, cgen, pgen, lseq, timers, cleanup, seq, backend, job,
                   sub, late, gone, made>>

(* The call gets no answer in time; the service may still execute it.      *)
DeliverTimesOut(c) ==
    /\ px[c] = "open" /\ wire[c] # <<>> /\ Head(wire[c]).kind = "response"
    /\ wire' = [wire EXCEPT ![c] = Tail(@)]
    /\ late' \in {late, late \cup {Head(wire[c])}}
    /\ px' = [px EXCEPT ![c] = "quarantined"]
    /\ UNCHANGED <<endpoints, sources, machine, requests, job, sub, gone, made, loose>>

LateResponse(f) ==
    /\ Idle
    /\ late' = late \ {f}
    /\ ClientResponse(f)
    /\ UNCHANGED <<live, cgen, pgen, lseq, timers, cleanup, seq, backend, job,
                   px, wire, sub, gone, made>>

(* close: the service is told first, if the call gets there, then the      *)
(* websockets go and with them what the app-server had subscribed.         *)
CloseProxy(c) ==
    /\ Idle /\ px[c] \in {"open", "quarantined"}
    /\ px' = [px EXCEPT ![c] = "closed"]
    /\ wire' = [wire EXCEPT ![c] = <<>>]
    /\ sub' = {s \in sub : s[1] # c}
    /\ loose' = loose \cap sub'
    /\ \/ ParticipantDisconnects(c)
       \/ UNCHANGED <<endpoints, connSrc, machine, job>>
    /\ UNCHANGED <<unkSrc, pending, staged, cleanup, requests, late, gone, made>>

(* connection_lost, one request of the connection at a time.               *)
LostRequest(k) ==
    /\ k \in job.todo
    /\ job' = [job EXCEPT !.todo = @ \ {k}]
    /\ \/ /\ reqs[k].method = "resume"
          /\ \/ ResumeUnknown(k, <<Owner[k[1]], reqs[k].t>>)
             \/ ResumeConflict(k, "unknown")
          /\ UNCHANGED attempts
       \/ /\ reqs[k].method = "unsubscribe"
          /\ reqs' = Drop(k)
          /\ UNCHANGED <<connSrc, unkSrc, pending, staged, machine, pstate, attempts>>
       \/ /\ reqs[k].method = "start"
          /\ IF reqs[k].revoked THEN UNCHANGED <<reqs, attempts>>
             ELSE reqs' = Drop(k) /\ attempts' = attempts \ {reqs[k].tok}
          /\ UNCHANGED <<connSrc, unkSrc, pending, staged, machine, pstate>>
    /\ UNCHANGED <<live, cgen, pgen, lseq, timers, cleanup, seq, backend, world>>

(* The end of participant_disconnected.                                    *)
FinishDisconnect ==
    LET p == Owner[job.conn] IN
    /\ ~Idle /\ job.todo = {}
    /\ job' = [conn |-> NoConn, todo |-> {}]
    /\ IF pstate[p] = "orphaned"
       THEN ReleaseUnneeded(p, pstate, Holder, connSrc, unkSrc, pending)
       ELSE UNCHANGED <<pstate, machine>>
    /\ UNCHANGED <<live, cgen, pgen, lseq, timers, sources, requests, world>>

-----------------------------------------------------------------------------
(* Authoritative "thread gone" frames.                                     *)

(* External: the app-server unloads, archives or deletes a thread and      *)
(* tells every open connection, each on its own websocket.                 *)
ThreadGone(t) ==
    /\ t \in Threads \cup made /\ gone < MaxGone
    /\ gone' = gone + 1
    /\ sub' = {s \in sub : s[2] # t}
    /\ loose' = {s \in loose : s[2] # t}
    /\ wire' = [c \in Connections |->
                  IF px[c] = "open" THEN Append(wire[c], [kind |-> "gone", t |-> t]) ELSE wire[c]]
    /\ UNCHANGED <<endpoints, sources, machine, requests, job, px, late, made>>

(* MUTANT of SourcesAfterGone: requests in flight are retired as well.     *)
SourcesAllGone(t) ==
    [cs |-> {s \in connSrc : s[2] # t}, us |-> {s \in unkSrc : s[2] # t},
     pe |-> {s \in pending : s.t # t}]

(* The sources that "gone" retires: those in flight stay.                  *)
SourcesAfterGone(t) ==
    [cs |-> {s \in connSrc : s[2] # t}, us |-> {s \in unkSrc : s[2] # t}, pe |-> pending]

(* notification and clear_thread_sources.  A subscription made after the   *)
(* frame was sent loses its source too (loose).  The report is a           *)
(* best-effort call and can be lost.                                       *)
DeliverGone(c) ==
    LET t == Head(wire[c]).t
        n == SourcesAfterGone(t)
        who == {p \in Participants : pres[<<p, t>>] # "absent"}
        D == Unneeded(who \X {t}, Holder, n.cs, n.us, n.pe)
    IN /\ Idle /\ px[c] = "open" /\ wire[c] # <<>> /\ Head(wire[c]).kind = "gone"
       /\ wire' = [wire EXCEPT ![c] = Tail(@)]
       /\ \/ /\ connSrc' = n.cs /\ unkSrc' = n.us /\ pending' = n.pe
             /\ \E h \in Releases(Holder, D) :
                  /\ SetHolder(h)
                  /\ pstate' = Retired(who, pstate, h, n.cs, n.us, n.pe)
                  /\ cleanup' = [cleanup EXCEPT ![t] =
                                   IF \A w \in D : h.pres[w] = "absent" THEN {} ELSE who]
             /\ loose' = loose \cup {s \in sub : s[2] = t
                                         /\ (s \in connSrc \/ <<Owner[s[1]], t>> \in unkSrc)}
          \/ UNCHANGED <<connSrc, unkSrc, pending, cleanup, machine, pstate, loose>>
       /\ UNCHANGED <<live, cgen, pgen, lseq, timers, staged, requests, job,
                      px, sub, late, gone, made>>

(* retry_authoritative_cleanups, when an interaction is resolved.          *)
RetryCleanups ==
    LET W == {w \in Pairs : w[1] \in cleanup[w[2]]}
        D == Unneeded(W, Holder, connSrc, unkSrc, pending)
    IN /\ Idle /\ W # {}
       /\ \E h \in Releases(Holder, D) :
            /\ SetHolder(h)
            /\ pstate' = Retired({w[1] : w \in W}, pstate, h, connSrc, unkSrc, pending)
            /\ cleanup' = [t \in AllThreads |->
                             IF \A w \in D : w[2] = t => h.pres[w] = "absent"
                             THEN {} ELSE cleanup[t]]
       /\ UNCHANGED <<live, cgen, pgen, lseq, timers, connSrc, unkSrc, pending, staged,
                      requests, job, world>>

-----------------------------------------------------------------------------
(* The backend.                                                            *)

(* handle_disconnect: the create capabilities of the connection are        *)
(* revoked and their requests marked.                                      *)
BackendDisconnected ==
    /\ Idle /\ backend < MaxEpochs
    /\ backend' = backend + 1
    /\ attempts' = {}
    /\ reqs' = [k \in Keys |->
                  IF reqs[k] # NoRequest /\ reqs[k].method = "start"
                  THEN [reqs[k] EXCEPT !.revoked = TRUE] ELSE reqs[k]]
    /\ UNCHANGED <<endpoints, sources, machine, seq, job, world>>

(* A reset stops the backend, retires the requests, purges the instance's  *)
(* machine holders and then clears the registry.                           *)
BackendEpochCloses ==
    /\ Idle /\ backend < MaxEpochs
    /\ backend' = backend + 1
    /\ attempts' = {}
    /\ reqs' = [k \in Keys |-> NoRequest]
    /\ pstate' = [p \in Participants |-> "none"]
    /\ live' = {}
    /\ cgen' = [c \in Connections |-> 0]
    /\ pgen' = [p \in Participants |-> 0]
    /\ connSrc' = {} /\ unkSrc' = {} /\ pending' = {} /\ staged' = {}
    /\ cleanup' = [t \in AllThreads |-> {}]
    /\ pres' = [w \in Pairs |-> "absent"]
    /\ store' = {}
    /\ px' = [c \in Connections |-> IF px[c] = "idle" THEN "idle" ELSE "closed"]
    /\ wire' = [c \in Connections |-> <<>>]
    /\ sub' = {} /\ loose' = {}
    /\ UNCHANGED <<lseq, timers, fails, seq, job, late, gone, made>>

-----------------------------------------------------------------------------
FcodexNext ==
    \/ \E c \in Connections :
          Connect(c) \/ Heartbeat(c) \/ DeliverResponse(c) \/ DeliverTimesOut(c)
          \/ DeliverGone(c) \/ CloseProxy(c)
    \/ \E tm \in timers : ExpireConnection(tm) \/ ExpireParticipant(tm)
    \/ \E k \in Keys, t \in AllThreads :
          AdmitResume(k, t) \/ AdmitUnsubscribe(k, t) \/ AdmitStart(k, t)
    \/ \E f \in late : LateResponse(f)
    \/ \E k \in Keys : LostRequest(k)
    \/ FinishDisconnect
    \/ \E t \in AllThreads : ThreadGone(t)
    \/ RetryCleanups
    \/ BackendDisconnected
    \/ BackendEpochCloses

FcodexSpec == FcodexInit /\ [][FcodexNext]_fcodexVars

-----------------------------------------------------------------------------
(* Properties.                                                             *)

(* The types of the registry, the requests and the proxies.                *)
FcodexTypeOK ==
    /\ pstate \in [Participants -> {"none", "connected", "grace", "orphaned"}]
    /\ live \subseteq Connections
    /\ cgen \in [Connections -> Nat] /\ pgen \in [Participants -> Nat]
    /\ lseq \in Nat
    /\ timers \subseteq [who : Connections \cup Participants, gen : Nat, stale : BOOLEAN]
    /\ connSrc \subseteq Connections \X AllThreads
    /\ unkSrc \subseteq Pairs
    /\ pending \subseteq [key : Keys, tok : 1..MaxRequests, t : AllThreads]
    /\ staged \subseteq Keys
    /\ cleanup \in [AllThreads -> SUBSET Participants]
    /\ pres \in [Pairs -> {"absent", "confirmed", "unknown"}]
    /\ store \subseteq Pairs /\ fails \in 0..MaxFailures
    /\ \A k \in Keys : reqs[k] = NoRequest
                       \/ reqs[k] \in [tok : 1..MaxRequests, method : Methods, t : AllThreads,
                                       revoked : BOOLEAN, epoch : 0..MaxEpochs]
    /\ seq \in 0..MaxRequests /\ attempts \subseteq 1..MaxRequests
    /\ px \in [Connections -> {"idle", "open", "quarantined", "closed"}]
    /\ job.conn \in Connections \cup {NoConn} /\ job.todo \subseteq Keys

(* Whatever the store calls did, a source the registry has published is    *)
(* backed by a holder that really is in the machine store.                 *)
SourcesAreHeld ==
    \A w \in Pairs : HasSource(w, connSrc, unkSrc, pending) => w \in store

(* No machine holder is ever forgotten: what the store holds for a         *)
(* participant the registry still tracks, so a later call can release it.  *)
HoldersAreTracked == \A w \in store : pres[w] # "absent"

(* A participant record is given up only with all its sources and holders. *)
RetiredIsEmpty ==
    \A p \in Participants : pstate[p] = "none" =>
        /\ \A c \in live : Owner[c] # p
        /\ \A t \in AllThreads : /\ pres[<<p, t>>] = "absent"
                                 /\ ~HasSource(<<p, t>>, connSrc, unkSrc, pending)

(* While the service counts a connection as live, every subscription the   *)
(* app-server has for it is covered by the machine holder of its           *)
(* participant, except those known to be loose: a create that was not      *)
(* committed, or one that a "gone" frame older than it has swept away.     *)
SubscriptionsAreCovered ==
    \A s \in sub \ loose : s[1] \in live => <<Owner[s[1]], s[2]>> \in store

(* An in-flight source always belongs to the request that is waiting for   *)
(* it, and a request with a runtime source never loses it unsettled.       *)
PendingMatchesRequests ==
    /\ \A s \in pending : reqs[s.key].tok = s.tok
    /\ \A k \in Keys : reqs[k] # NoRequest /\ reqs[k].method = "resume" =>
          (PendingOf(k) # {}) # (k \in staged)

(* A timer whose endpoint or participant has been heard from since it was  *)
(* armed disconnects nobody and orphans nobody, even when the record it    *)
(* was armed for is gone and a new one has taken its place.                *)
StaleTimersAreInert ==
    [][\A tm \in timers : tm.stale /\ tm \notin timers' =>
          live' = live /\ pstate' = pstate]_fcodexVars

(* A create is committed only in the backend connection that issued its    *)
(* capability, however late its answer arrives.                            *)
CreateCommitsInItsEpoch ==
    [][\A k \in DOMAIN reqs : reqs[k] # NoRequest /\ reqs[k].method = "start" /\ reqs'[k] = NoRequest
          /\ <<k[1], reqs[k].t>> \in connSrc' \ connSrc => reqs[k].epoch = backend]_fcodexVars

(* The registry's own account: the holder "must remain installed" while    *)
(* there is a confirmed connection subscription.                           *)
ConfirmedSubscriptionKeepsHolder ==
    \A s \in sub : s[1] \in live /\ s[2] \in Threads => <<Owner[s[1]], s[2]>> \in store

-----------------------------------------------------------------------------
(* Liveness.  The RuntimeLoop runs the handler it is in; timers fire; a    *)
(* proxy with an open websocket heartbeats and reports what it is told,    *)
(* and one that quarantines its websocket closes it.                       *)
HandlerSteps == FinishDisconnect \/ \E k \in Keys : LostRequest(k)
TimerSteps ==
    \E tm \in timers :
        \/ ExpireParticipant(tm)
        \/ tm.who \in Connections /\ px[tm.who] # "open" /\ ExpireConnection(tm)

FcodexLiveSpec ==
    /\ FcodexSpec
    /\ WF_fcodexVars(HandlerSteps)
    /\ WF_fcodexVars(TimerSteps)
    /\ \A c \in Connections :
          /\ WF_fcodexVars(Heartbeat(c))
          /\ WF_fcodexVars(DeliverResponse(c))
          /\ WF_fcodexVars(px[c] = "quarantined" /\ CloseProxy(c))

(* Removing the last source of a pair releases its holder.                 *)
LastSourceReleases ==
    \A w \in Pairs :
        (pres[w] # "absent" /\ ~HasSource(w, connSrc, unkSrc, pending))
            ~> (pres[w] = "absent" \/ HasSource(w, connSrc, unkSrc, pending))

(* The same while the participant has an open, live connection.            *)
DeferredReleaseIsRetried ==
    \A w \in Pairs :
        (pres[w] # "absent" /\ ~HasSource(w, connSrc, unkSrc, pending))
            ~> (\/ pres[w] = "absent" \/ HasSource(w, connSrc, unkSrc, pending)
                \/ \A c \in live : Owner[c] # w[1] \/ px[c] # "open")

\* Every reason to keep a thread live for an fcodex participant is backed by
\* a holder the service still tracks.
ParticipantInvariant ==
  /\ FcodexTypeOK
  /\ SourcesAreHeld
  /\ HoldersAreTracked
  /\ RetiredIsEmpty
  /\ SubscriptionsAreCovered
  /\ PendingMatchesRequests

\* What no step does: act on an old timer, or commit a create in another
\* connection epoch.
ParticipantSteps ==
  /\ StaleTimersAreInert
  /\ CreateCommitsInItsEpoch
=============================================================================
