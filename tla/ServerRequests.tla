--------------------------- MODULE ServerRequests ---------------------------
(***************************************************************************)
(* Requests of the app-server to its clients (approvals, user input) and   *)
(* their one answer: bot/server_request_registry.py and                    *)
(* server_request_coordinator.py (RuntimeLoop), server_request_surface_    *)
(* dispatcher.py, interaction_auto_resolution.py, the inboxes of the three *)
(* surfaces (web_runtime/interaction_inbox.py, fcodex/interaction_inbox.py,*)
(* interaction_request_controller.py) and the response authority of the    *)
(* socket (codex_protocol/server_request_authority.py, respond() of        *)
(* connection.py).                                                         *)
(*                                                                         *)
(* The app-server sends a request to every subscribed connection: that of  *)
(* the service, and the sockets of the fcodex proxies, which may show and  *)
(* answer it before the service has read its copy.  The shared routes are  *)
(* modelled: Approval goes to all three surfaces, everything else to the   *)
(* desktop surfaces and, when both decline, to Feishu.                     *)
(*                                                                         *)
(* The identity of a request is the generation of the connection it was    *)
(* registered under, because the tombstone of a resolved request keeps it  *)
(* from being registered twice in one epoch (the registry forgets a        *)
(* tombstone after 512 newer ones; that is left out).                      *)
(***************************************************************************)
EXTENDS Naturals, Sequences, FiniteSets

CONSTANTS
  Req,             \* JSON-RPC request ids
  Approval,        \* those routed as shared approvals; the others have a timer
  Proxy,           \* connections of fcodex proxies
  MaxGen,          \* bound: connections of the service
  MaxFrame,        \* bound: request frames read or replayed
  None

ASSUME ServerRequestsAssumption ==
  /\ Approval \subseteq Req /\ MaxGen \in Nat \ {0} /\ MaxFrame \in Nat

Gen == 1..MaxGen
Status == {"pending", "submitted", "unknown"}

\* Records of the surfaces: the identity they hold (0: none yet), how far the
\* answer got, and the timer they were issued to.
WebRecords == [g : Gen, st : Status, hidden : BOOLEAN, t : 0..MaxFrame]
FcRecords == [g : 0..MaxGen, toks : SUBSET Proxy, sender : Proxy \cup {None},
              st : {"open", "submitted", "unknown", "superseded"}]
FsRecords == [g : Gen, st : Status, t : 0..MaxFrame, card : BOOLEAN, denied : BOOLEAN]
Responses == [r : Req, g : Gen, by : {"web", "feishu", "fcodex"}, revoke : BOOLEAN]

ASSUME NullAssumption == None \notin WebRecords \cup FcRecords \cup FsRecords \cup Responses

VARIABLES
  up, frames, answers, news,    \* app-server: callbacks; frames for proxies;
                                \* answers to it; resolutions for proxies
  conn, lastGen, auth,          \* connection of the service (0: down), last
                                \* one, remembered receiving generations
  queue, frameNo,               \* RuntimeLoop work of reader and timers; frames
  epoch, pend, phase,           \* _connection_generation, _pending, _response_status
  revoked, lost, resolved,      \* _response_revoked, _dispatch_unknown, _resolved
  timer, timerNo,               \* scheduled timer generations
  web, webLive,                 \* Web records; a live document on the thread
  fc, attached, grants,         \* fcodex records, live proxies, delegated sends
  fs,                           \* Feishu records
  busy,                         \* the response the loop is sending
  wrote, settled                \* history: answers written, requests settled

upVars == <<up, frames, answers, news>>
connVars == <<conn, lastGen, auth, queue, frameNo>>
regVars == <<epoch, pend, phase, revoked, lost, resolved>>
timerVars == <<timer, timerNo>>
webVars == <<web, webLive>>
fcVars == <<fc, attached, grants>>
histVars == <<wrote, settled>>
loopVars == <<regVars, timerVars, webVars, fcVars, fs, busy, histVars>>
vars == <<upVars, connVars, loopVars>>

Forgotten == [r \in Req |-> None]

Init ==
  /\ up = [r \in Req |-> "none"] /\ frames = {} /\ answers = {} /\ news = {}
  /\ conn = 1 /\ lastGen = 1 /\ auth = {} /\ queue = <<>> /\ frameNo = 0
  /\ epoch = 0 /\ pend = [r \in Req |-> 0] /\ phase = [r \in Req |-> "pending"]
  /\ revoked = {} /\ lost = {} /\ resolved = {}
  /\ timer = [r \in Req |-> 0] /\ timerNo = 0
  /\ web = Forgotten /\ webLive = TRUE
  /\ fc = Forgotten /\ attached = Proxy /\ grants = {}
  /\ fs = Forgotten /\ busy = None
  /\ wrote = [x \in Req \X Gen |-> 0] /\ settled = {}

-----------------------------------------------------------------------------
(* The app-server and the connections.  External.                           *)

\* A frame read by the service: the reader remembers the receiving generation
\* and queues the routing.
ReadRequest(r) ==
  /\ queue' = Append(queue, [k |-> "req", r |-> r, g |-> conn])
  /\ auth' = auth \cup {<<r, conn>>}

Ask(r) ==
  /\ up[r] = "none" /\ frameNo < MaxFrame /\ frameNo' = frameNo + 1
  /\ up' = [up EXCEPT ![r] = "pending"]
  /\ frames' = frames \cup {<<p, r>> : p \in attached}
  /\ IF conn # 0 THEN ReadRequest(r) ELSE UNCHANGED <<queue, auth>>
  /\ UNCHANGED <<answers, news, conn, lastGen, loopVars>>

\* thread/resume of the service or of a proxy: pending callbacks are replayed.
Replay(r) ==
  /\ up[r] = "pending" /\ frameNo < MaxFrame /\ frameNo' = frameNo + 1
  /\ \/ conn # 0 /\ ReadRequest(r) /\ UNCHANGED frames
     \/ \E p \in attached : frames' = frames \cup {<<p, r>>} /\ UNCHANGED <<queue, auth>>
  /\ UNCHANGED <<up, answers, news, conn, lastGen, loopVars>>

\* The first answer consumes the callback and is announced to every connection;
\* later ones are ignored.
TakeAnswer(r) ==
  /\ r \in answers /\ answers' = answers \ {r}
  /\ IF up[r] = "pending"
     THEN /\ up' = [up EXCEPT ![r] = "gone"]
          /\ news' = news \cup {<<p, r>> : p \in attached}
          /\ IF conn # 0
             THEN /\ queue' = Append(queue, [k |-> "resolved", r |-> r, g |-> conn])
                  /\ auth' = auth \ {<<r, conn>>}
             ELSE UNCHANGED <<queue, auth>>
     ELSE UNCHANGED <<up, news, queue, auth>>
  /\ UNCHANGED <<frames, conn, lastGen, frameNo, loopVars>>

\* The end of the turn clears the callbacks of its thread.
TurnEnds ==
  /\ \E r \in Req : up[r] = "pending"
  /\ up' = [r \in Req |-> IF up[r] = "pending" THEN "gone" ELSE up[r]]
  /\ queue' = IF conn # 0 THEN Append(queue, [k |-> "turn", r |-> None, g |-> conn]) ELSE queue
  /\ UNCHANGED <<frames, answers, news, conn, lastGen, frameNo, auth, loopVars>>

\* The reader fences the generation, forgets its response authority and queues
\* the cleanup.
Disconnect ==
  /\ conn # 0 /\ conn' = 0 /\ auth' = {a \in auth : a[2] # conn}
  /\ queue' = Append(queue, [k |-> "disc", r |-> None, g |-> conn])
  /\ UNCHANGED <<upVars, lastGen, frameNo, loopVars>>

Reconnect ==
  /\ conn = 0 /\ lastGen < MaxGen /\ lastGen' = lastGen + 1 /\ conn' = lastGen + 1
  /\ UNCHANGED <<upVars, queue, frameNo, auth, loopVars>>

-----------------------------------------------------------------------------
(* The registry and the removal of projections.                             *)

Idle == busy = None

\* The records of the requests in S, of the registered identity, are dropped;
\* a record of another identity stays.
DropOf(records, S) ==
  [r \in Req |-> IF r \in S /\ records[r] # None /\ records[r].g = pend[r]
                 THEN None ELSE records[r]]

\* Mutant: the Web record of a settled request stays.
KeepsWebRecord(S, g) ==
  /\ pend' = [r \in Req |-> IF r \in S THEN 0 ELSE pend[r]]
  /\ phase' = [r \in Req |-> IF r \in S THEN "pending" ELSE phase[r]]
  /\ revoked' = revoked \ S /\ lost' = lost \ S /\ resolved' = resolved \cup S
  /\ timer' = [r \in Req |-> IF r \in S THEN 0 ELSE timer[r]]
  /\ UNCHANGED web /\ fs' = DropOf(fs, S)
  /\ settled' = settled \cup {<<r, g>> : r \in S}

\* settle, settle_thread and _remove_local_projections, in epoch g.
Settle(S, g) ==
  /\ pend' = [r \in Req |-> IF r \in S THEN 0 ELSE pend[r]]
  /\ phase' = [r \in Req |-> IF r \in S THEN "pending" ELSE phase[r]]
  /\ revoked' = revoked \ S /\ lost' = lost \ S /\ resolved' = resolved \cup S
  /\ timer' = [r \in Req |-> IF r \in S THEN 0 ELSE timer[r]]
  /\ web' = DropOf(web, S) /\ fs' = DropOf(fs, S)
  /\ settled' = settled \cup {<<r, g>> : r \in S}

\* Mutant: a resolution seen by a proxy leaves no tombstone.
ObservesWithoutTombstone(r, g) ==
  /\ fc' = [fc EXCEPT ![r] = None]
  /\ IF pend[r] # 0 THEN Settle({r}, g)
     ELSE /\ settled' = IF fc[r] # None /\ g # 0 THEN settled \cup {<<r, g>>} ELSE settled
          /\ UNCHANGED <<pend, phase, revoked, lost, resolved, timer, web, fs>>

\* handle_server_request_resolved and observe_proxy_resolution: a request only
\* the proxies have shown is registered and settled at once, so that a delayed
\* copy of the service is suppressed.  The admission of an event opens its
\* epoch g before.
ObserveResolution(r, g) ==
  /\ fc' = [fc EXCEPT ![r] = None]
  /\ IF pend[r] # 0 \/ (fc[r] # None /\ g # 0 /\ r \notin resolved)
     THEN Settle({r}, g)
     ELSE UNCHANGED <<pend, phase, revoked, lost, resolved, timer, web, fs, settled>>

\* Mutant: an answer is admitted while another one is under way.
AdmitsAnyPhase(r, g) == pend[r] = g /\ r \notin revoked

\* begin_response admits this identity.
Admits(r, g) == pend[r] = g /\ r \notin revoked /\ phase[r] = "pending"

\* What a surface is told otherwise: superseded, or unknown.
Superseded(r, g) ==
  \/ r \in resolved
  \/ pend[r] = g /\ (r \in revoked \/ phase[r] = "submitted")

\* The loop starts to send an answer of one surface.
BeginResponse(r, g, surface, revoke) ==
  /\ phase' = [phase EXCEPT ![r] = "processing"]
  /\ busy' = [r |-> r, g |-> g, by |-> surface, revoke |-> revoke]

\* revoke_surface_response_authority: the Web record is hidden with it.
Revoke(r) ==
  /\ revoked' = revoked \cup {r}
  /\ web' = IF web[r] = None THEN web ELSE [web EXCEPT ![r].hidden = TRUE]

-----------------------------------------------------------------------------
(* Routing on the loop.                                                     *)

\* service_request of fcodex.  A record the proxies opened first is bound to
\* the identity.
FcodexClaims(r) == r \in Approval \/ attached # {}
FcodexRecord(r, g) ==
  IF fc[r] = None THEN [g |-> g, st |-> "open", toks |-> {}, sender |-> None]
  ELSE [fc[r] EXCEPT !.g = g]

\* prepare_ingress and present of the Web inbox.
WebConsumes(r) == web[r] # None /\ web[r].st # "pending"
WebRecord(g, t) == [g |-> g, st |-> "pending", hidden |-> FALSE, t |-> t]

FsRecord(g, t, card, denied) ==
  [g |-> g, st |-> "pending", t |-> t, card |-> card, denied |-> denied]

\* route_feishu: a card, a fail-closed answer when there is nobody to show it
\* to, the same for a group that may not answer any more (an approval is then
\* revoked too), or a decline.
FeishuRoute(r, g, t) ==
  \/ fs' = [fs EXCEPT ![r] = FsRecord(g, t, TRUE, FALSE)] /\ UNCHANGED <<busy, phase>>
  \/ /\ \E x \in {0, t} : fs' = [fs EXCEPT ![r] = FsRecord(g, x, FALSE, r \in Approval)]
     /\ BeginResponse(r, g, "feishu", r \in Approval)
  \/ UNCHANGED <<fs, busy, phase>>

\* The dispatcher.  Feishu is asked for approvals and when both desktop
\* surfaces decline; its record of an older connection is an identity conflict
\* and makes the outcome of the dispatch unknown.
Dispatch(r, g) ==
  LET t == IF r \in Approval THEN 0 ELSE timerNo + 1
      webClaims == webLive \/ WebConsumes(r)
      asked == r \in Approval \/ (~FcodexClaims(r) /\ ~webClaims)
      conflict == asked /\ fs[r] # None /\ fs[r].g # g
  IN /\ timerNo' = IF r \in Approval THEN timerNo ELSE t
     /\ fc' = IF FcodexClaims(r) THEN [fc EXCEPT ![r] = FcodexRecord(r, g)] ELSE fc
     /\ web' = IF webLive /\ ~WebConsumes(r) THEN [web EXCEPT ![r] = WebRecord(g, t)] ELSE web
     /\ lost' = IF conflict THEN lost \cup {r} ELSE lost
     /\ IF asked /\ fs[r] = None THEN FeishuRoute(r, g, t) ELSE UNCHANGED <<fs, busy, phase>>
     /\ timer' = [timer EXCEPT ![r] =
                    IF ~conflict /\ (web'[r] # None \/ fs'[r] # None) THEN t ELSE 0]

\* Mutant: a replay is offered again after its response authority was revoked.
OffersRevoked(r) == r \notin lost /\ phase[r] = "pending"

\* route_request does not offer what is being answered, revoked or unknown.
Offers(r) == r \notin revoked /\ r \notin lost /\ phase[r] = "pending"

\* The gate admits events of the live connection, and opens its epoch.
HandleRequest ==
  LET e == Head(queue)
  IN /\ Idle /\ queue # <<>> /\ e.k = "req" /\ queue' = Tail(queue)
     /\ IF e.g = conn
        THEN /\ epoch' = e.g
             /\ IF e.r \in resolved
                THEN UNCHANGED <<pend, phase, lost, timerVars, web, fc, fs, busy>>
                ELSE /\ pend' = [pend EXCEPT ![e.r] = e.g]
                     /\ IF Offers(e.r) THEN Dispatch(e.r, e.g)
                        ELSE UNCHANGED <<phase, lost, timerVars, web, fc, fs, busy>>
        ELSE UNCHANGED <<epoch, pend, phase, lost, timerVars, web, fc, fs, busy>>
     /\ UNCHANGED <<upVars, conn, lastGen, frameNo, auth, revoked, resolved, webLive,
                    attached, grants, histVars>>

HandleResolved ==
  LET e == Head(queue)
  IN /\ Idle /\ queue # <<>> /\ e.k = "resolved" /\ queue' = Tail(queue)
     /\ IF e.g = conn
        THEN epoch' = e.g /\ ObserveResolution(e.r, e.g)
        ELSE UNCHANGED <<regVars, timer, web, fc, fs, settled>>
     /\ UNCHANGED <<upVars, conn, lastGen, frameNo, auth, timerNo, webLive, attached, grants,
                    busy, wrote>>

HandleTurnEnd ==
  LET e == Head(queue)
      S == {r \in Req : pend[r] # 0}
  IN /\ Idle /\ queue # <<>> /\ e.k = "turn" /\ queue' = Tail(queue)
     /\ IF e.g = conn
        THEN epoch' = e.g /\ Settle(S, e.g) /\ fc' = DropOf(fc, S)
        ELSE UNCHANGED <<regVars, timer, web, fc, fs, settled>>
     /\ UNCHANGED <<upVars, conn, lastGen, frameNo, auth, timerNo, webLive, attached, grants,
                    busy, wrote>>

\* handle_disconnect_impl.  The Feishu records stay, not to be answered.
HandleDisconnect ==
  /\ Idle /\ queue # <<>> /\ Head(queue).k = "disc" /\ queue' = Tail(queue)
  /\ epoch' = 0 /\ pend' = [r \in Req |-> 0] /\ phase' = [r \in Req |-> "pending"]
  /\ revoked' = {} /\ lost' = {} /\ resolved' = {} /\ timer' = [r \in Req |-> 0]
  /\ web' = Forgotten /\ fc' = Forgotten
  /\ fs' = [r \in Req |-> IF fs[r] = None \/ fs[r].st # "pending" THEN fs[r]
                          ELSE [fs[r] EXCEPT !.st = "unknown"]]
  /\ UNCHANGED <<upVars, conn, lastGen, frameNo, auth, timerNo, webLive, attached, grants,
                 busy, histVars>>

-----------------------------------------------------------------------------
(* A surface answers with the identity its record holds.                    *)

\* submit_response of the Web inbox.
AnswerWeb(r) ==
  IF Admits(r, web[r].g)
  THEN BeginResponse(r, web[r].g, "web", FALSE) /\ UNCHANGED web
  ELSE /\ web' = IF Superseded(r, web[r].g) THEN [web EXCEPT ![r] = None]
                 ELSE [web EXCEPT ![r].st = "unknown"]
       /\ UNCHANGED <<phase, busy>>

\* _submit_response of the Feishu controller.
AnswerFeishu(r, revoke) ==
  IF Admits(r, fs[r].g)
  THEN BeginResponse(r, fs[r].g, "feishu", revoke) /\ UNCHANGED fs
  ELSE /\ fs' = IF Superseded(r, fs[r].g) THEN [fs EXCEPT ![r] = None]
                ELSE [fs EXCEPT ![r].st = "unknown"]
       /\ UNCHANGED <<phase, busy>>

-----------------------------------------------------------------------------
(* Timers.                                                                  *)

\* _timer_fired checks the schedule on the timer thread and queues the work.
TimerFires(r) ==
  /\ timer[r] # 0
  /\ \A k \in DOMAIN queue : ~(queue[k].k = "due" /\ queue[k].g = timer[r])
  /\ queue' = Append(queue, [k |-> "due", r |-> r, g |-> timer[r]])
  /\ UNCHANGED <<upVars, conn, lastGen, frameNo, auth, loopVars>>

\* A due timer of the schedule answers for the record it was issued to: that of
\* the Web or, when the Web has none, that of Feishu.
HandleDue ==
  LET e == Head(queue)
      r == e.r
  IN /\ Idle /\ queue # <<>> /\ e.k = "due" /\ queue' = Tail(queue)
     /\ IF timer[r] = e.g
        THEN /\ timer' = [timer EXCEPT ![r] = 0]
             /\ \/ /\ web[r] # None
                   /\ IF web[r].t = e.g /\ web[r].st = "pending" /\ ~web[r].hidden
                      THEN AnswerWeb(r) ELSE UNCHANGED <<phase, busy, web>>
                   /\ UNCHANGED fs
                \/ /\ web[r] = None /\ fs[r] # None
                   /\ IF fs[r].t = e.g /\ fs[r].st = "pending" /\ ~fs[r].denied
                      THEN AnswerFeishu(r, FALSE) ELSE UNCHANGED <<phase, busy, fs>>
                   /\ UNCHANGED web
                \/ /\ web[r] = None /\ fs[r] = None /\ UNCHANGED <<phase, busy, web, fs>>
        ELSE UNCHANGED <<timer, phase, busy, web, fs>>
     /\ UNCHANGED <<upVars, conn, lastGen, frameNo, auth, epoch, pend, revoked, lost, resolved,
                    timerNo, webLive, fcVars, histVars>>

-----------------------------------------------------------------------------
(* Browsers and Feishu.                                                     *)

WebAnswer(r) ==
  /\ Idle /\ webLive /\ web[r] # None /\ web[r].st = "pending" /\ ~web[r].hidden
  /\ AnswerWeb(r)
  /\ UNCHANGED <<upVars, connVars, epoch, pend, revoked, lost, resolved, timerVars, webLive,
                 fcVars, fs, histVars>>

\* Browsers come and go; shared records are kept.
BrowserAttach ==
  /\ Idle /\ webLive' = ~webLive
  /\ UNCHANGED <<upVars, connVars, regVars, timerVars, web, fcVars, fs, busy, histVars>>

FeishuAnswer(r) ==
  /\ Idle /\ fs[r] # None /\ fs[r].card /\ ~fs[r].denied /\ fs[r].st = "pending"
  /\ AnswerFeishu(r, FALSE)
  /\ UNCHANGED <<upVars, connVars, epoch, pend, revoked, lost, resolved, timerVars, webVars,
                 fcVars, histVars>>

\* fail_close_chat_requests: a shared approval loses its Feishu projection only,
\* any other request is answered fail-closed.
FeishuChatClosed(r) ==
  /\ Idle /\ fs[r] # None /\ fs[r].card
  /\ IF r \in Approval THEN fs' = [fs EXCEPT ![r] = None] /\ UNCHANGED <<phase, busy>>
     ELSE fs[r].st = "pending" /\ AnswerFeishu(r, FALSE)
  /\ UNCHANGED <<upVars, connVars, epoch, pend, revoked, lost, resolved, timerVars, webVars,
                 fcVars, histVars>>

\* fail_close_non_admin_chat_requests: the one fail-closed answer, and a shared
\* approval is revoked for every surface whatever became of it.
FeishuGroupDeactivated(r) ==
  LET f == [fs EXCEPT ![r].denied = TRUE]
      exact == r \in Approval /\ pend[r] = fs[r].g
  IN /\ Idle /\ fs[r] # None /\ fs[r].card /\ ~fs[r].denied
     /\ \/ /\ fs[r].st = "pending" /\ Admits(r, fs[r].g)
           /\ BeginResponse(r, fs[r].g, "feishu", exact)
           /\ fs' = f /\ UNCHANGED <<revoked, web>>
        \/ /\ ~(fs[r].st = "pending" /\ Admits(r, fs[r].g))
           /\ IF exact THEN Revoke(r) ELSE UNCHANGED <<revoked, web>>
           /\ fs' = IF fs[r].st # "pending" THEN f
                    ELSE IF Superseded(r, fs[r].g) THEN [fs EXCEPT ![r] = None]
                    ELSE [f EXCEPT ![r].st = "unknown"]
           /\ UNCHANGED <<phase, busy>>
     /\ UNCHANGED <<upVars, connVars, epoch, pend, lost, resolved, timerVars, webLive, fcVars,
                    histVars>>

-----------------------------------------------------------------------------
(* Proxies of fcodex, each on its own socket.                               *)

\* proxy_request: the frame is shown with a token, or suppressed.
ProxyRequest(p, r) ==
  /\ Idle /\ <<p, r>> \in frames /\ p \in attached /\ frames' = frames \ {<<p, r>>}
  /\ fc' = IF r \in resolved \/ r \in revoked THEN fc
           ELSE IF fc[r] = None
           THEN [fc EXCEPT ![r] = [g |-> 0, st |-> "open", toks |-> {p}, sender |-> None]]
           ELSE IF fc[r].st = "open" THEN [fc EXCEPT ![r].toks = @ \cup {p}]
           ELSE fc
  /\ UNCHANGED <<up, answers, news, connVars, regVars, timerVars, webVars, attached, grants, fs,
                 busy, histVars>>

MayAnswer(p, r) == Idle /\ p \in attached /\ fc[r] # None /\ p \in fc[r].toks /\ fc[r].st = "open"

\* response_submit of a record the registry does not know yet: the proxy claims
\* the request and is granted one send on its own socket.
ProxyClaim(p, r) ==
  /\ MayAnswer(p, r) /\ fc[r].g = 0
  /\ IF epoch # 0 /\ r \notin resolved /\ (pend[r] = 0 \/ Admits(r, pend[r]))
     THEN /\ pend' = [pend EXCEPT ![r] = epoch]
          /\ phase' = [phase EXCEPT ![r] = "processing"]
          /\ fc' = [fc EXCEPT ![r].g = epoch, ![r].st = "submitted", ![r].sender = p]
          /\ grants' = grants \cup {[p |-> p, r |-> r, g |-> epoch, sent |-> "no"]}
     ELSE /\ fc' = IF r \in resolved \/ r \in revoked \/ phase[r] \in {"processing", "submitted"}
                   THEN [fc EXCEPT ![r].st = "superseded"] ELSE fc
          /\ UNCHANGED <<pend, phase, grants>>
  /\ UNCHANGED <<upVars, connVars, epoch, revoked, lost, resolved, timerVars, webVars, attached,
                 fs, busy, histVars>>

\* response_submit of a bound record: the service sends.
ProxyAnswer(p, r) ==
  /\ MayAnswer(p, r) /\ fc[r].g # 0
  /\ IF Admits(r, fc[r].g) THEN BeginResponse(r, fc[r].g, "fcodex", FALSE) /\ UNCHANGED fc
     ELSE /\ fc' = [fc EXCEPT ![r].st = IF Superseded(r, fc[r].g) THEN "superseded" ELSE "unknown"]
          /\ UNCHANGED <<phase, busy>>
  /\ UNCHANGED <<upVars, connVars, epoch, pend, revoked, lost, resolved, timerVars, webVars,
                 attached, grants, fs, histVars>>

\* response_invalid drops the token of the endpoint.
ProxyInvalid(p, r) ==
  /\ MayAnswer(p, r) /\ fc' = [fc EXCEPT ![r].toks = @ \ {p}]
  /\ UNCHANGED <<upVars, connVars, regVars, timerVars, webVars, attached, grants, fs, busy,
                 histVars>>

\* The delegated write, which may fail after it began.  External.
ProxySends(x) ==
  /\ x \in grants /\ x.sent = "no"
  /\ \E outcome \in {"submitted", "unknown"}, arrives \in BOOLEAN :
       /\ outcome = "submitted" => arrives
       /\ answers' = IF arrives THEN answers \cup {x.r} ELSE answers
       /\ grants' = (grants \ {x}) \cup {[x EXCEPT !.sent = outcome]}
  /\ wrote' = [wrote EXCEPT ![<<x.r, x.g>>] = @ + 1]
  /\ UNCHANGED <<up, frames, news, connVars, regVars, timerVars, webVars, fc, attached, fs, busy,
                 settled>>

\* Mutant: the record is released, the registry never told.
FinishesRecordOnly(r, outcome) ==
  UNCHANGED phase /\ fc' = [fc EXCEPT ![r].sender = None, ![r].st = outcome]

\* _finish_proxy_response: the registry records the outcome of a send it still
\* has under way.
FinishProxyResponse(r, outcome) ==
  /\ phase' = IF pend[r] = fc[r].g /\ phase[r] = "processing"
              THEN [phase EXCEPT ![r] = outcome] ELSE phase
  /\ fc' = [fc EXCEPT ![r].sender = None, ![r].st = outcome]

\* response_sent and response_unknown.
ProxyReport(x) ==
  /\ Idle /\ x \in grants /\ x.sent # "no" /\ grants' = grants \ {x}
  /\ IF fc[x.r] # None /\ fc[x.r].sender = x.p /\ fc[x.r].g = x.g
     THEN FinishProxyResponse(x.r, x.sent) ELSE UNCHANGED <<phase, fc>>
  /\ UNCHANGED <<upVars, connVars, epoch, pend, revoked, lost, resolved, timerVars, webVars,
                 attached, fs, busy, histVars>>

\* notification: a proxy saw serverRequest/resolved.
ProxyResolved(p, r) ==
  /\ Idle /\ <<p, r>> \in news /\ p \in attached /\ news' = news \ {<<p, r>>}
  /\ IF fc[r] # None THEN ObserveResolution(r, epoch)
     ELSE UNCHANGED <<pend, phase, revoked, lost, resolved, timer, web, fc, fs, settled>>
  /\ UNCHANGED <<up, frames, answers, connVars, epoch, timerNo, webLive, attached, grants, busy,
                 wrote>>

\* participant_disconnected: drop_delivered retires the tokens and the delegated
\* send of the endpoint, one request at a time.
ProxyDisconnect(p) ==
  LET mine == {r \in Req : fc[r] # None /\ fc[r].sender = p}
  IN /\ Idle /\ p \in attached /\ attached' = attached \ {p}
     /\ frames' = {f \in frames : f[1] # p} /\ news' = {f \in news : f[1] # p}
     /\ grants' = {x \in grants : x.p # p}
     /\ fc' = [r \in Req |->
                 IF fc[r] = None THEN None
                 ELSE [fc[r] EXCEPT !.toks = @ \ {p},
                                    !.sender = IF r \in mine THEN None ELSE @,
                                    !.st = IF r \in mine THEN "unknown" ELSE @]]
     /\ phase' = [r \in Req |-> IF r \in mine /\ pend[r] = fc[r].g /\ phase[r] = "processing"
                                THEN "unknown" ELSE phase[r]]
     /\ UNCHANGED <<up, answers, connVars, epoch, pend, revoked, lost, resolved, timerVars,
                    webVars, fs, busy, histVars>>

-----------------------------------------------------------------------------
(* respond() of the connection, while the loop waits for it.                *)

\* Mutant: the registry stores the outcome instead of the status.
FinishesAsNotSent(outcome) == outcome

FinishedPhase(outcome) == IF outcome = "not_sent" THEN "pending" ELSE outcome

\* The surface that asked records the same outcome.
Surface(records, name, st) ==
  IF busy.by # name \/ records[busy.r] = None THEN records
  ELSE [records EXCEPT ![busy.r].st = st]

\* claim() finds the receiving generation, and the send is fenced to it; a
\* write that began consumes the claim.
RespondEnds(outcome) ==
  LET r == busy.r
      open == conn = busy.g /\ <<r, busy.g>> \in auth
      st == FinishedPhase(outcome)
  IN /\ ~Idle
     /\ outcome = "not_sent" \/ open
     /\ IF outcome = "not_sent" THEN UNCHANGED <<answers, auth, wrote>>
        ELSE /\ \E arrives \in BOOLEAN :
                  /\ outcome = "submitted" => arrives
                  /\ answers' = IF arrives THEN answers \cup {r} ELSE answers
             /\ auth' = auth \ {<<r, busy.g>>}
             /\ wrote' = [wrote EXCEPT ![<<r, busy.g>>] = @ + 1]
     /\ phase' = [phase EXCEPT ![r] = st]
     /\ fs' = Surface(fs, "feishu", st)
     /\ fc' = Surface(fc, "fcodex", IF st = "pending" THEN "open" ELSE st)
     /\ revoked' = IF busy.revoke THEN revoked \cup {r} ELSE revoked
     /\ web' = LET w == Surface(web, "web", st)
               IN IF busy.revoke /\ w[r] # None THEN [w EXCEPT ![r].hidden = TRUE] ELSE w
     /\ busy' = None
     /\ UNCHANGED <<up, frames, news, conn, lastGen, queue, frameNo, epoch, pend, lost, resolved,
                    timerVars, webLive, attached, grants, settled>>

Next ==
  \/ \E r \in Req : Ask(r) \/ Replay(r) \/ TakeAnswer(r)
  \/ TurnEnds \/ Disconnect \/ Reconnect
  \/ HandleRequest \/ HandleResolved \/ HandleTurnEnd \/ HandleDisconnect
  \/ \E r \in Req : TimerFires(r)
  \/ HandleDue \/ BrowserAttach
  \/ \E r \in Req : WebAnswer(r) \/ FeishuAnswer(r) \/ FeishuChatClosed(r)
                    \/ FeishuGroupDeactivated(r)
  \/ \E p \in Proxy, r \in Req : \/ ProxyRequest(p, r) \/ ProxyClaim(p, r) \/ ProxyAnswer(p, r)
                                 \/ ProxyInvalid(p, r) \/ ProxyResolved(p, r)
  \/ \E x \in grants : ProxySends(x) \/ ProxyReport(x)
  \/ \E p \in Proxy : ProxyDisconnect(p)
  \/ \E outcome \in {"not_sent", "submitted", "unknown"} : RespondEnds(outcome)

Spec == Init /\ [][Next]_vars

-----------------------------------------------------------------------------
(* Properties.                                                              *)

\* The registry, the records of the surfaces and the history have their types.
TypeOK ==
  /\ up \in [Req -> {"none", "pending", "gone"}]
  /\ frames \subseteq Proxy \X Req /\ answers \subseteq Req /\ news \subseteq Proxy \X Req
  /\ conn \in 0..MaxGen /\ lastGen \in Gen /\ auth \subseteq Req \X Gen
  /\ \A k \in DOMAIN queue : /\ queue[k].k \in {"req", "resolved", "turn", "disc", "due"}
                             /\ queue[k].g \in Nat /\ queue[k].r \in Req \cup {None}
  /\ epoch \in 0..MaxGen /\ pend \in [Req -> 0..MaxGen]
  /\ phase \in [Req -> Status \cup {"processing"}]
  /\ revoked \subseteq Req /\ lost \subseteq Req /\ resolved \subseteq Req
  /\ timer \in [Req -> Nat] /\ timerNo \in 0..MaxFrame /\ frameNo \in 0..MaxFrame
  /\ web \in [Req -> {None} \cup WebRecords] /\ fc \in [Req -> {None} \cup FcRecords]
  /\ fs \in [Req -> {None} \cup FsRecords] /\ busy \in {None} \cup Responses
  /\ grants \subseteq [p : Proxy, r : Req, g : Gen, sent : {"no", "submitted", "unknown"}]
  /\ attached \subseteq Proxy /\ webLive \in BOOLEAN
  /\ wrote \in [Req \X Gen -> Nat] /\ settled \subseteq Req \X Gen

\* Three surfaces, the timer and every proxy may try to answer one request, at
\* the same time and again after a replay: in one connection epoch at most one
\* answer is written, on whatever socket (submit_response, claim_proxy_response).
OneAnswerPerEpoch == \A x \in Req \X Gen : wrote[x] <= 1

\* A request whose answer is under way cannot be answered by anyone else, so
\* somebody must still be there to finish it: the loop that waits for respond(),
\* or the attached proxy with the delegated send (drop_delivered settles it).
ProcessingHasOwner ==
  \A r \in Req : phase[r] = "processing" =>
    \/ busy # None /\ busy.r = r /\ busy.g = pend[r]
    \/ fc[r] # None /\ fc[r].g = pend[r] /\ fc[r].sender \in attached

\* After a group was deactivated no surface may answer its approval any more,
\* also not after a replay: Web hides the record and no timer answers for it
\* (revoke_surface_response_authority).
RevokedStaysHidden ==
  \A r \in revoked : pend[r] # 0 /\ (web[r] # None => web[r].hidden)

\* The records of Web and fcodex always belong to the registered request of the
\* live epoch: neither settlement nor a connection loss leaves one behind.
ProjectionsAreCurrent ==
  \A r \in Req : /\ web[r] # None => web[r].g = pend[r]
                 /\ fc[r] # None /\ fc[r].g # 0 => fc[r].g = pend[r]
                 /\ pend[r] # 0 => pend[r] = epoch

\* A request that was settled in this epoch is not pending again, whichever copy
\* of its frame arrives late (tombstones, resolve_proxy_request).
NoResurrection == \A r \in Req : pend[r] # 0 => <<r, epoch>> \notin settled

\* docs/contracts/server-request-lifecycle.md, 5: a replay after connection loss
\* creates fresh identities and projections.  (Feishu keeps the old record.)
FreshProjections == lost = {}

Armed(r) == /\ web[r] # None /\ web[r].st = "pending" /\ ~web[r].hidden
            /\ timer[r] # 0 /\ timer[r] = web[r].t

\* docs/contracts/server-request-lifecycle.md, 4: the auto-resolution of shared
\* Web user input is not cancelled because a browser disconnects: while the
\* record stays as it is and is not being answered, its timer stays.
TimerSurvives ==
  [][\A r \in Req : Armed(r) /\ web'[r] = web[r] /\ busy' = None => timer'[r] = timer[r]]_vars

\* A callback of the app-server is answered at most once, by someone who is
\* still there, and stays settled.
RequestInvariant ==
  /\ TypeOK
  /\ OneAnswerPerEpoch
  /\ ProcessingHasOwner
  /\ RevokedStaysHidden
  /\ ProjectionsAreCurrent
  /\ NoResurrection
=============================================================================
