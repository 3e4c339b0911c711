-------------------------- MODULE AnalyticsClient --------------------------
(***************************************************************************)
(* The analytics session of a SkyWayContext: AnalyticsClient with its      *)
(* Socket, which reports what the application does to a server, and the    *)
(* authentication token that the context watches and hands on.             *)
(*                                                                         *)
(* A Socket reconnects its WebSocket after a time and keeps the reports    *)
(* that it could not send.  The client makes a new Socket when the server  *)
(* closes the connection because its token has expired.  Neither looks at  *)
(* which WebSocket an event comes from.                                    *)
(*                                                                         *)
(* Time is the number of tokens that have expired: token t is valid until  *)
(* now reaches t.                                                          *)
(***************************************************************************)
EXTENDS Naturals, FiniteSets, FiniteSetsExt

CONSTANTS
    MaxSockets,   \* bound: Socket objects
    MaxWs,        \* bound: WebSocket objects
    MaxReports,   \* bound: reports
    MaxTokens,    \* bound: tokens
    MaxLogs,      \* MAX_PENDING_SDK_LOGS (50 in the code)
    MaxAttempts,  \* reconnections until the Socket gives up (5 in the code)
    MaxTries,     \* BackOff times of a report (6 in the code)
    MaxCalls,     \* bound: calls of the application and logs
    MaxTroubles   \* bound: breaks, refusals and what takes too long

ASSUME AnalyticsAssumption ==
    /\ {MaxSockets, MaxWs, MaxTokens, MaxLogs, MaxAttempts, MaxTries} \subseteq Nat \ {0}
    /\ {MaxReports, MaxCalls, MaxTroubles} \subseteq Nat

Sockets == 1..MaxSockets
WebSockets == 1..MaxWs
Reports == 1..MaxReports
Tokens == 1..MaxTokens
None == 0

VARIABLES
    client,    \* the AnalyticsClient with its Sockets and their WebSockets
    report,    \* _sendClientEvent
    net,       \* reports and acknowledgements on their way, and what the server got
    context,   \* the token of the SkyWayContext
    session,   \* the AnalyticsSession: connectWithTimeout and close
    now,
    calls,
    troubles

vars == <<client, report, net, context, session, now, calls, troubles>>

SocketType ==
    [connectionState : {"none", "connecting", "connected", "reconnecting", "closed"},
     isOpen : BOOLEAN, isClosed : BOOLEAN, listens : BOOLEAN,
     token : 0..MaxTokens, ws : 0..MaxWs, count : Nat,
     timer : BOOLEAN, orphans : Nat,   \* _reconnectTimer, and timers it held before
     resend : SUBSET Reports]

ClientType ==
    [sockets : [Sockets -> SocketType],
     ws : [WebSockets -> [owner : 0..MaxSockets,
                          phase : {"none", "connecting", "open", "closing", "closed"}]],
     current : 0..MaxSockets,           \* _socket
     newToken : 0..MaxTokens,           \* _newToken
     callbacks : SUBSET Reports,        \* _acknowledgeCallbacks
     version : Nat,                     \* the next one for a publication
     logs : 0..MaxLogs, logTimer : BOOLEAN,
     told : SUBSET {"failed", "no token"}]

TypeOK ==
    /\ client \in ClientType
    /\ report \in [Reports -> [stage : {"none", "waiting", "backoff", "over"}, told : {"pending", "ok", "failed"},
                               timer : BOOLEAN, tries : 0..MaxTries, version : Nat]]
    /\ net \in [sent : SUBSET (WebSockets \X Reports \X BOOLEAN),   \* sent again after a reconnection or not
                answers : SUBSET (WebSockets \X Reports \X {"ok", "unexpected", "refused"}),
                received : SUBSET Reports, dropped : SUBSET Reports]
    /\ context \in [authToken : Tokens, expiredTimer : 0..MaxTokens, disposed : BOOLEAN,
                    updating : [Tokens -> {"none", "clock", "api", "done", "failed"}]]
    /\ session \in {"connecting", "ready", "closed"}
    /\ now \in 0..MaxTokens
    /\ calls \in 0..MaxCalls /\ troubles \in 0..MaxTroubles

Call == calls < MaxCalls /\ calls' = calls + 1
Trouble == troubles < MaxTroubles /\ troubles' = troubles + 1

----------------------------------------------------------------------------
(* What calls do to a client c.                                            *)

Unused(c) == {w \in WebSockets : c.ws[w].phase = "none"}

\* WebSocket.close: the close event comes later.
CloseWs(c, w) ==
    IF w = None THEN c
    ELSE [c EXCEPT !.ws[w].phase = IF @ \in {"connecting", "open"} THEN "closing" ELSE @]

\* Socket.destroy clears the timer it holds.
Destroy(c, s) ==
    [CloseWs(c, c.sockets[s].ws) EXCEPT
        !.sockets[s] = [@ EXCEPT !.connectionState = "closed", !.listens = FALSE, !.timer = FALSE]]

Disconnect(c) ==
    [(IF c.current = None THEN c ELSE Destroy(c, c.current)) EXCEPT !.current = None, !.callbacks = {}]

Dispose(c) == [Disconnect(c) EXCEPT !.logTimer = FALSE, !.version = 0]

\* onConnectionFailed, which the client answers with dispose, and Socket.close.
Fail(c, s) ==
    LET heard == IF c.sockets[s].listens THEN [Dispose(c) EXCEPT !.told = @ \cup {"failed"}] ELSE c
    IN  [Destroy(heard, s) EXCEPT !.sockets[s].isClosed = TRUE]

\* Faulty variant: a timer is set only when none is held.
ReconnectOnce(c, s) ==
    LET left == [CloseWs(c, c.sockets[s].ws) EXCEPT !.sockets[s].ws = None, !.sockets[s].isOpen = FALSE]
    IN  IF c.sockets[s].count >= MaxAttempts THEN Fail(left, s)
        ELSE [left EXCEPT !.sockets[s] =
                  [@ EXCEPT !.connectionState = "reconnecting", !.timer = c.sockets[s].connectionState # "reconnecting"]]

\* Socket.reconnect overwrites the timer.
Reconnect(c, s) ==
    LET left == [CloseWs(c, c.sockets[s].ws) EXCEPT !.sockets[s].ws = None, !.sockets[s].isOpen = FALSE]
    IN  IF c.sockets[s].count >= MaxAttempts THEN Fail(left, s)
        ELSE [left EXCEPT !.sockets[s] =
                  [@ EXCEPT !.connectionState = "reconnecting", !.timer = TRUE,
                            !.orphans = c.sockets[s].orphans + IF c.sockets[s].timer THEN 1 ELSE 0]]

\* new WebSocket in Socket._connect.
MakeWs(c, s) ==
    LET w == Min(Unused(c))
    IN  [c EXCEPT !.ws[w] = [owner |-> s, phase |-> "connecting"], !.sockets[s].ws = w]

\* Socket._connect: no WebSocket is made when its constructor throws.
Connect(c, s, throws) == IF throws THEN Reconnect(c, s) ELSE MakeWs(c, s)

\* What it takes to connect the client.
Connects(throws) == IF throws THEN Trouble ELSE Unused(client) # {} /\ UNCHANGED troubles

\* Socket.resendAfterReconnect
ResendAfterReconnect(c, s, r) ==
    LET queued == [c EXCEPT !.sockets[s].resend = @ \cup {r}]
    IN  IF c.sockets[s].connectionState = "reconnecting" THEN queued ELSE Reconnect(queued, s)

\* The Socket can send: its WebSocket is there and the server's Open event has come.
Sendable(c, s) == c.sockets[s].ws # None /\ c.sockets[s].isOpen /\ c.ws[c.sockets[s].ws].phase = "open"

\* What is lost with the queue of a Socket that is let go.
Abandoned(c, d) == IF c.current # None /\ d.current # c.current THEN d.sockets[c.current].resend ELSE {}

\* A step of the client, which may give up its Socket.
Becomes(c) ==
    /\ client' = c
    /\ net' = [net EXCEPT !.dropped = @ \cup Abandoned(client, c)]

----------------------------------------------------------------------------
(* WebSockets.                                                             *)

\* Faulty variant: what could not be sent is forgotten when the connection is back.
OpenReceivedForgets(w) ==
    LET s == client.ws[w].owner
    IN  /\ client.ws[w].phase = "connecting"
        /\ client' = [client EXCEPT !.ws[w].phase = "open",
               !.sockets[s] = [@ EXCEPT !.isOpen = TRUE, !.connectionState = "connected", !.count = 0, !.resend = {}]]
        /\ session' = IF session = "connecting" /\ s = 1 /\ client.sockets[s].listens THEN "ready" ELSE session
        /\ UNCHANGED <<report, net, context, now, calls, troubles>>

\* The server's Open event comes on a WebSocket that has opened, which is "connecting" up to
\* then: what waits is sent, if _ws is open.
\* The session waits for the first Socket only.
OpenReceived(w) ==
    LET s == client.ws[w].owner
        opened == [client EXCEPT !.ws[w].phase = "open",
            !.sockets[s] = [@ EXCEPT !.isOpen = TRUE, !.connectionState = "connected", !.count = 0]]
        waiting == client.sockets[s].resend
    IN  /\ client.ws[w].phase = "connecting"
        /\ client' = [opened EXCEPT !.sockets[s].resend = {}]
        /\ net' = IF Sendable(opened, s) THEN [net EXCEPT !.sent = @ \cup ({opened.sockets[s].ws} \X waiting \X {TRUE})]
                  ELSE [net EXCEPT !.dropped = @ \cup waiting]
        /\ session' = IF session = "connecting" /\ s = 1 /\ client.sockets[s].listens THEN "ready" ELSE session
        /\ UNCHANGED <<report, context, now, calls, troubles>>

\* What is on its way on w is lost.
LoseWs(w, c) ==
    LET d == [c EXCEPT !.ws[w].phase = "closed"]
        inFlight == {m \in net.sent : m[1] = w}
    IN  /\ client' = d
        /\ net' = [net EXCEPT !.sent = @ \ inFlight,
                              !.answers = {m \in @ : m[1] # w},
                              !.dropped = @ \cup {m[2] : m \in inFlight} \cup Abandoned(client, d)]
        /\ UNCHANGED <<report, context, now, calls>>

Closed(w) == [client EXCEPT !.ws[w].phase = "closed"]

\* onclose with a code for which a Socket reconnects.
CloseAbnormal(w) ==
    /\ \/ client.ws[w].phase = "open" /\ Trouble
       \/ client.ws[w].phase \in {"connecting", "closing"} /\ UNCHANGED troubles
    /\ LoseWs(w, Reconnect(Closed(w), client.ws[w].owner))
    /\ UNCHANGED session

\* onclose with a final code, from the server, or the answer to close(4000) or close(1000).
\* 4000 is taken for analytics that are not enabled, which ends connectWithTimeout.
CloseFinal(w) ==
    /\ \/ client.ws[w].phase \in {"connecting", "open"} /\ Trouble
       \/ client.ws[w].phase = "closing" /\ UNCHANGED troubles
    /\ LoseWs(w, Fail(Closed(w), client.ws[w].owner))
    /\ session' \in IF session = "connecting" /\ client.sockets[client.ws[w].owner].listens
                    THEN {"connecting", "ready"} ELSE {session}

\* _reconnectWithNewSkyWayAuthToken
WithNewToken(c, throws) ==
    LET d == Disconnect(c)
        free == {s \in Sockets : c.sockets[s].connectionState = "none"}
        s == Min(free)
        fresh == [d EXCEPT !.newToken = None, !.current = s,
                    !.sockets[s] = [@ EXCEPT !.connectionState = "connecting", !.listens = TRUE, !.token = c.newToken]]
    IN  IF c.newToken = None THEN [d EXCEPT !.told = @ \cup {"no token"}] ELSE Connect(fresh, s, throws)

\* onclose with 4200, the listener for which is never removed.
TokenExpired(w) ==
    /\ client.ws[w].phase \in {"connecting", "open"} /\ client.sockets[client.ws[w].owner].token <= now
    /\ client.newToken # None => \E s \in Sockets : client.sockets[s].connectionState = "none"
    /\ \E throws \in BOOLEAN :
          /\ IF client.newToken = None THEN UNCHANGED troubles ELSE Connects(throws)
          /\ LoseWs(w, WithNewToken(Closed(w), throws))
    /\ UNCHANGED session

\* A reconnection timer fires, the one that is held or one that was overwritten.
ReconnectTimer(s) ==
    /\ \E held, throws \in BOOLEAN :
          LET fired == IF held THEN [client EXCEPT !.sockets[s].timer = FALSE]
                       ELSE [client EXCEPT !.sockets[s].orphans = @ - 1]
          IN  /\ IF held THEN client.sockets[s].timer ELSE client.sockets[s].orphans > 0
              /\ Connects(throws)
              /\ Becomes([Connect(fired, s, throws) EXCEPT !.sockets[s].count = @ + 1])
    /\ UNCHANGED <<report, context, session, now, calls>>

----------------------------------------------------------------------------
(* Reports.                                                                *)

\* Socket.send
Transmit(c, r) ==
    IF Sendable(c, c.current)
    THEN /\ client' = [c EXCEPT !.callbacks = @ \cup {r}]
         /\ net' = [net EXCEPT !.sent = @ \cup {<<c.sockets[c.current].ws, r, FALSE>>}]
    ELSE LET d == ResendAfterReconnect(c, c.current, r)
         IN  Becomes([d EXCEPT !.callbacks = @ \cup {r}])

\* The start of _sendClientEvent, for a client c that has prepared report r.
SendClientEvent(c, r, version) ==
    LET made == [report[r] EXCEPT !.version = version]
    IN  /\ report[r].stage = "none" /\ \A x \in Reports : x < r => report[x].stage # "none"
        /\ IF c.current = None \/ c.sockets[c.current].connectionState = "closed"
           THEN /\ report' = [report EXCEPT ![r] = [made EXCEPT !.stage = "over", !.told = "failed"]]
                /\ client' = c
                /\ net' = [net EXCEPT !.dropped = @ \cup {r}]
           ELSE IF c.sockets[c.current].connectionState = "connecting"
           THEN /\ report' = [report EXCEPT ![r] = [made EXCEPT !.stage = "over", !.told = "failed"]]
                /\ client' = [c EXCEPT !.sockets[c.current].resend = @ \cup {r}, !.callbacks = @ \cup {r}]
                /\ UNCHANGED net
           ELSE /\ report' = [report EXCEPT ![r] = [made EXCEPT !.stage = "waiting", !.timer = TRUE]]
                /\ Transmit(c, r)
        /\ UNCHANGED <<context, session, now, troubles>>

\* A report on a device or on encodings: the versions of a publication tell their order.
sendReport(r) ==
    /\ session # "closed"
    /\ Call
    /\ SendClientEvent([client EXCEPT !.version = @ + 1], r, client.version + 1)

\* bufferOrSendSdkLog: a warning, an error or a full buffer sends what has gathered.
bufferSdkLog(r) ==
    /\ ~context.disposed
    /\ Call
    /\ \/ SendClientEvent([client EXCEPT !.logs = 0], r, 0)
       \/ /\ client.logs + 1 < MaxLogs
          /\ client' = [client EXCEPT !.logs = @ + 1]
          /\ UNCHANGED <<report, net, context, session, now, troubles>>

SdkLogInterval(r) ==
    /\ client.logTimer /\ client.logs > 0
    /\ SendClientEvent([client EXCEPT !.logs = 0], r, 0)
    /\ UNCHANGED calls

Settled(r, told) == [report[r] EXCEPT !.told = IF @ = "pending" THEN told ELSE @]

\* TIMEOUT_SEC are over: the report is sent again, its sender is told that it failed.
SendTimeout(r) ==
    /\ report[r].timer
    /\ Trouble
    /\ report' = [report EXCEPT ![r] = [Settled(r, "failed") EXCEPT !.timer = FALSE]]
    /\ IF client.current = None
       THEN /\ client' = [client EXCEPT !.callbacks = @ \ {r}]
            /\ net' = [net EXCEPT !.dropped = @ \cup {r}]
       ELSE Becomes(ResendAfterReconnect(client, client.current, r))
    /\ UNCHANGED <<context, session, now, calls>>

\* The callback of WebSocket.send reports an error, which is only logged when it was sent again.
SendFails(w, r, again) ==
    /\ <<w, r, again>> \in net.sent
    /\ Trouble
    /\ LET s == client.ws[w].owner
           d == IF again THEN client ELSE ResendAfterReconnect(client, s, r)
           kept == ~again /\ client.current = s
       IN  /\ client' = d
           /\ net' = [net EXCEPT !.sent = @ \ {<<w, r, again>>},
                                 !.dropped = @ \cup Abandoned(client, d) \cup (IF kept THEN {} ELSE {r})]
    /\ UNCHANGED <<report, context, session, now, calls>>

\* The server gets a report and answers.
Deliver(w, r, again) ==
    /\ <<w, r, again>> \in net.sent
    /\ \E verdict \in {"ok", "unexpected", "refused"} :
          /\ IF verdict = "ok" THEN UNCHANGED troubles ELSE Trouble
          /\ net' = [net EXCEPT !.sent = @ \ {<<w, r, again>>}, !.received = @ \cup {r},
                                !.answers = @ \cup {<<w, r, verdict>>}]
    /\ UNCHANGED <<client, report, context, session, now, calls>>

\* _acknowledgeHandler, and how _sendClientEvent goes on.
Acknowledge(w, r, verdict) ==
    /\ <<w, r, verdict>> \in net.answers /\ client.ws[w].phase = "open"
    /\ net' = [net EXCEPT !.answers = @ \ {<<w, r, verdict>>}]
    /\ IF r \in client.callbacks /\ client.sockets[client.ws[w].owner].listens
       THEN /\ client' = [client EXCEPT !.callbacks = @ \ {r}]
            /\ report' = [report EXCEPT ![r] =
                   IF @.stage # "waiting" THEN @
                   ELSE CASE verdict = "ok" -> [Settled(r, "ok") EXCEPT !.stage = "over", !.timer = FALSE]
                          [] verdict = "refused" -> [Settled(r, "failed") EXCEPT !.stage = "over", !.timer = FALSE]
                          [] verdict = "unexpected" -> [@ EXCEPT !.stage = "backoff", !.timer = FALSE, !.tries = report[r].tries + 1]]
       ELSE UNCHANGED <<client, report>>
    /\ UNCHANGED <<context, session, now, calls, troubles>>

\* The wait of the BackOff is over.  Without a Socket only the timer is set.
BackoffOver(r) ==
    /\ report[r].stage = "backoff"
    /\ IF report[r].tries >= MaxTries
       THEN /\ report' = [report EXCEPT ![r] = [Settled(r, "failed") EXCEPT !.stage = "over"]]
            /\ UNCHANGED <<client, net>>
       ELSE /\ report' = [report EXCEPT ![r] =
                   [@ EXCEPT !.timer = TRUE, !.stage = IF client.current = None THEN "over" ELSE "waiting"]]
            /\ IF client.current = None THEN UNCHANGED <<client, net>> ELSE Transmit(client, r)
    /\ UNCHANGED <<context, session, now, calls, troubles>>

\* connectWithTimeout gives up: the session is closed, its client goes on.
SessionTimeout ==
    /\ session = "connecting"
    /\ client.current # None => Trouble
    /\ client.current = None => UNCHANGED troubles
    /\ session' = "closed"
    /\ UNCHANGED <<client, report, net, context, now, calls>>

----------------------------------------------------------------------------
(* The token of the context.                                               *)

\* updateAuthToken: the session is told at once, the timers wait for the server's clock.
\* (A disposed context gets no more tokens.)
updateAuthToken(t) ==
    /\ ~context.disposed /\ context.updating[t] = "none"
    /\ Call
    /\ context' = [context EXCEPT !.authToken = t, !.updating[t] = "clock"]
    /\ client' = IF client.current = None THEN client ELSE [client EXCEPT !.newToken = t]
    /\ UNCHANGED <<report, net, session, now, troubles>>

\* Faulty variant: the timer is for the token of this call.
SetTimersOfCall(t) ==
    /\ context.updating[t] = "clock"
    /\ context' = [context EXCEPT !.updating[t] = "api", !.expiredTimer = t]
    /\ UNCHANGED <<client, report, net, session, now, calls, troubles>>

\* _setTokenExpireTimer goes on.  It throws when the token has expired, or so soon before
\* that the reminder would be late; then the timer for the expiry stays as it was.
SetTimers(t) ==
    /\ context.updating[t] = "clock"
    /\ \/ /\ context.authToken > now
          /\ context' = [context EXCEPT !.updating[t] = "api", !.expiredTimer = context.authToken]
          /\ UNCHANGED troubles
       \/ /\ IF context.authToken > now THEN Trouble ELSE UNCHANGED troubles
          /\ context' = [context EXCEPT !.updating[t] = "failed"]
    /\ UNCHANGED <<client, report, net, session, now, calls>>

\* The RTC API takes the token, refuses it, or the usage of the project is exceeded.
ApiAnswers(t) ==
    /\ context.updating[t] = "api"
    /\ \/ context' = [context EXCEPT !.updating[t] = "done"] /\ UNCHANGED troubles
       \/ context' = [context EXCEPT !.updating[t] = "failed"] /\ Trouble
       \/ context' = [context EXCEPT !.updating[t] = "failed", !.expiredTimer = None, !.disposed = TRUE] /\ Trouble
    /\ UNCHANGED <<client, report, net, session, now, calls>>

\* onTokenExpired
TokenTimer ==
    /\ context.expiredTimer \in 1..now
    /\ context' = [context EXCEPT !.expiredTimer = None]
    /\ UNCHANGED <<client, report, net, session, now, calls, troubles>>

dispose ==
    /\ ~context.disposed
    /\ Call
    /\ context' = [context EXCEPT !.disposed = TRUE]
    /\ UNCHANGED <<client, report, net, session, now, troubles>>

TimePasses ==
    /\ now < MaxTokens
    /\ now' = now + 1
    /\ UNCHANGED <<client, report, net, context, session, calls, troubles>>

----------------------------------------------------------------------------
Unmade == [connectionState |-> "none", isOpen |-> FALSE, isClosed |-> FALSE, listens |-> FALSE, token |-> None,
           ws |-> None, count |-> 0, timer |-> FALSE, orphans |-> 0, resend |-> {}]

\* setupAnalyticsSession has connected the client with the first token.
Init ==
    /\ \E throws \in BOOLEAN :
          client = Connect([sockets |-> [s \in Sockets |-> IF s # 1 THEN Unmade ELSE
                             [Unmade EXCEPT !.connectionState = "connecting", !.listens = TRUE, !.token = 1]],
                         ws |-> [w \in WebSockets |-> [owner |-> None, phase |-> "none"]],
                         current |-> 1, newToken |-> None, callbacks |-> {}, version |-> 0,
                         logs |-> 0, logTimer |-> TRUE, told |-> {}], 1, throws)
    /\ report = [r \in Reports |-> [stage |-> "none", told |-> "pending", timer |-> FALSE, tries |-> 0, version |-> 0]]
    /\ net = [sent |-> {}, answers |-> {}, received |-> {}, dropped |-> {}]
    /\ context = [authToken |-> 1, expiredTimer |-> 1, disposed |-> FALSE,
                  updating |-> [t \in Tokens |-> "none"]]
    /\ session = "connecting"
    /\ now = 0
    /\ calls = 0
    /\ troubles = 0

Next ==
    \/ \E w \in WebSockets : OpenReceived(w) \/ CloseAbnormal(w) \/ CloseFinal(w) \/ TokenExpired(w)
    \/ \E s \in Sockets : ReconnectTimer(s)
    \/ \E r \in Reports : sendReport(r) \/ bufferSdkLog(r) \/ SdkLogInterval(r) \/ SendTimeout(r) \/ BackoffOver(r)
    \/ \E w \in WebSockets, r \in Reports, again \in BOOLEAN : SendFails(w, r, again) \/ Deliver(w, r, again)
    \/ \E w \in WebSockets, r \in Reports, v \in {"ok", "unexpected", "refused"} : Acknowledge(w, r, v)
    \/ \E t \in Tokens : updateAuthToken(t) \/ SetTimers(t) \/ ApiAnswers(t)
    \/ TokenTimer \/ dispose \/ TimePasses \/ SessionTimeout

Spec == Init /\ [][Next]_vars

----------------------------------------------------------------------------
(* Properties.                                                             *)

Up == {"connecting", "open"}
Of(s) == {w \in WebSockets : client.ws[w].owner = s}

\* The client has a Socket that is connected or has a timer that will connect it, or else
\* it was told that it failed, or its token expired with no other at hand.  A Socket that
\* says it is connected is, unless a WebSocket that it has let go of had opened.
StateIsTrue ==
    LET s == client.current
    IN  /\ s = None => client.told # {}
        /\ s # None =>
              /\ client.sockets[s].listens /\ client.sockets[s].connectionState # "closed"
              /\ client.sockets[s].timer \/ \E w \in Of(s) : client.ws[w].phase \in Up
              /\ client.sockets[s].connectionState = "connected" =>
                    \E w \in Of(s) : client.ws[w].phase = "open"

\* No report is forgotten: it is with the server, on its way, in the queue of the Socket,
\* or a timer is set that sends it again; otherwise it was on a connection that was lost.
\* A sender that is told that all is well can rely on it.  What the server gets of one
\* publication tells its order, also across a change of the token, until the client has failed:
\* then its versions begin again, and a WebSocket it has let go of may still bring it back.
NoReportForgotten ==
    /\ TypeOK
    /\ \A r \in Reports :
          /\ report[r].stage # "none" =>
                \/ r \in net.received \cup net.dropped \cup {m[2] : m \in net.sent}
                \/ client.current # None /\ r \in client.sockets[client.current].resend
          /\ report[r].told = "ok" => r \in net.received
          /\ report[r].told = "pending" /\ report[r].stage # "none" => report[r].timer \/ report[r].stage = "backoff"
    /\ "failed" \notin client.told =>
          \A q, r \in net.received : q < r /\ report[q].version > 0 /\ report[r].version > 0 =>
              report[q].version < report[r].version

\* The context watches the token it has: when its timers are set, the one for the expiry is
\* that of the newest token, or it has fired because this token has expired.
ExpiryIsWatched ==
    ~context.disposed /\ (\A t \in Tokens : context.updating[t] \notin {"clock", "failed"}) =>
        IF context.expiredTimer = None THEN context.authToken <= now
        ELSE context.expiredTimer = context.authToken
=============================================================================
