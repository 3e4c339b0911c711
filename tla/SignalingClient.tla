-------------------------- MODULE SignalingClient --------------------------
(***************************************************************************)
(* The signaling session of one person: SignalingSession of core, the      *)
(* SignalingClient and the Socket below it, the WebSockets the Socket has  *)
(* made, the server and the session of the person the messages are for.    *)
(* A step is one callback: of the application, of a WebSocket or of a      *)
(* timer.                                                                  *)
(***************************************************************************)
EXTENDS Naturals, Sequences, FiniteSets, Functions

CONSTANTS
    Messages,       \* what send is called with
    Large,          \* those that do not fit a ClientEvent with its envelope
    Check,          \* the client event of a connectivity check
    MaxReconnects,  \* _reconnectCount at which the socket is given up (8 in the code)
    MaxBreaks,      \* bound: losses and refusals of connections
    MaxChecks       \* bound: connectivity checks

ASSUME SignalingAssumption ==
    /\ Large \subseteq Messages
    /\ Check \notin Messages
    /\ {MaxReconnects, MaxBreaks, MaxChecks} \subseteq Nat

MaxSockets == 1 + MaxBreaks + MaxChecks
Sockets == 1..MaxSockets

NoSocket == 0

VARIABLES
    client,       \* the fields of Socket, SignalingClient and SignalingSession
    conns,        \* the WebSockets: the state of each, or why its close event is due
    uplink,       \* what was written to each WebSocket and the server has not read
    inbox,        \* what the server has forwarded to the target
    replies,      \* the requests the target has replied to
    delivered,    \* what onMessage of the target's session has emitted, in order
    targetJoined, \* target.state of the remote member
    breaks,       \* how often the network or the server has interfered
    checks        \* how many connectivity checks were begun

net == <<uplink, inbox, replies, delivered>>
vars == <<client, conns, uplink, inbox, replies, delivered, targetJoined, breaks, checks>>

Phases == {"unused", "connecting", "open", "replaced", "ended", "broken", "refused", "closed"}

TypeOK ==
    /\ client \in [ws : Sockets \union {NoSocket}, isOpen : BOOLEAN, isDestroyed : BOOLEAN,
                   reconnectCount : 0..MaxSockets, reconnectTimer : BOOLEAN, lostTimers : 0..MaxSockets,
                   connectionState : {"closed", "reconnecting", "connected"},
                   waiting : Seq(Messages \union {Check}),
                   check : {"unstarted", "off", "idle", "out"}, checkOn : Sockets \union {NoSocket},
                   closed : BOOLEAN, hung : BOOLEAN,
                   req : [Messages -> {"idle", "waiting", "sent", "settled"}],
                   result : [Messages -> {"none", "ok", "failed"}]]
    /\ conns \in [Sockets -> Phases]
    /\ uplink \in [Sockets -> Seq(Messages \union {Check})]
    /\ inbox \in Seq(Messages)
    /\ replies \subseteq Messages
    /\ delivered \in Seq(Messages)
    /\ targetJoined \in BOOLEAN
    /\ breaks \in 0..MaxBreaks
    /\ checks \in 0..MaxChecks

----------------------------------------------------------------------------
(* Requests.                                                               *)

\* Faulty variant: every error is swallowed.
RejectQuietly(c, ms) ==
    [c EXCEPT !.req = [m \in Messages |-> IF m \in ms THEN "settled" ELSE @[m]],
              !.result = [m \in Messages |-> IF m \in ms /\ c.req[m] # "settled" THEN "ok" ELSE @[m]]]

\* The requests of ms end with an error; send throws it, or swallows it when
\* the session was closed or the target has left.
Reject(c, ms) ==
    LET told == IF c.closed \/ ~targetJoined THEN "ok" ELSE "failed"
    IN  [c EXCEPT !.req = [m \in Messages |-> IF m \in ms THEN "settled" ELSE @[m]],
                  !.result = [m \in Messages |-> IF m \in ms /\ c.req[m] # "settled" THEN told ELSE @[m]]]

----------------------------------------------------------------------------
(* Socket.                                                                 *)

Live == {"connecting", "open"}

\* _ws.close(...): the close event comes later, with the code meant by phase.
Close(cs, s, phase) ==
    IF s # NoSocket /\ cs[s] \in Live THEN [cs EXCEPT ![s] = phase] ELSE cs

\* destroy: the listeners are gone, the newest timer is cleared.
destroy(c) ==
    [c EXCEPT !.isDestroyed = TRUE, !.connectionState = "closed",
              !.waiting = <<>>, !.reconnectTimer = FALSE]

\* onConnectionFailed.emit: whoever waits for the connection is rejected.
connectionFailed(c) == Reject([c EXCEPT !.waiting = <<>>], Range(c.waiting))

\* Faulty variant: no timer is armed.
reconnectForgetsTimer(c) ==
    LET left == [c EXCEPT !.ws = NoSocket, !.isOpen = FALSE]
    IN  IF c.reconnectCount >= MaxReconnects
        THEN destroy(connectionFailed(left))
        ELSE [left EXCEPT !.connectionState = "reconnecting"]

\* reconnect: an armed timer is overwritten, not cleared.
reconnect(c) ==
    LET left == [c EXCEPT !.ws = NoSocket, !.isOpen = FALSE]
    IN  IF c.reconnectCount >= MaxReconnects
        THEN destroy(connectionFailed(left))
        ELSE [left EXCEPT !.connectionState = "reconnecting",
                          !.lostTimers = @ + (IF c.reconnectTimer THEN 1 ELSE 0),
                          !.reconnectTimer = TRUE]

Reconnects(c) ==
    /\ client' = reconnect(c)
    /\ conns' = Close(conns, c.ws, "replaced")

\* What _ws.send does in state phase: a WebSocket that is not open yet throws; one
\* that has ended drops the message without a word (browsers) or fails later, and
\* the request waits again (Node).
Written(phase) ==
    CASE phase = "open" -> {"carried"}
      [] phase = "connecting" -> {"thrown"}
      [] OTHER -> {"dropped", "retried"}

\* The messages ms, and the check perhaps, are written to _ws, and each meets the same.
Transmit(out, c, ms) ==
    LET sent == [c EXCEPT !.req = [m \in Messages |-> IF m \in Range(ms) /\ @[m] = "waiting" THEN "sent" ELSE @[m]]]
    IN  \/ out = "thrown"  /\ client' = Reject(c, Range(ms)) /\ UNCHANGED uplink
        \/ out = "dropped" /\ client' = sent /\ UNCHANGED uplink
        \/ out = "retried" /\ client' = [c EXCEPT !.waiting = @ \o ms] /\ UNCHANGED uplink
        \/ /\ out = "carried"
           /\ client' = IF Check \in Range(ms) /\ c.checkOn = NoSocket THEN [sent EXCEPT !.checkOn = c.ws] ELSE sent
           /\ uplink' = [uplink EXCEPT ![c.ws] = @ \o ms]

\* Socket.send
Write(c, m) ==
    IF c.isDestroyed
    THEN client' = Reject(c, {m}) /\ UNCHANGED uplink
    ELSE IF c.ws = NoSocket \/ ~c.isOpen
    THEN client' = [c EXCEPT !.waiting = IF m \in Range(@) THEN @ ELSE Append(@, m)] /\ UNCHANGED uplink
    ELSE \E out \in Written(conns[c.ws]) : Transmit(out, c, <<m>>)

----------------------------------------------------------------------------
(* Callbacks of the WebSockets and of the reconnection timers.             *)

\* The open event of the server arrives, also on a WebSocket that is no longer
\* the current one.  onOpened wakes those that wait; when there is no current
\* WebSocket each of them adds its listener again while the listeners are being
\* called, and the loop over them never ends.
Opens(s) ==
    /\ conns[s] = "connecting"
    /\ conns' = [conns EXCEPT ![s] = "open"]
    /\ LET c == [client EXCEPT !.isOpen = TRUE, !.connectionState = "connected", !.reconnectCount = 0,
                               !.check = IF @ = "unstarted" /\ ~client.isDestroyed THEN "idle" ELSE @]
       IN  IF client.ws = NoSocket
           THEN client' = [c EXCEPT !.hung = client.waiting # <<>>] /\ UNCHANGED uplink
           ELSE \E out \in Written(conns'[client.ws]) : Transmit(out, [c EXCEPT !.waiting = <<>>], client.waiting)
    /\ UNCHANGED <<inbox, replies, delivered, targetJoined, breaks, checks>>

\* ws.onerror, or a connection that is lost: the close event is still to come.
Breaks(s) ==
    /\ breaks < MaxBreaks
    /\ conns[s] \in Live
    /\ conns' = [conns EXCEPT ![s] = "broken"]
    /\ breaks' = breaks + 1
    /\ UNCHANGED <<client, net, targetJoined, checks>>

\* The server closes with 1000 or 4001 to 4199: the client should not come back.
ServerCloses(s) ==
    /\ breaks < MaxBreaks
    /\ conns[s] \in Live
    /\ conns' = [conns EXCEPT ![s] = "refused"]
    /\ breaks' = breaks + 1
    /\ UNCHANGED <<client, net, targetJoined, checks>>

\* ws.onclose with code 4000: the WebSocket was replaced.
CloseReplaced(s) ==
    /\ conns[s] = "replaced"
    /\ conns' = [conns EXCEPT ![s] = "closed"]
    /\ UNCHANGED <<client, net, targetJoined, breaks, checks>>

\* Faulty variant: no second reconnection is begun while one is under way.
CloseAbnormalOnce(s) ==
    /\ conns[s] = "broken"
    /\ IF client.connectionState = "reconnecting"
       THEN client' = client /\ conns' = [conns EXCEPT ![s] = "closed"]
       ELSE client' = reconnect(client) /\ conns' = [Close(conns, client.ws, "replaced") EXCEPT ![s] = "closed"]
    /\ UNCHANGED <<net, targetJoined, breaks, checks>>

\* ws.onclose with a code that asks for a reconnection.  A WebSocket the client
\* itself has closed reports one too, when its network is gone.
CloseAbnormal(s) ==
    /\ \/ conns[s] = "broken" /\ UNCHANGED breaks
       \/ conns[s] \in {"replaced", "ended"} /\ breaks < MaxBreaks /\ breaks' = breaks + 1
    /\ client' = reconnect(client)
    /\ conns' = [Close(conns, client.ws, "replaced") EXCEPT ![s] = "closed"]
    /\ UNCHANGED <<net, targetJoined, checks>>

\* ws.onclose with 1000 or 4001 to 4199.
CloseFinal(s) ==
    /\ conns[s] \in {"refused", "ended"}
    /\ client' = destroy(connectionFailed(client))
    /\ conns' = [Close(conns, client.ws, "ended") EXCEPT ![s] = "closed"]
    /\ UNCHANGED <<net, targetJoined, breaks, checks>>

\* A reconnection timer: the current WebSocket, if there is one, is forgotten.
Connect(c) ==
    LET s == CHOOSE x \in Sockets : conns[x] = "unused"
    IN  /\ conns' = [conns EXCEPT ![s] = "connecting"]
        /\ client' = [c EXCEPT !.ws = s, !.reconnectCount = @ + 1]

TimerFires ==
    /\ \/ client.reconnectTimer /\ Connect([client EXCEPT !.reconnectTimer = FALSE])
       \/ client.lostTimers > 0 /\ Connect([client EXCEPT !.lostTimers = @ - 1])
    /\ UNCHANGED <<net, targetJoined, breaks, checks>>

----------------------------------------------------------------------------
(* SignalingClient: the connectivity check, connect and disconnect.        *)

\* connect gives up waiting; the socket goes on.
ConnectTimeout ==
    /\ client.check = "unstarted"
    /\ client' = [client EXCEPT !.check = "off"]
    /\ UNCHANGED <<conns, net, targetJoined, breaks, checks>>

CheckBegins ==
    /\ client.check = "idle"
    /\ checks < MaxChecks
    /\ checks' = checks + 1
    /\ Write([client EXCEPT !.check = "out", !.checkOn = NoSocket], Check)
    /\ UNCHANGED <<conns, inbox, replies, delivered, targetJoined, breaks>>

CheckAnswered ==
    /\ client.check = "out" /\ ~client.isDestroyed
    /\ client.checkOn # NoSocket
    /\ conns[client.checkOn] = "open"
    /\ LET c == [client EXCEPT !.check = "idle"]
       IN  \/ client' = c /\ UNCHANGED conns
           \/ Reconnects(c)
    /\ UNCHANGED <<net, targetJoined, breaks, checks>>

CheckExpires ==
    /\ client.check = "out"
    /\ Reconnects([client EXCEPT !.check = "idle"])
    /\ UNCHANGED <<net, targetJoined, breaks, checks>>

\* SignalingSession.close
disconnect ==
    /\ ~client.closed
    /\ client.check \in {"idle", "out"}
    /\ client' = [destroy(client) EXCEPT !.closed = TRUE, !.check = "off"]
    /\ conns' = Close(conns, client.ws, "ended")
    /\ UNCHANGED <<net, targetJoined, breaks, checks>>

----------------------------------------------------------------------------
(* Messages.                                                               *)

\* SignalingSession.send, with SignalingClient.request: a client event that is too
\* long throws when it is made.
send(m) ==
    /\ client.req[m] = "idle"
    /\ client.check \in {"idle", "out"} \/ client.closed
    /\ LET begun == [client EXCEPT !.req[m] = "waiting"]
       IN  IF client.closed \/ m \in Large
           THEN client' = Reject(begun, {m}) /\ UNCHANGED uplink
           ELSE Write(begun, m)
    /\ UNCHANGED <<conns, inbox, replies, delivered, targetJoined, breaks, checks>>

\* The server takes a request and forwards it, or finds no target for it; a check ends here.
Forward(s) ==
    /\ uplink[s] # <<>>
    /\ uplink' = [uplink EXCEPT ![s] = Tail(@)]
    /\ inbox' = IF targetJoined /\ Head(uplink[s]) # Check THEN Append(inbox, Head(uplink[s])) ELSE inbox
    /\ UNCHANGED <<client, conns, replies, delivered, targetJoined, breaks, checks>>

\* What a lost connection had not carried to the server is lost.
Lose(s) ==
    /\ uplink[s] # <<>>
    /\ conns[s] \notin Live
    /\ uplink' = [uplink EXCEPT ![s] = Tail(@)]
    /\ UNCHANGED <<client, conns, inbox, replies, delivered, targetJoined, breaks, checks>>

\* onRequested at the target: the message is emitted and replied to.
Requested ==
    /\ inbox # <<>>
    /\ targetJoined
    /\ inbox' = Tail(inbox)
    /\ delivered' = Append(delivered, Head(inbox))
    /\ replies' = replies \union {Head(inbox)}
    /\ UNCHANGED <<client, conns, uplink, targetJoined, breaks, checks>>

\* The response arrives on an open WebSocket: the callback of the request, which a
\* timeout leaves behind, resolves it.
Response(m) ==
    /\ m \in replies
    /\ \E s \in Sockets : conns[s] = "open"
    /\ replies' = replies \ {m}
    /\ client' = IF client.closed \/ client.isDestroyed \/ client.req[m] = "settled" THEN client
                 ELSE [client EXCEPT !.req[m] = "settled", !.result[m] = "ok"]
    /\ UNCHANGED <<conns, uplink, inbox, delivered, targetJoined, breaks, checks>>

\* A negative acknowledgement, a write that fails, or the timeout of a request: it
\* may have been delivered all the same.
RequestFails(m) ==
    /\ client.req[m] \in {"waiting", "sent"}
    /\ client' = Reject(client, {m})
    /\ UNCHANGED <<conns, net, targetJoined, breaks, checks>>

TargetLeaves ==
    /\ targetJoined
    /\ targetJoined' = FALSE
    /\ inbox' = <<>>
    /\ UNCHANGED <<client, conns, uplink, replies, delivered, breaks, checks>>

----------------------------------------------------------------------------
Init ==
    /\ client = [ws |-> 1, isOpen |-> FALSE, isDestroyed |-> FALSE, reconnectCount |-> 0,
                 reconnectTimer |-> FALSE, lostTimers |-> 0, connectionState |-> "closed",
                 waiting |-> <<>>, check |-> "unstarted", checkOn |-> NoSocket,
                 closed |-> FALSE, hung |-> FALSE,
                 req |-> [m \in Messages |-> "idle"], result |-> [m \in Messages |-> "none"]]
    /\ conns = [s \in Sockets |-> IF s = 1 THEN "connecting" ELSE "unused"]
    /\ uplink = [s \in Sockets |-> <<>>]
    /\ inbox = <<>>
    /\ replies = {}
    /\ delivered = <<>>
    /\ targetJoined = TRUE
    /\ breaks = 0
    /\ checks = 0

\* What the browser, the timers and the server do by themselves.
Driven ==
    \/ \E s \in Sockets : Opens(s) \/ CloseReplaced(s) \/ CloseAbnormal(s) \/ CloseFinal(s)
    \/ TimerFires

Environment ==
    \/ \E s \in Sockets : Breaks(s) \/ ServerCloses(s) \/ Forward(s) \/ Lose(s)
    \/ Requested
    \/ TargetLeaves

Client ==
    \/ ConnectTimeout \/ CheckBegins \/ CheckAnswered \/ CheckExpires \/ disconnect
    \/ \E m \in Messages : send(m) \/ Response(m) \/ RequestFails(m)

Next ==
    /\ ~client.hung
    /\ Driven \/ Environment \/ Client

\* Timers fire; a WebSocket that was begun is opened by the server or fails, and one
\* that has ended reports it.
Fairness ==
    /\ WF_vars(~client.hung /\ TimerFires)
    /\ \A s \in Sockets :
          /\ WF_vars(~client.hung /\ Opens(s))
          /\ WF_vars(~client.hung /\ (CloseReplaced(s) \/ CloseAbnormal(s) \/ CloseFinal(s)))

Spec == Init /\ [][Next]_vars /\ Fairness

----------------------------------------------------------------------------
(* Properties.                                                             *)

\* A client that was not destroyed has something that will bring it a connection: a
\* timer, or a current WebSocket whose end it has not been told yet.  (reconnect,
\* onclose and the timers, in every order, WebSockets that were replaced included.)
NeverStranded ==
    /\ TypeOK
    /\ ~client.isDestroyed =>
          \/ client.reconnectTimer
          \/ client.lostTimers > 0
          \/ client.ws # NoSocket /\ conns[client.ws] \in {"connecting", "open", "broken", "refused"}

\* A reconnection ends: with a connection, or with the client given up.
Recovers == client.connectionState = "reconnecting" ~> client.connectionState # "reconnecting"

\* SignalingSession carries messages as MessageTransfer promises, whatever the
\* connections below it do.
Transfer == INSTANCE MessageTransfer WITH
    Messages <- Messages,
    sent <- {m \in Messages : client.req[m] # "idle"},
    delivered <- delivered,
    result <- client.result,
    parted <- client.closed \/ ~targetJoined

TransfersMessages == Transfer!Spec
=============================================================================
