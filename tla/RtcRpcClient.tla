---------------------------- MODULE RtcRpcClient ----------------------------
(***************************************************************************)
(* The connection of a client to the RTC API server: RtcRpcApiClient and   *)
(* its RPC (rtc-rpc-api-client/src/{client,rpc}.ts).  Requests travel over *)
(* a WebSocket that may break at any time; _reconnect then backs off,      *)
(* opens another one, sends the requests that wait for it and subscribes   *)
(* to the events of the known channels again.                              *)
(*                                                                         *)
(* _reconnect is started by every break that finds reconnecting false, so  *)
(* several calls of it can be under way; each is a loop here.  What runs   *)
(* between two awaits is one step.                                         *)
(***************************************************************************)
EXTENDS Integers, Sequences, FiniteSets

CONSTANTS
    Channels,
    Loops,        \* identities for the calls of _reconnect, a set of strings
    MaxRetry,     \* after so many failed attempts the client gives up
    MaxFaults,    \* bound: breaks, timeouts and refusals
    MaxSockets    \* bound: sockets ever made

ASSUME LoopsAreNoKinds == Loops \cap {"get", "create", "sub"} = {}
ASSUME LimitsAreNat == MaxRetry \in Nat \ {0} /\ MaxFaults \in Nat /\ MaxSockets \in Nat \ {0}

VARIABLES
    client,      \* RtcRpcApiClient and RPC
    subs,        \* server: <<socket, channel>>, the event subscriptions
    known,       \* history: channels that were subscribed, here and at the server
    faults,      \* breaks, timeouts and refusals so far
    abandoned    \* history: a loop gave a socket up that it had not seen closed

vars == <<client, subs, known, faults, abandoned>>

-----------------------------------------------------------------------------
(* Types                                                                   *)

(***************************************************************************)
(* "get":    getChannel and getChannelByName, which then send "sub"        *)
(* "create": createChannel and findOrCreateChannel; the server subscribes  *)
(*           the client to the events of the channel without being asked   *)
(* "sub":    subscribeChannelEvents; a loop sends one of its own           *)
(***************************************************************************)
Req == ({"get", "create", "sub"} \cup Loops) \X Channels

Kind(r)    == r[1]
Channel(r) == r[2]

(***************************************************************************)
(* "watching":  sent; a break makes it wait for the next connection        *)
(* "resending": was watching at a break; a second break is not noticed     *)
(* "queued":    issued while reconnecting                                  *)
(***************************************************************************)
Unsettled == {"watching", "resending", "queued"}

Phases == {"idle", "backoff", "connecting", "subscribing"}

Loop(phase, socket) == [phase |-> phase, socket |-> socket]
Idle == Loop("idle", 0)

ClientType ==
    [sockets         : Seq({"connecting", "open", "closed"}),   \* the last one is _ws
     closed          : BOOLEAN,
     reconnecting    : BOOLEAN,
     reconnectCount  : 0..MaxRetry,
     pendingRequests : SUBSET Req,
     status          : [Req -> {"none", "failed"} \cup Unsettled],
     sentOn          : [Req -> SUBSET (1..MaxSockets)],   \* where an answer may come from
     subscribing     : SUBSET Channels,                   \* _subscribingChannelEvents
     loops           : [Loops -> [phase : Phases, socket : 0..MaxSockets]]]

TypeOK == /\ client \in ClientType
          /\ Len(client.sockets) \in 1..MaxSockets
          /\ subs \subseteq (1..MaxSockets) \X Channels
          /\ known \subseteq Channels
          /\ faults \in Nat
          /\ abandoned \in BOOLEAN

-----------------------------------------------------------------------------
(* What a handler makes of the client c                                    *)

ws(c) == Len(c.sockets)

Live(c) == {i \in 1..Len(c.sockets) : c.sockets[i] # "closed"}

InStatus(c, st) == {r \in Req : c.status[r] \in st}

SetStatus(c, reqs, st) == [c EXCEPT !.status = [r \in Req |-> IF r \in reqs THEN st ELSE @[r]]]

\* A closed socket delivers nothing more.
CloseSocket(c, i) == [c EXCEPT !.sockets[i] = "closed",
                               !.sentOn = [r \in Req |-> @[r] \ {i}]]

\* _send: on the socket that is _ws now; an error is only logged.
send(c, reqs) ==
    IF c.sockets[ws(c)] # "open" THEN c
    ELSE [c EXCEPT !.sentOn = [r \in Req |-> IF r \in reqs THEN @[r] \cup {ws(c)} ELSE @[r]]]

\* RPC.request, for a set of requests that are issued together.
request(c, reqs) ==
    IF c.closed THEN SetStatus(c, reqs, "failed")
    ELSE IF c.reconnecting
    THEN [SetStatus(c, reqs, "queued") EXCEPT !.pendingRequests = @ \cup reqs]
    ELSE send(SetStatus(c, reqs, "watching"), reqs)

\* subscribeChannelEvents.  It would try again after connectionDisconnected, but the
\* timeout of the first wait always settles the request before that error is raised.
subscribeChannelEvents(c, reqs) == request(c, reqs)

\* resolvePendingRequests
resolvePendingRequests(c) == [send(c, c.pendingRequests) EXCEPT !.pendingRequests = {}]

\* close of the client and of RPC: a queued request is not told.
close(c) ==
    IF c.closed THEN c
    ELSE SetStatus([CloseSocket(c, ws(c)) EXCEPT !.closed = TRUE],
                   InStatus(c, {"watching", "resending"}), "failed")

\* onFatalError is emitted, and its listeners are gone once closed.
fatalError(c) == IF c.closed THEN c ELSE close(SetStatus(c, InStatus(c, Unsettled), "failed"))

\* Faulty variant: one attempt too many.
reconnectOnceMore(c, l) ==
    IF c.reconnectCount > MaxRetry
    THEN fatalError([c EXCEPT !.loops[l] = Idle])
    ELSE [c EXCEPT !.reconnecting = TRUE,
                   !.reconnectCount = @ + 1,
                   !.loops[l] = Loop("backoff", 0)]

\* _reconnect, up to the backoff.
reconnect(c, l) ==
    IF c.reconnectCount >= MaxRetry
    THEN fatalError([c EXCEPT !.loops[l] = Idle])
    ELSE [c EXCEPT !.reconnecting = TRUE,
                   !.reconnectCount = @ + 1,
                   !.loops[l] = Loop("backoff", 0)]

FreeLoops(c) == {l \in Loops : c.loops[l] = Idle}

\* Requests see the break: they wait for the next connection.
Requeue(c) == LET reqs == InStatus(c, {"watching"})
              IN  [SetStatus(c, reqs, "resending") EXCEPT !.pendingRequests = @ \cup reqs]

\* onDisconnected is emitted.
disconnected(c) ==
    IF c.closed THEN c
    ELSE IF c.reconnecting THEN Requeue(c)
    ELSE Requeue(reconnect(c, CHOOSE l \in FreeLoops(c) : TRUE))

\* Faulty variants: reconnecting is left behind,
connectedStillReconnecting(c, l) ==
    subscribeChannelEvents(
        resolvePendingRequests([c EXCEPT !.reconnectCount = 0, !.loops[l].phase = "subscribing"]),
        {l} \X c.subscribing)

\* the pending requests are forgotten,
connectedForgetsPending(c, l) ==
    request([c EXCEPT !.reconnecting = FALSE,
                      !.reconnectCount = 0,
                      !.loops[l].phase = "subscribing"], {l} \X c.subscribing)

\* ... or the channels are not subscribed again.
connectedForgetsChannels(c, l) ==
    resolvePendingRequests([c EXCEPT !.reconnecting = FALSE,
                                     !.reconnectCount = 0,
                                     !.loops[l].phase = "subscribing"])

\* _reconnect after connect has succeeded, up to the answers.
connected(c, l) ==
    subscribeChannelEvents(
        resolvePendingRequests([c EXCEPT !.reconnecting = FALSE,
                                         !.reconnectCount = 0,
                                         !.loops[l].phase = "subscribing"]),
        {l} \X c.subscribing)

-----------------------------------------------------------------------------
(* The network and the server                                              *)

Fault == faults < MaxFaults /\ faults' = faults + 1

\* The server drops the subscriptions of a socket that is closed.
Drop == subs' = {s \in subs : client'.sockets[s[1]] # "closed"}

Connecting(i) == {l \in Loops : client.loops[l] = Loop("connecting", i)}

\* Socket i breaks or is refused: onerror rejects connect, then onclose is called.
Disconnect(i) ==
    /\ i \in Live(client)
    /\ Fault
    /\ Connecting(i) = {} /\ ~client.reconnecting => FreeLoops(client) # {}
    /\ LET c == CloseSocket(client, i)
       IN  \/ /\ Connecting(i) = {}
              /\ client' = disconnected(c)
           \/ \E l \in Connecting(i) : client' = disconnected(reconnect(c, l))
    /\ Drop
    /\ UNCHANGED <<known, abandoned>>

\* The server closes socket i because of the usage limit.
UsageLimitExceeded(i) ==
    /\ client.sockets[i] = "open"
    /\ client' = close(CloseSocket(client, i))
    /\ Drop
    /\ UNCHANGED <<known, faults, abandoned>>

\* onopen; a socket whose connect has timed out opens all the same.
Opens(i) ==
    /\ client.sockets[i] = "connecting"
    /\ LET c == [client EXCEPT !.sockets[i] = "open"]
       IN  \/ Connecting(i) = {} /\ client' = c
           \/ \E l \in Connecting(i) : client' = connected(c, l)
    /\ UNCHANGED <<subs, known, faults, abandoned>>

\* getChannel goes on: the channel counts as subscribed before it is.
gotChannel(c, ch) ==
    IF ch \in c.subscribing THEN c
    ELSE subscribeChannelEvents([c EXCEPT !.subscribing = @ \cup {ch}], {<<"sub", ch>>})

\* createChannel and findOrCreateChannel go on: nothing is left to be asked for.
channelSubscribed(c, ch) == [c EXCEPT !.subscribing = @ \cup {ch}]

\* What the caller may make of an answer: only createChannel gets the channel then.
afterAnswer(c, r) ==
    LET ch == Channel(r)
    IN  CASE Kind(r) = "get"    -> {gotChannel(c, ch)}
          [] Kind(r) = "create" -> {channelSubscribed(c, ch),
                                    request(channelSubscribed(c, ch), {<<"get", ch>>})}
          [] OTHER              -> {c}

\* And of a refusal: findOrCreateChannel gets the channel when its name is taken.
afterRefusal(c, r) ==
    IF Kind(r) = "create" THEN {c, request(c, {<<"get", Channel(r)>>})} ELSE {c}

Served(ch) == \E s \in subs : s[2] = ch

\* The server executes r, received on socket i, and its answer arrives.
Answer(r, i) ==
    /\ i \in client.sentOn[r]
    /\ client.sockets[i] = "open"
    /\ LET c == [client EXCEPT !.sentOn[r] = @ \ {i}]
       IN  client' \in IF ~c.closed /\ c.status[r] \in Unsettled
                       THEN afterAnswer(SetStatus(c, {r}, "none"), r)
                       ELSE {c}
    /\ subs' = IF Kind(r) = "get" THEN subs ELSE subs \cup {<<i, Channel(r)>>}
    /\ known' = known \cup {ch \in client'.subscribing : Served(ch)'}
    /\ UNCHANGED <<faults, abandoned>>

Refuse(r, i) ==
    /\ i \in client.sentOn[r]
    /\ client.sockets[i] = "open"
    /\ Fault
    /\ LET c == [client EXCEPT !.sentOn[r] = @ \ {i}]
       IN  client' \in IF ~c.closed /\ c.status[r] \in Unsettled
                       THEN afterRefusal(SetStatus(c, {r}, "failed"), r)
                       ELSE {c}
    /\ UNCHANGED <<subs, known, abandoned>>

-----------------------------------------------------------------------------
(* The client                                                              *)

\* rpcTimeout is over; a fault when the answer could still come.
Timeout(r) ==
    /\ client.status[r] \in Unsettled
    /\ \/ Fault
       \/ UNCHANGED faults /\ \A i \in client.sentOn[r] : client.sockets[i] # "open"
    /\ client' = SetStatus(client, {r}, "failed")
    /\ UNCHANGED <<subs, known, abandoned>>

\* connect; nothing looks at closed.
BackoffOver(l) ==
    /\ client.loops[l].phase = "backoff"
    /\ Len(client.sockets) < MaxSockets
    /\ client' = [client EXCEPT !.sockets = Append(@, "connecting"),
                                !.loops[l] = Loop("connecting", Len(client.sockets) + 1)]
    /\ UNCHANGED <<subs, known, faults, abandoned>>

\* connect takes too long; its socket is left as it is.
ConnectTimeout(l) ==
    /\ client.loops[l].phase = "connecting"
    /\ client.sockets[client.loops[l].socket] = "connecting"
    /\ Fault
    /\ abandoned' = TRUE
    /\ client' = reconnect(client, l)
    /\ Drop
    /\ UNCHANGED known

\* close has closed the socket that the loop was connecting.
ConnectRejected(l) ==
    /\ client.loops[l].phase = "connecting"
    /\ client.sockets[client.loops[l].socket] = "closed"
    /\ client' = reconnect(client, l)
    /\ Drop
    /\ UNCHANGED <<known, faults, abandoned>>

Resubscribed(l) ==
    /\ client.loops[l].phase = "subscribing"
    /\ \A ch \in client.subscribing : client.status[<<l, ch>>] = "none"
    /\ client' = [client EXCEPT !.loops[l] = Idle]
    /\ UNCHANGED <<subs, known, faults, abandoned>>

\* One subscription failed: reconnect again, from an open socket perhaps.
ResubscribeFails(l) ==
    /\ client.loops[l].phase = "subscribing"
    /\ \E ch \in Channels : client.status[<<l, ch>>] = "failed"
    /\ abandoned' = TRUE
    /\ client' = reconnect(client, l)
    /\ Drop
    /\ UNCHANGED <<known, faults>>

\* One call at a time for each channel.
Called(ch) == \E kind \in {"get", "create", "sub"} : client.status[<<kind, ch>>] \in Unsettled

getChannel(ch) ==
    /\ ~Called(ch)
    /\ client' = request(client, {<<"get", ch>>})
    /\ UNCHANGED <<subs, known, faults, abandoned>>

createChannel(ch) ==
    /\ ~Called(ch)
    /\ client' = request(client, {<<"create", ch>>})
    /\ UNCHANGED <<subs, known, faults, abandoned>>

closeClient ==
    /\ ~client.closed
    /\ client' = close(client)
    /\ Drop
    /\ UNCHANGED <<known, faults, abandoned>>

-----------------------------------------------------------------------------

Init == /\ client = [sockets |-> <<"open">>, closed |-> FALSE, reconnecting |-> FALSE,
                     reconnectCount |-> 0, pendingRequests |-> {},
                     status |-> [r \in Req |-> "none"], sentOn |-> [r \in Req |-> {}],
                     subscribing |-> {}, loops |-> [l \in Loops |-> Idle]]
        /\ subs = {} /\ known = {} /\ faults = 0 /\ abandoned = FALSE

Sockets == 1..Len(client.sockets)

Next == \/ \E i \in Sockets : Disconnect(i) \/ UsageLimitExceeded(i) \/ Opens(i)
        \/ \E r \in Req : Timeout(r) \/ \E i \in Sockets : Answer(r, i) \/ Refuse(r, i)
        \/ \E l \in Loops : \/ BackoffOver(l) \/ ConnectTimeout(l) \/ ConnectRejected(l)
                            \/ Resubscribed(l) \/ ResubscribeFails(l)
        \/ \E ch \in Channels : getChannel(ch) \/ createChannel(ch)
        \/ closeClient

Spec == Init /\ [][Next]_vars

\* Sockets open, requests are answered, and _reconnect goes on when it can.
Fairness == /\ \A i \in 1..MaxSockets : WF_vars(i \in Sockets /\ Opens(i))
            /\ \A r \in Req, i \in 1..MaxSockets : WF_vars(i \in Sockets /\ Answer(r, i))
            /\ \A l \in Loops : /\ WF_vars(BackoffOver(l))
                                /\ WF_vars(Resubscribed(l))
                                /\ WF_vars(ResubscribeFails(l))

FairSpec == Spec /\ Fairness

-----------------------------------------------------------------------------
(* Properties                                                              *)

(***************************************************************************)
(* A request never waits for the next connection when none is being made:  *)
(* whoever sees a break too late to be sent again by resolvePendingRequests*)
(* would wait for its timeout.                                             *)
(***************************************************************************)
WaitingMeansReconnecting ==
    client.pendingRequests # {} => client.closed \/ client.reconnecting

(***************************************************************************)
(* While reconnecting is set, one call of _reconnect is on its way to the  *)
(* next connection, and no second one: the flag is neither left behind nor *)
(* cleared under a call; and no socket outlives its turn as _ws.  Unless a *)
(* socket was given up.                                                    *)
(***************************************************************************)
OneConnection ==
    ~client.closed /\ ~abandoned =>
        /\ Cardinality({l \in Loops : client.loops[l].phase \in {"backoff", "connecting"}})
               = (IF client.reconnecting THEN 1 ELSE 0)
        /\ Live(client) \subseteq {ws(client)}

(***************************************************************************)
(* Channel events survive breaks: a channel that was subscribed once is    *)
(* again and again subscribed on an open socket, unless the client is      *)
(* closed, a socket was given up, or the bound stops a loop.               *)
(***************************************************************************)
CutShort == Len(client.sockets) = MaxSockets /\ \E l \in Loops : client.loops[l].phase = "backoff"

SubscriptionSurvives ==
    \A ch \in Channels :
        []<>(\/ client.closed \/ abandoned \/ CutShort
             \/ ch \in known => Served(ch))
=============================================================================
