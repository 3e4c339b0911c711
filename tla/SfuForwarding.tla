--------------------------- MODULE SfuForwarding ---------------------------
(***************************************************************************)
(* One person and one SFU bot: SfuBotMember with its queue, SFUConnection, *)
(* its Senders and Receivers, and the TransportRepository they share, with *)
(* the SFU's REST API, the channel's events and mediasoup around them.     *)
(*                                                                         *)
(* The SFU makes one transport per direction and person, and gives its     *)
(* options only in the answer to the request that made it.  A Sender per   *)
(* start: addSender replaces the former Sender of the publication.         *)
(***************************************************************************)
EXTENDS Naturals, Sequences, FiniteSets

CONSTANTS
    Pubs,         \* publications of the person
    Subs,         \* its subscriptions to what the bot forwards of others
    MaxStarts,    \* bound: calls of startForwarding
    MaxCalls,     \* bound: calls of startForwarding and startSubscribing together
    MaxTroubles   \* bound: failures, timeouts, lost answers, and what others end

ASSUME ForwardingAssumption ==
    /\ Pubs # {}
    /\ MaxStarts \in Nat /\ MaxCalls \in Nat /\ MaxTroubles \in Nat

StartIds == 1..MaxStarts

VARIABLES
    starts,      \* each call of startForwarding: its Sender, and how far it got with it
    queue,       \* _startForwardQueue; its head is running
    senders,     \* SFUConnection._senders: the Sender of each publication
    forwardings, \* SfuBotMember._forwardings
    listening,   \* the forwardings whose end is listened for
    receivers,   \* the Receiver of each subscription
    client,      \* transports the repository holds, device loaded, bot and person still there
    server,      \* transports the SFU has made, forwardings it runs, publications it has
    events,      \* channel events on their way
    channel,     \* what the channel shows: relays, the bot's subscriptions, publications
    stopping,    \* publications whose stopPublishing is about to run
    troubles,
    causes       \* history: what happened that leaves something behind

sending == <<starts, queue, senders, forwardings, listening, stopping>>
forwardingVars == <<sending, receivers, client, server, events, channel, troubles, causes>>

Stages == {"none", "queued", "request", "answered", "produce", "watch", "found", "started", "failed", "stuck"}
Sender == [pub : Pubs, stage : Stages, options : BOOLEAN, producer : {"none", "open", "closed"}]
Receiver == [stage : {"idle", "caps", "request", "answered", "wait", "consume", "consumed", "failed"},
             options : BOOLEAN, consumer : {"none", "open", "closed"}, wanted : BOOLEAN]
Event == [kind : {"subscribed", "relayed", "unsubscribed", "unrelayed"}, of : StartIds]
         \cup [kind : {"unpublished"}, pub : Pubs] \cup [kind : {"left"}]
Causes == {"answer lost", "stop overtook start", "started again", "bot left", "unsubscribe overtook"}

ForwardingTypeOK ==
    /\ starts \in [StartIds -> Sender]
    /\ queue \in Seq(StartIds)
    /\ senders \in [Pubs -> 0..MaxStarts]
    /\ forwardings \subseteq StartIds
    /\ listening \subseteq StartIds
    /\ receivers \in [Subs -> Receiver]
    /\ client \in [send : BOOLEAN, recv : BOOLEAN, loaded : BOOLEAN, bot : {"joined", "left"}, disposed : BOOLEAN]
    /\ server \in [send : BOOLEAN, recv : BOOLEAN, running : SUBSET StartIds,
                  pubs : [Pubs -> {"there", "ending", "gone"}]]
    /\ events \in Seq(Event)
    /\ channel \in [relays : SUBSET StartIds, subscribed : SUBSET StartIds, pubs : SUBSET Pubs]
    /\ stopping \subseteq Pubs
    /\ troubles \in 0..MaxTroubles
    /\ causes \subseteq Causes

Trouble == troubles < MaxTroubles /\ troubles' = troubles + 1

Idle(n) == starts[n].stage = "none"

Called == Cardinality({n \in StartIds : ~Idle(n)}) + Cardinality({s \in Subs : receivers[s].stage # "idle"})

----------------------------------------------------------------------------
(* startForwarding and the queue.                                          *)

Reaches(n, stage) == starts' = [starts EXCEPT ![n].stage = stage]

\* The application calls startForwarding; the log payload is awaited before the push.
startForwarding(n, p) ==
    /\ Idle(n) /\ Called < MaxCalls
    /\ \A k \in StartIds : k < n => ~Idle(k)
    /\ starts' = [starts EXCEPT ![n] = [@ EXCEPT !.pub = p, !.stage = "queued"]]
    /\ queue' = Append(queue, n)
    /\ causes' = IF \E k \in StartIds : ~Idle(k) /\ starts[k].pub = p
                 THEN causes \cup {"started again"} ELSE causes
    /\ UNCHANGED <<senders, forwardings, listening, stopping, receivers, client, server, events, channel, troubles>>

\* Faulty variant: a start does not wait for the one before it.
RunsNow(n) == \E i \in 1..Len(queue) : queue[i] = n

\* PromiseQueue: one start at a time.
Runs(n) == queue # <<>> /\ Head(queue) = n

\* _startForwarding up to the request.
Begin(n) ==
    /\ Runs(n)
    /\ starts[n].stage = "queued"
    /\ IF client.bot = "joined" /\ starts[n].pub \in channel.pubs
       THEN /\ Reaches(n, "request")
            /\ senders' = [senders EXCEPT ![starts[n].pub] = n]
            /\ UNCHANGED queue
       ELSE /\ Reaches(n, "failed")
            /\ queue' = Tail(queue)
            /\ UNCHANGED senders
    /\ UNCHANGED <<forwardings, listening, stopping, receivers, client, server, events, channel, troubles, causes>>

\* The SFU executes the request: the bot subscribes and publishes.
Execute(n) ==
    /\ starts[n].stage = "request"
    /\ server.pubs[starts[n].pub] = "there"
    /\ starts' = [starts EXCEPT ![n].stage = "answered", ![n].options = ~server.send]
    /\ server' = [server EXCEPT !.send = TRUE, !.running = @ \cup {n}]
    /\ events' = events \o <<[kind |-> "subscribed", of |-> n], [kind |-> "relayed", of |-> n]>>
    /\ UNCHANGED <<queue, senders, forwardings, listening, stopping, receivers, client, channel, troubles, causes>>

\* The answer is lost and the request sent again: the second answer has no options.
AnswerLost(n) ==
    /\ starts[n].stage = "answered" /\ starts[n].options
    /\ Trouble
    /\ starts' = [starts EXCEPT ![n].options = FALSE]
    /\ causes' = causes \cup {"answer lost"}
    /\ UNCHANGED <<queue, senders, forwardings, listening, stopping, receivers, client, server, events, channel>>

Fails(n) ==
    /\ Reaches(n, "failed")
    /\ queue' = Tail(queue)

\* A final error, or all retries failed.
Refuse(n) ==
    /\ starts[n].stage = "request"
    /\ Trouble \/ (server.pubs[starts[n].pub] # "there" /\ UNCHANGED troubles)
    /\ Fails(n)
    /\ UNCHANGED <<senders, forwardings, listening, stopping, receivers, client, server, events, channel, causes>>

\* Sender.startForwarding: the transport that the options or an earlier start made.
AnswerArrives(n) ==
    /\ starts[n].stage = "answered"
    /\ LET c == IF starts[n].options THEN [client EXCEPT !.send = TRUE, !.loaded = TRUE] ELSE client
       IN  /\ client' = c
           /\ IF c.send THEN Reaches(n, "produce") /\ UNCHANGED queue ELSE Fails(n)
    /\ UNCHANGED <<senders, forwardings, listening, stopping, receivers, server, events, channel, troubles, causes>>

\* Faulty variant: the caller of produce is not told.
ProduceFailsUntold(n) ==
    /\ starts[n].stage = "produce"
    /\ Trouble
    /\ UNCHANGED <<sending, receivers, client, server, events, channel, causes>>

\* connect or createProducer fails, or the transport is closed.
ProduceFails(n) ==
    /\ starts[n].stage = "produce"
    /\ Trouble \/ (client.disposed /\ UNCHANGED troubles)
    /\ Fails(n)
    /\ UNCHANGED <<senders, forwardings, listening, stopping, receivers, client, server, events, channel, causes>>

\* connect took longer than the watch for onProduce: nobody calls createProducer.
Unwatched(n) ==
    /\ starts[n].stage = "produce"
    /\ Trouble
    /\ \A k \in StartIds : starts[k].producer = "none"
    /\ Reaches(n, "stuck")
    /\ UNCHANGED <<queue, senders, forwardings, listening, stopping, receivers, client, server, events, channel, causes>>

\* The relay is in the channel: new Forwarding, which confirms its subscriptions.  The
\* bot's own subscription is read without a look whether it is there.
Found(n, sen) ==
    /\ queue' = Tail(queue)
    /\ IF channel.subscribed \cap {k \in StartIds : sen[k].pub = sen[n].pub} = {}
       THEN /\ starts' = [sen EXCEPT ![n].stage = "failed"]
            /\ UNCHANGED <<forwardings, listening>>
       ELSE /\ starts' = [sen EXCEPT ![n].stage = "started"]
            /\ forwardings' = forwardings \cup {n}
            /\ listening' = listening \cup {n}

Produced(n) ==
    /\ starts[n].stage = "produce"
    /\ ~client.disposed
    /\ LET sen == [starts EXCEPT ![n].producer = "open", ![n].stage = "watch"]
       IN  IF n \in channel.relays
           THEN Found(n, sen)
           ELSE starts' = sen /\ UNCHANGED <<queue, forwardings, listening>>
    /\ UNCHANGED <<senders, stopping, receivers, client, server, events, channel, troubles, causes>>

\* The relay has appeared: the start goes on, after the events that came with it.
Watched(n) ==
    /\ starts[n].stage = "found"
    /\ Found(n, starts)
    /\ UNCHANGED <<senders, stopping, receivers, client, server, events, channel, troubles, causes>>

\* The relay does not appear in time.
WatchTimeout(n) ==
    /\ starts[n].stage = "watch"
    /\ Fails(n)
    /\ UNCHANGED <<senders, forwardings, listening, stopping, receivers, client, server, events, channel, troubles, causes>>

----------------------------------------------------------------------------
(* The end of a forwarding.                                                *)

\* The SFU ends forwarding n: the bot unsubscribes and unpublishes.
Ends(n) ==
    /\ server' = [server EXCEPT !.running = @ \ {n}]
    /\ events' = events \o <<[kind |-> "unsubscribed", of |-> n], [kind |-> "unrelayed", of |-> n]>>

\* SfuBotMember.stopForwarding: the forwarding is forgotten whatever the SFU answers.
stopForwarding(n) ==
    /\ client.bot = "joined"
    /\ n \in forwardings
    /\ forwardings' = forwardings \ {n}
    /\ \/ n \in server.running /\ Ends(n) /\ UNCHANGED troubles
       \/ n \notin server.running /\ UNCHANGED <<server, events, troubles>>
       \/ Trouble /\ UNCHANGED <<server, events>>
    /\ UNCHANGED <<starts, queue, senders, listening, stopping, receivers, client, channel, causes>>

\* The person's publication ends, and with it its forwardings, one by one.
Unpublish(p) ==
    /\ server.pubs[p] = "there"
    /\ Trouble
    /\ server' = [server EXCEPT !.pubs[p] = "ending"]
    /\ UNCHANGED <<sending, receivers, client, events, channel, causes>>

EndForwarding(n) ==
    /\ n \in server.running /\ server.pubs[starts[n].pub] = "ending"
    /\ Ends(n)
    /\ UNCHANGED <<sending, receivers, client, channel, troubles, causes>>

Unpublished(p) ==
    /\ server.pubs[p] = "ending"
    /\ \A n \in server.running : starts[n].pub # p
    /\ server' = [server EXCEPT !.pubs[p] = "gone"]
    /\ events' = Append(events, [kind |-> "unpublished", pub |-> p])
    /\ UNCHANGED <<sending, receivers, client, channel, troubles, causes>>

Coming(e) == \E i \in 1..Len(events) : events[i] = e

BotLeaves ==
    /\ ~Coming([kind |-> "left"]) /\ client.bot = "joined"
    /\ Trouble
    /\ server' = [server EXCEPT !.running = {}]
    /\ events' = Append(events, [kind |-> "left"])
    /\ UNCHANGED <<sending, receivers, client, channel, causes>>

\* Faulty variant: every producer of the person is closed.
unproduceEverything(sen, p) ==
    [n \in StartIds |-> [sen[n] EXCEPT !.producer = IF @ = "open" THEN "closed" ELSE @]]

\* removeSender of the publication's current Sender, whichever start made it.
unproduce(sen, p) ==
    IF senders[p] # 0 /\ sen[senders[p]].producer = "open"
    THEN [sen EXCEPT ![senders[p]].producer = "closed"] ELSE sen

Overtaken(p) == senders[p] # 0 /\ starts[senders[p]].producer = "none"

----------------------------------------------------------------------------
(* Channel events.                                                         *)

Subscribed(n) ==
    /\ channel' = [channel EXCEPT !.subscribed = @ \cup {n}]
    /\ UNCHANGED <<sending, client, causes>>

\* It wakes the start that watches for its relay.
Relayed(n) ==
    /\ channel' = [channel EXCEPT !.relays = @ \cup {n}]
    /\ IF starts[n].stage = "watch" THEN Reaches(n, "found") ELSE UNCHANGED starts
    /\ UNCHANGED <<queue, senders, forwardings, listening, stopping, client, causes>>

Unsubscribed(n) ==
    /\ channel' = [channel EXCEPT !.subscribed = @ \ {n}]
    /\ stopping' = stopping \cup {starts[n].pub}
    /\ UNCHANGED <<starts, queue, senders, forwardings, listening, client, causes>>

Unrelayed(n) ==
    /\ channel' = [channel EXCEPT !.relays = @ \ {n}]
    /\ listening' = listening \ {n}
    /\ starts' = IF n \in listening /\ client.bot = "joined" THEN unproduce(starts, starts[n].pub) ELSE starts
    /\ UNCHANGED <<queue, senders, forwardings, stopping, client, causes>>

PublicationGone(p) ==
    /\ channel' = [channel EXCEPT !.pubs = @ \ {p}]
    /\ UNCHANGED <<sending, client, causes>>

BotLeft ==
    /\ client' = [client EXCEPT !.bot = "left"]
    /\ senders' = [p \in Pubs |-> 0]
    /\ causes' = causes \cup {"bot left"}
    /\ UNCHANGED <<starts, queue, forwardings, listening, stopping, channel>>

Applied(e) ==
    CASE e.kind = "subscribed"   -> Subscribed(e.of)
      [] e.kind = "relayed"      -> Relayed(e.of)
      [] e.kind = "unsubscribed" -> Unsubscribed(e.of)
      [] e.kind = "unrelayed"    -> Unrelayed(e.of)
      [] e.kind = "unpublished"  -> PublicationGone(e.pub)
      [] e.kind = "left"         -> BotLeft

ApplyEvent ==
    /\ events # <<>>
    /\ events' = Tail(events)
    /\ Applied(Head(events))
    /\ UNCHANGED <<receivers, server, troubles>>

\* LocalPersonImpl._handleOnPublicationUnsubscribe goes on, after it has awaited.
StopPublishing(p) ==
    /\ p \in stopping
    /\ stopping' = stopping \ {p}
    /\ starts' = unproduce(starts, p)
    /\ causes' = IF Overtaken(p) THEN causes \cup {"stop overtook start"} ELSE causes
    /\ UNCHANGED <<queue, senders, forwardings, listening, receivers, client, server, events, channel, troubles>>

----------------------------------------------------------------------------
(* Receivers.                                                              *)

Receives(s, stage) == receivers' = [receivers EXCEPT ![s].stage = stage]

\* SFUConnection.startSubscribing, Receiver.consume.
startSubscribing(s) ==
    /\ receivers[s].stage = "idle" /\ Called < MaxCalls
    /\ client.bot = "joined" /\ ~client.disposed
    /\ receivers' = [receivers EXCEPT ![s].stage = IF client.loaded THEN "request" ELSE "caps", ![s].wanted = TRUE]
    /\ UNCHANGED <<sending, client, server, events, channel, troubles, causes>>

Capabilities(s) ==
    /\ receivers[s].stage = "caps"
    /\ Receives(s, "request")
    /\ client' = [client EXCEPT !.loaded = TRUE]
    /\ UNCHANGED <<sending, server, events, channel, troubles, causes>>

\* The SFU executes createConsumer.
Consume(s) ==
    /\ receivers[s].stage = "request"
    /\ receivers' = [receivers EXCEPT ![s].stage = "answered", ![s].options = ~server.recv]
    /\ server' = [server EXCEPT !.recv = TRUE]
    /\ UNCHANGED <<sending, client, events, channel, troubles, causes>>

ConsumerLost(s) ==
    /\ receivers[s].stage = "answered" /\ receivers[s].options
    /\ Trouble
    /\ receivers' = [receivers EXCEPT ![s].options = FALSE]
    /\ causes' = causes \cup {"answer lost"}
    /\ UNCHANGED <<sending, client, server, events, channel>>

\* The answer: createTransport wakes those that wait for it.
ConsumerAnswered(s) ==
    LET known == client.recv \/ receivers[s].options
    IN  /\ receivers[s].stage = "answered"
        /\ client' = [client EXCEPT !.recv = known]
        /\ receivers' = [r \in Subs |->
               IF r = s THEN [receivers[r] EXCEPT !.stage = IF known THEN "consume" ELSE "wait"]
               ELSE IF receivers[r].stage = "wait" /\ receivers[s].options THEN [receivers[r] EXCEPT !.stage = "consume"]
               ELSE receivers[r]]
        /\ UNCHANGED <<sending, server, events, channel, troubles, causes>>

Consumed(s) ==
    /\ receivers[s].stage = "consume"
    /\ ~client.disposed
    /\ receivers' = [receivers EXCEPT ![s].stage = "consumed", ![s].consumer = "open"]
    /\ UNCHANGED <<sending, client, server, events, channel, troubles, causes>>

\* A request, the wait for the transport or the consumption fails.
ConsumeFails(s) ==
    /\ \/ receivers[s].stage \in {"caps", "request", "consume"} /\ Trouble
       \/ receivers[s].stage = "wait" /\ \A r \in Subs : ~(receivers[r].stage = "answered" /\ receivers[r].options)
          /\ UNCHANGED troubles
       \/ receivers[s].stage = "consume" /\ client.disposed /\ UNCHANGED troubles
    /\ Receives(s, "failed")
    /\ UNCHANGED <<sending, client, server, events, channel, causes>>

\* Faulty variant: the consumer is forgotten, not closed.
stopSubscribingForgets(s) ==
    /\ receivers[s].wanted
    /\ receivers' = [receivers EXCEPT ![s].wanted = FALSE]
    /\ causes' = IF receivers[s].stage \in {"consumed", "failed"} THEN causes ELSE causes \cup {"unsubscribe overtook"}
    /\ UNCHANGED <<sending, client, server, events, channel, troubles>>

\* The end of the subscription: unconsume, if there is a consumer yet.
stopSubscribing(s) ==
    /\ receivers[s].wanted
    /\ receivers' = [receivers EXCEPT ![s].wanted = FALSE, ![s].consumer = IF @ = "open" THEN "closed" ELSE @]
    /\ causes' = IF receivers[s].stage \in {"consumed", "failed"} THEN causes ELSE causes \cup {"unsubscribe overtook"}
    /\ UNCHANGED <<sending, client, server, events, channel, troubles>>

\* SfuBotPlugin._whenDisposeLocalPerson: every transport is closed and forgotten, its
\* producers and consumers with it.
dispose ==
    /\ ~client.disposed
    /\ Trouble
    /\ client' = [client EXCEPT !.disposed = TRUE, !.send = FALSE, !.recv = FALSE]
    /\ starts' = [n \in StartIds |-> [starts[n] EXCEPT !.producer = IF @ = "open" THEN "closed" ELSE @]]
    /\ receivers' = [s \in Subs |-> [receivers[s] EXCEPT !.consumer = IF @ = "open" THEN "closed" ELSE @]]
    /\ UNCHANGED <<queue, senders, forwardings, listening, stopping, server, events, channel, causes>>

----------------------------------------------------------------------------
ForwardingInit ==
    /\ starts = [n \in StartIds |-> [pub |-> CHOOSE p \in Pubs : TRUE, stage |-> "none",
                                   options |-> FALSE, producer |-> "none"]]
    /\ queue = <<>>
    /\ senders = [p \in Pubs |-> 0]
    /\ forwardings = {}
    /\ listening = {}
    /\ receivers = [s \in Subs |-> [stage |-> "idle", options |-> FALSE, consumer |-> "none", wanted |-> FALSE]]
    /\ client = [send |-> FALSE, recv |-> FALSE, loaded |-> FALSE, bot |-> "joined", disposed |-> FALSE]
    /\ server = [send |-> FALSE, recv |-> FALSE, running |-> {}, pubs |-> [p \in Pubs |-> "there"]]
    /\ events = <<>>
    /\ channel = [relays |-> {}, subscribed |-> {}, pubs |-> Pubs]
    /\ stopping = {}
    /\ troubles = 0
    /\ causes = {}

\* What goes on by itself in a start.
Proceeds(n) ==
    \/ Begin(n) \/ Execute(n) \/ Refuse(n) \/ AnswerArrives(n)
    \/ Produced(n) \/ ProduceFails(n) \/ Watched(n) \/ WatchTimeout(n)

\* Between the event that a start has watched for and the start, more events at most.
Calm == \A n \in StartIds : starts[n].stage # "found"

ForwardingNext ==
    \/ ApplyEvent
    \/ \E n \in StartIds : Proceeds(n)
    \/ /\ Calm
       /\ \/ \E n \in StartIds :
                \/ \E p \in Pubs : startForwarding(n, p)
                \/ AnswerLost(n) \/ Unwatched(n)
                \/ stopForwarding(n) \/ EndForwarding(n)
          \/ \E p \in Pubs : Unpublish(p) \/ Unpublished(p) \/ StopPublishing(p)
          \/ \E s \in Subs :
                \/ startSubscribing(s) \/ stopSubscribing(s)
                \/ Capabilities(s) \/ Consume(s) \/ ConsumerLost(s) \/ ConsumerAnswered(s)
                \/ Consumed(s) \/ ConsumeFails(s)
          \/ BotLeaves
          \/ dispose

\* Requests are answered or fail, and waits have their time limit.
ForwardingFairness == \A n \in StartIds : WF_forwardingVars(Proceeds(n))

ForwardingSpec == ForwardingInit /\ [][ForwardingNext]_forwardingVars /\ ForwardingFairness

----------------------------------------------------------------------------
(* Properties.                                                             *)

AtRest ==
    /\ queue = <<>> /\ events = <<>> /\ stopping = {}
    /\ \A s \in Subs : receivers[s].stage \in {"idle", "consumed", "failed"}

\* Nothing is sent or received for nobody: when all is handled, an open producer belongs
\* to a forwarding the SFU runs, and an open consumer to a subscription, unless one of
\* the causes has happened.
NothingLeaks ==
    AtRest =>
        /\ causes \cap {"stop overtook start", "started again", "bot left"} = {} =>
               \A n \in StartIds : starts[n].producer = "open" => n \in server.running
        /\ "unsubscribe overtook" \notin causes =>
               \A s \in Subs : receivers[s].consumer = "open" => receivers[s].wanted

\* A forwarding that was started is fed as long as the SFU runs it, unless its publication
\* was started before.
StartedIsFed ==
    "started again" \notin causes /\ ~client.disposed =>
        \A n \in server.running : starts[n].stage = "started" => starts[n].producer = "open"

\* The transport is made once and found by everybody: a start goes on to produce after
\* every answer, and a receiver waits only while the answer that brings the transport is
\* on its way, unless that answer was lost.
TransportsAreFound ==
    /\ ForwardingTypeOK
    /\ "answer lost" \notin causes /\ ~client.disposed =>
        /\ \A n \in StartIds : starts[n].stage = "answered" /\ ~starts[n].options => client.send
        /\ \A s \in Subs : receivers[s].stage = "wait" =>
               \E r \in Subs : receivers[r].stage = "answered" /\ receivers[r].options

\* Every start ends, with a forwarding or an error, unless a produce was not watched to
\* its end: the queue is blocked then.
StartSettles ==
    \A n \in StartIds :
        starts[n].stage = "queued" ~>
            (starts[n].stage \in {"started", "failed"} \/ \E k \in StartIds : starts[k].stage = "stuck")
=============================================================================
