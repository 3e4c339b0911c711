-------------------------- MODULE PersonRendezvous --------------------------
(***************************************************************************)
(* Two persons of a channel and the P2P connections each makes to the      *)
(* other: RemotePersonImpl, the agents of LocalPersonImpl, P2PConnection   *)
(* with its queue, MessageBuffer and the channel events that drive them.   *)
(* A P2PConnection object exists on each side; nothing but the channel     *)
(* events and the order of the signaling messages matches one side's       *)
(* object with the other's.                                                *)
(*                                                                         *)
(* Offers and answers are those of P2PNegotiation, one direction in each   *)
(* Sender; here they are only begun and ended.  Signaling delivers in      *)
(* order: what happens when it fails is the matter of P2PNegotiation and   *)
(* SignalingClient.                                                        *)
(***************************************************************************)
EXTENDS Naturals, Sequences, SequencesExt

CONSTANTS
    Persons,          \* two of them
    Pubs,             \* publications of either
    PubsOf(_),        \* those of a person; the other person may subscribe to them
    Late,             \* bound: publications whose stream may be set after a subscription
    MaxEvents,        \* bound: subscriptions begun or ended
    MaxConnections    \* bound: connections a person makes

ASSUME RendezvousAssumption ==
    /\ \E x, y \in Persons : x # y /\ Persons = {x, y}
    /\ \A x, y \in Persons : x # y => PubsOf(x) \cap PubsOf(y) = {}
    /\ Pubs = UNION {PubsOf(x) : x \in Persons}
    /\ Late \subseteq Pubs
    /\ MaxEvents \in Nat /\ MaxConnections \in Nat

Other(x) == CHOOSE y \in Persons : y # x
Publisher(p) == CHOOSE x \in Persons : p \in PubsOf(x)
Subscriber(p) == Other(Publisher(p))

VARIABLES
    events,    \* the channel's events so far, in its order
    seen,      \* how many of them each person has received
    handling,  \* events whose handler has not yet reached its agent
    published, \* publications whose publish has set the stream
    starting,  \* publications whose start waits for the stream
    conn,      \* the connection of each person to the other
    made,      \* how many connections each has made
    buffer,    \* MessageBuffer: what came before the first connection
    toward,    \* signaling messages on their way to each person
    sent,      \* history: everything sent to each person
    handled,   \* history: everything a connection of the person was given
    causes     \* history: what happened that can make the sides disagree

channel == <<events, seen, handling, published>>
history == <<sent, handled, causes>>
vars == <<channel, starting, conn, made, buffer, toward, history>>

Event == [kind : {"subscribed", "unsubscribed"}, pub : Pubs]
Message == [kind : {"produce", "unproduce"}, pub : Pubs, from : 1..MaxConnections]
           \cup [kind : {"answer"}, from : 1..MaxConnections, to : 1..MaxConnections]
\* sub: the subscription, by the number of the event that began it; publishing needs none.
Task == [kind : {"startPub", "sending", "stopPub", "startSub", "stopSub"}, pub : Pubs,
         sub : 0..MaxEvents]
Op == [op : {"add", "remove"}, pub : Pubs]

\* P2PConnection with its Sender (up to pending) and Receiver; a stream is
\* <<its publication, the connection it came from>>.
Connection == [id            : 1..MaxConnections,
               queue         : Seq(Task),              \* _pubsubQueue
               publications  : SUBSET Pubs,
               isNegotiating : BOOLEAN,
               pending       : Seq(Op),                \* _pendingPublications
               peer          : 0..MaxConnections,      \* whose offers it has taken
               subscriptions : SUBSET (1..MaxEvents),
               streams       : SUBSET (Pubs \X (1..MaxConnections))]
NoConnection == [id |-> 0]

TypeOK ==
    /\ events \in Seq(Event)
    /\ seen \in [Persons -> Nat]
    /\ handling \in [Persons -> SUBSET (1..MaxEvents)]
    /\ published \subseteq Pubs
    /\ starting \in [Persons -> SUBSET Pubs]
    /\ conn \in [Persons -> Connection \cup {NoConnection}]
    /\ made \in [Persons -> 0..MaxConnections]
    /\ buffer \in [Persons -> Seq(Message)]
    /\ toward \in [Persons -> Seq(Message)]
    /\ causes \subseteq {"late stream", "overtaken", "skipped stop", "early offer", "timeout", "closed"}

Active(p) ==
    LET last == SelectLastInSeq(events, LAMBDA e : e.pub = p)
    IN  last # 0 /\ events[last].kind = "subscribed"

\* The subscription that event i begins or ends.
SubscriptionOf(i) ==
    SelectLastInSeq(SubSeq(events, 1, i), LAMBDA e : e.pub = events[i].pub /\ e.kind = "subscribed")

----------------------------------------------------------------------------
(* The connection of a person.                                             *)

Streams(c) == {s[1] : s \in c.streams}
hasMedia(c) == c.publications # {} \/ c.streams # {}

\* A task that does not wait: it runs before the person's next callback.
Runnable(c) ==
    /\ c # NoConnection
    /\ c.queue # <<>>
    /\ Head(c.queue).kind # "sending"
    /\ Head(c.queue).kind = "startSub" => Head(c.queue).pub \in Streams(c)

Idle(x) == ~Runnable(conn[x])

Post(x, m) ==
    /\ toward' = [toward EXCEPT ![Other(x)] = Append(@, m)]
    /\ sent' = [sent EXCEPT ![Other(x)] = Append(@, m)]

\* What Sender.add and Sender.remove make of the connection, and whether they offer.
Busy(c) == c.isNegotiating

added(c, p) ==
    IF Busy(c) THEN [c EXCEPT !.pending = Append(@, [op |-> "add", pub |-> p])]
    ELSE [c EXCEPT !.isNegotiating = TRUE, !.publications = @ \cup {p}]

removed(c, p) ==
    IF p \notin c.publications THEN c
    ELSE IF Busy(c) THEN [c EXCEPT !.publications = @ \ {p},
                                   !.pending = Append(@, [op |-> "remove", pub |-> p])]
    ELSE [c EXCEPT !.isNegotiating = TRUE, !.publications = @ \ {p}]

Produce(c, p) == [kind |-> "produce", pub |-> p, from |-> c.id]
Unproduce(c, p) == [kind |-> "unproduce", pub |-> p, from |-> c.id]

\* close: the tasks still queued find a closed RTCPeerConnection, or no stream, and
\* come to nothing.
CloseIfNeeded(x, c) == conn' = [conn EXCEPT ![x] = IF hasMedia(c) THEN c ELSE NoConnection]
Closing(c) == IF hasMedia(c) THEN {} ELSE {"closed"}

CanPush(x) == conn[x] # NoConnection \/ made[x] < MaxConnections

Made(id, task) ==
    [id |-> id, queue |-> <<task>>, publications |-> {}, isNegotiating |-> FALSE,
     pending |-> <<>>, peer |-> 0, subscriptions |-> {}, streams |-> {}]

\* Faulty variant: what was buffered is dropped when the connection is made.
PushTaskDropsBuffer(x, task) ==
    IF conn[x] # NoConnection
    THEN conn' = [conn EXCEPT ![x].queue = Append(@, task)] /\ UNCHANGED <<made, buffer, toward>>
    ELSE /\ made' = [made EXCEPT ![x] = @ + 1]
         /\ conn' = [conn EXCEPT ![x] = Made(made[x] + 1, task)]
         /\ buffer' = [buffer EXCEPT ![x] = <<>>]
         /\ UNCHANGED toward

\* RemotePersonImpl._getOrCreateConnection, and the task that the agent pushes.
PushTask(x, task) ==
    IF conn[x] # NoConnection
    THEN /\ conn' = [conn EXCEPT ![x].queue = Append(@, task)]
         /\ UNCHANGED <<made, buffer, toward>>
    ELSE /\ made' = [made EXCEPT ![x] = @ + 1]
         /\ conn' = [conn EXCEPT ![x] = Made(made[x] + 1, task)]
         /\ toward' = [toward EXCEPT ![x] = buffer[x] \o @]
         /\ buffer' = [buffer EXCEPT ![x] = <<>>]

----------------------------------------------------------------------------
(* PromiseQueue of the connection.                                         *)

StartPublishing(x) ==
    LET c == conn[x]
        p == Head(c.queue).pub
    IN  /\ Head(c.queue).kind = "startPub"
        /\ IF Busy(c)
           THEN /\ conn' = [conn EXCEPT ![x] = [added(c, p) EXCEPT !.queue = Tail(@)]]
                /\ UNCHANGED <<toward, sent>>
           ELSE /\ conn' = [conn EXCEPT ![x] = [added(c, p) EXCEPT !.queue[1].kind = "sending"]]
                /\ Post(x, Produce(c, p))
        /\ UNCHANGED <<channel, starting, made, buffer, handled, causes>>

\* The stop is skipped, as far as the other side is concerned, when it comes during a
\* negotiation: removed keeps it among the pending operations, and there it begins nothing.
StopPublishing(x) ==
    LET c == conn[x]
        p == Head(c.queue).pub
        d == [removed(c, p) EXCEPT !.queue = Tail(@)]
    IN  /\ Head(c.queue).kind = "stopPub"
        /\ IF p \in c.publications /\ ~Busy(c) /\ hasMedia(d)
           THEN Post(x, Unproduce(c, p))
           ELSE UNCHANGED <<toward, sent>>
        /\ CloseIfNeeded(x, d)
        /\ causes' = causes \cup Closing(d)
                            \cup (IF p \in c.publications /\ ~Busy(c) THEN {} ELSE {"skipped stop"})
        /\ UNCHANGED <<channel, starting, made, buffer, handled>>

\* Receiver.add, before the wait for the stream, and then the end of the task.
Subscribed(c) == [c EXCEPT !.subscriptions = @ \cup {Head(c.queue).sub}, !.queue = Tail(@)]

\* Receiver.remove: the stream stays when its subscription has not been added.
Unsubscribed(c, task) ==
    IF task.sub \notin c.subscriptions THEN c
    ELSE [c EXCEPT !.subscriptions = @ \ {task.sub},
                   !.streams = {s \in @ : s[1] # task.pub}]

StartSubscribing(x) ==
    LET c == conn[x]
    IN  /\ Head(c.queue).kind = "startSub"
        /\ conn' = [conn EXCEPT ![x] = Subscribed(c)]
        /\ UNCHANGED <<channel, starting, made, buffer, toward, history>>

StopSubscribing(x) ==
    LET c == conn[x]
        d == [Unsubscribed(c, Head(c.queue)) EXCEPT !.queue = Tail(@)]
    IN  /\ Head(c.queue).kind = "stopSub"
        /\ CloseIfNeeded(x, d)
        /\ causes' = causes \cup Closing(d)
        /\ UNCHANGED <<channel, starting, made, buffer, toward, sent, handled>>

Run(x) ==
    /\ Runnable(conn[x])
    /\ StartPublishing(x) \/ StopPublishing(x) \/ StartSubscribing(x) \/ StopSubscribing(x)

\* The answer to signaling.send ends the task.
Sent(x) ==
    /\ conn[x] # NoConnection
    /\ conn[x].queue # <<>>
    /\ Head(conn[x].queue).kind = "sending"
    /\ conn' = [conn EXCEPT ![x].queue = Tail(@)]
    /\ UNCHANGED <<channel, starting, made, buffer, toward, history>>

\* startSubscribing gives up waiting for its stream (rtcConfig.timeout) and throws: the
\* connection may still get the stream, its subscription does not.
WaitTimeout(x) ==
    /\ conn[x] # NoConnection
    /\ conn[x].queue # <<>> /\ Head(conn[x].queue).kind = "startSub"
    /\ Idle(x)
    /\ conn' = [conn EXCEPT ![x] = Subscribed(conn[x])]
    /\ causes' = causes \cup {"timeout"}
    /\ UNCHANGED <<channel, starting, made, buffer, toward, sent, handled>>

----------------------------------------------------------------------------
(* Channel events.                                                         *)

\* The RTC API server: a person subscribes to a publication of the other, or ends it.
Subscribe(p) ==
    /\ Len(events) < MaxEvents
    /\ events' = Append(events, [kind |-> IF Active(p) THEN "unsubscribed" ELSE "subscribed", pub |-> p])
    /\ UNCHANGED <<seen, handling, published, starting, conn, made, buffer, toward, history>>

\* The application's publish sets the stream: before the event of the first
\* subscription, or late.
Publish(p) ==
    /\ p \notin published
    /\ published' = published \cup {p}
    /\ UNCHANGED <<events, seen, handling, starting, conn, made, buffer, toward, history>>

\* An event arrives; its handler first awaits the statistics it logs.
Receive(x) ==
    /\ seen[x] < Len(events)
    /\ Idle(x)
    /\ seen' = [seen EXCEPT ![x] = @ + 1]
    /\ handling' = [handling EXCEPT ![x] = @ \cup {seen[x] + 1}]
    /\ UNCHANGED <<events, published, starting, conn, made, buffer, toward, history>>

\* The handler goes on: PublishingAgent and SubscribingAgent.
Handle(x, i) ==
    LET e == events[i]
        mine == Publisher(e.pub) = x
        early == \E j \in handling[x] : j < i
    IN  /\ i \in handling[x]
        /\ Idle(x)
        /\ handling' = [handling EXCEPT ![x] = @ \ {i}]
        /\ causes' = causes \cup (IF early THEN {"overtaken"} ELSE {})
                            \cup (IF mine /\ e.pub \notin published THEN {"late stream"} ELSE {})
        /\ CASE e.kind = "subscribed" /\ mine /\ e.pub \notin published ->
                   /\ starting' = [starting EXCEPT ![x] = @ \cup {e.pub}]
                   /\ UNCHANGED <<conn, made, buffer, toward>>
             [] e.kind = "subscribed" /\ ~(mine /\ e.pub \notin published) ->
                   /\ CanPush(x)
                   /\ PushTask(x, [kind |-> IF mine THEN "startPub" ELSE "startSub",
                                   pub |-> e.pub, sub |-> IF mine THEN 0 ELSE SubscriptionOf(i)])
                   /\ UNCHANGED starting
             [] e.kind = "unsubscribed" /\ conn[x] # NoConnection ->
                   /\ PushTask(x, [kind |-> IF mine THEN "stopPub" ELSE "stopSub",
                                   pub |-> e.pub, sub |-> IF mine THEN 0 ELSE SubscriptionOf(i)])
                   /\ UNCHANGED starting
             [] OTHER -> UNCHANGED <<conn, made, buffer, toward, starting>>
        /\ UNCHANGED <<events, seen, published, sent, handled>>

\* startPublishing goes on when publish has set the stream.
StreamPublished(x, p) ==
    /\ p \in starting[x] \cap published
    /\ Idle(x)
    /\ CanPush(x)
    /\ starting' = [starting EXCEPT ![x] = @ \ {p}]
    /\ PushTask(x, [kind |-> "startPub", pub |-> p, sub |-> 0])
    /\ UNCHANGED <<channel, history>>

----------------------------------------------------------------------------
(* Signaling messages.                                                     *)

Take(x) ==
    /\ toward[x] # <<>>
    /\ Idle(x)

\* No connection: MessageBuffer keeps it, unless it has excluded the sender.
NoListener(x) ==
    /\ Take(x)
    /\ conn[x] = NoConnection
    /\ toward' = [toward EXCEPT ![x] = Tail(@)]
    /\ buffer' = IF made[x] = 0 THEN [buffer EXCEPT ![x] = Append(@, Head(toward[x]))] ELSE buffer
    /\ UNCHANGED <<channel, starting, conn, made, history>>

Answer(x, m) ==
    /\ toward' = [toward EXCEPT ![x] = Tail(@), ![Other(x)] = Append(@, m)]
    /\ sent' = [sent EXCEPT ![Other(x)] = Append(@, m)]

\* The stream of an earlier subscription is still there.
Early(c, m) == IF m.kind = "produce" /\ m.pub \in Streams(c) THEN {"early offer"} ELSE {}

\* Faulty variant: a stream that comes before its startSubscribing is not kept.
OfferedOnTime(x) ==
    LET m == Head(toward[x])
        c == conn[x]
    IN  /\ Take(x)
        /\ c # NoConnection
        /\ m.kind \in {"produce", "unproduce"}
        /\ handled' = [handled EXCEPT ![x] = Append(@, m)]
        /\ Answer(x, [kind |-> "answer", from |-> c.id, to |-> m.from])
        /\ conn' = IF m.kind = "produce" /\ c.queue # <<>>
                    THEN [conn EXCEPT ![x].streams = @ \cup {<<m.pub, m.from>>}] ELSE conn
        /\ causes' = causes \cup Early(c, m)
        /\ UNCHANGED <<channel, starting, made, buffer>>

\* Receiver._handleSenderProduce and _handleSenderUnproduce.  The browser may refuse
\* the offer of another connection than the one it has a remote description of.
Offered(x) ==
    LET m == Head(toward[x])
        c == conn[x]
        met == [c EXCEPT !.peer = m.from]
    IN  /\ Take(x)
        /\ c # NoConnection
        /\ m.kind \in {"produce", "unproduce"}
        /\ handled' = [handled EXCEPT ![x] = Append(@, m)]
        /\ \/ /\ Answer(x, [kind |-> "answer", from |-> c.id, to |-> m.from])
              /\ conn' = [conn EXCEPT ![x] = IF m.kind = "produce"
                                             THEN [met EXCEPT !.streams = @ \cup {<<m.pub, m.from>>}]
                                             ELSE met]
           \/ /\ c.peer \notin {0, m.from}
              /\ toward' = [toward EXCEPT ![x] = Tail(@)]
              /\ UNCHANGED <<conn, sent>>
        /\ causes' = causes \cup Early(c, m)
        /\ UNCHANGED <<channel, starting, made, buffer>>

\* Sender._handleReceiverAnswer without an offer to answer, or with one that the
\* browser refuses.
AnswerRefused(x) ==
    LET m == Head(toward[x])
        c == conn[x]
    IN  /\ Take(x)
        /\ c # NoConnection
        /\ m.kind = "answer"
        /\ ~c.isNegotiating \/ m.to # c.id
        /\ handled' = [handled EXCEPT ![x] = Append(@, m)]
        /\ toward' = [toward EXCEPT ![x] = Tail(@)]
        /\ UNCHANGED <<channel, starting, conn, made, buffer, sent, causes>>

\* Faulty variant: what waits is not resumed.
AnsweredOnly(x) ==
    /\ Take(x)
    /\ conn[x] # NoConnection
    /\ Head(toward[x]).kind = "answer"
    /\ conn[x].isNegotiating
    /\ handled' = [handled EXCEPT ![x] = Append(@, Head(toward[x]))]
    /\ conn' = [conn EXCEPT ![x].isNegotiating = FALSE]
    /\ toward' = [toward EXCEPT ![x] = Tail(@)]
    /\ UNCHANGED <<channel, starting, made, buffer, sent, causes>>

\* Sender._handleReceiverAnswer, then _resolvePendingSender: of what waits, one
\* operation begins; a removal finds its publication gone and begins nothing.
Answered(x) ==
    LET m == Head(toward[x])
        c == [conn[x] EXCEPT !.isNegotiating = FALSE]
        op == Head(c.pending)
        d == [c EXCEPT !.pending = Tail(@)]
        rest == [toward EXCEPT ![x] = Tail(@)]
    IN  /\ Take(x)
        /\ conn[x] # NoConnection
        /\ m.kind = "answer"
        /\ conn[x].isNegotiating
        /\ handled' = [handled EXCEPT ![x] = Append(@, m)]
        /\ \/ /\ c.pending = <<>>
              /\ conn' = [conn EXCEPT ![x] = c]
              /\ toward' = rest
              /\ UNCHANGED sent
           \/ /\ c.pending # <<>> /\ op.op = "remove"
              /\ conn' = [conn EXCEPT ![x] = d]
              /\ toward' = rest
              /\ UNCHANGED sent
           \/ /\ c.pending # <<>> /\ op.op = "add"
              /\ conn' = [conn EXCEPT ![x] = added(d, op.pub)]
              /\ toward' = [rest EXCEPT ![Other(x)] = Append(@, Produce(c, op.pub))]
              /\ sent' = [sent EXCEPT ![Other(x)] = Append(@, Produce(c, op.pub))]
        /\ UNCHANGED <<channel, starting, made, buffer, causes>>

----------------------------------------------------------------------------
Init ==
    /\ events = <<>>
    /\ seen = [x \in Persons |-> 0]
    /\ handling = [x \in Persons |-> {}]
    /\ published = Pubs \ Late
    /\ starting = [x \in Persons |-> {}]
    /\ conn = [x \in Persons |-> NoConnection]
    /\ made = [x \in Persons |-> 0]
    /\ buffer = [x \in Persons |-> <<>>]
    /\ toward = [x \in Persons |-> <<>>]
    /\ sent = [x \in Persons |-> <<>>]
    /\ handled = [x \in Persons |-> <<>>]
    /\ causes = {}

Next ==
    \/ \E p \in Pubs : Subscribe(p) \/ Publish(p)
    \/ \E x \in Persons :
          \/ Run(x) \/ Sent(x) \/ WaitTimeout(x)
          \/ Receive(x)
          \/ \E i \in 1..MaxEvents : Handle(x, i)
          \/ \E p \in Pubs : StreamPublished(x, p)
          \/ NoListener(x) \/ Offered(x) \/ AnswerRefused(x) \/ Answered(x)

Spec == Init /\ [][Next]_vars

----------------------------------------------------------------------------
(* Properties.                                                             *)

\* Until a person closes a connection, every signaling message is given to a
\* connection once and in order, the ones that came before it was made included
\* (MessageBuffer).
NothingLost ==
    /\ TypeOK
    /\ "closed" \notin causes =>
        \A x \in Persons : sent[x] = handled[x] \o buffer[x] \o toward[x]

Flows(p) ==
    LET out == conn[Publisher(p)]
        in == conn[Subscriber(p)]
    IN  /\ out # NoConnection /\ in # NoConnection
        /\ p \in out.publications
        /\ <<p, out.id>> \in in.streams

AtRest ==
    \A x \in Persons :
        /\ toward[x] = <<>> /\ seen[x] = Len(events) /\ handling[x] = {} /\ starting[x] = {}
        /\ conn[x] # NoConnection => conn[x].queue = <<>>

\* What can leave the two sides apart: a connection that was closed, handlers that
\* overtook each other, a stream that was set late, a stop that was not announced, and a
\* subscription begun anew whose offer was there before the former one had ended.
Disturbances == {"closed", "overtaken", "late stream", "skipped stop", "early offer"}
Undisturbed == causes \cap Disturbances = {}

\* When everything has been handled, the stream of each subscription flows between the
\* connections, unless one of the disturbances came between; a wait that timed out does
\* them no such harm.
MediaFlows ==
    AtRest /\ Undisturbed => \A p \in Pubs : Active(p) => Flows(p)

\* Nobody is left waiting for a stream: when nothing more is on its way, the queue of a
\* connection is stuck in startSubscribing only after one of the disturbances.  Handlers
\* that overtake each other, for instance, queue the tasks of the two sides in different
\* orders, and each side then waits for what the other queued behind its own wait.
Waits(x) ==
    /\ conn[x] # NoConnection /\ conn[x].queue # <<>>
    /\ Head(conn[x].queue).kind = "startSub"
    /\ Head(conn[x].queue).pub \notin Streams(conn[x])

Quiet ==
    \A x \in Persons :
        /\ toward[x] = <<>> /\ seen[x] = Len(events) /\ handling[x] = {} /\ starting[x] = {}
        /\ conn[x] # NoConnection => conn[x].queue = <<>> \/ Waits(x)

NobodyStaysWaiting ==
    Quiet /\ Undisturbed => \A x \in Persons : ~Waits(x)
=============================================================================
