# A verification project for the SkyWay JS-SDK

The repository is a fork of the SkyWay JavaScript SDK, a monorepo of TypeScript packages under
`src/packages/` that lets browsers publish and subscribe to media and data in channels ("rooms").
It has no tests of its protocol logic.  This directory holds TLA+ models of the parts whose
correctness depends on the order in which messages, callbacks, timers and failures come, the TLC
configurations that check them, and TLAPS proofs of what should hold for every parameter.

Paths below are relative to `src/packages/` of the repository.

## 1. The system

Everything runs in one JavaScript thread: the code between two `await`s is atomic, and everything
else interleaves.  A step of a model is therefore what runs from one `await` (or event, or timer)
to the next; several such pieces are one step only where the code serialises them itself, by a
`PromiseQueue` or by a flag.

```
 application
    |  room: P2PRoom, SfuRoom, LocalRoomMember, RoomPublication, RoomSubscription
    v
 core: SkyWayChannelImpl -- LocalPersonImpl -- PublicationImpl / SubscriptionImpl
    |        |                  |
    |        |                  +-- PublishingAgent / SubscribingAgent
    |        |                          |
    |        |                          v
    |        |                  RemotePersonImpl -- P2PConnection = Sender + Receiver  <--> browser of a peer
    |        |                          |             (RTCPeerConnection, offers and answers)
    |        |                          +-- SignalingSession -- signaling-client  <--> signaling server
    |        +-- SfuBotMember -- SfuBotConnection (mediasoup)  <--> SFU server (sfu-api-client)
    +-- SkyWayContext: token -- AnalyticsSession -- analytics-client  <--> analytics server
    v
 rtc-api-client: RtcApiClient -- ChannelImpl -- EventObserverImpl / EventJitterBuffer
    |
    v
 rtc-rpc-api-client: RtcRpcApiClient -- RPC (WebSocket, JSON-RPC)  <--> RTC API server
```

### Inventory

| Part | State it keeps | Operations, and who calls them | What is hard, and what makes it correct | Model |
|---|---|---|---|---|
| **Event observer** `rtc-api-client/src/infrastructure/eventObserver.ts` | `presentVersion`, `eventBuffer`, `packetLifeTimer`, `packetLostHappened` | `push` for each notification, the timer's callback, `dispose` by `ChannelImpl` | events lost, repeated and overtaken when a connection is replaced; a timer that races the missing event; a recovery that fails or is late. *Events reach the channel in order, each once; a gap never goes unnoticed.* | `EventJitterBuffer`, `OrderedDelivery` |
| **RPC client** `rtc-rpc-api-client/src/{rpc,client}.ts` | `_ws`, `reconnecting`, `_reconnectCount`, `_pendingRequests`, `_subscribingChannelEvents`, listeners of requests under way | requests of `rtc-api-client`, `createChannel`, `findOrCreateChannel`, `getChannel`, `close`; the socket's callbacks; `_reconnect` | breaks at any moment, also during a reconnection or its re-subscriptions; sockets that open late; `close` during a backoff. *A request waits only while a connection is made; one reconnection at a time; subscriptions come back.* | `RtcRpcClient` |
| **Signaling client** `signaling-client/src/`, `core/src/external/signaling.ts` | `_ws`, `_isOpen`, `reconnectCount`, reconnection timers, response callbacks, connectivity check | `SignalingSession.send` and `close`, the sockets' callbacks, timers | timers that overwrite each other; close events of replaced sockets; sends that wait for a connection. *The client never stays without a connection or something that brings one; a send that ended well was a delivery.* | `SignalingClient`, `MessageTransfer` |
| **P2P connection** `core/src/plugin/internal/person/connection/` | Sender: `publications`, `_isNegotiating`, `_pendingPublications`, transceivers, data channels; Receiver: `publicationInfo`, `streams` | `startPublishing`/`stopPublishing`, `startSubscribing`/`stopSubscribing`, `restartIce`; signaling messages of the peer | offers and answers of two machines; operations that come during a negotiation; ICE restarts in the middle of one; lost messages; the last publication closes the connection. *One negotiation at a time; both sides agree when it is over; a track is known when it arrives.* | `P2PNegotiation` (one direction) |
| **P2P transport** `connection/{peer,sender,receiver}.ts` | the RTCPeerConnections, `_connectionState`, `_pendingCandidates`, the backoff and the running restarts | events of the RTCPeerConnections; `restartIce`; candidates, offers and answers of the peer | candidates overtake descriptions; a loss during a restart; a connection that comes back by itself. *First candidates reach a description that can use them; the state shown is the connection's; a reconnection ends.* | `P2PTransport` (one direction) |
| **Rendezvous of two persons** `core/.../person/{member,plugin}.ts`, `connection/{index,messageBuffer}.ts`, `core/src/member/localPerson/agent/` | `RemotePersonImpl._connections`, `_pubsubQueue`, buffered messages | the agents push tasks for channel events; signaling messages of the other side | signaling overtakes the channel event that creates the connection; each side's queue waits for the other; a connection closes and is made again. *No message for a live connection is lost; the streams of the subscriptions flow; nobody waits for a stream that cannot come.* | `PersonRendezvous` |
| **Channel replica** `rtc-api-client/src/domain/channel.ts`, `core/src/channel/index.ts` | members, publications, subscriptions, `version`; `_localPerson`, `state` | channel events; `join`, `publish`, `subscribe`, their reverse, `close` and `dispose` | the event may come before the answer; the object may be gone when the answer comes; snapshots; the channel may be deleted. *The replica is a state the channel had; no request waits for an event that has passed.* | `ChannelReplica` |
| **Local person** `core/src/member/localPerson/` | `_requestQueue`, state, TTL timer, agents | `publish`, `unpublish`, `subscribe`, `unsubscribe`, `leave`, events | a queue whose tasks may wait for ever; `subscribe` waits for its stream, a failure or the publisher's leaving. *Every request is settled; streams run exactly for live subscriptions.* | queue in `ChannelReplica`, agents in `PersonRendezvous`, `subscribe`'s wait in `RoomMembership` |
| **Publication, subscription, local streams** `core/src/{publication,subscription}/`, `core/src/media/stream/local/` | `_state`, `_stream`; `_isEnabled`, the track, the queue of `setEnabled` | `enable`, `disable`, `cancel`, `updateMetadata`, `replaceStream`; channel events | each call waits for its event, switches a stream that may be asking for a device, and may be refused or late. *Publisher, subscriber and server come to agree; what is disabled sends nothing.* | `PublicationState` |
| **SFU bot** `sfu-bot/src/`, `sfu-api-client/src/` | `_startForwardQueue`, `_forwardings`, `_senders`, transports, producers and consumers | `startForwarding`, `stopForwarding`, `startSubscribing`, `stopSubscribing`, channel events, dispose | HTTP calls in `PromiseQueue`s against events; a transport whose options come in one answer only; partly failed sequences. *What was started is fed, nothing is sent for nobody, every start ends.* | `SfuForwarding` |
| **SFU transport** `sfu-bot/src/connection/transport/` | connection state, backoff, running restarts | events of the mediasoup transport; `restartIce` | several restarts of one transport beside each other on one backoff. *The state shown is the transport's when they are over; a reconnection ends.* | `SfuTransport` |
| **Room** `room/src/` | lists of members, publications, subscriptions; `localRoomMember`; the member's room | `join`, `leave`, `moveRoom`, `publish`, `unpublish`, `subscribe`, `unsubscribe`; channel events | the SFU room hides originals and shows relays; calls and streams that are through late; a member that moves. *A room lists what its channel has; calls tell the truth.* | `RoomMembership` |
| **Analytics, context** `analytics-client/src/`, `core/src/external/analytics.ts`, `core/src/context.ts` | sockets, acknowledgements, reports to send again, log buffer; the token and its timers | reports of the application's calls, `updateAuthToken`, sockets' callbacks, timers | reports that time out restart connections; the server closes when the token has expired; tokens that overtake each other. *The client is connected or says why not; no report is forgotten; the newest token is watched.* | `AnalyticsClient` |
| **common** `common/src/` | `Event`, `PromiseQueue`, `BackOff` | everywhere | their semantics (listeners in order, one task at a time) | in the steps of the models that use them |
| **token, model, media factory, ICE parameter server, bundler, examples** | - | - | data validation, creation of browser objects, one HTTP call, tools | not modelled |

`PROJECT.json` lists the same parts with their sources, and under `hazards` the places that are hard
to test, with the properties that watch them.

## 2. The modules

Each component has one module, and an MC module with the sets, functions and symmetries its `.cfg`
gives to the constants.  The faulty variants in the modules (comments that begin with "Faulty
variant") are definitions no specification uses: each is a plausible bug that a property was tried
against.

### OrderedDelivery, EventJitterBuffer

`OrderedDelivery` is what an event observer promises: the channel's events, numbered by the version
they produce, reach the listener in order, each once, with no gap.  `EventJitterBuffer` is the code,
with the server and the connection around it:

| Code | Model |
|---|---|
| a channel event | the version it carries |
| the connection, which may be replaced | `inFlight` (not yet delivered), `resent` (repeated for a re-subscription); `Lose`, and `Arrives`, which takes any frame and may leave a copy |
| `push` | `ReceiveStale`, `ReceiveEarly`, `ReceiveExpected` with `resolveEvents` |
| `packetLifeTimer` and the position of its callback | `packetLifeTimer.phase`: none, armed, subscribing, waiting, or dead (returned without clearing the field) |
| the callback | `GapClosed`, `PacketLost`, `PacketLostAgain`, and after its two awaits `Subscribed`/`SubscribeFails`, `WaitElapsed` |
| `Object.keys(eventBuffer).sort()` | `oldestBufferedEvents`: keys are compared as text, so 10 comes before 9 |
| `EventObserverImpl.dispose` | `dispose`; the callback does not look at it |

A frame the server was asked to repeat is put into `resent` at the answer, and a request whose answer
is lost may have been executed (`SubscribeFails` with `Repeat`).

### P2PNegotiation

One direction of a P2P connection: the Sender of one person, the Receiver of the other and the two
signaling queues.  `sender` and `receiver` are records of the objects' fields; `add`, `remove`,
`resolvePendingSender` are functions from the sender before to the sender after, as the code calls
them from several places.

An SDP is its sequence of m-lines: which publication it carries (`AppLine` for the one that all data
channels share) and whether it is active.  `WithLine` and `WithoutLine` are what the browser does: a
new m-line takes the place of the first inactive one.  `add` and `remove` await `createOffer` and
`setLocalDescription`; `restartIce`, which neither `_isNegotiating` nor a queue keeps out, can run
there, so each is two steps: up to the first await, and `sendOffer`.  An operation during which an ICE
restart came is `stale`: its own offer may be refused by the browser, or its message may carry the
newer description.  The handlers of signaling messages run one at a time in promise queues and are
one step each, errors included: `_validateRemoteOffer` that throws sends no answer.

Two pieces are one step although they await.  `_handleReceiverAnswer` up to `_isNegotiating = false`
(`sender.ts:787`): an `add` or `remove` that comes there finds the sender negotiating, as in the model; but
a `restartIce` that comes there makes `waitForSignalingState` time out, so that the sender goes on
negotiating until the restart is answered.  And a round of `restartIce` from `createOffer` to `send`
(`sender.ts:299`): the model has the restart that comes inside an `add` or `remove` (`raced`), not the `add`
or `remove` that begins inside a restart.  The properties are claims about restarts that nothing enters.

`stopPublishing` and `stopSubscribing` include `_closeIfNeeded`; whether the connection closes depends
on the other direction, so both outcomes are possible when this direction is empty.

### P2PTransport

The RTCPeerConnections below one direction.  A description is its ICE generation: the first offer, or the
offer of a restart.  What a description says of publications is in `P2PNegotiation`; here it matters when
it reaches the other side, and whether ICE can begin with it.

| Code | Model |
|---|---|
| `pc` and its descriptions; `_connectionState`, `_pendingCandidates`, the promise queue | `peers[side]` |
| `onicecandidate` and the caller's own `signaling.send`, which do not wait for each other | `Outgoing`: candidates before or after the description |
| `signaling.onMessage`: candidates at once, descriptions in the queue | `onMessage` with `handleCandidate`, `resolveCandidates` |
| `_handleReceiverAnswer`, `_handleSenderProduce`, `_handleSenderRestartIce`, cut at `signaling.send` and at `_resolvePendingSender` | `_handleReceiverAnswer`, `AnswerHandled`; `handleOffer`, `OfferHandled` |
| the handlers of `onPeerConnectionStateChanged` on both sides | `PcConnecting`, `PcConnected`, `PcBreaks`, and `LossConfirmed` after the wait of the Sender's |
| `Sender.restartIce`, which calls itself at its end | `restarts.loops`, each with the await it is at; `BackoffOver` to `WaitExpires` |

Several calls of `restartIce` can run: a "connecting" event ends "reconnecting", and then another loss
starts a second one.  Whether ICE finds a path is up to the network.

### PersonRendezvous

What `P2PNegotiation` leaves out: how the connections of two persons come to be, in both directions.
A `P2PConnection` exists on each side, and only the channel's events and the order of the signaling
messages match one side's object with the other's.  Offers and answers are only begun and ended here.

| Code | Model |
|---|---|
| `onPublicationSubscribed` and its reverse at each client | `events`, `seen`; `Receive`, and `Handle` after the statistics a handler awaits, so that handlers overtake each other |
| `PublishingAgent`, `SubscribingAgent`, `_getOrCreateConnection` | `Handle`, `StreamPublished` (a publication whose stream is set late) with `PushTask` |
| `_pubsubQueue` | `conn[x].queue`; a task that does not wait runs before the person's next callback (`Runnable`, `Idle`) |
| `startPublishing`, `stopPublishing`, `startSubscribing`, `stopSubscribing` | `StartPublishing` with `Sent`, `StopPublishing`, `StartSubscribing` with `WaitTimeout`, `StopSubscribing` |
| `MessageBuffer` | `buffer`, `NoListener`; it excludes a sender for good once there was a connection |
| the Receiver's and the Sender's handlers | `Offered`; `Answered`, `AnswerRefused` |
| `_closeIfNeeded` | `CloseIfNeeded`, and `Closing` for what it records |

Signaling delivers in order here; its failures are in `P2PNegotiation` and `SignalingClient`.  The streams are
those of the connections: after `WaitTimeout` the code throws before `_setStream`, so that the connection may
get the stream later while the subscription does not.

### RtcRpcClient

`client` is the record of `RtcRpcApiClient` and its `RPC`.  A request is a pair: `"create"`, `"get"` and
`"sub"` are what `createChannel`, `findOrCreateChannel` and `getChannel` send, and each call of
`_reconnect` has re-subscriptions of its own; the other requests of the class are calls of
`RPC.request` like these.

| Code | Model |
|---|---|
| the races inside `RPC.request` | `status`: watching (sent; a break makes it wait), resending (was watching at a break; a second break is not noticed), queued (issued while reconnecting), failed |
| a WebSocket | an element of `sockets`; the last one is `_ws`; earlier ones may still open or break |
| a call of `_reconnect` | a loop: backoff, connecting, subscribing; every break that finds `reconnecting` false starts one |
| `onclose`, `onopen`, the 5 s timeout of `connect` | `Disconnect`, `Opens`, `ConnectTimeout`, `ConnectRejected`, `UsageLimitExceeded` |
| answers, rpc errors, `rpcTimeout` | `Answer`, `Refuse`, `Timeout` |
| the server's channels and subscriptions | `known`; `subs`, per socket, gone when the socket closes |

The retry inside `subscribeChannelEvents` is not in the model because it cannot run: it waits for
`connectionDisconnected`, and the timeout of the first wait always settles the request before that
error is raised.

### MessageTransfer, SignalingClient

`MessageTransfer` is what a `SignalingSession` promises the P2P connections: a message arrives once or
never, only after it was sent, and a send that ends well while both ends are there was a delivery.
`SignalingClient` is the code: the session, the `SignalingClient` and the `Socket` below it, all the
WebSockets the Socket has made, the server and the target's session.

| Code | Model |
|---|---|
| `Socket` | `client`: `ws`, `isOpen`, `isDestroyed`, `reconnectCount`, `reconnectTimer`, and `lostTimers`, timers that `reconnect` has overwritten and that still fire |
| a WebSocket | `conns[s]`: connecting, open, or the reason why its close event is due: replaced, ended (by the client), broken, refused (a final code), closed |
| `onmessage` with the open event, `onclose`, the timer | `Opens`, `CloseReplaced`, `CloseAbnormal`, `CloseFinal`, `TimerFires` |
| `connect`, the connectivity check, `disconnect` | `ConnectTimeout`, `CheckBegins`, `CheckAnswered`, `CheckExpires`, `disconnect` |
| `SignalingSession.send`, `SignalingClient.request`, `Socket.send` | `send` with `Write` and `Transmit` |
| acknowledgements, responses, timeouts | `RequestFails`, `Response`; `Requested` at the target |

A client event longer than the limit cannot be made (`Large`).  When `onOpened` is emitted while no
WebSocket is current and somebody waits, the loop over the listeners never ends: the client is `hung`.

### ChannelReplica

The server, one client's `ChannelImpl`, `SkyWayChannelImpl` and its local persons.  Members, publications
and subscriptions are added and removed in the same way at every level, so the model speaks of objects of
these kinds; `Owner` and `Source` say what an object refers to.  Events come to `ChannelImpl` in order and
each once, which is what `OrderedDelivery` promises.

| Code | Model |
|---|---|
| `ChannelImpl.members`, `publications`, `subscriptions` | `replica` |
| `_members`, `_publications`, `_subscriptions` of `SkyWayChannelImpl` | `core` |
| `_localPerson`; the persons whose `state` is `joined` | `localPerson`, `persons` |
| the handlers of the events that add or remove, through both levels (they run in one piece) | `ApplyEvent` with `Added`, `Removed` and `Closed`; an event that throws changes nothing |
| `join`, `publish`, `subscribe`: the request, the answer, `getX(id) ??` and the wait, what follows | `adding`: queued, requested, executed, watching, got, ended |
| `leave`, `unpublish`, `unsubscribe`: request and wait start together | `removing`, with the same phases but got |
| `close` and the deletion of the channel by others; `dispose` | `closing`, `exists`, `state`; `CloseAnswered`, `CloseFails`, `CloseTimeout` |
| `_requestQueue` | `queue`: `Push`, `RunTask`, `NextTask` |
| `createLocalPerson` and `_localPerson = person` | `PersonCreated`, `PersonFails` |

The server is external: an identity is used once, and what needs an object is removed first, with an event
of its own; a member whose time has expired is removed like one that left (`OthersRemove`).  A request
that fails before it is executed is never executed later.  Left out: metadata, the names of members, a
stream that is published twice, and the same request made again while it is queued.

### PublicationState

One publication whose enabled state is kept in six places: the server, the `PublicationImpl` of the
publisher and of a subscriber, the publisher's streams (the first and those that replace it), the
queues of their `setEnabled`, and the track the subscriber plays.

| Code | Model |
|---|---|
| `enable`, `disable`, `updateMetadata`, `cancel` | a call: called (its log is awaited), switching (its stream is), waiting (request sent, event awaited), seen, over; `result` is what its promise became |
| `setEnabled` in a `PromiseQueue`; muting is immediate, unmuting asks for the device | `setEnabled`, `Run`, `TaskEnds`, `Acquired`, `AcquireFails` |
| the handlers of `ChannelImpl`'s events, `_disableStream`, `_enableStream` | `EventApplied`, with `Enabled`, `Disabled`, `MetadataUpdated` and `Canceled`; `Switches`, `enableStream` |
| a request is refused; its answer is lost after it was executed; its time, or the wait for its event, is over | `Refuse`, `AnswerLost`, `WaitTimeout`; an event may still come afterwards |
| a promise goes on after the event that settled it, and further events of the same message may come between | `Announced`, `enableStream` and `TaskEnds` are steps of their own; a further event needs none of them done, every other task of JavaScript waits for all of them (`Calm`) |
| `replaceStream`; the stream that `startSubscribing` of the connection gives the subscription | `replaceStream`, `Attach` |

### SfuForwarding, SfuTransport

`SfuForwarding`: one person and one bot.  The SFU makes one transport per direction and gives its options
only in the answer to the request that made it, so the senders and receivers share a repository.

| Code | Model |
|---|---|
| `SfuBotMember.startForwarding`, `_startForwardQueue` | `startForwarding`, `Begin`, then the stages of `starts[n]`: request, answered, produce, watch, found |
| POST and its retries, the answer | `Execute`, `AnswerLost` (executed twice, answered once), `Refuse`, `AnswerArrives` |
| `createProducer`, the watch for the relay, `new Forwarding` | `Produced`, `ProduceFails`, `Unwatched`, `Found`, `WatchTimeout` |
| channel events, each handled before a promise continues | `ApplyEvent`: `Subscribed`, `Relayed`, `Unsubscribed`, `Unrelayed`, `PublicationGone`, `BotLeft`; `StopPublishing` after its awaits |
| the watch ends in the handler of the relay's event, the start continues in a later microtask | the stage `found`: until `Watched`, more events of the same message at most (`Calm`) |
| `removeSender` by the origin's id, whichever start made the Sender | `unproduce` |
| the SFU ends a forwarding, also when its publication ends | `Ends` in `stopForwarding`; `Unpublish`, then `EndForwarding` of each, then `Unpublished` |
| `Receiver.consume`, `unconsume` | `startSubscribing`, `Capabilities`, `Consume`, `ConsumerAnswered`, `Consumed`, `stopSubscribing` |
| `_whenDisposeLocalPerson` | `dispose` |

`SfuTransport`: the connection state of one transport.  A call of `restartIce` is a loop with the await it
is at; it calls itself at its end and, when the SFU refuses, in its middle (`outer` counts the calls that
still have their own wait before them).  A bot made with the option `disableRestartIce` starts none
(`LossConfirmed`), and its transport goes on showing a connection that is lost.

`MCTransports` checks `P2PTransport` and `SfuTransport` in one run: the two transports share no state, and
a behaviour is one of either, while the other has not begun.

### RoomMembership

One client's rooms (both P2P or both SFU), one local member that joins, moves between them and leaves, its
publications and subscriptions.  The channel below is what `ChannelReplica` gives: events in order, each
applied by core and then by the room in one piece.

| Code | Model |
|---|---|
| the lists of a room, `localRoomMember` | `lists`, `localRoomMember` |
| `_handleOnMemberJoin` to `_handleOnStreamUnsubscribe` of both kinds of room | `Added`, `Removed`, `PublisherLeft` |
| a relay constructed without its origin | `orphans` |
| `join`, `moveRoom`, `publish` (with the forwarding of an SFU room), `subscribe` | `adding`; `Joined`, `Forward`, `Published`, `SubscribeAnswered`, `SubscribeReturns` |
| `leave`, `unpublish`, `unsubscribe`, which wait for an event of the member's room | `removing`, `waitsIn` |
| `LocalPersonImpl.subscribe`'s wait for the first stream, failure or leaving | adding = "waiting"; `StreamAttached`, `StreamFails`, `PublisherLeft` |
| `_addPublication`, `_addSubscription` when a call or a stream is through | `List` |

### AnalyticsClient

`AnalyticsClient` with its Sockets (a new token makes a new one), all their WebSockets, the reports, and
the token of the context.  Time is the number of tokens that have expired.

| Code | Model |
|---|---|
| `Socket` and its WebSockets | `client.sockets`, `client.ws`; `orphans` are timers that were overwritten |
| `_connect`, `reconnect`, `destroy`, `resendAfterReconnect`, `onclose` | `Connect` with `MakeWs`, `Reconnect`, `Destroy`, `ResendAfterReconnect`; `OpenReceived`, `CloseAbnormal`, `CloseFinal`, `TokenExpired`, `ReconnectTimer` |
| `_sendClientEvent`, acknowledgements, `BackOff` | `SendClientEvent`, `Transmit`, `Acknowledge`, `BackoffOver`, `SendTimeout`, `SendFails` |
| `bufferOrSendSdkLog` | `bufferSdkLog`, `SdkLogInterval` |
| `SkyWayContext.updateAuthToken`, `_setTokenExpireTimer`, the answer of the RTC API | `updateAuthToken`, `SetTimers`, `ApiAnswers`, `TokenTimer` |
| `AnalyticsSession` | `session`, `SessionTimeout` |

A WebSocket is "connecting" until the server's Open event has come: `onopen` before it only logs.  The
constructor of a WebSocket may throw (`throws`, a trouble), and then the Socket reconnects at once.

## 3. What the runs show

| Run | Bounds | Distinct states | Shows |
|---|---|---|---|
| `jitter` | versions 8..11 after a snapshot at 7, two losses | 51 thousand | `GapIsWatched`, `DetectionSurvives`; the buffer implements `OrderedDelivery` (`DeliveryInOrder`); with recoveries answered in time, what is held is delivered (`HeldIsDelivered`) |
| `negotiation` | two media publications (symmetric) and one of data, three starts, one ICE restart, one lost message | 2.2 million | `AgreementAtRest`, `TracksAreKnown`, `CrossedOnlyByRestart` |
| `negotiation_live` | two media publications, three starts, one ICE restart | 263 thousand | `WaitingIsProduced` |
| `rpc` | one channel, four faults (breaks, timeouts, refusals), three sockets, limit of two retries, two loops | 198 thousand | `WaitingMeansReconnecting`, `OneConnection`, `SubscriptionSurvives` |
| `replica` | this client and one remote member, a publication of each, one subscription, one event under way | 309 thousand | `ReplicaIsState`, `GhostsWereOvertaken`, `NoMissedEvent`, `RequestsSettle` |
| `signaling` | a message that fits and one that does not, two reconnections, three breaks, one connectivity check | 953 thousand | `NeverStranded`, `Recovers`; a session implements `MessageTransfer` (`TransfersMessages`) |
| `rendezvous` | two persons, two publications of one and one of the other, one with a late stream, three channel events, two connections each | 1.3 million | `NothingLost`, `MediaFlows`, `NobodyStaysWaiting` |
| `publication` | three calls, the stream and one that replaces it, one trouble | 3.4 million | `StatesAgree`, `StreamFollowsState`, `NoCallForgotten` |
| `sfu_forwarding` | two publications, two subscriptions, two starts or subscriptions in all, two troubles | 227 thousand | `NothingLeaks`, `StartedIsFed`, `TransportsAreFound`, `StartSettles` |
| `transports` | P2P: two restarts until given up, two losses, three offers, one lost message; SFU: three restarts until given up, four losses | 773 thousand | `CandidatesReachDescription`, `StatesAgree`, `SfuAgreesAtRest`, `ReconnectionEnds` |
| `room` | two rooms of either kind, a publication of the member and one of others, two symmetric subscriptions, four calls, two events under way in each room, one trouble | 243 thousand | `RoomShowsChannel`, `CallsTellTruth`, `NobodyWaitsInVain` |
| `analytics` | two Sockets, three WebSockets, two reports, two tokens, a log buffer of two, one reconnection, two calls, two troubles | 3.2 million | `StateIsTrue`, `NoReportForgotten`, `ExpiryIsWatched` |

The type invariant of every module is checked: as `TypeOK`, or as the first conjunct of an invariant.

Why the bounds are enough for the cases to happen:

* Versions 8 to 11 cross from one digit to two, where the order of the keys as text differs from that
  of the numbers; two losses give a gap inside a recovery, and a loss after a recovery.
* Three starts let one publication be under negotiation, one wait and one be started again after a
  stop; that is every combination of the queue with a recycled m-line.  One ICE restart is one round of
  its loop; the rounds are alike.
* Four faults are more than the retries: the RPC client gives up in some runs, and in others a second
  reconnection starts beside the re-subscriptions of the first.  A run that has no socket left for a
  further attempt is exempt from `SubscriptionSurvives` (`CutShort`): there the bound stops the loop,
  not the code.  `Disconnect` is guarded by a free loop identity.  Two let one loop make a connection
  while another still re-subscribes; a third break while both are busy is beyond the bound.
* In `replica` both queued requests of the local person, its join and its leaving, the deletion of the
  channel and the remote member's removals can be combined in every order; objects of one kind do not
  look at each other except through what they refer to.  With two events under way (770 thousand states)
  the same properties hold.  Failures and timeouts are not bounded.
* Three breaks of signaling are more than the reconnections, with a socket for each and for the
  connectivity check: timers overwrite each other, and a replaced socket reports while the next opens.
* Three channel events suffice for a subscription that ends while its start is under way, and for two
  publications one of which waits in `_pendingPublications` while the other side subscribes in the
  other direction; the second connection is one that comes after a close.
* Three calls on a publication are an enable and a disable around either, with an update or a cancel;
  two streams are what `replaceStream` needs.
* Two starts are two publications that share the transport, or one that is started again; two
  subscriptions share the other transport, and one start and one subscription share neither.
* Four losses of an SFU transport with three attempts: two restarts can run beside each other and use up
  the attempts, and a loss can come after that.  Two losses of a P2P connection with two attempts: two
  restarts beside each other, one of which makes the last attempt.  Three offers are the first and those
  of two restarts; a restart that has none left waits at its offer, and `ReconnectionEnds` excepts it
  (`CutShort`), because there the bound stops it.
* Four calls are join, subscribe twice and move, or join, publish, unpublish and leave; with one
  trouble any of them fails or is late.
* Two reports with two attempts each on three WebSockets: one is sent again after a reconnection while
  the other is answered; two tokens overtake each other.

Deadlock is not checked: each system may come to rest (everything published and delivered, bounds used
up, client closed).

### Conditions in the properties

Some properties hold only without an event that breaks them in this code, or legitimately.  The
conditions are history variables, so that they name the event and nothing else, and section 4 says what
each of them does:

* `skippedStops` (a stop came during a negotiation), `refusedMids` (the receiver refused an offer),
  `raced` (an ICE restart came inside an `add` or `remove`), `Intact` (no message was lost and nobody
  closed) in `P2PNegotiation`;
* `abandoned` in `RtcRpcClient`: a loop gave up a socket it had not seen closed, after a connect timeout or
  a refused re-subscription, and the socket may live on beside the next one;
* `overtaken` in `ChannelReplica`: the object was removed before join, publish or subscribe went on;
* `hung` in `SignalingClient`: nothing runs any more;
* `causes` in `PersonRendezvous`.  `NothingLost` excepts closed connections only.  `MediaFlows` and
  `NobodyStaysWaiting` except the `Disturbances`: a closed connection, handlers that overtook each other, a
  late stream, a stop that was not announced, a subscription begun anew whose offer came before the former
  one had ended.  A wait that timed out is recorded and does no harm.  The last two do
  harm only beyond the run's three events;
* `causes` in `SfuForwarding`: an answer that was lost, a stop that overtook its start, a publication that
  was started again, a bot that left, an unsubscribe that overtook its start; in each property only those
  that break it, and a `stuck` start for `StartSettles`;
* `causes` in `PublicationState`: a refused disable, an enable that gave up before its event, an event
  applied before the other kind of event was announced, one event for two enables; a stream replaced during
  a switch, a device that was not given.  `StatesAgree` speaks of the states in which no request of a call
  is on its way either;
* `client.told` has "failed", in the last clause of `NoReportForgotten` of `AnalyticsClient`: the client was
  disposed, and the versions of its reports begin again if it comes back;
* `late` in `RoomMembership`: what a call or a stream put into a list when its channel did not show it.
  `RoomShowsChannel` says that the lists are exact but for that.

A hazard whose outcome is what such a condition names is therefore recorded by the model, with its
consequences, and not caught by the property; the property says that nothing else goes wrong in its
company.  `PROJECT.json` says so in the note of each of these hazards.

### Fairness

* `EventJitterBuffer`: a frame that is not lost arrives, an armed timer fires, a request is answered and
  the wait after it elapses.  Timers and promises of the runtime do this; nothing is assumed of the
  server's publishing, of losses or of `dispose`.  Fairness of arrival is for the arrival that leaves
  no copy behind.
* `P2PNegotiation`: weak fairness of `Handle`, the disjunction of the message handlers and `sendOffer`:
  signaling delivers and promise queues run.  Starting, stopping and restarting are the application's
  and get no fairness.
* `RtcRpcClient`: a connecting socket opens unless a fault comes first, a request on an open socket is
  answered, and a loop goes on when its timer or its promise is ready.  Faults and the application have
  none.
* `ChannelReplica`: events are applied, a request for an own publication or subscription is answered or
  fails (requests and waits have time limits), and queued tasks and continuations run.  The application
  and the other clients have none.
* `SignalingClient`: reconnection timers fire, a WebSocket that was begun opens or fails, one that has
  ended reports it, as browsers do; not after the client hangs.
* `SfuForwarding`: `Proceeds(n)` of each start: HTTP requests are answered or fail after their retries,
  and waits have their time limit.
* `SfuTransport` and `P2PTransport`: some wait after a loss ends, or some await of a restart returns, while
  there is one.  Nothing is assumed of the network, of signaling, or of which restart goes on.
* `PersonRendezvous`, `PublicationState`, `RoomMembership` and `AnalyticsClient` state safety only; what
  should hold in the end is stated of the states in which nothing is on its way any more.

## 4. Observations

Behaviour of the code that was met while modelling it and that its authors may want to look at.  What a
model covers is behind one of the conditions of section 3; none of these is the violation of a run.

**Event observer.** `EventObserverImpl.dispose` leaves the packet-life timer armed; its callback then
subscribes to the channel's events again (`eventObserver.ts:64`).

**RPC client.** A client closed during the backoff of `_reconnect` opens a new socket (`client.ts:139`).  A
pending request is resent once only; a second break is not noticed (`rpc.ts:121`).  A channel created by a
call that timed out is unknown to the client.  `getChannel` marks a channel as subscribed before the
subscription succeeds (`client.ts:326`).  Every `connect` adds another listener to `_onMessage`, so that
notifications are repeated (`rpc.ts:71`; the jitter buffer absorbs the copies).

**Signaling.** A socket that a final close has destroyed may be reconnected by the expiry of a
connectivity check or by a timer that was overwritten (the comment at `socket.ts:130` says it will not
be).  An overwritten timer that fires makes the current socket one that nobody closes.  The close event of
an old socket with an abnormal code closes the new one.  `onOpened.emit` while `_ws` is undefined and
sends wait does not end.  Chunks of the maximal size exceed the limit together with their envelope.

**P2P negotiation.** A stop during a negotiation is never announced: `Sender.remove` deletes the
publication before it queues the removal (`sender.ts:660`).  After its last data publication was removed,
the receiver refuses every later offer, because it has no information for the application m-line
(`receiver.ts:361`).  An ICE restart in the middle of `add` brings the m-line to the receiver before the
publication's information (`sender.ts:299`).  A produce message that could not be sent leaves the sender
negotiating until an ICE restart (`sender.ts:575`).  The result of the wait for signaling in `restartIce`
is discarded, so that its failure is never seen (`sender.ts:289`).  A loss that is confirmed after the
Sender was closed shows "reconnecting" once more.  A connection that comes back by itself after the
attempts were used up has none for its next loss.

**Rendezvous.** `MessageBuffer` does not keep messages for a person once there was a connection to it, so
that an offer that comes before the second connection is made is dropped. Two queues that wait for each
other's streams in crossed order stand still until the timeout. A subscription
whose wait timed out never gets its stream, also when the connection gets it later (`index.ts:182`).  Tasks
queued behind a stop that closes the connection come to nothing. When a subscription is ended and made again, the new offer may come while the
subscriber still waits for another stream in front of its stop; the stop then deletes the new stream with
the old one, by publication (`receiver.ts:345`), and the new subscription waits until its timeout. A stop
that comes during a negotiation is not only not announced: when its turn comes it finds its publication gone
and begins nothing, so that no answer will come which would resume the starts that wait behind it
(`sender.ts:642`, `:854`). Both were found when the proof was prepared: the properties, as first stated, are
false only beyond the three events of the run. A stop of subscribing that overtakes its start removes
nothing (`receiver.ts:345`). Messages of a closed connection reach the one made after it.

**Channel replica.** `publish`, `subscribe` and `join` do not look whether their object was removed meanwhile,
and put it into the channel's lists, or make it the local person, for good (`localPerson/index.ts:521`,
`:712`, `channel/index.ts:619`).  Two joins under way both pass the check for a local person
(`channel/index.ts:501`).  After `dispose` the wait of `unpublish` or `unsubscribe` blocks the person's
queue for good.  A `close` of a disposed channel waits for its timeout although the channel is deleted.
A publish that fails leaves its stream published (`localPerson/index.ts:472`).

**Publication.** When "enabled" and "disabled" come in one message, the publisher ends as enabled while
the server has it disabled; in the other order the subscriber's track stays muted.  An enable that gives
up before its event leaves the publication disabled for the publisher only.  A refused disable leaves
the stream muted.  One "enabled" event ends two enables.  `replaceStream` copies the state of a stream
whose mute is queued behind `getUserMedia`, so that a disabled publication sends.  A pending enable or
disable overwrites `canceled`.  The timeout of `updateMetadata` throws where nobody catches it, and the
call never settles.

**SFU.** When `connect` takes longer than the watch for `onProduce`, `_startForwardQueue` stands still.
A stop that comes before its producer, or an unsubscribe before its consumer, leaves it open.  A second
start replaces the Sender of the first in `_senders`.  When the bot leaves, `_senders` is emptied and its
producers stay open.  `_startForwarding` reads the bot's subscription without a look whether it is there
(`sender.ts:258`).  A lost answer takes the transport's options with it.  `stopForwarding` forgets the
forwarding before the SFU has agreed (`member.ts:311`).  Two restarts of one transport share a backoff;
one that goes on after `close` may leave the state "reconnecting".

**Room.** After `moveRoom`, subscriptions whose stream comes are listed in the room the member came from,
and `localRoomMember` of the new room is not set.  A call or stream that is through late lists an object
that has gone.  `subscribe` may return without a stream, or fail, because of another subscription of the
same publication.  A publish in an SFU room whose forwarding fails leaves a hidden origin.  A relay
constructed without its origin is hidden until a publish that returns lists it.  A refused unpublish or
unsubscribe waits for its timeout.

**Analytics and token.** A timed-out report restarts a healthy connection, and the answer 4000 to the
client's own close is taken for a refusal, which ends analytics for good.  Overwritten timers connect
beside the first, and the extra WebSocket makes the Socket say it is connected.  A token that arrives
after its predecessor has closed the connection is not used.  `AnalyticsClient._isClosed` never becomes
true.  A client that has failed can come back: a WebSocket that its Socket had let go of is closed because the token
has expired, and the listener of `onTokenExpired`, which nobody removes, asks for a new token
(`analyticsClient.ts:184`, `socket.ts:190`); the versions of its reports, which `dispose` cleared (`:212`),
begin again, so that the server cannot tell their order from that of earlier ones.  A
`_setTokenExpireTimer` that throws leaves the timer of the older token; `dispose` of the context leaves it armed.

## 5. What is proved

`RtcApi_proof`, about `EventJitterBuffer`, for every initial version and every bound (assumed: they are
natural numbers):

* `ObserverTypeCorrect`, `HeldAlwaysBeyondGap`, `GapAlwaysWatched`: from the inductive invariant
  `ObserverIInv`, which is the type, `HeldBeyondGap`, `GapIsWatched` and `EmittedUpToPresent`: what was
  handed to the listener is exactly the versions up to `presentVersion`.  The last conjunct is what
  refinement needs and what no field of the code records.
* `ImplementsOrderedDelivery`: every step of the buffer is a step of `OrderedDelivery` or a stutter.
  The identity maps `published` and `emitted`; the only step that is not a stutter besides `Publish` is
  `ReceiveExpected`, by the lemma that adjacent runs of versions concatenate.
* `TimelyRecoveryKeepsDetection`: unless a recovery failed or came too late, the callback never returns
  early.  Its invariant relates the phases of the callback to `packetLostHappened`.

and about `RtcRpcClient`, for every number of channels, loops, retries, faults and sockets (assumed: limits
are natural numbers, positive for retries and sockets; a loop is not a kind of request):

* `TypeCorrect` and `NobodyWaitsInVain` (`WaitingMeansReconnecting`).  Their conjunction is inductive
  by itself.  There is one lemma for each operator on the client (what `request`, `close`, `reconnect`,
  `disconnected`, `connected`, the continuations after an answer or a refusal keep), then one step for
  each action.
* `ConnectionIsOne` (`OneConnection`).  The property says how many loops are on their way to a connection and
  which sockets live; what keeps it so is which loop holds which socket (`Connects`): the loop that is
  connecting holds the last socket and is the only one, while nobody reconnects the last socket is open,
  and a loop that re-subscribes holds a socket whose break it will hear of.

`ChannelReplica_proof`, for every set of members, publications and subscriptions, every snapshot and every
number of events under way (assumed: the kinds are disjoint, everything has an owner and a source, the
snapshot has what its objects need):

* `Invariance`, from which `ReplicaShowsState` (`ReplicaIsState`), `OnlyOvertakenGhosts`
  (`GhostsWereOvertaken`) and `NobodyMissesEvent` (`NoMissedEvent`) follow.  `Stream` says that the events
  under way are the difference between the server and the replica: each is reported once, and when its
  turn comes what it removes is there and what it needs has come.  `Waits` says that each request that was
  executed left its trace in the replica or among the events.

`P2PNegotiation_proof`, for every set of publications and every number of starts, ICE restarts and lost
messages (assumed: a publication is of media or of data, not both, the name that stands for the data m-line
is not a publication's, the bounds are natural numbers):

* `NegotiationInvariance`: `BookInv` says what the receiver will know of a publication when it has handled
  what is under way (`Agreed`): what the last message about it says, or the operation that awaits its offer,
  and what the publisher has, m-line included.  Together with it, `Announced`: the m-lines of an offer are
  known by the time it is handled, whatever offers of ICE restarts stand between.  The queues are never
  unrolled: a message that is sent is the last word on its publication (`BookAppend`), and one that is
  handled moves into the receiver's information (`BookTail`).  `PendingIsWanted` says that what is wanted is
  published or waits for a negotiation that is under way, each once; `SenderInv` that m-lines have numbers of
  their own, so that a stopped transceiver takes no other's line (`OnlyItsLineStops`); `OneExchange` that
  without ICE restarts one offer or its answer is under way.
* `NegotiationAgrees` (`AgreementAtRest`), `TracksAlwaysKnown` (`TracksAreKnown`) and `AnswersAlwaysMatch`
  (`CrossedOnlyByRestart`) follow from it.

`Transports_proof`, about `P2PTransport`, `SfuTransport` and their composition in `MCTransports`, for every
number of restarts, breaks, offers and lost messages (assumed: natural numbers):

* `CandidatesAlwaysReach` (`CandidatesReachDescription`) and `StatesAlwaysAgree` (`StatesAgree`).  The calls
  of `restartIce` overlap, so the invariant says what holds when the last of them returns (`RestartsAtRest`),
  and counts calls and waits against the breaks they come from (`BreaksAreCounted`): without the count a
  loop might have no identity left, and a return could be another's.
* `SfuAlwaysAgrees` (`SfuAgreesAtRest`).  The calls of this `restartIce` also nest; `outer` is bounded by the
  attempts counted since the last call that is over, because a reset of the counter costs a call.
* `TransportsAgree`: the composition keeps the promises of both, since no step of one touches the other.

`SignalingClient_proof`, for every set of messages and every number of reconnections, breaks and checks
(assumed: natural numbers):

* `Invariance`: `LinkInv` counts WebSockets and timers, also those that were overwritten, against the breaks
  and checks they come from, so that a WebSocket is there for every attempt; `MessageInv` says that a
  message is with the client, on one connection, at the target's session, or delivered, and in one of
  them only.
* `ClientAlwaysReconnects` (`NeverStranded`) follows from the first half.
* `SessionTransfersMessages` (`TransfersMessages`): every step is a step of `MessageTransfer` or a stutter.
  A message that is delivered was not delivered before, by the second half.

`PersonRendezvous_proof`, for every number of publications, channel events and connections (assumed: there are
two persons, each publication has one publisher, the bounds are natural numbers):

* `NothingIsLost` (`NothingLost`): until a connection is closed each person has made at most one, and has had
  every message since (`Kept`).
* `MediaFlow` (`MediaFlows`) and `NobodyWaits` (`NobodyStaysWaiting`), from the second half of the invariant,
  which holds while no disturbance came.  Then both persons handle the same events in the same order, each
  event leaves one task (`Structured`), and a side is described by the number of events it has run, `Ran`.
  `IsPublished` says that a person publishes, or has waiting, exactly what is subscribed to at that event;
  `Exchange` that an offer or its answer is under way while a person negotiates and otherwise neither, so
  that what waits is resumed; `Fed` compares the two numbers: once the publisher has run the start of a
  subscription and offered it, the subscriber has the stream until it runs the end.  `Alternate` says that
  the server ends only what has begun.
* Of the events at which the two persons could be left waiting, the earlier one is of a subscription whose start
  the other has already run, so that by `Fed` its stream is there; this is why nobody waits.

`RoomMembership_proof`, for every set of rooms, publications and subscriptions and all bounds (assumed: rooms
are numbered, everything has a place and a source):

* `Invariance`: what a channel has still to apply has happened at the server and comes in the order it
  happened in, the relay of an origin after it (`ServerInv`); what was listed late or is hidden cannot
  become what the room shows (`ListsInv`); a member is made once (`MemberInv`); a removal that was accepted
  waits in the right room (`CallsInv`).
* `RoomsShowChannels`, `CallsAlwaysTellTruth` and `NobodyEverWaitsInVain` follow from it.

`AnalyticsClient_proof`, for every number of tokens, Sockets, WebSockets, reports, calls and attempts
(assumed: the bounds are natural numbers, positive for what there must be one of):

* `TokenAlwaysWatched` (`ExpiryIsWatched`): when no update waits for the clock and none has failed, the
  context watches the expiry of its newest token, or that token has expired.  The invariant adds the type
  of the context and of the time.  Steps of the analytics client keep the context (`ElsewhereKeeps`); the
  work is in `SetTimersKeeps`, the continuation that finds the clock answered while another update is
  under way, `ApiAnswersKeeps` and `TokenTimerKeeps`.
* `ClientStateIsTrue` (`StateIsTrue`): every WebSocket that is there belongs to a Socket that was made, and the
  one a Socket holds is its own (`Linked`); the current Socket listens and has a timer or a WebSocket that is
  up (`Live`).  There is a lemma for each operator on the client, with the sequence of calls of the code.
* `ReportsNeverForgotten` (`NoReportForgotten`): a report that may still be sent again, by any Socket, was made
  and not only kept (`FateInv`); what is on its way is so on a WebSocket that was there; versions are below
  the counter of the client until it has failed (`VersionsInv`).  The proof attempt showed that without the
  last condition the property is false beyond the bounds of the run, which has too few calls and WebSockets
  for the client to fail and come back; section 4 says how it does.

Also in `Transports_proof`, about `SfuForwarding`, for every set of subscriptions and of publications (not
empty) and every number of starts, calls and troubles:

* `ForwardingInvariance`.  `OneStart` says that whoever is past its queueing and not over is the head of the
  queue.  `TransportsCome`: once the SFU has made a transport, the repository has it or one answer with its
  options is on its way.  For the sending side the two together give `TransportsAreAlwaysFound`
  (`TransportsAreFound`): the start that is to bring the options blocks the queue, so no later start has
  been answered yet.  The receivers do not queue; what they wait for is in `TransportsCome` itself, because
  the answer that brings the options wakes all of them.
* `EndsAreTold`: an end that is among the events, or that `stopPublishing` is about to act on, is one of a
  forwarding that the SFU has ended; so a producer is closed only for a forwarding that no longer runs, and
  `StartedIsAlwaysFed` (`StartedIsFed`) follows with `StartsMatch`, which says how far a start has come that
  has a producer.  It is here that a publication started twice must be excepted: the Sender that
  `removeSender` finds may be another's.
* `EndIsHeard`: who sends, or is about to, has a forwarding that runs, or an end of it among the events, or
  `stopPublishing` under way, or the bot's leaving is coming.  When all is handled only the first is left, which
  is `NothingEverLeaks` (`NothingLeaks`); for the consumers `ReceiversWanted` says it directly.

Also in `ChannelReplica_proof`, about `PublicationState`, for every number of calls and streams (at least one)
and of troubles:

* `PublicationInvariance`.  The streams are described apart from the rest: `Consistent` says of one stream that
  it is live as it is on, unless its device is awaited, and that the head of its queue has been run, and
  `WantedInv` that the last task of the queue, not what the stream is now, is the state of the publication
  (`Wanted`).  `PushedConsistent` and `PoppedConsistent` are the two lemmas about a queue that every call and
  event rests on.  When the queue is empty, what is wanted is what the stream is, which gives
  `StreamFollowsItsState` (`StreamFollowsState`).
* `NoCallIsForgotten` (`NoCallForgotten`): the property is a conjunct of the invariant.  A call that switches its
  stream enters the queue, and leaves it only at the end of its task, when it goes on.  `QueuedInv` says that
  whose task is in a queue has begun, an enable only after it has seen its event, so that the end of a task
  takes no call back to an earlier stage.
* For `ClientsAgreeWithServer` (`StatesAgree`), `LastTells` says that the last "enabled" or "disabled" on its way
  is what the server has, and `ShownInv` that a client without one on its way shows the server's state, or has
  a disable that the server does not know yet (`Asking`), or an enable that has seen its event and is about to
  go on (`Seen`).  The publisher does nothing at an "enabled" but wake an enable, so there must be one:
  `EnablesInv` says that each "enabled" on its way has an enable of its own that waits for it, unless one timed
  out or one event woke two.  When all is quiet none of the alternatives is left.

Every invariant that a run checks is stated by a theorem.  Only model-checked: all
liveness (`HeldIsDelivered`, `WaitingIsProduced`, `SubscriptionSurvives`,
`RequestsSettle`, `Recovers`, `StartSettles`, `ReconnectionEnds`): TLAPS cannot prove liveness under
fairness or reason about ENABLED, nor by induction over data, and modules with RECURSIVE operators are out
of its reach; no module here declares one.

## 6. Not modelled

* The ICE candidates of restarts, in `P2PTransport`: one that comes while the restart's offer still waits in
  the promise queue is given to the old description, which takes or refuses it; what that does to the
  connection is decided in the browser.
* The metadata of channels and members, which follow the request-and-event pattern of `ChannelReplica`, and
  the timer that keeps a member alive; a member that expires is in `ChannelReplica`.
* Encodings, `replaceTrack` in a connection, statistics, the content of reports and logs.
* `updateToken` of the RPC client, and other requests, which are one call of `RPC.request` each.
* Remote members' `subscribe` and `unsubscribe` on behalf of others, which send the same requests.
* The packages `token` and `model` (validation and encoding of data), the ICE parameter server (one HTTP
  call), the creation of streams, the bundler and the examples.

## 7. Plan

Models next: metadata of channels and members beside a snapshot, the timer that keeps a member alive, a
person that leaves the channel while it is connected (`PersonRendezvous`), and the change of a layer in
`SfuForwarding`.
