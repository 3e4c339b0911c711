------------------------- MODULE EventJitterBuffer -------------------------
(***************************************************************************)
(* EventObserverImpl and EventJitterBuffer of the RTC API client           *)
(* (rtc-api-client/src/infrastructure/eventObserver.ts).  Channel events   *)
(* arrive over a connection that can be replaced at any time, so they may  *)
(* be lost, repeated or overtaken.  The buffer holds what comes too early, *)
(* starts a timer when something is missing, and when the timer finds the  *)
(* gap still open it subscribes again from the missing version on.         *)
(*                                                                         *)
(* An event is represented by the channel version it carries.              *)
(***************************************************************************)
EXTENDS Integers, Sequences

CONSTANTS
    InitVersion,        \* channelDto.version, the snapshot the observer is built from
    MaxVersion,         \* bound: the server stops producing events at this version
    MaxLoss             \* bound: how many frames the connection may lose

ASSUME InitVersionIsNat == InitVersion \in Nat
ASSUME BoundsAreNat == MaxVersion \in Nat /\ MaxLoss \in Nat

VARIABLES
    published,            \* server: latest version of the channel
    inFlight,             \* connection: notifications on their way
    resent,               \* connection: frames the server repeats for a re-subscription
    losses,               \* frames lost so far
    presentVersion,       \* EventJitterBuffer.presentVersion
    eventBuffer,          \* EventJitterBuffer.eventBuffer: the versions held
    packetLifeTimer,      \* EventJitterBuffer.packetLifeTimer and where its callback is
    packetLostHappened,   \* EventJitterBuffer.packetLostHappened
    disposed,             \* EventObserverImpl.dispose was called
    emitted,              \* history: calls of the listener of EventObserverImpl.onEvent
    spoilt                \* history: a recovery was rejected, or longer than eventSubscribeTimeout

network == <<published, inFlight, resent, losses>>
buffer == <<presentVersion, eventBuffer, packetLifeTimer, packetLostHappened>>
observerVars == <<network, buffer, disposed, emitted, spoilt>>

-----------------------------------------------------------------------------
(* Types                                                                   *)

(***************************************************************************)
(* "none":        packetLifeTimer is undefined                             *)
(* "armed":       setTimeout is pending; version is the captured           *)
(*                oldestBufferedEvent                                      *)
(* "subscribing": the callback awaits subscribeChannelEvents; version is   *)
(*                the offset it passed                                     *)
(* "waiting":     the callback awaits eventSubscribeTimeout                *)
(* "dead":        the callback returned without clearing packetLifeTimer   *)
(***************************************************************************)
TimerPhases == {"none", "armed", "subscribing", "waiting", "dead"}

Timer(phase, version) == [phase |-> phase, version |-> version]

NoTimer == Timer("none", 0)

ObserverTypeOK ==
    /\ published \in Nat
    /\ inFlight \subseteq 1..published
    /\ resent \subseteq 1..published
    /\ losses \in Nat
    /\ presentVersion \in InitVersion..published
    /\ eventBuffer \subseteq 1..published
    /\ packetLifeTimer \in [phase : TimerPhases, version : Nat]
    /\ packetLostHappened \in BOOLEAN
    /\ disposed \in BOOLEAN
    /\ emitted \in Seq(Nat)
    /\ spoilt \in BOOLEAN

-----------------------------------------------------------------------------
(* Helpers of the buffer                                                   *)

expectNextVersion == presentVersion + 1

VersionsBetween(from, to) == [i \in 1..(to - from) |-> from + i]

\* Number of decimal digits of n, the length of the property key "n".
KeyLength(n) == CHOOSE k \in 1..(n + 1) : n < 10^k /\ (k > 1 => 10^(k - 1) <= n)

\* Property keys are strings: Array.prototype.sort orders them as text.
KeyBefore(a, b) == LET x == a * 10^KeyLength(b)
                       y == b * 10^KeyLength(a)
                   IN  x < y \/ (x = y /\ KeyLength(a) < KeyLength(b))

oldestBufferedEvents(held) == {v \in held : \A w \in held \ {v} : KeyBefore(v, w)}

\* The held versions from expectNextVersion on run up to n and no further.
RunsUpTo(held, n) == expectNextVersion..n \subseteq held /\ n + 1 \notin held

\* Faulty variants of resolveEvents: presentVersion is not advanced ...
resolveEventsKeepsVersion(held) ==
    \E n \in expectNextVersion..MaxVersion :
       /\ RunsUpTo(held, n)
       /\ eventBuffer' = held \ (expectNextVersion..n)
       /\ emitted' = emitted \o VersionsBetween(presentVersion, n)
       /\ UNCHANGED presentVersion

\* ... or it is advanced to the version at which the loop stopped.
resolveEventsOvershoots(held) ==
    \E n \in expectNextVersion..MaxVersion :
       /\ RunsUpTo(held, n)
       /\ presentVersion' = n + 1
       /\ eventBuffer' = held \ (expectNextVersion..n)
       /\ emitted' = emitted \o VersionsBetween(presentVersion, n)

\* Hands the whole run to the listener; held is the buffer with the expected frame.
resolveEvents(held) ==
    \E n \in expectNextVersion..MaxVersion :
       /\ RunsUpTo(held, n)
       /\ presentVersion' = n
       /\ eventBuffer' = held \ (expectNextVersion..n)
       /\ emitted' = emitted \o VersionsBetween(presentVersion, n)

\* handlePacketLifetime, called with held in the buffer and timer as it then is.
handlePacketLifetime(held, timer) ==
    IF timer.phase = "none" /\ held # {}
    THEN \E v \in oldestBufferedEvents(held) : packetLifeTimer' = Timer("armed", v)
    ELSE packetLifeTimer' = timer

-----------------------------------------------------------------------------
(* The server and the connection                                           *)

Publish == /\ published < MaxVersion
           /\ published' = published + 1
           /\ inFlight' = inFlight \cup {published + 1}
           /\ UNCHANGED <<resent, losses, buffer, disposed, emitted, spoilt>>

Lose(v) == /\ v \in inFlight
           /\ losses < MaxLoss
           /\ inFlight' = inFlight \ {v}
           /\ losses' = losses + 1
           /\ UNCHANGED <<published, resent, buffer, disposed, emitted, spoilt>>

\* The connection hands v over; a copy may stay behind and arrive once more.
Arrives(v) == /\ v \in inFlight \cup resent
              /\ \/ inFlight' = inFlight \ {v} /\ resent' = resent \ {v}
                 \/ UNCHANGED <<inFlight, resent>>
              /\ UNCHANGED <<published, losses>>

-----------------------------------------------------------------------------
(* EventJitterBuffer.push                                                  *)

ReceiveStale(v) ==
    /\ ~disposed
    /\ Arrives(v)
    /\ v < expectNextVersion
    /\ UNCHANGED <<buffer, disposed, emitted, spoilt>>

ReceiveEarly(v) ==
    /\ ~disposed
    /\ Arrives(v)
    /\ v > expectNextVersion
    /\ eventBuffer' = eventBuffer \cup {v}
    /\ handlePacketLifetime(eventBuffer \cup {v}, packetLifeTimer)
    /\ UNCHANGED <<presentVersion, packetLostHappened, disposed, emitted, spoilt>>

\* Faulty variant: the flag of an earlier loss is not reset.
ReceiveExpectedKeepsFlag(v) ==
    /\ ~disposed
    /\ Arrives(v)
    /\ v = expectNextVersion
    /\ resolveEvents(eventBuffer \cup {v})
    /\ UNCHANGED <<packetLostHappened, packetLifeTimer, disposed, spoilt>>

ReceiveExpected(v) ==
    /\ ~disposed
    /\ Arrives(v)
    /\ v = expectNextVersion
    /\ packetLostHappened' = FALSE
    /\ resolveEvents(eventBuffer \cup {v})
    /\ UNCHANGED <<packetLifeTimer, disposed, spoilt>>

\* After dispose the listener on client.onEvent is gone: the frame is ignored.
Ignore(v) == /\ disposed
             /\ Arrives(v)
             /\ UNCHANGED <<buffer, disposed, emitted, spoilt>>

Receive(v) == ReceiveStale(v) \/ ReceiveEarly(v) \/ ReceiveExpected(v) \/ Ignore(v)

-----------------------------------------------------------------------------
(* The timer's callback.  Nothing in it looks at dispose.                  *)

TimerFires == packetLifeTimer.phase = "armed" /\ UNCHANGED <<network, disposed, emitted, spoilt>>

\* Faulty variant: the callback ends without looking at the buffer again.
GapClosedForgets == /\ TimerFires
                    /\ presentVersion >= packetLifeTimer.version
                    /\ packetLifeTimer' = NoTimer
                    /\ UNCHANGED <<presentVersion, eventBuffer, packetLostHappened>>

\* The captured event was delivered in the meantime: start over.
GapClosed == /\ TimerFires
             /\ presentVersion >= packetLifeTimer.version
             /\ handlePacketLifetime(eventBuffer, NoTimer)
             /\ UNCHANGED <<presentVersion, eventBuffer, packetLostHappened>>

\* Faulty variant: asks for the events after the expected one.
PacketLostSkipsOne == /\ TimerFires
                      /\ presentVersion < packetLifeTimer.version
                      /\ ~packetLostHappened
                      /\ packetLostHappened' = TRUE
                      /\ packetLifeTimer' = Timer("subscribing", expectNextVersion + 1)
                      /\ UNCHANGED <<presentVersion, eventBuffer>>

PacketLost == /\ TimerFires
              /\ presentVersion < packetLifeTimer.version
              /\ ~packetLostHappened
              /\ packetLostHappened' = TRUE
              /\ packetLifeTimer' = Timer("subscribing", expectNextVersion)
              /\ UNCHANGED <<presentVersion, eventBuffer>>

\* An earlier loss is still open: return, leaving packetLifeTimer set.
PacketLostAgain == /\ TimerFires
                   /\ presentVersion < packetLifeTimer.version
                   /\ packetLostHappened
                   /\ packetLifeTimer' = Timer("dead", 0)
                   /\ UNCHANGED <<presentVersion, eventBuffer, packetLostHappened>>

\* The server repeats everything from the offset up to its latest version.
Repeat == resent' = resent \cup {v \in 1..published : v >= packetLifeTimer.version}

Subscribed == /\ packetLifeTimer.phase = "subscribing"
              /\ Repeat
              /\ packetLifeTimer' = Timer("waiting", 0)
              /\ UNCHANGED <<published, inFlight, losses, presentVersion, eventBuffer,
                             packetLostHappened, disposed, emitted, spoilt>>

\* The rejection leaves the callback before packetLifeTimer is cleared.  When it
\* is the answer that was lost or late, the server has acted on the request.
SubscribeFails == /\ packetLifeTimer.phase = "subscribing"
                  /\ Repeat \/ UNCHANGED resent
                  /\ packetLifeTimer' = Timer("dead", 0)
                  /\ spoilt' = TRUE
                  /\ UNCHANGED <<published, inFlight, losses, presentVersion, eventBuffer,
                                 packetLostHappened, disposed, emitted>>

\* eventSubscribeTimeout is over; too early, if what was asked for is still to come.
WaitElapsed == /\ packetLifeTimer.phase = "waiting"
               /\ handlePacketLifetime(eventBuffer, NoTimer)
               /\ spoilt' = (spoilt \/ resent # {})
               /\ UNCHANGED <<network, presentVersion, eventBuffer, packetLostHappened,
                              disposed, emitted>>

-----------------------------------------------------------------------------
(* EventObserverImpl                                                       *)

ObserverInit ==
    /\ published = InitVersion
    /\ inFlight = {}
    /\ resent = {}
    /\ losses = 0
    /\ presentVersion = InitVersion
    /\ eventBuffer = {}
    /\ packetLifeTimer = NoTimer
    /\ packetLostHappened = FALSE
    /\ disposed = FALSE
    /\ emitted = <<>>
    /\ spoilt = FALSE

\* Removes the listeners; the timer stays as it is.
dispose == /\ ~disposed
           /\ disposed' = TRUE
           /\ UNCHANGED <<network, buffer, emitted, spoilt>>

ObserverNext ==
    \/ Publish
    \/ \E v \in inFlight : Lose(v)
    \/ \E v \in inFlight \cup resent : Receive(v)
    \/ GapClosed \/ PacketLost \/ PacketLostAgain
    \/ Subscribed \/ SubscribeFails \/ WaitElapsed
    \/ dispose

ObserverSpec == ObserverInit /\ [][ObserverNext]_observerVars

\* A frame that is not lost arrives, timers fire, requests are answered.
ObserverFairness ==
    /\ \A v \in 1..MaxVersion :
          WF_observerVars(Receive(v) /\ v \notin inFlight' \cup resent')
    /\ WF_observerVars(GapClosed \/ PacketLost \/ PacketLostAgain)
    /\ WF_observerVars(Subscribed)
    /\ WF_observerVars(WaitElapsed)

ObserverFairSpec == ObserverSpec /\ ObserverFairness

-----------------------------------------------------------------------------
(* Properties                                                              *)

(***************************************************************************)
(* What the buffer holds is always beyond the first missing version: push  *)
(* and resolveEvents never leave a deliverable or delivered event behind.  *)
(***************************************************************************)
HeldBeyondGap == \A v \in eventBuffer : v > expectNextVersion

(***************************************************************************)
(* Whenever an event is held back, a timer callback is pending or running  *)
(* (or has died): handlePacketLifetime is called on every path that can    *)
(* leave the buffer non-empty.                                             *)
(***************************************************************************)
GapIsWatched == eventBuffer # {} => packetLifeTimer.phase # "none"

(***************************************************************************)
(* Loss detection is lost for good only after a recovery that failed, as   *)
(* the comment in EventObserverImpl says: while re-subscriptions are       *)
(* answered in time, the callback never returns early.                     *)
(***************************************************************************)
DetectionSurvives == disposed \/ spoilt \/ packetLifeTimer.phase # "dead"

(***************************************************************************)
(* The listener sees the channel's events in order, each once, no gap.     *)
(***************************************************************************)
Delivery == INSTANCE OrderedDelivery
DeliveryInOrder == Delivery!Spec

(***************************************************************************)
(* An event that reached the buffer ahead of a lost one is delivered in    *)
(* the end, although nobody else reports the loss, if no recovery fails.   *)
(***************************************************************************)
HeldIsDelivered == \A v \in 1..MaxVersion :
                      v \in eventBuffer ~> presentVersion >= v \/ disposed \/ spoilt
=============================================================================
