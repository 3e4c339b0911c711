-------------------------- MODULE PublicationState --------------------------
(***************************************************************************)
(* The enabled state of one publication: the server's, the PublicationImpl *)
(* of the publisher and of a subscriber, the publisher's streams with the  *)
(* queues of their setEnabled, and the track the subscriber plays.         *)
(*                                                                         *)
(* disable switches the stream off before it asks the server, enable waits *)
(* for the server's event before it switches it on.  What a promise goes   *)
(* on with comes later than the event that settled it, and more events of  *)
(* the same message may come between.                                      *)
(***************************************************************************)
EXTENDS Naturals, Sequences

CONSTANTS
    MaxCalls,    \* bound: calls of enable, disable, updateMetadata and cancel
    MaxStreams,  \* bound: the stream that is published and those that replace it
    MaxTroubles  \* bound: refused requests, timeouts, and devices that are not given

ASSUME PublicationAssumption == MaxCalls \in Nat /\ MaxStreams \in Nat \ {0} /\ MaxTroubles \in Nat

Calls == 1..MaxCalls
Streams == 1..MaxStreams
Clients == {"publisher", "subscriber"}
NoStream == 0

\* What goes on when a stream has been switched: nothing, a call, or the handler of an event.
Nothing == 0
Announce == MaxCalls + 1

VARIABLES
    publication, \* the server's: is it there, is it enabled
    coming,      \* for each client, the channel events that are not applied yet
    impl,        \* the PublicationImpl of each client: _state, _stream, is onDisabled to be emitted
    streams,     \* the local streams: _isEnabled, is the track live, _promiseQueue
    track,       \* the subscriber's track
    calls,
    troubles,
    causes       \* history: what happened that leaves the states apart

clientside == <<impl, streams, track, calls>>
publicationVars == <<publication, coming, clientside, troubles, causes>>

Operations == {"enable", "disable", "updateMetadata", "cancel"}
Switch == [on : BOOLEAN, next : Nothing..Announce]
Call == [op : Operations, by : Clients,
         stage : {"none", "called", "switching", "waiting", "seen", "over"},
         request : {"none", "sent", "executed", "refused"},
         result : {"pending", "resolved", "rejected"}]
LocalStream == [on : BOOLEAN, live : BOOLEAN, acquiring : BOOLEAN, queue : Seq(Switch)]
Impl == [state : {"enabled", "disabled", "canceled"}, stream : NoStream..MaxStreams, announcing : BOOLEAN]

PublicationTypeOK ==
    /\ publication \in [there : BOOLEAN, on : BOOLEAN]
    /\ coming \in [Clients -> Seq({"enabled", "disabled", "metadata", "canceled"})]
    /\ impl \in [Clients -> Impl]
    /\ streams \in [Streams -> LocalStream]
    /\ track \in {"none", "on", "off"}
    /\ calls \in [Calls -> Call]
    /\ troubles \in 0..MaxTroubles
    /\ causes \subseteq {"refused", "timed out", "back to back", "enabled twice", "replaced", "not acquired"}

Trouble == troubles < MaxTroubles /\ troubles' = troubles + 1

----------------------------------------------------------------------------
(* The calls that wait.                                                    *)

Waiting(x, op) == {c \in Calls : calls[c].by = x /\ calls[c].op = op /\ calls[c].stage = "waiting"}
Seen == {c \in Calls : calls[c].stage = "seen"}

Resolved(cs) ==
    [c \in Calls |->
        IF c \in cs THEN [calls[c] EXCEPT !.stage = "over", !.result = IF @ = "pending" THEN "resolved" ELSE @]
        ELSE calls[c]]

\* The request of a call is sent and its event is awaited.
Asked(c) == [calls EXCEPT ![c].stage = "waiting", ![c].request = "sent"]

\* onDisabled of a client: its calls of disable wait for it.
onDisabled(x) == IF impl[x].state = "canceled" THEN calls ELSE Resolved(Waiting(x, "disable"))

\* A stream has been switched; only the publisher has streams.
Continued(next) ==
    CASE next = Nothing -> calls
      [] next = Announce -> onDisabled("publisher")
      [] next \in Calls /\ calls[next].op = "enable" -> Resolved({next})
      [] OTHER -> Asked(next)

\* Is a promise of the client to go on.
Calm(x) ==
    /\ ~impl[x].announcing
    /\ x = "publisher" => Seen = {} /\ \A n \in Streams : streams[n].queue # <<>> => streams[n].acquiring

----------------------------------------------------------------------------
(* setEnabled of a stream and its PromiseQueue.                            *)

\* A task runs: nothing to do, mute at once, or ask for the device.
Run(s, on) ==
    CASE on = s.on -> s
      [] ~on /\ s.on -> [s EXCEPT !.on = FALSE, !.live = FALSE]
      [] OTHER -> [s EXCEPT !.on = TRUE, !.acquiring = TRUE]

\* Faulty variant: a mute does not wait for the device that is asked for.
setEnabledAtOnce(n, on, next) ==
    LET s == [streams[n] EXCEPT !.queue = Append(@, [on |-> on, next |-> next])]
    IN  [streams EXCEPT ![n] =
            IF ~on THEN [s EXCEPT !.on = FALSE, !.live = FALSE] ELSE IF @.queue = <<>> THEN Run(s, on) ELSE s]

\* PromiseQueue.push: the task runs at once if it is the only one.
setEnabled(n, on, next) ==
    LET s == [streams[n] EXCEPT !.queue = Append(@, [on |-> on, next |-> next])]
    IN  [streams EXCEPT ![n] = IF @.queue = <<>> THEN Run(s, on) ELSE s]

\* A task has ended: the next one runs, and whoever waits for this one goes on.
TaskEnds(n) ==
    /\ streams[n].queue # <<>> /\ ~streams[n].acquiring
    /\ LET rest == Tail(streams[n].queue)
           s == [streams[n] EXCEPT !.queue = rest]
       IN  streams' = [streams EXCEPT ![n] = IF rest = <<>> THEN s ELSE Run(s, Head(rest).on)]
    /\ calls' = Continued(Head(streams[n].queue).next)
    /\ UNCHANGED <<publication, coming, impl, track, troubles, causes>>

\* The device is given.
Acquired(n) ==
    /\ streams[n].acquiring
    /\ streams' = [streams EXCEPT ![n].acquiring = FALSE, ![n].live = TRUE]
    /\ UNCHANGED <<publication, coming, impl, track, calls, troubles, causes>>

\* Faulty variant: a task that fails takes the rest of the queue with it.
AcquireFailsForAll(n) ==
    /\ streams[n].acquiring
    /\ Trouble
    /\ streams' = [streams EXCEPT ![n].acquiring = FALSE, ![n].queue = SubSeq(@, 1, 1)]
    /\ causes' = causes \cup {"not acquired"}
    /\ UNCHANGED <<publication, coming, impl, track, calls>>

\* The device is not given.
AcquireFails(n) ==
    /\ streams[n].acquiring
    /\ Trouble
    /\ streams' = [streams EXCEPT ![n].acquiring = FALSE]
    /\ causes' = causes \cup {"not acquired"}
    /\ UNCHANGED <<publication, coming, impl, track, calls>>

\* The new stream is switched as the old one is at the moment.
replaceStream(n) ==
    LET old == impl["publisher"].stream
    IN  /\ old # NoStream /\ n = old + 1
        /\ streams' = setEnabled(n, streams[old].on, Nothing)
        /\ impl' = [impl EXCEPT !["publisher"].stream = n]
        /\ causes' = IF streams[old].acquiring THEN causes \cup {"replaced"} ELSE causes
        /\ UNCHANGED <<publication, coming, track, calls, troubles>>

----------------------------------------------------------------------------
(* The calls of the application.                                           *)

\* The log payload is awaited before anything else is done, except by cancel.
Start(c, op, x) ==
    /\ calls[c].stage = "none"
    /\ \A k \in Calls : k < c => calls[k].stage # "none"
    /\ calls' = [calls EXCEPT ![c] = [@ EXCEPT !.op = op, !.by = x, !.stage = "called"]]
    /\ UNCHANGED <<publication, coming, impl, streams, track, troubles, causes>>

enable(c) ==
    /\ impl["publisher"].stream # NoStream
    /\ impl["publisher"].state # "enabled"
    /\ Start(c, "enable", "publisher")

disable(c, x) ==
    /\ impl[x].state # "disabled"
    /\ Start(c, "disable", x)

updateMetadata(c) == Start(c, "updateMetadata", "publisher")

cancel(c) ==
    /\ calls[c].stage = "none"
    /\ \A k \in Calls : k < c => calls[k].stage # "none"
    /\ calls' = [calls EXCEPT ![c] = [@ EXCEPT !.op = "cancel", !.by = "publisher", !.stage = "waiting", !.request = "sent"]]
    /\ impl' = [impl EXCEPT !["publisher"].stream = NoStream]
    /\ UNCHANGED <<publication, coming, streams, track, troubles, causes>>

\* _disableStream has a stream to switch off.
Switches(x) == impl[x].state # "disabled" /\ impl[x].stream # NoStream

\* The call goes on; disable switches the stream off first.
Proceed(c) ==
    /\ calls[c].stage = "called"
    /\ LET x == calls[c].by
       IN  IF calls[c].op = "disable"
           THEN /\ impl' = [impl EXCEPT ![x].state = "disabled"]
                /\ IF Switches(x)
                   THEN /\ streams' = setEnabled(impl[x].stream, FALSE, c)
                        /\ calls' = [calls EXCEPT ![c].stage = "switching"]
                   ELSE calls' = Asked(c) /\ UNCHANGED streams
           ELSE calls' = Asked(c) /\ UNCHANGED <<impl, streams>>
    /\ UNCHANGED <<publication, coming, track, troubles, causes>>

\* _enableStream, when enable has seen its event.
enableStream(c) ==
    /\ calls[c].stage = "seen"
    /\ impl' = [impl EXCEPT !["publisher"].state = "enabled"]
    /\ IF impl["publisher"].state = "enabled" \/ impl["publisher"].stream = NoStream
       THEN calls' = Resolved({c}) /\ UNCHANGED streams
       ELSE /\ streams' = setEnabled(impl["publisher"].stream, TRUE, c)
            /\ calls' = [calls EXCEPT ![c].stage = "switching"]
    /\ UNCHANGED <<publication, coming, track, troubles, causes>>

----------------------------------------------------------------------------
(* The server, its answers and its events.                                 *)

Emit(e) == coming' = [x \in Clients |-> Append(coming[x], e)]

\* The server executes a request and reports it; one that changes nothing perhaps not.
Execute(c) ==
    /\ calls[c].request = "sent" /\ publication.there
    /\ calls' = [calls EXCEPT ![c].request = "executed"]
    /\ CASE calls[c].op = "updateMetadata" -> UNCHANGED publication /\ Emit("metadata")
         [] calls[c].op = "cancel" -> publication' = [publication EXCEPT !.there = FALSE] /\ Emit("canceled")
         [] OTHER -> LET on == calls[c].op = "enable"
                     IN  /\ publication' = [publication EXCEPT !.on = on]
                         /\ \/ Emit(IF on THEN "enabled" ELSE "disabled")
                            \/ publication.on = on /\ UNCHANGED coming
    /\ UNCHANGED <<impl, streams, track, troubles, causes>>

\* The call is rejected; its wait goes on beside that.
Refuse(c) ==
    /\ calls[c].request = "sent"
    /\ Trouble \/ (~publication.there /\ UNCHANGED troubles)
    /\ calls' = [calls EXCEPT ![c].request = "refused", ![c].result = "rejected"]
    /\ causes' = IF calls[c].op = "disable" THEN causes \cup {"refused"} ELSE causes
    /\ UNCHANGED <<publication, coming, impl, streams, track>>

\* The server has executed the request, its answer is lost: the call is rejected all the same.
AnswerLost(c) ==
    /\ calls[c].request = "executed" /\ calls[c].result = "pending"
    /\ Trouble
    /\ calls' = [calls EXCEPT ![c].result = "rejected"]
    /\ UNCHANGED <<publication, coming, impl, streams, track, causes>>

\* The event does not come in time; the request may still be on its way to the server.
\* The error of updateMetadata is thrown where nobody catches it, so that its promise
\* stays pending.
WaitTimeout(c) ==
    /\ calls[c].stage = "waiting"
    /\ LET late == calls[c].op # "updateMetadata" /\ calls[c].result = "pending"
       IN  calls' = [calls EXCEPT ![c].stage = "over", ![c].result = IF late THEN "rejected" ELSE @]
    /\ IF calls[c].request # "sent" /\ \A x \in Clients : coming[x] = <<>> THEN UNCHANGED troubles ELSE Trouble
    /\ causes' = IF calls[c].op = "enable" /\ calls[c].request # "refused" THEN causes \cup {"timed out"} ELSE causes
    /\ UNCHANGED <<publication, coming, impl, streams, track>>

\* Only the enables that wait see the event; without a stream the state follows at once.
Enabled(x) ==
    /\ IF impl[x].stream # NoStream
       THEN /\ calls' = [c \in Calls |-> IF c \in Waiting(x, "enable") THEN [calls[c] EXCEPT !.stage = "seen"] ELSE calls[c]]
            /\ causes' = causes \cup (IF \E c, d \in Waiting(x, "enable") \cup Seen : c # d THEN {"enabled twice"} ELSE {})
                                \cup (IF impl[x].announcing THEN {"back to back"} ELSE {})
            /\ UNCHANGED <<impl, track>>
       ELSE /\ impl' = [impl EXCEPT ![x].state = "enabled"]
            /\ track' = IF x = "subscriber" /\ track # "none" THEN "on" ELSE track
            /\ causes' = causes \cup (IF impl[x].announcing THEN {"back to back"} ELSE {})
            /\ UNCHANGED calls
    /\ UNCHANGED streams

\* _disable, up to its await.
Disabled(x) ==
    /\ impl' = [impl EXCEPT ![x].state = "disabled", ![x].announcing = @ \/ ~Switches(x)]
    /\ streams' = IF Switches(x) THEN setEnabled(impl[x].stream, FALSE, Announce) ELSE streams
    /\ causes' = causes \cup (IF x = "publisher" /\ Seen # {} THEN {"back to back"} ELSE {})
    /\ UNCHANGED <<track, calls>>

MetadataUpdated(x) ==
    /\ calls' = Resolved(Waiting(x, "updateMetadata"))
    /\ UNCHANGED <<impl, streams, track, causes>>

Canceled(x) ==
    /\ impl' = [impl EXCEPT ![x].state = "canceled"]
    /\ calls' = Resolved(Waiting(x, "cancel"))
    /\ UNCHANGED <<streams, track, causes>>

Applied(x, e) ==
    CASE e = "enabled"  -> Enabled(x)
      [] e = "disabled" -> Disabled(x)
      [] e = "metadata" -> MetadataUpdated(x)
      [] e = "canceled" -> Canceled(x)

EventApplied(x) ==
    /\ coming[x] # <<>>
    /\ coming' = [coming EXCEPT ![x] = Tail(@)]
    /\ Applied(x, Head(coming[x]))
    /\ UNCHANGED <<publication, troubles>>

\* _disable goes on: the calls of disable and the subscription hear of it.
Announced(x) ==
    /\ impl[x].announcing
    /\ impl' = [impl EXCEPT ![x].announcing = FALSE]
    /\ calls' = onDisabled(x)
    /\ track' = IF x = "subscriber" /\ impl[x].state # "canceled" /\ track # "none" THEN "off" ELSE track
    /\ UNCHANGED <<publication, coming, streams, troubles, causes>>

\* Faulty variant: the stream is not muted when it is attached.
AttachUnmuted ==
    /\ track = "none"
    /\ track' = "on"
    /\ UNCHANGED <<publication, coming, impl, streams, calls, troubles, causes>>

\* The subscriber gets its stream from the connection.
Attach ==
    /\ track = "none"
    /\ track' = IF impl["subscriber"].state = "enabled" THEN "on" ELSE "off"
    /\ UNCHANGED <<publication, coming, impl, streams, calls, troubles, causes>>

----------------------------------------------------------------------------
PublicationInit ==
    /\ \E on \in BOOLEAN :
          /\ publication = [there |-> TRUE, on |-> on]
          /\ impl = [x \in Clients |-> [state |-> IF on THEN "enabled" ELSE "disabled",
                                        stream |-> IF x = "publisher" THEN 1 ELSE NoStream,
                                        announcing |-> FALSE]]
          /\ streams = [n \in Streams |-> [on |-> n # 1 \/ on, live |-> n # 1 \/ on,
                                           acquiring |-> FALSE, queue |-> <<>>]]
    /\ coming = [x \in Clients |-> <<>>]
    /\ track = "none"
    /\ calls = [c \in Calls |-> [op |-> "enable", by |-> "publisher", stage |-> "none",
                                 request |-> "none", result |-> "pending"]]
    /\ troubles = 0
    /\ causes = {}

\* The application, timers, devices and answers come when no promise is to go on.
PublicationNext ==
    \/ \E c \in Calls :
          \/ Execute(c) \/ enableStream(c)
          \/ Calm("publisher") /\ (enable(c) \/ updateMetadata(c) \/ cancel(c))
          \/ \E x \in Clients : Calm(x) /\ disable(c, x)
          \/ Calm(calls[c].by) /\ (Proceed(c) \/ Refuse(c) \/ AnswerLost(c) \/ WaitTimeout(c))
    \/ \E n \in Streams :
          \/ TaskEnds(n)
          \/ Calm("publisher") /\ (Acquired(n) \/ AcquireFails(n) \/ replaceStream(n))
    \/ \E x \in Clients : EventApplied(x) \/ Announced(x)
    \/ Calm("subscriber") /\ Attach

PublicationSpec == PublicationInit /\ [][PublicationNext]_publicationVars

----------------------------------------------------------------------------
(* Properties.                                                             *)

Quiet ==
    /\ \A x \in Clients : coming[x] = <<>> /\ Calm(x)
    /\ \A c \in Calls : calls[c].stage \in {"none", "over"} /\ calls[c].request # "sent"

Apart == {"refused", "timed out", "back to back", "enabled twice"}

\* When no call and no event is on its way, both clients show the state the server has,
\* and the subscriber's track is as that state says; unless a disable was refused, an
\* enable gave up before its event came, one event ended two enables, or an event was
\* applied before the one before it had been announced.
StatesAgree ==
    /\ PublicationTypeOK
    /\ Quiet /\ publication.there /\ causes \cap Apart = {} =>
          /\ \A x \in Clients : impl[x].state = (IF publication.on THEN "enabled" ELSE "disabled")
          /\ track # "none" => track = (IF publication.on THEN "on" ELSE "off")

\* The stream follows the state of its publication, whatever the calls, the events and
\* the device do: one that is disabled sends nothing, one that is enabled sends its
\* track; but not while it is being switched, after a device was not given, or when the
\* stream was replaced while the old one was being switched.
StreamFollowsState ==
    LET n == impl["publisher"].stream
    IN  n # NoStream /\ streams[n].queue = <<>> /\ "replaced" \notin causes =>
            /\ impl["publisher"].state = "disabled" => ~streams[n].live
            /\ impl["publisher"].state = "enabled" /\ "not acquired" \notin causes => streams[n].live

\* A task of the call is in the queue of a stream.
InQueue(s, c) == \E i \in 1..Len(s.queue) : s.queue[i].next = c

\* No call is forgotten: while its stream is being switched it is in the stream's queue,
\* and when it is over it was resolved or rejected, but for an updateMetadata that was
\* too late.
NoCallForgotten ==
    \A c \in Calls :
        /\ calls[c].stage = "switching" => \E n \in Streams : InQueue(streams[n], c)
        /\ calls[c].stage = "over" /\ calls[c].op # "updateMetadata" => calls[c].result # "pending"
=============================================================================
