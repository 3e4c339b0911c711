--------------------------- MODULE ChannelReplica ---------------------------
(***************************************************************************)
(* A channel as one client sees it.  The RTC API server numbers what       *)
(* happens in the channel; ChannelImpl (rtc-api-client/src/domain/         *)
(* channel.ts) applies the events in that order, and SkyWayChannelImpl     *)
(* (core/src/channel/index.ts) keeps an object for each entry.  The local  *)
(* person (core/src/member/localPerson/index.ts) changes the channel by    *)
(* requests, and each request also waits for the event that it causes.     *)
(*                                                                         *)
(* Members, publications and subscriptions are added and removed in the    *)
(* same way, so most definitions speak of an object of any of these kinds. *)
(* Events reach ChannelImpl as OrderedDelivery promises.                   *)
(***************************************************************************)
EXTENDS Integers, Sequences, FiniteSets, Functions

CONSTANTS
    Members, Publications, Subscriptions,
    LocalMembers,   \* the members that this client may join as
    Owner,          \* the publisher of a publication, the subscriber of a subscription
    Source,         \* the publication of a subscription
    Snapshot,       \* channelDto: what there is when the client finds the channel
    MaxLag          \* bound: the events that have not reached the client

Object == Members \cup Publications \cup Subscriptions

\* What must exist for o to exist.
Needs(o) == (IF o \in Members THEN {} ELSE {Owner[o]})
               \cup (IF o \in Subscriptions THEN {Source[o]} ELSE {})

ASSUME KindsAreDisjoint == /\ Members \cap Publications = {}
                           /\ Members \cap Subscriptions = {}
                           /\ Publications \cap Subscriptions = {}
ASSUME OwnersAreMembers == /\ LocalMembers \subseteq Members
                           /\ Owner \in [Publications \cup Subscriptions -> Members]
                           /\ Source \in [Subscriptions -> Publications]
ASSUME MaxLagIsPositive == MaxLag \in Nat \ {0}
ASSUME SnapshotIsClosed == /\ Snapshot \subseteq Object \ LocalMembers
                           /\ \A o \in Snapshot : Needs(o) \subseteq Snapshot

VARIABLES
    exists,       \* server: the channel has not been deleted
    server,       \* server: what there is in the channel
    gone,         \* server: what was removed from the channel
    events,       \* the events that ChannelImpl has not applied yet
    replica,      \* ChannelImpl.members, publications and subscriptions
    core,         \* SkyWayChannelImpl._members, _publications and _subscriptions
    localPerson,  \* SkyWayChannelImpl._localPerson
    persons,      \* the LocalPersonImpl whose state is "joined"
    queue,        \* LocalPersonImpl._requestQueue; the head is running
    adding,       \* where join, publish or subscribe of an object is
    removing,     \* where leave, unpublish or unsubscribe of an object is
    closing,      \* where close of the channel is
    state,        \* SkyWayChannelImpl: "opened", "disposed", or "closed" and disposed
    overtaken     \* history: removed before join, publish or subscribe went on

channel == <<exists, server, gone, events>>
client  == <<replica, core, localPerson, persons, overtaken>>
ending  == <<closing, state>>
vars    == <<channel, client, queue, adding, removing, ending>>

-----------------------------------------------------------------------------
(* Types                                                                   *)

NoPerson == "nobody"
All == "channel"    \* what the event of a deletion of the channel is about

Event(type, o) == [type |-> type, obj |-> o]

(***************************************************************************)
(* "queued":    in the request queue                                       *)
(* "requested": on its way to the server                                   *)
(* "executed":  the answer is on its way                                   *)
(* "watching":  answered, waits for the event                              *)
(* "got":       an addition has its event; its caller has not gone on yet  *)
(* "ended":     returned or threw, and for a removal also: none was asked  *)
(***************************************************************************)
Running == {"requested", "executed", "watching"}

Task == [op : {"add", "remove"}, obj : Publications \cup Subscriptions]

TypeOK == /\ exists \in BOOLEAN
          /\ server \subseteq Object /\ gone \subseteq Object
          /\ events \in Seq([type : {"added", "removed", "closed"}, obj : Object \cup {All}])
          /\ replica \subseteq Object /\ core \subseteq Object
          /\ localPerson \in LocalMembers \cup {NoPerson}
          /\ persons \subseteq LocalMembers
          /\ queue \in [LocalMembers -> Seq(Task)]
          /\ adding \in [Object -> {"none", "queued", "got", "ended"} \cup Running]
          /\ removing \in [Object -> {"queued", "ended"} \cup Running]
          /\ closing \in {"ended"} \cup Running
          /\ state \in {"opened", "disposed", "closed"}
          /\ overtaken \subseteq Object

-----------------------------------------------------------------------------
(* The server                                                              *)

Report(type, o) == /\ Len(events) < MaxLag
                   /\ events' = Append(events, Event(type, o))

\* An identity is used once.
Create(o) == /\ exists
             /\ o \notin server \cup gone
             /\ Needs(o) \subseteq server
             /\ server' = server \cup {o}
             /\ Report("added", o)
             /\ UNCHANGED <<exists, gone>>

\* What needs an object goes first, each with an event of its own.
Delete(o) == /\ exists
             /\ o \in server
             /\ \A x \in server : o \notin Needs(x)
             /\ server' = server \ {o}
             /\ gone' = gone \cup {o}
             /\ Report("removed", o)
             /\ UNCHANGED exists

\* The contents go with the channel, without events.
DeleteChannel == /\ exists
                 /\ exists' = FALSE
                 /\ Report("closed", All)
                 /\ UNCHANGED <<server, gone>>

Mine(o) == (IF o \in Members THEN o ELSE Owner[o]) \in LocalMembers

OthersCreate(o) == /\ ~Mine(o)
                   /\ Create(o)
                   /\ UNCHANGED <<client, queue, adding, removing, ending>>

\* By other clients, and by the server: a member whose time to live is over leaves, with all
\* that it has.  That may be the local person, whose updates did not come in time.
OthersRemove(o) == /\ Delete(o)
                   /\ UNCHANGED <<client, queue, adding, removing, ending>>

ExecuteAdd(o) == /\ adding[o] = "requested"
                 /\ Create(o)
                 /\ adding' = [adding EXCEPT ![o] = "executed"]
                 /\ UNCHANGED <<client, queue, removing, ending>>

ExecuteRemove(o) == /\ removing[o] = "requested"
                    /\ Delete(o)
                    /\ removing' = [removing EXCEPT ![o] = "executed"]
                    /\ UNCHANGED <<client, queue, adding, ending>>

-----------------------------------------------------------------------------
(* Events                                                                  *)

\* createPublication and createSubscription fail without what the object refers to.
Constructible(o) == CASE o \in Members       -> TRUE
                      [] o \in Publications  -> Owner[o] \in core
                      [] o \in Subscriptions -> Source[o] \in core

\* _addMember, _addPublication and _addSubscription
Keep(o) == core' = IF Constructible(o) THEN core \cup {o} ELSE core

\* addSubscription fails without the publication, and nobody hears of the event.
Applicable(event) ==
    CASE event.type = "closed"  -> TRUE
      [] event.type = "removed" -> event.obj \in replica
      [] event.type = "added"   -> event.obj \in Subscriptions => Source[event.obj] \in replica

Added(o) == /\ replica' = replica \cup {o}
            /\ Keep(o)
            /\ adding' = [adding EXCEPT ![o] = IF @ = "watching" THEN "got" ELSE @]
            /\ UNCHANGED <<localPerson, persons, removing, overtaken, ending>>

\* Faulty variant: a removal waits for its event only when it has its answer.
RemovedIfAnswered(o) ==
    /\ replica' = replica \ {o}
    /\ core' = core \ {o}
    /\ removing' = [removing EXCEPT ![o] = IF @ = "watching" THEN "ended" ELSE @]
    /\ localPerson' = IF localPerson = o THEN NoPerson ELSE localPerson
    /\ persons' = IF localPerson = o THEN persons \ {o} ELSE persons
    /\ overtaken' = IF adding[o] = "got" THEN overtaken \cup {o} ELSE overtaken
    /\ UNCHANGED <<adding, ending>>

\* _handleOnMemberLeft also ends the local person.  A removal waits from the start.
Removed(o) == /\ replica' = replica \ {o}
              /\ core' = core \ {o}
              /\ removing' = [removing EXCEPT ![o] = IF @ \in Running THEN "ended" ELSE @]
              /\ localPerson' = IF localPerson = o THEN NoPerson ELSE localPerson
              /\ persons' = IF localPerson = o THEN persons \ {o} ELSE persons
              /\ overtaken' = IF adding[o] = "got" THEN overtaken \cup {o} ELSE overtaken
              /\ UNCHANGED <<adding, ending>>

\* _handleOnChannelClose: close goes on, and the channel disposes of itself.
Closed == /\ state' = "closed"
          /\ closing' = IF closing = "watching" THEN "ended" ELSE closing
          /\ UNCHANGED <<client, adding, removing>>

\* What listens to ChannelImpl.
Dispatch(event) == \/ event.type = "added" /\ Added(event.obj)
                   \/ event.type = "removed" /\ Removed(event.obj)
                   \/ event.type = "closed" /\ Closed

ApplyEvent ==
    /\ state = "opened"
    /\ events # <<>>
    /\ events' = Tail(events)
    /\ LET event == Head(events)
       IN  IF Applicable(event) THEN Dispatch(event)
           ELSE UNCHANGED <<client, adding, removing, ending>>
    /\ UNCHANGED <<exists, server, gone, queue>>

-----------------------------------------------------------------------------
(* Requests                                                                *)

\* Nothing keeps a second join away while the first is under way.
join(m) == /\ localPerson = NoPerson
           /\ adding[m] = "none"
           /\ adding' = [adding EXCEPT ![m] = "requested"]
           /\ UNCHANGED <<channel, client, queue, removing, ending>>

\* leave, of the local person or of a remote member
leave(m) == /\ m \in persons \cup core
            /\ removing[m] = "ended"
            /\ removing' = [removing EXCEPT ![m] = "requested"]
            /\ UNCHANGED <<channel, client, queue, adding, ending>>

\* The same request is not made again before it is over.
Push(m, op, o) == LET task == [op |-> op, obj |-> o]
                  IN  /\ task \notin Range(queue[m])
                      /\ queue' = [queue EXCEPT ![m] = Append(@, task)]

\* _validatePublicationForSubscribe
Subscribable(s) == /\ Source[s] \in core
                   /\ Owner[Source[s]] # Owner[s]
                   /\ \A x \in core \cap Subscriptions :
                         Source[x] = Source[s] => Owner[x] # Owner[s]

\* publish and subscribe
RequestAdd(o) == /\ Owner[o] \in persons
                 /\ adding[o] = "none"
                 /\ o \in Subscriptions => Subscribable(o)
                 /\ Push(Owner[o], "add", o)
                 /\ adding' = [adding EXCEPT ![o] = "queued"]
                 /\ UNCHANGED <<channel, client, removing, ending>>

\* unpublish and unsubscribe
RequestRemove(o) == /\ Owner[o] \in persons
                    /\ o \in core
                    /\ Push(Owner[o], "remove", o)
                    /\ removing' = [removing EXCEPT ![o] = "queued"]
                    /\ UNCHANGED <<channel, client, adding, ending>>

\* _subscribe and _unsubscribe look their objects up when their turn comes.
Sendable(task) ==
    task.obj \in Subscriptions =>
        (IF task.op = "add" THEN Needs(task.obj) ELSE {task.obj}) \subseteq core

PhaseOf(task) == IF task.op = "add" THEN adding[task.obj] ELSE removing[task.obj]

\* PromiseQueue.run takes the next task.
RunTask(m) ==
    /\ queue[m] # <<>>
    /\ LET task  == Head(queue[m])
           phase == IF Sendable(task) THEN "requested" ELSE "ended"
       IN  /\ PhaseOf(task) = "queued"
           /\ \/ /\ task.op = "add"
                 /\ adding' = [adding EXCEPT ![task.obj] = phase]
                 /\ UNCHANGED removing
              \/ /\ task.op = "remove"
                 /\ removing' = [removing EXCEPT ![task.obj] = phase]
                 /\ UNCHANGED adding
    /\ UNCHANGED <<channel, client, queue, ending>>

\* The rest of run: what ends a task, and what follows.
Dequeue(m, ends) == /\ queue[m] # <<>>
                    /\ PhaseOf(Head(queue[m])) \in ends
                    /\ queue' = [queue EXCEPT ![m] = Tail(@)]
                    /\ UNCHANGED <<channel, client, adding, removing, ending>>

\* The next task follows when the task is settled, however that was.
NextTask(m) == Dequeue(m, {"got", "ended"})

-----------------------------------------------------------------------------
(* Answers                                                                 *)

Answered(o, phase) == /\ adding[o] = "executed"
                      /\ adding' = [adding EXCEPT ![o] = phase]
                      /\ UNCHANGED <<channel, core, localPerson, persons, overtaken,
                                     queue, removing, ending>>

\* Faulty variant: waits for the event although it may have come already.
AnswerWatches(o) == Answered(o, "watching") /\ UNCHANGED replica

\* Faulty variant: does not wait for the event.
AnswerIsEnough(o) == Answered(o, "got") /\ UNCHANGED replica

\* Faulty variant: adds the object to ChannelImpl at once.
AnswerAdds(o) == Answered(o, "got") /\ replica' = replica \cup {o}

\* The answer to joinChannel, publish or subscribe: the event may have come already.
Answer(o) == /\ Answered(o, IF o \in replica THEN "got" ELSE "watching")
             /\ UNCHANGED replica

\* The answer to leave, unpublish or unsubscribe is not looked at, only its failure.
AnswerRemove(o) == /\ removing[o] = "executed"
                   /\ removing' = [removing EXCEPT ![o] = "watching"]
                   /\ UNCHANGED <<channel, client, queue, adding, ending>>

AddEnds(o) == /\ adding' = [adding EXCEPT ![o] = "ended"]
              /\ UNCHANGED <<channel, client, queue, removing, ending>>

RemoveEnds(o) == /\ removing' = [removing EXCEPT ![o] = "ended"]
                 /\ UNCHANGED <<channel, client, queue, adding, ending>>

\* The server refuses the request, or does not answer in time.
Unanswered == {"requested", "executed"}

JoinFails(m) == m \in Members /\ adding[m] \in Unanswered /\ AddEnds(m)

\* publish and subscribe
AddFails(o) == o \notin Members /\ adding[o] \in Unanswered /\ AddEnds(o)

LeaveFails(m) == m \in Members /\ removing[m] \in Unanswered /\ RemoveEnds(m)

\* unpublish and unsubscribe
RemoveFails(o) == o \notin Members /\ removing[o] \in Unanswered /\ RemoveEnds(o)

\* The event takes too long.  unpublish and unsubscribe do not limit the time.
JoinTimeout(m) == m \in Members /\ adding[m] = "watching" /\ AddEnds(m)

AddTimeout(o) == o \notin Members /\ adding[o] = "watching" /\ AddEnds(o)

LeaveTimeout(m) == m \in Members /\ removing[m] = "watching" /\ RemoveEnds(m)

\* publish and subscribe go on: _addPublication or _addSubscription.
GoOn(o) ==
    /\ o \in Publications \cup Subscriptions
    /\ adding[o] = "got"
    /\ adding' = [adding EXCEPT ![o] = "ended"]
    /\ Keep(o)
    /\ UNCHANGED <<channel, replica, localPerson, persons, overtaken, queue, removing, ending>>

\* join goes on: the sessions of the person are set up, then it is the local person.
PersonCreated(m) ==
    /\ m \in Members
    /\ adding[m] = "got"
    /\ adding' = [adding EXCEPT ![m] = "ended"]
    /\ localPerson' = m
    /\ persons' = persons \cup {m}
    /\ UNCHANGED <<channel, replica, core, overtaken, queue, removing, ending>>

\* A session, or the update of the time to live, failed; the member stays in the channel.
PersonFails(m) == /\ m \in Members
                  /\ adding[m] = "got"
                  /\ adding' = [adding EXCEPT ![m] = "ended"]
                  /\ UNCHANGED <<channel, client, queue, removing, ending>>

-----------------------------------------------------------------------------
(* The end of the channel                                                  *)

close == /\ state # "closed"
         /\ closing = "ended"
         /\ closing' = "requested"
         /\ UNCHANGED <<channel, client, queue, adding, removing, state>>

ExecuteClose == /\ closing = "requested"
                /\ DeleteChannel
                /\ closing' = "executed"
                /\ UNCHANGED <<client, queue, adding, removing, state>>

OthersClose == DeleteChannel /\ UNCHANGED <<client, queue, adding, removing, ending>>

\* The answer to close: the event may have come already.
CloseAnswered == /\ closing = "executed"
                 /\ closing' = IF state = "closed" THEN "ended" ELSE "watching"
                 /\ UNCHANGED <<channel, client, queue, adding, removing, state>>

CloseFails == /\ closing \in Unanswered
              /\ closing' = "ended"
              /\ UNCHANGED <<channel, client, queue, adding, removing, state>>

CloseTimeout == /\ closing = "watching"
                /\ closing' = "ended"
                /\ UNCHANGED <<channel, client, queue, adding, removing, state>>

\* dispose, by the application or with the context: events are applied no more.
dispose == /\ state = "opened"
           /\ state' = "disposed"
           /\ UNCHANGED <<channel, client, queue, adding, removing, closing>>

-----------------------------------------------------------------------------
(* The specification                                                       *)

\* _setupPropertiesFromChannel
Init == /\ exists = TRUE
        /\ server = Snapshot
        /\ gone = {}
        /\ events = <<>>
        /\ replica = Snapshot
        /\ core = Snapshot
        /\ localPerson = NoPerson
        /\ persons = {}
        /\ queue = [m \in LocalMembers |-> <<>>]
        /\ adding = [o \in Object |-> "none"]
        /\ removing = [o \in Object |-> "ended"]
        /\ closing = "ended"
        /\ state = "opened"
        /\ overtaken = {}

Next ==
    \/ ApplyEvent
    \/ close \/ ExecuteClose \/ OthersClose \/ CloseAnswered \/ CloseFails \/ CloseTimeout
    \/ dispose
    \/ \E o \in Object : \/ OthersCreate(o) \/ OthersRemove(o)
                         \/ ExecuteAdd(o) \/ Answer(o)
                         \/ JoinFails(o) \/ JoinTimeout(o) \/ AddFails(o) \/ AddTimeout(o)
                         \/ ExecuteRemove(o) \/ AnswerRemove(o)
                         \/ LeaveFails(o) \/ LeaveTimeout(o) \/ RemoveFails(o)
                         \/ GoOn(o) \/ PersonCreated(o) \/ PersonFails(o)
    \/ \E o \in Publications \cup Subscriptions : RequestAdd(o) \/ RequestRemove(o)
    \/ \E m \in LocalMembers : join(m) \/ RunTask(m) \/ NextTask(m)
    \/ \E m \in Members : leave(m)

Spec == Init /\ [][Next]_vars

(***************************************************************************)
(* Events keep coming, every request is answered or fails, and what is     *)
(* ready to run does run.  Nobody has to ask for anything, and others need *)
(* not do anything.                                                        *)
(***************************************************************************)
Fairness ==
    /\ WF_vars(ApplyEvent)
    /\ \A o \in {x \in Publications \cup Subscriptions : Mine(x)} :
         /\ WF_vars(ExecuteAdd(o) \/ Answer(o) \/ AddFails(o) \/ AddTimeout(o))
         /\ WF_vars(ExecuteRemove(o) \/ AnswerRemove(o) \/ RemoveFails(o))
    /\ \A m \in LocalMembers : WF_vars(RunTask(m)) /\ WF_vars(NextTask(m))

FairSpec == Spec /\ Fairness

-----------------------------------------------------------------------------
(* Properties                                                              *)

Pending(type) == {events[i].obj : i \in {j \in DOMAIN events : events[j].type = type}}

\* What ChannelImpl shows is a state that the channel really had, that before the events to
\* come: no request of this client changes it, only the event of the request does.
ReplicaIsState == /\ TypeOK
                  /\ replica = (server \cup Pending("removed")) \ Pending("added")

\* SkyWayChannelImpl shows what ChannelImpl shows, and nothing else, with one exception:
\* an object whose removal was applied while its publish, subscribe or join was going on.
GhostsWereOvertaken == /\ replica \subseteq core
                       /\ core \ replica \subseteq overtaken
                       /\ localPerson # NoPerson => localPerson \in replica \cup overtaken

\* A request that waits for its event does not wait for one that has been applied already:
\* the event of a removal is to come; that of an addition too, unless the object is gone again.
\* A close does not wait for an event that was applied, nor does it wait once state is closed.
NoMissedEvent ==
    /\ \A o \in Object :
         /\ adding[o] = "watching" => o \in Pending("added") \cup (gone \ Pending("removed"))
         /\ removing[o] \in {"executed", "watching"} => o \in Pending("removed")
    /\ closing = "watching" => state # "closed" /\ All \in Pending("closed")

\* A publish or subscribe that was queued is settled in the end, whatever the requests before
\* it wait for and however they end, unless the channel is disposed: then no event ends the
\* wait of an unpublish or unsubscribe that is before it.
RequestsSettle == \A o \in {x \in Publications \cup Subscriptions : Mine(x)} :
    adding[o] = "queued" ~> adding[o] \in {"got", "ended"} \/ state # "opened"
=============================================================================
