--------------------------- MODULE RoomMembership ---------------------------
(***************************************************************************)
(* What rooms show of their channels, for one client: the lists of         *)
(* P2PRoomImpl and SfuRoomImpl, the LocalRoomMember that joins a room,     *)
(* publishes, subscribes and is moved to another room, and the LocalPerson *)
(* whose subscriptions wait for their streams.                             *)
(*                                                                         *)
(* A room changes its lists when its channel reports a change, and also    *)
(* when a call of its member, or a stream, is through.  That may be long   *)
(* after the object is gone, or after the member has moved.                *)
(*                                                                         *)
(* Publications, subscriptions and the local person in a room are objects. *)
(* In an SFU room the publication of a person, the origin, is hidden and   *)
(* the relay that the bot publishes for it is shown.                       *)
(***************************************************************************)
EXTENDS Naturals, Sequences, Functions

CONSTANTS
    Rooms,          \* numbers of the rooms, 0 not among them
    Mine,           \* publications of the local member
    Theirs,         \* publications of others, there from the start
    Subscriptions,  \* subscriptions of the local member
    Source,         \* the publication, or origin, that a subscription is for
    Place,          \* the room of each publication
    MaxCalls,       \* bound: calls of the application
    MaxLag,         \* bound: events of a room that are not applied yet
    MaxTroubles     \* bound: requests that fail, waits and streams that take too long

ASSUME RoomAssumption ==
    /\ Rooms \subseteq Nat \ {0}
    /\ Source \in [Subscriptions -> Theirs]
    /\ Place \in [Mine \cup Theirs -> Rooms]
    /\ MaxCalls \in Nat /\ MaxLag \in Nat /\ MaxTroubles \in Nat

Nowhere == 0
Origin(p) == <<"publication", p>>
Relay(p) == <<"relay", p>>
Person(r) == <<"person", r>>
Subscribed(s) == <<"subscription", s>>

Others(r) == <<"others", r>>

Publications == Mine \cup Theirs
Persons == {Person(r) : r \in Rooms}
Subs == {Subscribed(s) : s \in Subscriptions}
Relays == {Relay(p) : p \in Publications}
Objects == {Origin(p) : p \in Publications} \cup Relays \cup Persons \cup Subs

Home(o) == CASE o \in Persons -> o[2]
             [] o \in Subs -> Place[Source[o[2]]]
             [] OTHER -> Place[o[2]]

VARIABLES
    kind,      \* "p2p" or "sfu", of all the rooms
    server,    \* the objects there are, and those that have gone
    events,    \* for each room, changes that its channel has not applied
    orphans,   \* relays that were constructed without their origin
    lists,     \* for each room, what it lists
    localRoomMember,  \* for each room, is it set
    member,    \* the LocalRoomMember: its room, where it was made, and its person's room
    adding,    \* join, publish and subscribe, by what they add
    removing,  \* unpublish, unsubscribe and leave, by what they remove
    waitsIn,   \* the room whose event a removal waits for
    moveTo,    \* the room that moveRoom goes to
    stream,    \* startSubscribing
    late,      \* history: for each room, what was listed when its channel did not show it
    calls,
    troubles

vars == <<kind, server, events, orphans, lists, localRoomMember, member, adding, removing,
          waitsIn, moveTo, stream, late, calls, troubles>>
world == <<kind, server, events, troubles>>
shown == <<orphans, lists, late>>
local == <<localRoomMember, member, moveTo>>
requests == <<adding, removing, waitsIn>>

TypeOK ==
    /\ kind \in {"p2p", "sfu"}
    /\ server \in [up : SUBSET Objects, gone : SUBSET (Objects \cup {Others(r) : r \in Rooms})]
    /\ events \in [Rooms -> Seq([type : {"added", "removed", "left"}, obj : Objects \cup {Others(r) : r \in Rooms}])]
    /\ orphans \subseteq Relays
    /\ lists \in [Rooms -> SUBSET Objects] /\ late \in [Rooms -> SUBSET Objects]
    /\ localRoomMember \in [Rooms -> BOOLEAN]
    /\ member \in [room : Rooms \cup {Nowhere}, origin : Rooms \cup {Nowhere}, person : Rooms \cup {Nowhere}]
    /\ adding \in [Objects -> {"none", "sent", "executed", "waiting", "ending", "done", "failed"}]
    /\ removing \in [Objects -> {"none", "sent", "executed", "refused", "done", "failed"}]
    /\ waitsIn \in [Objects -> Rooms \cup {Nowhere}]
    /\ moveTo \in Rooms \cup {Nowhere}
    /\ stream \in [Subs -> {"none", "starting", "attached", "failed"}]
    /\ calls \in 0..MaxCalls /\ troubles \in 0..MaxTroubles

Call == calls < MaxCalls /\ calls' = calls + 1
Trouble == troubles < MaxTroubles /\ troubles' = troubles + 1

----------------------------------------------------------------------------
(* What the client's channel has applied, and what a room should show.     *)

Pending(o) == {e.type : e \in {x \in Range(events[Home(o)]) : x.obj = o}}
WasAdded(o) == o \in server.up \cup server.gone /\ "added" \notin Pending(o)
Channel == {o \in Objects : WasAdded(o) /\ (o \in server.gone => "removed" \in Pending(o))}

\* The publication that a room shows for p, and the one that a subscription is for.
Shown(p) == IF kind = "sfu" THEN Relay(p) ELSE Origin(p)
Target(s) == Shown(Source[s[2]])

\* What _handleOnStreamPublish of an SfuRoom does not hide.
Visible(o) == kind = "p2p" \/ (o \notin {Origin(p) : p \in Publications} /\ o \notin orphans)

\* A call or a stream puts o in the list of r: _addPublication, _addSubscription.
List(r, o) ==
    /\ lists' = [lists EXCEPT ![r] = @ \cup {o}]
    /\ late' = IF Home(o) = r /\ o \in Channel /\ Visible(o) THEN late
               ELSE [late EXCEPT ![r] = @ \cup {o}]

----------------------------------------------------------------------------
(* The server.                                                             *)

Report(r, type, o) ==
    /\ Len(events[r]) < MaxLag
    /\ events' = [events EXCEPT ![r] = Append(@, [type |-> type, obj |-> o])]

Create(o) ==
    /\ o \notin server.up \cup server.gone
    /\ server' = [server EXCEPT !.up = @ \cup {o}]
    /\ Report(Home(o), "added", o)

\* What a person has, and the subscriptions of a publication, go first.
Dependents(o) == CASE o \in Persons -> {Origin(p) : p \in Mine} \cup Subs
                   [] o \in Subs -> {}
                   [] OTHER -> {s \in Subs : Target(s) = o}

Delete(o) ==
    /\ o \in server.up
    /\ \A d \in Dependents(o) \cap server.up : Home(d) # Home(o)
    /\ server' = [up |-> server.up \ {o}, gone |-> server.gone \cup {o}]
    /\ Report(Home(o), "removed", o)

\* The server executes what was asked for: the person must be there, the target too.
ExecuteAdd(o) ==
    /\ adding[o] = "sent"
    /\ IF o \in Relays THEN Others(Home(o)) \notin server.gone
       ELSE o \in Persons \/ Person(Home(o)) \in server.up
    /\ o \in Subs => Target(o) \in server.up
    /\ Create(o)
    /\ adding' = [adding EXCEPT ![o] = "executed"]
    /\ UNCHANGED <<shown, local, kind, calls, removing, waitsIn, stream, troubles>>

\* unpublish of a relay asks for the removal of its origin.
ExecuteRemove(o) ==
    /\ removing[o] = "sent"
    /\ Delete(IF o \in Relays THEN Origin(o[2]) ELSE o)
    /\ removing' = [removing EXCEPT ![o] = "executed"]
    /\ UNCHANGED <<shown, local, kind, calls, adding, waitsIn, stream, troubles>>

\* Others end their publications, the bot ends the relay of an origin that has gone, and
\* with a publication or a person goes what depends on it.
OthersRemove(o) ==
    /\ \/ o \in {Origin(p) : p \in Theirs}
       \/ o \in Relays /\ Origin(o[2]) \in server.gone
       \/ o \in Subs /\ (kind = "p2p" \/ Origin(Source[o[2]]) \in server.gone \/ removing[Person(Home(o))] = "sent")
       \/ o \in {Origin(p) : p \in Mine} /\ removing[Person(Home(o))] = "sent"
    /\ Delete(o)
    /\ UNCHANGED <<shown, local, requests, kind, calls, stream, troubles>>

\* The publisher of what the others publish leaves: a person, or the bot.
OthersLeave(r) ==
    /\ Others(r) \notin server.gone
    /\ \E p \in Theirs : Place[p] = r
    /\ \A p \in Publications : Place[p] = r /\ (kind = "sfu" \/ p \in Theirs) => Shown(p) \notin server.up
    /\ server' = [server EXCEPT !.gone = @ \cup {Others(r)}]
    /\ Report(r, "left", Others(r))
    /\ UNCHANGED <<shown, local, requests, kind, calls, stream, troubles>>

----------------------------------------------------------------------------
(* Events of a channel, as core and then the room handle them.             *)

\* createPublication leaves a relay without an origin that the channel does not have.
Orphan(o) == o \in Relays /\ Origin(o[2]) \notin Channel

\* _handleOnMemberJoin, _handleOnStreamPublish, _handleOnStreamSubscribe: the room lists
\* what it does not hide; the local person starts to receive its subscription.
Added(o) ==
    LET r == Home(o)
    IN  /\ orphans' = IF Orphan(o) THEN orphans \cup {o} ELSE orphans
        /\ lists' = IF kind = "sfu" /\ (Orphan(o) \/ o \in {Origin(p) : p \in Publications}) THEN lists
                    ELSE [lists EXCEPT ![r] = @ \cup {o}]
        /\ stream' = IF o \in Subs /\ member.person = r THEN [stream EXCEPT ![o] = "starting"] ELSE stream
        /\ UNCHANGED <<local, adding, removing>>

\* Faulty variant: an SfuRoom hides the removal of a relay whose origin has gone before.
RemovedWithOrigin(o) ==
    LET r == Home(o)
        shows == kind = "p2p" \/ (o \notin {Origin(p) : p \in Publications} /\ (o \in Relays => Origin(o[2]) \in Channel))
        through == shows /\ removing[o] \in {"sent", "refused", "executed"} /\ waitsIn[o] = r
    IN  /\ lists' = IF shows THEN [lists EXCEPT ![r] = @ \ {o}] ELSE lists
        /\ removing' = IF through THEN [removing EXCEPT ![o] = "done"] ELSE removing
        /\ member' = IF o \in Persons THEN [member EXCEPT !.person = IF @ = r THEN Nowhere ELSE @] ELSE member
        /\ localRoomMember' = IF o \in Persons /\ member.origin = r
                              THEN [localRoomMember EXCEPT ![r] = FALSE] ELSE localRoomMember
        /\ UNCHANGED <<adding, orphans, stream, moveTo>>

\* _handleOnMemberLeft, _handleOnStreamUnpublish, _handleOnStreamUnsubscribe.  The removal
\* of this object that waits for an event of this room is through.  With its person gone
\* the member is done, or goes on to the room it moves to.
Removed(o) ==
    LET r == Home(o)
        through == Visible(o) /\ removing[o] \in {"sent", "refused", "executed"} /\ waitsIn[o] = r
        moves == o \in Persons /\ moveTo # Nowhere /\ removing[o] \in {"sent", "executed"}
    IN  /\ lists' = IF Visible(o) THEN [lists EXCEPT ![r] = @ \ {o}] ELSE lists
        /\ removing' = IF through THEN [removing EXCEPT ![o] = "done"] ELSE removing
        /\ member' = IF o \in Persons THEN [member EXCEPT !.person = IF @ = r THEN Nowhere ELSE @] ELSE member
        /\ localRoomMember' = IF o \in Persons /\ member.origin = r
                              THEN [localRoomMember EXCEPT ![r] = FALSE] ELSE localRoomMember
        /\ adding' = IF moves THEN [adding EXCEPT ![Person(moveTo)] = "sent"] ELSE adding
        /\ UNCHANGED <<orphans, stream, moveTo>>

\* onMemberLeft of the publisher ends a subscribe that waits.
PublisherLeft(r) ==
    /\ adding' = [o \in Objects |-> IF o \in Subs /\ Home(o) = r /\ adding[o] = "waiting" THEN "failed" ELSE adding[o]]
    /\ UNCHANGED <<local, orphans, lists, removing, stream>>

ApplyEvent(r) ==
    /\ events[r] # <<>>
    /\ events' = [events EXCEPT ![r] = Tail(@)]
    /\ LET e == Head(events[r])
       IN  CASE e.type = "added" -> Added(e.obj)
             [] e.type = "removed" -> Removed(e.obj)
             [] e.type = "left" -> PublisherLeft(r)
    /\ UNCHANGED <<kind, calls, server, waitsIn, late, troubles>>

----------------------------------------------------------------------------
(* Joining, leaving and moving.                                            *)

join(r) ==
    /\ \A x \in Rooms : adding[Person(x)] = "none"
    /\ adding' = [adding EXCEPT ![Person(r)] = "sent"]
    /\ Call
    /\ UNCHANGED <<world, shown, local, removing, waitsIn, stream>>

\* The person is made.  join goes on when the room lists it; moveRoom does not look.
Joined(r) ==
    LET o == Person(r)
    IN  /\ adding[o] = "executed" /\ WasAdded(o)
        /\ IF moveTo = r
           THEN /\ member' = [member EXCEPT !.room = r, !.person = IF o \in Channel THEN r ELSE Nowhere]
                /\ moveTo' = Nowhere
                /\ UNCHANGED localRoomMember
           ELSE /\ o \in lists[r]
                /\ member' = [room |-> r, origin |-> r, person |-> r]
                /\ localRoomMember' = [localRoomMember EXCEPT ![r] = TRUE]
                /\ UNCHANGED moveTo
        /\ adding' = [adding EXCEPT ![o] = "done"]
        /\ UNCHANGED <<world, shown, calls, removing, waitsIn, stream>>

\* leave, or a keep-alive that the server misses.
leave(r) ==
    /\ member.person = r
    /\ removing[Person(r)] = "none"
    /\ removing' = [removing EXCEPT ![Person(r)] = "sent"]
    /\ waitsIn' = [waitsIn EXCEPT ![Person(r)] = r]
    /\ Call
    /\ UNCHANGED <<world, shown, local, adding, stream>>

moveRoom(r) ==
    LET o == Person(member.person)
    IN  /\ member.person \notin {Nowhere, r} /\ moveTo = Nowhere
        /\ adding[Person(r)] = "none" /\ removing[o] = "none"
        /\ moveTo' = r
        /\ removing' = [removing EXCEPT ![o] = "sent"]
        /\ waitsIn' = [waitsIn EXCEPT ![o] = member.person]
        /\ Call
        /\ UNCHANGED <<world, shown, localRoomMember, member, adding, stream>>

----------------------------------------------------------------------------
(* Publishing and subscribing.                                             *)

publish(p) ==
    LET o == Origin(p)
    IN  /\ member.person = Place[p] /\ adding[o] = "none"
        /\ adding' = [adding EXCEPT ![o] = "sent"]
        /\ Call
        /\ UNCHANGED <<world, shown, local, removing, waitsIn, stream>>

\* In an SFU room the bot is asked to forward the origin, if there is one.
Forward(p) ==
    LET o == Origin(p)
    IN  /\ kind = "sfu" /\ adding[o] = "executed" /\ WasAdded(o)
        /\ adding' = [adding EXCEPT ![o] = "done", ![Relay(p)] = "sent"]
        /\ UNCHANGED <<world, shown, local, calls, removing, waitsIn, stream>>

\* publish returns: the room of the member lists the publication.
Published(p) ==
    LET o == Shown(p)
    IN  /\ p \in Mine /\ adding[o] = "executed" /\ WasAdded(o)
        /\ adding' = [adding EXCEPT ![o] = "done"]
        /\ List(member.room, o)
        /\ UNCHANGED <<world, local, calls, orphans, removing, waitsIn, stream>>

\* _validatePublicationForSubscribe
subscribe(s) ==
    /\ adding[s] = "none"
    /\ member.person = Home(s) /\ Target(s) \in Channel
    /\ \A x \in Subs \cap Channel : Target(x) # Target(s)
    /\ adding' = [adding EXCEPT ![s] = "sent"]
    /\ Call
    /\ UNCHANGED <<world, shown, local, removing, waitsIn, stream>>

\* Faulty variant: subscribe does not wait for the stream.
SubscribeAnsweredAtOnce(s) ==
    /\ adding[s] = "executed" /\ WasAdded(s)
    /\ adding' = [adding EXCEPT ![s] = "ending"]
    /\ UNCHANGED <<world, shown, local, calls, removing, waitsIn, stream>>

\* The answer is there; without a stream subscribe waits for whichever comes first.
SubscribeAnswered(s) ==
    /\ adding[s] = "executed" /\ WasAdded(s)
    /\ adding' = [adding EXCEPT ![s] = IF stream[s] = "attached" THEN "ending" ELSE "waiting"]
    /\ UNCHANGED <<world, shown, local, calls, removing, waitsIn, stream>>

\* subscribe returns: the room of the member lists the subscription.
SubscribeReturns(s) ==
    /\ adding[s] = "ending"
    /\ adding' = [adding EXCEPT ![s] = "done"]
    /\ List(member.room, s)
    /\ UNCHANGED <<world, local, calls, orphans, removing, waitsIn, stream>>

\* The stream is there: the room in which the member was made lists the subscription, and
\* every subscribe that waits for a stream of this publication goes on.
StreamAttached(s) ==
    /\ stream[s] = "starting" /\ member.person = Home(s)
    /\ stream' = [stream EXCEPT ![s] = "attached"]
    /\ List(member.origin, s)
    /\ adding' = [o \in Objects |->
          IF o \in Subs /\ adding[o] = "waiting" /\ Target(o) = Target(s) THEN "ending" ELSE adding[o]]
    /\ UNCHANGED <<world, local, calls, orphans, removing, waitsIn>>

StreamFails(s) ==
    /\ stream[s] = "starting" /\ member.person = Home(s)
    /\ IF s \in server.up THEN Trouble ELSE UNCHANGED troubles
    /\ stream' = [stream EXCEPT ![s] = "failed"]
    /\ adding' = [o \in Objects |->
          IF o \in Subs /\ adding[o] = "waiting" /\ Target(o) = Target(s) THEN "failed" ELSE adding[o]]
    /\ UNCHANGED <<shown, local, kind, calls, server, events, removing, waitsIn>>

\* Faulty variant: a removal waits for the room in which the member was made.
RemoveTargetOfOrigin(o) ==
    /\ removing[o] = "none"
    /\ removing' = [removing EXCEPT ![o] =
          IF member.person = Home(o) /\ (IF o \in Relays THEN Origin(o[2]) ELSE o) \in Channel THEN "sent" ELSE "refused"]
    /\ waitsIn' = [waitsIn EXCEPT ![o] = member.origin]
    /\ Call
    /\ UNCHANGED <<world, shown, local, adding, stream>>

\* unpublish and unsubscribe ask the person, which refuses when it does not know the
\* object, and wait for the event of the room either way.
RemoveTarget(o) ==
    /\ removing[o] = "none"
    /\ removing' = [removing EXCEPT ![o] =
          IF member.person = Home(o) /\ (IF o \in Relays THEN Origin(o[2]) ELSE o) \in Channel THEN "sent" ELSE "refused"]
    /\ waitsIn' = [waitsIn EXCEPT ![o] = member.room]
    /\ Call
    /\ UNCHANGED <<world, shown, local, adding, stream>>

unpublish(p) == Shown(p) \in lists[member.room] /\ Shown(p) \notin orphans /\ RemoveTarget(Shown(p))
unsubscribe(s) == s \in lists[member.room] /\ RemoveTarget(s)

\* A request fails; the error of a removal is only logged.
RequestFails(o) ==
    /\ Trouble
    /\ \/ adding[o] = "sent" /\ adding' = [adding EXCEPT ![o] = "failed"] /\ UNCHANGED removing
       \/ removing[o] = "sent" /\ removing' = [removing EXCEPT ![o] = "refused"] /\ UNCHANGED adding
    /\ moveTo' = IF o \in Persons THEN Nowhere ELSE moveTo
    /\ UNCHANGED <<shown, kind, calls, server, events, localRoomMember, member, waitsIn, stream>>

\* joinChannel waits for an onMemberJoined that has passed.
NotListed(o) == o \in Persons /\ moveTo # Home(o) /\ adding[o] = "executed" /\ WasAdded(o) /\ o \notin lists[Home(o)]

Timeout(o) ==
    /\ Trouble
    /\ \/ /\ adding[o] = "waiting" \/ NotListed(o)
          /\ adding' = [adding EXCEPT ![o] = "failed"]
          /\ UNCHANGED removing
       \/ removing[o] \in {"executed", "refused"} /\ removing' = [removing EXCEPT ![o] = "failed"] /\ UNCHANGED adding
    /\ UNCHANGED <<shown, local, kind, calls, server, events, waitsIn, stream>>

----------------------------------------------------------------------------
Init ==
    /\ kind \in {"p2p", "sfu"}
    /\ server = [up |-> {Origin(p) : p \in Theirs} \cup (IF kind = "sfu" THEN {Relay(p) : p \in Theirs} ELSE {}),
                 gone |-> {}]
    /\ events = [r \in Rooms |-> <<>>]
    /\ orphans = {}
    /\ lists = [r \in Rooms |-> {Shown(p) : p \in {q \in Theirs : Place[q] = r}}]
    /\ localRoomMember = [r \in Rooms |-> FALSE]
    /\ member = [room |-> Nowhere, origin |-> Nowhere, person |-> Nowhere]
    /\ adding = [o \in Objects |-> "none"]
    /\ removing = [o \in Objects |-> "none"]
    /\ waitsIn = [o \in Objects |-> Nowhere]
    /\ moveTo = Nowhere
    /\ stream = [s \in Subs |-> "none"]
    /\ late = [r \in Rooms |-> {}]
    /\ calls = 0
    /\ troubles = 0

Next ==
    \/ \E o \in Objects : ExecuteAdd(o) \/ ExecuteRemove(o) \/ OthersRemove(o) \/ RequestFails(o) \/ Timeout(o)
    \/ \E r \in Rooms : ApplyEvent(r) \/ OthersLeave(r) \/ join(r) \/ Joined(r) \/ leave(r) \/ moveRoom(r)
    \/ \E p \in Mine : publish(p) \/ Forward(p) \/ Published(p)
    \/ \E p \in Mine : member.room # Nowhere /\ unpublish(p)
    \/ \E s \in Subs : subscribe(s) \/ SubscribeAnswered(s) \/ SubscribeReturns(s) \/ StreamAttached(s) \/ StreamFails(s)
    \/ \E s \in Subs : member.room # Nowhere /\ unsubscribe(s)

Spec == Init /\ [][Next]_vars

----------------------------------------------------------------------------
(* Properties.                                                             *)

\* A room lists what its channel has, without what it hides, and beyond that only what a
\* call or a stream of the member put there when the channel did not have it, any more or
\* at all.  Its localRoomMember is set only while the member is in its channel.
RoomShowsChannel ==
    /\ TypeOK
    /\ \A r \in Rooms :
          /\ lists[r] = {o \in Channel : Home(o) = r /\ Visible(o)} \cup late[r]
          /\ localRoomMember[r] => Person(r) \in Channel

\* Calls tell the truth: when unpublish, unsubscribe or leave resolves, what it removed has
\* gone; a subscribe that returns has its stream, or was taken in by the stream of another
\* subscription of the same publication.
CallsTellTruth ==
    /\ \A o \in Objects : removing[o] = "done" => o \in server.gone /\ o \notin Channel
    /\ \A s \in Subs : adding[s] \in {"ending", "done"} /\ stream[s] # "attached" =>
          \E x \in Subs \ {s} : Target(x) = Target(s) /\ stream[x] = "attached"

\* Nobody waits in vain: a removal that was not refused waits in the room of its object
\* for an event that is still to come, and a subscribe waits only while its stream is not
\* there.
NobodyWaitsInVain ==
    /\ \A o \in Objects : removing[o] \in {"sent", "executed"} =>
          waitsIn[o] = Home(o) /\ (o \in Channel \/ "added" \in Pending(o)) /\ Visible(o)
    /\ \A s \in Subs : adding[s] = "waiting" => stream[s] # "attached"
=============================================================================
