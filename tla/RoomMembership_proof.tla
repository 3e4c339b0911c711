------------------------ MODULE RoomMembership_proof ------------------------
(***************************************************************************)
(* Proofs about RoomMembership, for every set of rooms, publications and   *)
(* subscriptions and all the bounds: rooms show what their channels have,  *)
(* calls tell the truth, and nobody waits for what can not come.           *)
(*                                                                         *)
(* The invariant has four parts: the events that a channel has still to    *)
(* apply, the lists of the rooms, the local member and its persons, and    *)
(* the calls that are under way.                                           *)
(***************************************************************************)
EXTENDS RoomMembership, TLAPS

-----------------------------------------------------------------------------
(* Objects                                                                 *)

Origins == {Origin(p) : p \in Publications}

LEMMA Kinds ==
    /\ \A p \in Publications : /\ Origin(p) \in Objects /\ Origin(p) \in Origins /\ Origin(p) \notin Relays \cup Persons \cup Subs
                               /\ Relay(p) \in Objects /\ Relay(p) \in Relays /\ Relay(p) \notin Origins \cup Persons \cup Subs
                               /\ Relay(p)[2] = p
    /\ \A p, q \in Publications : Relay(p) = Relay(q) \/ Origin(p) = Origin(q) => p = q
    /\ \A r \in Rooms : Person(r) \in Objects /\ Person(r) \in Persons /\ Person(r) \notin Origins \cup Relays \cup Subs
    /\ \A r, x \in Rooms : Person(r) = Person(x) => r = x
    /\ \A o \in Persons : \E r \in Rooms : o = Person(r)
    /\ \A o \in Relays : \E p \in Publications : o = Relay(p)
    /\ \A s \in Subs : s \in Objects /\ s \notin Origins \cup Relays \cup Persons
    /\ \A r \in Rooms : Others(r) \notin Objects
    /\ Nowhere \notin Rooms
    /\ Mine \subseteq Publications
BY RoomAssumption DEF Objects, Origins, Relays, Persons, Subs, Origin, Relay, Person, Subscribed, Others, Publications, Nowhere

LEMMA Homes ==
    /\ \A o \in Objects : Home(o) \in Rooms
    /\ \A r \in Rooms : Home(Person(r)) = r
    /\ \A p \in Publications : Home(Origin(p)) = Place[p] /\ Home(Relay(p)) = Place[p]
<1>1. ASSUME NEW r \in Rooms PROVE Home(Person(r)) = r
  <2>1. Person(r) \in Persons /\ Person(r)[2] = r /\ Person(r) \notin Subs
    BY DEF Persons, Person, Subs, Subscribed
  <2> QED BY <2>1 DEF Home
<1>2. ASSUME NEW p \in Publications
      PROVE  Home(Origin(p)) = Place[p] /\ Home(Relay(p)) = Place[p] /\ Place[p] \in Rooms
  <2>1. Origin(p) \notin Persons \cup Subs /\ Relay(p) \notin Persons \cup Subs
    BY Kinds
  <2>2. Origin(p)[2] = p /\ Relay(p)[2] = p
    BY DEF Origin, Relay
  <2>3. Place[p] \in Rooms
    BY RoomAssumption DEF Publications
  <2> QED BY <2>1, <2>2, <2>3 DEF Home
<1>3. ASSUME NEW s \in Subscriptions
      PROVE  Home(Subscribed(s)) \in Rooms
  <2>1. Subscribed(s) \in Subs /\ Subscribed(s) \notin Persons /\ Subscribed(s)[2] = s
    BY DEF Subs, Subscribed, Persons, Person
  <2>2. Place[Source[s]] \in Rooms
    BY RoomAssumption
  <2> QED BY <2>1, <2>2 DEF Home
<1>4. ASSUME NEW o \in Objects PROVE Home(o) \in Rooms
  BY <1>1, <1>2, <1>3 DEF Objects, Relays, Persons, Subs
<1> QED BY <1>1, <1>2, <1>4

-----------------------------------------------------------------------------
(* Events                                                                  *)

Event == [type : {"added", "removed", "left"}, obj : Objects \cup {Others(r) : r \in Rooms}]

\* An event of room r says what has happened at the server.
EventIsTrue(r, e) ==
    \/ e.type = "left" /\ e.obj = Others(r)
    \/ e.type = "added" /\ e.obj \in Objects /\ Home(e.obj) = r /\ e.obj \in server.up \cup server.gone
    \/ e.type = "removed" /\ e.obj \in Objects /\ Home(e.obj) = r /\ e.obj \in server.gone

\* The event f comes after e, and not a second time.
Precedes(e, f) ==
    \/ e = f /\ e.type # "left"
    \/ e.type = "added" /\ f.type = "removed" /\ e.obj = f.obj
    \/ e.type = "removed" /\ f.type = "removed" /\ \E p \in Publications : e.obj = Origin(p) /\ f.obj = Relay(p)

InOrder(q) == \A i, j \in DOMAIN q : Precedes(q[i], q[j]) => i <= j

PendingIn(q, o) == {e.type : e \in {x \in Range(q) : x.obj = o}}

LEMMA PendingOf ==
    /\ \A o : Pending(o) = PendingIn(events[Home(o)], o)
    /\ \A o : Pending(o)' = PendingIn(events'[Home(o)], o)
BY DEF Pending, PendingIn

LEMMA PendingIs ==
    ASSUME NEW q, NEW o, NEW t
    PROVE  t \in PendingIn(q, o) <=> \E i \in DOMAIN q : q[i].type = t /\ q[i].obj = o
BY DEF PendingIn, Range

LEMMA Appended ==
    ASSUME NEW q \in Seq(Event), NEW e \in Event
    PROVE  /\ Append(q, e) \in Seq(Event)
           /\ \A o, t : t \in PendingIn(Append(q, e), o) <=> t \in PendingIn(q, o) \/ (t = e.type /\ o = e.obj)
           /\ InOrder(q) /\ (\A i \in DOMAIN q : ~Precedes(e, q[i])) => InOrder(Append(q, e))
           /\ \A i \in DOMAIN Append(q, e) : (i \in DOMAIN q /\ Append(q, e)[i] = q[i]) \/ Append(q, e)[i] = e
<1> DEFINE a == Append(q, e)
<1>1. /\ a \in Seq(Event) /\ DOMAIN q = 1..Len(q) /\ Len(q) \in Nat
      /\ DOMAIN a = 1..(Len(q) + 1) /\ a[Len(q) + 1] = e
      /\ \A i \in 1..Len(q) : i \in 1..(Len(q) + 1) /\ a[i] = q[i]
      /\ \A i \in 1..(Len(q) + 1) : i \in 1..Len(q) \/ i = Len(q) + 1
  OBVIOUS
<1> HIDE DEF a
<1>2. ASSUME NEW o, NEW t
      PROVE  t \in PendingIn(a, o) <=> t \in PendingIn(q, o) \/ (t = e.type /\ o = e.obj)
  <2>1. t \in PendingIn(a, o) <=> \E i \in DOMAIN a : a[i].type = t /\ a[i].obj = o
    BY PendingIs
  <2>2. t \in PendingIn(q, o) <=> \E i \in DOMAIN q : q[i].type = t /\ q[i].obj = o
    BY PendingIs
  <2>3. Len(q) + 1 \in DOMAIN a
    BY <1>1
  <2>4. \A i \in DOMAIN a : (i \in DOMAIN q /\ a[i] = q[i]) \/ a[i] = e
    BY <1>1
  <2>5. \A i \in DOMAIN q : i \in DOMAIN a /\ a[i] = q[i]
    BY <1>1
  <2> QED BY <1>1, <2>1, <2>2, <2>3, <2>4, <2>5
<1>3. ASSUME InOrder(q), \A i \in DOMAIN q : ~Precedes(e, q[i]),
             NEW i \in DOMAIN a, NEW j \in DOMAIN a, Precedes(a[i], a[j])
      PROVE  i <= j
  <2>1. CASE i \in 1..Len(q) /\ j \in 1..Len(q)
    BY <1>1, <1>3, <2>1 DEF InOrder
  <2>2. CASE j = Len(q) + 1
    BY <1>1, <2>2
  <2>3. CASE i = Len(q) + 1 /\ j \in 1..Len(q)
    BY <1>1, <1>3, <2>3
  <2> QED BY <1>1, <2>1, <2>2, <2>3
<1>4. InOrder(q) /\ (\A i \in DOMAIN q : ~Precedes(e, q[i])) => InOrder(a)
  BY <1>3 DEF InOrder
<1>5. \A i \in DOMAIN a : (i \in DOMAIN q /\ a[i] = q[i]) \/ a[i] = e
  BY <1>1
<1> QED BY <1>1, <1>2, <1>4, <1>5 DEF a

LEMMA Shifted ==
    ASSUME NEW q \in Seq(Event), q # << >>, InOrder(q)
    PROVE  LET e == Head(q)
           IN  /\ e \in Event /\ e = q[1] /\ 1 \in DOMAIN q
               /\ Tail(q) \in Seq(Event) /\ InOrder(Tail(q))
               /\ \A i \in DOMAIN Tail(q) : i + 1 \in DOMAIN q /\ Tail(q)[i] = q[i + 1]
               /\ \A i \in DOMAIN q : i # 1 => ~Precedes(q[i], e)
               /\ e.type \in PendingIn(q, e.obj)
               /\ \A o, t : t \in PendingIn(Tail(q), o) => t \in PendingIn(q, o)
               /\ \A o, t : t \in PendingIn(q, o) /\ (t # e.type \/ o # e.obj) => t \in PendingIn(Tail(q), o)
               /\ e.type # "left" => e.type \notin PendingIn(Tail(q), e.obj)
<1> DEFINE e == Head(q)
           tail == Tail(q)
<1>1. /\ e \in Event /\ e = q[1] /\ 1 \in DOMAIN q /\ DOMAIN q = 1..Len(q) /\ Len(q) \in Nat
      /\ tail \in Seq(Event) /\ DOMAIN tail = 1..(Len(q) - 1)
      /\ \A i \in 1..(Len(q) - 1) : i + 1 \in 1..Len(q) /\ tail[i] = q[i + 1] /\ i + 1 # 1
      /\ \A i \in 1..Len(q) : i # 1 => i - 1 \in 1..(Len(q) - 1) /\ tail[i - 1] = q[i]
      /\ \A i \in 1..Len(q) : q[i] \in Event
  OBVIOUS
<1> HIDE DEF e, tail
<1>2. \A i \in DOMAIN q : i # 1 => ~Precedes(q[i], e)
  BY <1>1 DEF InOrder
<1>3. InOrder(tail)
  <2>1. ASSUME NEW i \in DOMAIN tail, NEW j \in DOMAIN tail, Precedes(tail[i], tail[j]) PROVE i <= j
    <3>1. i + 1 <= j + 1
      BY <1>1, <2>1 DEF InOrder
    <3> QED BY <1>1, <3>1
  <2> QED BY <2>1 DEF InOrder
<1>4. e.type \in PendingIn(q, e.obj)
  BY <1>1, PendingIs
<1>5. ASSUME NEW o, NEW t, t \in PendingIn(tail, o) PROVE t \in PendingIn(q, o)
  <2>1. PICK i \in DOMAIN tail : tail[i].type = t /\ tail[i].obj = o
    BY <1>5, PendingIs
  <2>2. i + 1 \in DOMAIN q /\ q[i + 1].type = t /\ q[i + 1].obj = o
    BY <1>1, <2>1
  <2> QED BY <2>2, PendingIs
<1>6. ASSUME NEW o, NEW t, t \in PendingIn(q, o), t # e.type \/ o # e.obj PROVE t \in PendingIn(tail, o)
  <2>1. PICK i \in DOMAIN q : q[i].type = t /\ q[i].obj = o
    BY <1>6, PendingIs
  <2>2. i - 1 \in DOMAIN tail /\ tail[i - 1].type = t /\ tail[i - 1].obj = o
    BY <1>1, <1>6, <2>1
  <2> QED BY <2>2, PendingIs
<1>7. ASSUME e.type # "left", e.type \in PendingIn(tail, e.obj) PROVE FALSE
  <2>1. PICK i \in DOMAIN tail : tail[i].type = e.type /\ tail[i].obj = e.obj
    BY <1>7, PendingIs
  <2>2. i + 1 \in DOMAIN q /\ i + 1 # 1 /\ q[i + 1] \in Event /\ q[i + 1].type = e.type /\ q[i + 1].obj = e.obj
    BY <1>1, <2>1
  <2>3. q[i + 1] = e
    BY <1>1, <2>2 DEF Event
  <2> QED BY <1>2, <1>7, <2>2, <2>3 DEF Precedes
<1> QED BY <1>1, <1>2, <1>3, <1>4, <1>5, <1>6, <1>7 DEF e, tail

-----------------------------------------------------------------------------
(* The invariant                                                           *)

\* o has come and gone, and the channel knows.
Past(o) == o \in server.gone /\ "added" \notin Pending(o) /\ "removed" \notin Pending(o)

\* What a channel has still to apply has happened, and comes in the order it happened in; the
\* relay of an origin goes after it.
ServerInv ==
    /\ server.up \cap server.gone = {}
    /\ \A r \in Rooms : InOrder(events[r]) /\ \A i \in DOMAIN events[r] : EventIsTrue(r, events[r][i])
    /\ \A o \in Objects : o \in server.gone /\ "added" \in Pending(o) => "removed" \in Pending(o)
    /\ \A p \in Publications : Relay(p) \in server.gone =>
          Origin(p) \in server.gone /\ ("removed" \in Pending(Origin(p)) => "removed" \in Pending(Relay(p)))

\* What was listed too late, or is hidden, can not become what the room shows.
ListsInv ==
    /\ \A o \in orphans : WasAdded(o)
    /\ \A r \in Rooms : lists[r] = {o \in Channel : Home(o) = r /\ Visible(o)} \cup late[r]
    /\ \A r \in Rooms, o \in Objects : o \in late[r] =>
          /\ o \notin Persons
          /\ Home(o) = r => Past(o) \/ (WasAdded(o) /\ ~Visible(o))

\* A member is made once, in the room it is first in; only moveRoom makes another person.
MemberInv ==
    /\ member.person # Nowhere => /\ member.person = member.room /\ member.origin # Nowhere
                                  /\ Person(member.person) \in Channel
    /\ member.origin # Nowhere => adding[Person(member.origin)] = "done"
    /\ moveTo # Nowhere => /\ member.origin # Nowhere /\ adding[Person(moveTo)] # "done"
                           /\ adding[Person(moveTo)] \in {"sent", "executed"} => member.person = Nowhere
    /\ \A r \in Rooms :
          /\ localRoomMember[r] => member.origin = r /\ Person(r) \in Channel
          /\ adding[Person(r)] \in {"sent", "executed"} /\ moveTo # r => member.origin = Nowhere
          /\ removing[Person(r)] \in {"sent", "executed"} => member.person = r
    /\ member.origin = Nowhere =>
          \A r, x \in Rooms : adding[Person(r)] # "none" /\ adding[Person(x)] # "none" => r = x

\* A removal that was accepted waits in the right room for what the room shows; a subscribe
\* goes on with its stream, or with that of another subscription of the same publication.
CallsInv ==
    /\ \A o \in Objects : /\ removing[o] \in {"sent", "executed"} => waitsIn[o] = Home(o) /\ o \in Channel /\ Visible(o)
                          /\ removing[o] = "done" => Past(o)
    /\ \A s \in Subs : /\ stream[s] # "none" \/ adding[s] \in {"waiting", "ending", "done"} => WasAdded(s)
                       /\ adding[s] = "waiting" => stream[s] # "attached"
                       /\ adding[s] \in {"ending", "done"} /\ stream[s] # "attached" =>
                             \E x \in Subs \ {s} : Target(x) = Target(s) /\ stream[x] = "attached"

IInv == TypeOK /\ ServerInv /\ ListsInv /\ MemberInv /\ CallsInv

-----------------------------------------------------------------------------
(* What happens at the server does not change what a channel has           *)

WorldSame ==
    /\ Channel' = Channel
    /\ \A x \in Objects : /\ WasAdded(x)' <=> WasAdded(x)
                          /\ Past(x)' <=> Past(x)

WorldTypes == /\ server' \in [up : SUBSET Objects, gone : SUBSET (Objects \cup {Others(r) : r \in Rooms})]
              /\ events' \in [Rooms -> Seq(Event)]

LEMMA WorldSameIf ==
    ASSUME \A x \in Objects : /\ WasAdded(x)' <=> WasAdded(x)
                              /\ Past(x)' <=> Past(x)
                              /\ x \in Channel' <=> x \in Channel
    PROVE  WorldSame
<1>1. Channel' \subseteq Objects /\ Channel \subseteq Objects
  BY DEF Channel
<1> QED BY <1>1 DEF WorldSame

\* The server reports e, which precedes nothing that it has reported.
Reports(r, e) ==
    /\ events' = [events EXCEPT ![r] = Append(@, e)]
    /\ \A i \in DOMAIN events[r] : ~Precedes(e, events[r][i])

LEMMA Reported ==
    ASSUME TypeOK, ServerInv, NEW room \in Rooms, NEW e \in Event, Reports(room, e)
    PROVE  /\ events' \in [Rooms -> Seq(Event)]
           /\ \A x \in Objects : \A t : t \in Pending(x)' <=>
                 t \in Pending(x) \/ (Home(x) = room /\ t = e.type /\ x = e.obj)
           /\ \A z \in Rooms : /\ InOrder(events'[z])
                               /\ \A i \in DOMAIN events'[z] :
                                     \/ i \in DOMAIN events[z] /\ events'[z][i] = events[z][i]
                                     \/ z = room /\ events'[z][i] = e
<1> DEFINE q == events[room]
           a == Append(events[room], e)
<1>1. events \in [Rooms -> Seq(Event)]
  BY DEF TypeOK, Event
<1>2. /\ \A z \in Rooms : z # room => events'[z] = events[z]
      /\ events'[room] = a /\ q \in Seq(Event)
  BY <1>1 DEF Reports
<1>3. \A z \in Rooms : InOrder(events[z])
  BY DEF ServerInv
<1>4. a = Append(q, e) /\ q = events[room] /\ \A i \in DOMAIN q : ~Precedes(e, q[i])
  BY DEF Reports
<1> HIDE DEF q, a
<1>5. /\ Append(q, e) \in Seq(Event)
      /\ \A x, t : t \in PendingIn(Append(q, e), x) <=> t \in PendingIn(q, x) \/ (t = e.type /\ x = e.obj)
      /\ InOrder(Append(q, e))
      /\ \A i \in DOMAIN Append(q, e) : (i \in DOMAIN q /\ Append(q, e)[i] = q[i]) \/ Append(q, e)[i] = e
  <2>1. InOrder(q)
    BY <1>3, <1>4
  <2> QED BY <1>2, <1>4, <2>1, Appended
<1>6. /\ a \in Seq(Event)
      /\ \A x, t : t \in PendingIn(a, x) <=> t \in PendingIn(q, x) \/ (t = e.type /\ x = e.obj)
      /\ InOrder(a)
      /\ \A i \in DOMAIN a : (i \in DOMAIN q /\ a[i] = q[i]) \/ a[i] = e
  BY <1>4, <1>5
<1>7. events' \in [Rooms -> Seq(Event)]
  BY <1>1, <1>2, <1>6 DEF Reports
<1>8. \A x, t : t \in PendingIn(events'[room], x) <=>
          t \in PendingIn(events[room], x) \/ (t = e.type /\ x = e.obj)
  BY <1>2, <1>4, <1>6
<1>9. \A x \in Objects : \A t : t \in Pending(x)' <=>
          t \in Pending(x) \/ (Home(x) = room /\ t = e.type /\ x = e.obj)
  BY <1>2, <1>8, PendingOf, Homes
<1>10. \A z \in Rooms : /\ InOrder(events'[z])
                       /\ \A i \in DOMAIN events'[z] :
                             \/ i \in DOMAIN events[z] /\ events'[z][i] = events[z][i]
                             \/ z = room /\ events'[z][i] = e
  BY <1>2, <1>3, <1>4, <1>6
<1> QED BY <1>7, <1>10, <1>9

\* Events that were true stay true.
LEMMA StillTrue ==
    ASSUME server.up \cup server.gone \subseteq (server.up \cup server.gone)', server.gone \subseteq server.gone',
           NEW r, NEW e, EventIsTrue(r, e)
    PROVE  EventIsTrue(r, e)'
BY DEF EventIsTrue

LEMMA CreateKeeps ==
    ASSUME TypeOK, ServerInv, NEW o \in Objects, Create(o)
    PROVE  ServerInv' /\ WorldSame /\ WorldTypes
<1> DEFINE e == [type |-> "added", obj |-> o]
           r == Home(o)
<1>1. /\ r \in Rooms /\ e \in Event /\ e.type = "added" /\ e.obj = o
  BY Homes DEF Event
<1>2. /\ server.up' = server.up \cup {o} /\ server.gone' = server.gone /\ o \notin server.up /\ o \notin server.gone
      /\ server' \in [up : SUBSET Objects, gone : SUBSET (Objects \cup {Others(x) : x \in Rooms})]
      /\ events' = [events EXCEPT ![r] = Append(@, e)]
  BY DEF TypeOK, Create, Report
<1>3. \A i \in DOMAIN events[r] : ~Precedes(e, events[r][i])
  BY <1>1, <1>2 DEF Precedes, ServerInv, EventIsTrue
<1>4. /\ events' \in [Rooms -> Seq(Event)]
      /\ \A x \in Objects : \A t : t \in Pending(x)' <=>
            t \in Pending(x) \/ (Home(x) = r /\ t = e.type /\ x = e.obj)
      /\ \A z \in Rooms : /\ InOrder(events'[z])
                          /\ \A i \in DOMAIN events'[z] :
                                \/ i \in DOMAIN events[z] /\ events'[z][i] = events[z][i]
                                \/ z = r /\ events'[z][i] = e
  <2>1. Reports(r, e)
    BY <1>2, <1>3 DEF Reports
  <2> HIDE DEF e
  <2> QED BY <1>1, <2>1, Reported
<1>5. \A x \in Objects : \A t : t \in Pending(x)' <=> t \in Pending(x) \/ (x = o /\ t = "added")
  BY <1>1, <1>4
<1>7. (\A z \in Rooms : \A i \in DOMAIN events[z] : EventIsTrue(z, events[z][i]))'
  <2>1. EventIsTrue(r, e)'
    BY <1>1, <1>2 DEF EventIsTrue
  <2>2. \A z, d : EventIsTrue(z, d) => EventIsTrue(z, d)'
    BY <1>2, StillTrue
  <2>3. \A z \in Rooms : \A i \in DOMAIN events[z] : EventIsTrue(z, events[z][i])
    BY DEF ServerInv
  <2> HIDE DEF e, r
  <2> QED BY <1>4, <2>1, <2>2, <2>3
<1> HIDE DEF e, r
<1>8. \A p \in Publications : Relay(p) \in server.gone' =>
          Origin(p) \in server.gone' /\ ("removed" \in Pending(Origin(p))' => "removed" \in Pending(Relay(p))')
  BY <1>2, <1>5, Kinds DEF ServerInv
<1>9. \A x \in Objects : x \in server.gone' /\ "added" \in Pending(x)' => "removed" \in Pending(x)'
  BY <1>2, <1>5 DEF ServerInv
<1>10. ServerInv'
  BY <1>2, <1>4, <1>7, <1>8, <1>9 DEF ServerInv
<1>11. WorldSame
  <2>1. ASSUME NEW x \in Objects
        PROVE  /\ WasAdded(x)' <=> WasAdded(x)
               /\ Past(x)' <=> Past(x)
               /\ x \in Channel' <=> x \in Channel
    <3>1. CASE x = o
      BY <1>2, <1>5, <3>1 DEF WasAdded, Past, Channel
    <3>2. CASE x # o
      BY <1>2, <1>5, <3>2 DEF WasAdded, Past, Channel
    <3> QED BY <3>1, <3>2
  <2> QED BY <2>1, WorldSameIf
<1> QED BY <1>2, <1>4, <1>10, <1>11 DEF WorldTypes

LEMMA DeleteKeeps ==
    ASSUME TypeOK, ServerInv, NEW o \in Objects, Delete(o),
           \A p \in Publications : o = Relay(p) => Origin(p) \in server.gone
    PROVE  ServerInv' /\ WorldSame /\ WorldTypes
<1> DEFINE e == [type |-> "removed", obj |-> o]
           r == Home(o)
<1>1. /\ r \in Rooms /\ e \in Event /\ e.type = "removed" /\ e.obj = o
  BY Homes DEF Event
<1>2. /\ server.up' = server.up \ {o} /\ server.gone' = server.gone \cup {o} /\ o \in server.up /\ o \notin server.gone
      /\ server' \in [up : SUBSET Objects, gone : SUBSET (Objects \cup {Others(x) : x \in Rooms})]
      /\ events' = [events EXCEPT ![r] = Append(@, e)]
  BY DEF TypeOK, Delete, Report, ServerInv
<1>3. \A i \in DOMAIN events[r] : ~Precedes(e, events[r][i])
  BY <1>1, <1>2, Kinds DEF Precedes, ServerInv, EventIsTrue
<1>4. /\ events' \in [Rooms -> Seq(Event)]
      /\ \A x \in Objects : \A t : t \in Pending(x)' <=>
            t \in Pending(x) \/ (Home(x) = r /\ t = e.type /\ x = e.obj)
      /\ \A z \in Rooms : /\ InOrder(events'[z])
                          /\ \A i \in DOMAIN events'[z] :
                                \/ i \in DOMAIN events[z] /\ events'[z][i] = events[z][i]
                                \/ z = r /\ events'[z][i] = e
  <2>1. Reports(r, e)
    BY <1>2, <1>3 DEF Reports
  <2> HIDE DEF e
  <2> QED BY <1>1, <2>1, Reported
<1>5. \A x \in Objects : \A t : t \in Pending(x)' <=> t \in Pending(x) \/ (x = o /\ t = "removed")
  BY <1>1, <1>4
<1>7. (\A z \in Rooms : \A i \in DOMAIN events[z] : EventIsTrue(z, events[z][i]))'
  <2>1. EventIsTrue(r, e)'
    BY <1>1, <1>2 DEF EventIsTrue
  <2>2. \A z, d : EventIsTrue(z, d) => EventIsTrue(z, d)'
    BY <1>2, StillTrue
  <2>3. \A z \in Rooms : \A i \in DOMAIN events[z] : EventIsTrue(z, events[z][i])
    BY DEF ServerInv
  <2> HIDE DEF e, r
  <2> QED BY <1>4, <2>1, <2>2, <2>3
<1> HIDE DEF e, r
<1>8. ASSUME NEW p \in Publications, Relay(p) \in server.gone'
      PROVE  Origin(p) \in server.gone' /\ ("removed" \in Pending(Origin(p))' => "removed" \in Pending(Relay(p))')
  <2>1. CASE o = Relay(p)
    BY <1>2, <1>5, <2>1
  <2>2. CASE o # Relay(p)
    <3>1. o # Origin(p) /\ Relay(p) \in server.gone
      BY <1>2, <1>8, <2>2 DEF ServerInv
    <3> QED BY <1>2, <1>5, <2>2, <3>1, Kinds DEF ServerInv
  <2> QED BY <2>1, <2>2
<1>9. \A x \in Objects : x \in server.gone' /\ "added" \in Pending(x)' => "removed" \in Pending(x)'
  BY <1>2, <1>5 DEF ServerInv
<1>10. server.up' \cap server.gone' = {}
  BY <1>2 DEF ServerInv
<1>11. ServerInv'
  BY <1>4, <1>7, <1>8, <1>9, <1>10 DEF ServerInv
<1>12. WorldSame
  <2>1. ASSUME NEW x \in Objects
        PROVE  /\ WasAdded(x)' <=> WasAdded(x)
               /\ Past(x)' <=> Past(x)
               /\ x \in Channel' <=> x \in Channel
    <3>1. CASE x = o
      BY <1>2, <1>5, <3>1 DEF WasAdded, Past, Channel
    <3>2. CASE x # o
      BY <1>2, <1>5, <3>2 DEF WasAdded, Past, Channel
    <3> QED BY <3>1, <3>2
  <2> QED BY <2>1, WorldSameIf
<1> QED BY <1>2, <1>4, <1>11, <1>12 DEF WorldTypes

LEMMA LeaveKeeps ==
    ASSUME TypeOK, ServerInv, NEW r \in Rooms, OthersLeave(r)
    PROVE  ServerInv' /\ WorldSame /\ WorldTypes
<1> DEFINE o == Others(r)
           e == [type |-> "left", obj |-> o]
<1>1. /\ e \in Event /\ e.type = "left" /\ e.obj = o /\ o \notin Objects
  BY Kinds DEF Event
<1>2. /\ server.up' = server.up /\ server.gone' = server.gone \cup {o}
      /\ server' \in [up : SUBSET Objects, gone : SUBSET (Objects \cup {Others(x) : x \in Rooms})]
      /\ events' = [events EXCEPT ![r] = Append(@, e)] /\ server.up \subseteq Objects
  BY DEF TypeOK, OthersLeave, Report
<1>3. \A i \in DOMAIN events[r] : ~Precedes(e, events[r][i])
  BY <1>1 DEF Precedes
<1>4. /\ events' \in [Rooms -> Seq(Event)]
      /\ \A x \in Objects : \A t : t \in Pending(x)' <=>
            t \in Pending(x) \/ (Home(x) = r /\ t = e.type /\ x = e.obj)
      /\ \A z \in Rooms : /\ InOrder(events'[z])
                          /\ \A i \in DOMAIN events'[z] :
                                \/ i \in DOMAIN events[z] /\ events'[z][i] = events[z][i]
                                \/ z = r /\ events'[z][i] = e
  <2>1. Reports(r, e)
    BY <1>2, <1>3 DEF Reports
  <2> HIDE DEF e, o
  <2> QED BY <1>1, <2>1, Reported
<1>5. \A x \in Objects : \A t : t \in Pending(x)' <=> t \in Pending(x)
  BY <1>1, <1>4
<1>7. (\A z \in Rooms : \A i \in DOMAIN events[z] : EventIsTrue(z, events[z][i]))'
  <2>1. EventIsTrue(r, e)'
    BY <1>1, <1>2 DEF EventIsTrue
  <2>2. \A z, d : EventIsTrue(z, d) => EventIsTrue(z, d)'
    BY <1>2, StillTrue
  <2>3. \A z \in Rooms : \A i \in DOMAIN events[z] : EventIsTrue(z, events[z][i])
    BY DEF ServerInv
  <2> HIDE DEF e
  <2> QED BY <1>4, <2>1, <2>2, <2>3
<1> HIDE DEF e, o
<1>8. \A x \in Objects : x \in server.gone' <=> x \in server.gone
  BY <1>1, <1>2
<1>9. \A p \in Publications : Relay(p) \in server.gone' =>
          Origin(p) \in server.gone' /\ ("removed" \in Pending(Origin(p))' => "removed" \in Pending(Relay(p))')
  BY <1>5, <1>8, Kinds DEF ServerInv
<1>10. \A x \in Objects : x \in server.gone' /\ "added" \in Pending(x)' => "removed" \in Pending(x)'
  BY <1>5, <1>8 DEF ServerInv
<1>11. server.up' \cap server.gone' = {}
  BY <1>1, <1>2 DEF ServerInv
<1>12. ServerInv'
  BY <1>4, <1>7, <1>9, <1>10, <1>11 DEF ServerInv
<1>13. WorldSame
  <2>1. ASSUME NEW x \in Objects
        PROVE  /\ WasAdded(x)' <=> WasAdded(x)
               /\ Past(x)' <=> Past(x)
               /\ x \in Channel' <=> x \in Channel
    BY <1>2, <1>5, <1>8 DEF WasAdded, Past, Channel
  <2> QED BY <2>1, WorldSameIf
<1> QED BY <1>2, <1>4, <1>12, <1>13 DEF WorldTypes

\* Most steps leave the server and the events alone.
LEMMA SameWorld ==
    ASSUME TypeOK, ServerInv, UNCHANGED <<server, events>>
    PROVE  ServerInv' /\ WorldSame /\ WorldTypes
<1>1. \A x : Pending(x)' = Pending(x)
  BY DEF Pending
<1>2. ServerInv'
  BY <1>1 DEF ServerInv, EventIsTrue
<1>3. ASSUME NEW x \in Objects
      PROVE  /\ WasAdded(x)' <=> WasAdded(x)
             /\ Past(x)' <=> Past(x)
             /\ x \in Channel' <=> x \in Channel
  BY <1>1 DEF WasAdded, Past, Channel
<1> QED BY <1>2, <1>3, WorldSameIf DEF WorldTypes, TypeOK, Event

-----------------------------------------------------------------------------
(* What a channel applies is what the server did                           *)

\* The channel of an object is r, and has it from now on, or until now.
Appears(o, r) ==
    /\ o \in Objects /\ Home(o) = r /\ ~WasAdded(o) /\ WasAdded(o)'
    /\ \A x \in Objects : /\ x \in Channel' <=> x \in Channel \/ x = o
                          /\ x # o => (WasAdded(x)' <=> WasAdded(x)) /\ (Past(x)' <=> Past(x))

Disappears(o, r) ==
    /\ o \in Objects /\ Home(o) = r /\ o \in Channel /\ ~Past(o) /\ Past(o)'
    /\ \A x \in Objects : /\ x \in Channel' <=> x \in Channel /\ x # o
                          /\ WasAdded(x)' <=> WasAdded(x)
                          /\ x # o => (Past(x)' <=> Past(x))

LEMMA AppliedKeeps ==
    ASSUME TypeOK, ServerInv, NEW r \in Rooms, ApplyEvent(r)
    PROVE  /\ ServerInv' /\ WorldTypes
           /\ \E e \in Event : /\ e = Head(events[r])
                               /\ e.type = "left" => WorldSame
                               /\ e.type = "added" => Appears(e.obj, r)
                               /\ e.type = "removed" => Disappears(e.obj, r)
<1> PICK e : e = Head(events[r])
  OBVIOUS
<1> DEFINE q == events[r]
           o == e.obj
           tail == Tail(q)
<1>1. /\ events \in [Rooms -> Seq(Event)] /\ events' = [events EXCEPT ![r] = tail]
      /\ server' = server /\ q # << >> /\ q \in Seq(Event) /\ InOrder(q)
      /\ server \in [up : SUBSET Objects, gone : SUBSET (Objects \cup {Others(x) : x \in Rooms})]
  BY DEF TypeOK, Event, ApplyEvent, ServerInv
<1>2. /\ e \in Event /\ e = q[1] /\ 1 \in DOMAIN q
      /\ tail \in Seq(Event) /\ InOrder(tail)
      /\ \A i \in DOMAIN tail : i + 1 \in DOMAIN q /\ tail[i] = q[i + 1]
      /\ \A i \in DOMAIN q : i # 1 => ~Precedes(q[i], e)
      /\ e.type \in PendingIn(q, o)
      /\ \A x, t : t \in PendingIn(tail, x) => t \in PendingIn(q, x)
      /\ \A x, t : t \in PendingIn(q, x) /\ (t # e.type \/ x # o) => t \in PendingIn(tail, x)
      /\ e.type # "left" => e.type \notin PendingIn(tail, o)
  <2>1. e = Head(q)
    OBVIOUS
  <2> HIDE DEF q
  <2> QED BY <1>1, <2>1, Shifted
<1>3. q = events[r] /\ events'[r] = tail /\ \A x \in Rooms : x # r => events'[x] = events[x]
  BY <1>1
<1>4. EventIsTrue(r, e)
  BY <1>2 DEF ServerInv
<1> HIDE DEF q, tail, o
<1>5. \A x \in Objects : \A t : t \in Pending(x)' => t \in Pending(x)
  BY <1>2, <1>3, PendingOf, Homes
<1>6. \A x \in Objects : \A t : t \in Pending(x) /\ (t # e.type \/ x # o) => t \in Pending(x)'
  BY <1>2, <1>3, PendingOf, Homes
<1>7. e.type # "left" => /\ o \in Objects /\ Home(o) = r /\ o \in server.up \cup server.gone
                         /\ e.type \in Pending(o) /\ e.type \notin Pending(o)'
  <2>1. SUFFICES ASSUME e.type # "left"
                 PROVE  /\ o \in Objects /\ Home(o) = r /\ o \in server.up \cup server.gone
                        /\ e.type \in Pending(o) /\ e.type \notin Pending(o)'
    OBVIOUS
  <2>2. o \in Objects /\ Home(o) = r /\ o \in server.up \cup server.gone
    BY <1>4, <2>1 DEF EventIsTrue, o
  <2> QED BY <1>2, <1>3, <2>1, <2>2, PendingOf
<1>8. e.type = "removed" => o \in server.gone /\ "added" \notin Pending(o)
  <2>1. SUFFICES ASSUME e.type = "removed", "added" \in PendingIn(q, o) PROVE FALSE
    BY <1>3, <1>4, <1>7, PendingOf DEF EventIsTrue, o
  <2>2. PICK i \in DOMAIN q : q[i].type = "added" /\ q[i].obj = o
    BY <2>1, PendingIs
  <2>3. Precedes(q[i], e) /\ i # 1
    BY <1>2, <2>1, <2>2 DEF Precedes, o
  <2> QED BY <1>2, <2>3
<1>9. e.type = "left" => o \notin Objects
  BY <1>4, Kinds DEF EventIsTrue, o
<1>10. ASSUME NEW p \in Publications, Relay(p) \in server.gone, "removed" \in Pending(Origin(p))'
       PROVE  "removed" \in Pending(Relay(p))'
  <2>1. "removed" \in Pending(Origin(p)) /\ "removed" \in Pending(Relay(p))
    BY <1>5, <1>10, Kinds DEF ServerInv
  <2>2. SUFFICES ASSUME e.type = "removed", o = Relay(p) PROVE FALSE
    BY <1>6, <2>1, Kinds
  <2>3. "removed" \in PendingIn(q, Origin(p))
    BY <1>3, <1>7, <2>1, <2>2, PendingOf, Homes
  <2>4. PICK i \in DOMAIN q : q[i].type = "removed" /\ q[i].obj = Origin(p)
    BY <2>3, PendingIs
  <2>5. Origin(p) # Relay(p)
    BY Kinds
  <2>6. Precedes(q[i], e) /\ i # 1
    BY <1>2, <2>2, <2>4, <2>5 DEF Precedes, o
  <2> QED BY <1>2, <2>6
<1>11. ASSUME NEW x \in Objects, x \in server.gone, "added" \in Pending(x)'
       PROVE  "removed" \in Pending(x)'
  BY <1>5, <1>6, <1>8, <1>11 DEF ServerInv
<1>12. (\A z \in Rooms : \A i \in DOMAIN events[z] : EventIsTrue(z, events[z][i]))'
  <2>1. \A z, d : EventIsTrue(z, d) => EventIsTrue(z, d)'
    BY <1>1, StillTrue
  <2>2. \A z \in Rooms : \A i \in DOMAIN events[z] : EventIsTrue(z, events[z][i])
    BY DEF ServerInv
  <2> QED BY <1>2, <1>3, <2>1, <2>2
<1>13. \A z \in Rooms : InOrder(events'[z])
  BY <1>2, <1>3 DEF ServerInv
<1>14. ServerInv'
  BY <1>1, <1>10, <1>11, <1>12, <1>13 DEF ServerInv
<1>15. WorldTypes
  BY <1>1, <1>2 DEF WorldTypes
<1>16. ASSUME NEW x \in Objects, x # o
       PROVE  /\ WasAdded(x)' <=> WasAdded(x)
              /\ Past(x)' <=> Past(x)
              /\ x \in Channel' <=> x \in Channel
  BY <1>1, <1>5, <1>6, <1>16 DEF WasAdded, Past, Channel
<1>17. e.type = "left" => WorldSame
  BY <1>9, <1>16, WorldSameIf
<1>18. ASSUME e.type = "added"
       PROVE  Appears(o, r)
  <2>1. o \in Objects /\ Home(o) = r /\ o \in server.up \cup server.gone /\ "added" \in Pending(o) /\ "added" \notin Pending(o)'
    BY <1>7, <1>18
  <2>2. ~WasAdded(o) /\ WasAdded(o)' /\ o \notin Channel
    BY <1>1, <2>1 DEF WasAdded, Channel
  <2>3. o \in server.gone => "removed" \in Pending(o)'
    BY <1>6, <1>18, <2>1 DEF ServerInv
  <2>4. o \in Channel'
    BY <1>1, <2>1, <2>2, <2>3 DEF Channel
  <2> QED BY <1>16, <2>1, <2>2, <2>4 DEF Appears
<1>19. ASSUME e.type = "removed"
       PROVE  Disappears(o, r)
  <2>1. /\ o \in Objects /\ Home(o) = r /\ o \in server.gone /\ "removed" \in Pending(o) /\ "removed" \notin Pending(o)'
        /\ "added" \notin Pending(o) /\ "added" \notin Pending(o)'
    BY <1>5, <1>7, <1>8, <1>19
  <2>2. WasAdded(o) /\ WasAdded(o)' /\ o \in Channel /\ o \notin Channel' /\ ~Past(o) /\ Past(o)'
    BY <1>1, <2>1 DEF WasAdded, Channel, Past
  <2> QED BY <1>16, <2>1, <2>2 DEF Disappears
<1> QED BY <1>2, <1>14, <1>15, <1>17, <1>18, <1>19 DEF q, o

-----------------------------------------------------------------------------
(* Steps that leave a part of the invariant alone                          *)

LEMMA VisibleIs == /\ \A o : Visible(o) <=> kind = "p2p" \/ (o \notin Origins /\ o \notin orphans)
                   /\ \A o : Visible(o)' <=> kind' = "p2p" \/ (o \notin Origins /\ o \notin orphans')
BY DEF Visible, Origins

LEMMA ListsKept ==
    ASSUME TypeOK, ListsInv, WorldSame, UNCHANGED <<kind, shown>>
    PROVE  ListsInv'
<1>1. \A o : Visible(o)' <=> Visible(o)
  BY VisibleIs DEF shown
<1>2. \A o \in orphans : o \in Objects
  BY DEF TypeOK, Objects
<1>3. (\A o \in orphans : WasAdded(o))'
  BY <1>2 DEF ListsInv, WorldSame, shown
<1>4. (\A r \in Rooms : lists[r] = {o \in Channel : Home(o) = r /\ Visible(o)} \cup late[r])'
  BY <1>1 DEF ListsInv, WorldSame, shown
<1>5. (\A r \in Rooms, o \in Objects : o \in late[r] =>
          /\ o \notin Persons
          /\ Home(o) = r => Past(o) \/ (WasAdded(o) /\ ~Visible(o)))'
  BY <1>1 DEF ListsInv, WorldSame, shown
<1> QED BY <1>3, <1>4, <1>5 DEF ListsInv

\* The calls of the member and its moves are as before, but for what has failed.
PersonsKept ==
    /\ UNCHANGED local
    /\ \A r \in Rooms :
          /\ adding'[Person(r)] \in {"sent", "executed"} => adding[Person(r)] \in {"sent", "executed"}
          /\ adding'[Person(r)] = "done" <=> adding[Person(r)] = "done"
          /\ adding'[Person(r)] # "none" => adding[Person(r)] # "none"
          /\ removing'[Person(r)] \in {"sent", "executed"} => removing[Person(r)] \in {"sent", "executed"}

LEMMA MemberKept ==
    ASSUME TypeOK, MemberInv, Channel' = Channel, PersonsKept
    PROVE  MemberInv'
<1>1. member' = member /\ moveTo' = moveTo /\ localRoomMember' = localRoomMember
  BY DEF PersonsKept, local
<1>2. member.person \in Rooms \cup {Nowhere} /\ member.origin \in Rooms \cup {Nowhere} /\ moveTo \in Rooms \cup {Nowhere}
  BY DEF TypeOK
<1>3. (member.person # Nowhere => /\ member.person = member.room /\ member.origin # Nowhere
                                  /\ Person(member.person) \in Channel)'
  BY <1>1 DEF MemberInv
<1>4. (member.origin # Nowhere => adding[Person(member.origin)] = "done")'
  BY <1>1, <1>2 DEF MemberInv, PersonsKept
<1>5. (moveTo # Nowhere => /\ member.origin # Nowhere /\ adding[Person(moveTo)] # "done"
                           /\ adding[Person(moveTo)] \in {"sent", "executed"} => member.person = Nowhere)'
  BY <1>1, <1>2 DEF MemberInv, PersonsKept
<1>6. (\A r \in Rooms :
          /\ localRoomMember[r] => member.origin = r /\ Person(r) \in Channel
          /\ adding[Person(r)] \in {"sent", "executed"} /\ moveTo # r => member.origin = Nowhere
          /\ removing[Person(r)] \in {"sent", "executed"} => member.person = r)'
  BY <1>1 DEF MemberInv, PersonsKept
<1>7. (member.origin = Nowhere =>
          \A r, x \in Rooms : adding[Person(r)] # "none" /\ adding[Person(x)] # "none" => r = x)'
  BY <1>1 DEF MemberInv, PersonsKept
<1> QED BY <1>3, <1>4, <1>5, <1>6, <1>7 DEF MemberInv

LEMMA TargetSame == ASSUME UNCHANGED kind PROVE \A s : Target(s)' = Target(s)
BY DEF Target, Shown

\* A call is still under way, has failed, or has returned.
CallsOnly ==
    /\ UNCHANGED stream
    /\ \A o \in Objects : /\ removing'[o] \in {"sent", "executed"} => removing[o] \in {"sent", "executed"} /\ waitsIn'[o] = waitsIn[o]
                          /\ removing'[o] = "done" => removing[o] = "done"
    /\ \A s \in Subs : /\ adding'[s] = "waiting" => adding[s] = "waiting"
                       /\ adding'[s] \in {"ending", "done"} => adding[s] \in {"ending", "done"}

LEMMA CallsKept ==
    ASSUME CallsInv, WorldSame, UNCHANGED <<kind, orphans>>, CallsOnly
    PROVE  CallsInv'
<1>1. /\ \A o : Visible(o)' <=> Visible(o)
      /\ \A s : Target(s)' = Target(s)
  BY VisibleIs, TargetSame
<1>2. (\A o \in Objects : /\ removing[o] \in {"sent", "executed"} => waitsIn[o] = Home(o) /\ o \in Channel /\ Visible(o)
                          /\ removing[o] = "done" => Past(o))'
  BY <1>1 DEF CallsInv, WorldSame, CallsOnly
<1>3. ASSUME NEW s \in Subs
      PROVE  (/\ stream[s] # "none" \/ adding[s] \in {"waiting", "ending", "done"} => WasAdded(s)
              /\ adding[s] = "waiting" => stream[s] # "attached")'
  BY Kinds DEF CallsInv, WorldSame, CallsOnly
<1>4. ASSUME NEW s \in Subs, adding'[s] \in {"ending", "done"}, stream'[s] # "attached"
      PROVE  \E x \in Subs \ {s} : Target(x)' = Target(s)' /\ stream'[x] = "attached"
  BY <1>1, <1>4 DEF CallsInv, CallsOnly
<1> QED BY <1>2, <1>3, <1>4 DEF CallsInv

-----------------------------------------------------------------------------
(* The steps that change neither the lists nor the member                  *)

RestTypes ==
    /\ kind \in {"p2p", "sfu"}
    /\ orphans \subseteq Relays
    /\ lists \in [Rooms -> SUBSET Objects] /\ late \in [Rooms -> SUBSET Objects]
    /\ localRoomMember \in [Rooms -> BOOLEAN]
    /\ member \in [room : Rooms \cup {Nowhere}, origin : Rooms \cup {Nowhere}, person : Rooms \cup {Nowhere}]
    /\ adding \in [Objects -> {"none", "sent", "executed", "waiting", "ending", "done", "failed"}]
    /\ removing \in [Objects -> {"none", "sent", "executed", "refused", "done", "failed"}]
    /\ waitsIn \in [Objects -> Rooms \cup {Nowhere}]
    /\ moveTo \in Rooms \cup {Nowhere}
    /\ stream \in [Subs -> {"none", "starting", "attached", "failed"}]
    /\ calls \in 0..MaxCalls /\ troubles \in 0..MaxTroubles

LEMMA TypeParts == /\ TypeOK => RestTypes
                   /\ WorldTypes /\ RestTypes' => TypeOK'
BY DEF TypeOK, RestTypes, WorldTypes, Event

LEMMA Counted == /\ Call /\ calls \in 0..MaxCalls => calls' \in 0..MaxCalls
                 /\ Trouble /\ troubles \in 0..MaxTroubles => troubles' \in 0..MaxTroubles
BY RoomAssumption DEF Call, Trouble

LEMMA QuietStep ==
    ASSUME IInv, ServerInv', WorldSame, WorldTypes, RestTypes', UNCHANGED <<kind, shown>>, PersonsKept, CallsOnly
    PROVE  IInv'
<1>1. TypeOK'
  BY TypeParts
<1>2. ListsInv'
  BY ListsKept DEF IInv
<1>3. MemberInv'
  BY MemberKept DEF IInv, WorldSame
<1>4. CallsInv'
  BY CallsKept DEF IInv, shown
<1> QED BY <1>1, <1>2, <1>3, <1>4 DEF IInv

LEMMA ExecuteAddKeeps == ASSUME IInv, NEW o \in Objects, ExecuteAdd(o) PROVE IInv'
<1>1. TypeOK /\ ServerInv /\ RestTypes /\ Create(o)
  BY TypeParts DEF IInv, ExecuteAdd
<1>2. ServerInv' /\ WorldSame /\ WorldTypes
  BY <1>1, CreateKeeps
<1>3. /\ adding[o] = "sent" /\ adding' = [adding EXCEPT ![o] = "executed"]
      /\ UNCHANGED <<shown, local, kind, calls, removing, waitsIn, stream, troubles>>
  BY DEF ExecuteAdd
<1>4. RestTypes'
  BY <1>1, <1>3 DEF RestTypes, shown, local
<1>5. PersonsKept
  BY <1>1, <1>3, Kinds DEF PersonsKept, RestTypes
<1>6. CallsOnly
  BY <1>1, <1>3, Kinds DEF CallsOnly, RestTypes
<1> QED BY <1>2, <1>3, <1>4, <1>5, <1>6, QuietStep

LEMMA ExecuteRemoveKeeps == ASSUME IInv, NEW o \in Objects, ExecuteRemove(o) PROVE IInv'
<1> DEFINE d == IF o \in Relays THEN Origin(o[2]) ELSE o
<1>1. TypeOK /\ ServerInv /\ RestTypes /\ Delete(d)
  BY TypeParts DEF IInv, ExecuteRemove
<1>2. d \in Objects /\ d \notin Relays
  BY Kinds
<1>3. ServerInv' /\ WorldSame /\ WorldTypes
  <2> HIDE DEF d
  <2> QED BY <1>1, <1>2, DeleteKeeps, Kinds
<1>4. /\ removing[o] = "sent" /\ removing' = [removing EXCEPT ![o] = "executed"]
      /\ UNCHANGED <<shown, local, kind, calls, adding, waitsIn, stream, troubles>>
  BY DEF ExecuteRemove
<1>5. RestTypes'
  BY <1>1, <1>4 DEF RestTypes, shown, local
<1>6. PersonsKept
  BY <1>1, <1>4, Kinds DEF PersonsKept, RestTypes
<1>7. CallsOnly
  BY <1>1, <1>4, Kinds DEF CallsOnly, RestTypes
<1> QED BY <1>3, <1>4, <1>5, <1>6, <1>7, QuietStep

LEMMA OthersRemoveKeeps == ASSUME IInv, NEW o \in Objects, OthersRemove(o) PROVE IInv'
<1>1. TypeOK /\ ServerInv /\ RestTypes /\ Delete(o)
  BY TypeParts DEF IInv, OthersRemove
<1>2. ASSUME NEW p \in Publications, o = Relay(p) PROVE Origin(p) \in server.gone
  <2>1. o \in Relays /\ o \notin Origins /\ o \notin Subs /\ o[2] = p
    BY <1>2, Kinds
  <2>2. {Origin(x) : x \in Theirs} \subseteq Origins /\ {Origin(x) : x \in Mine} \subseteq Origins
    BY DEF Origins, Publications
  <2> QED BY <2>1, <2>2 DEF OthersRemove
<1>3. ServerInv' /\ WorldSame /\ WorldTypes
  BY <1>1, <1>2, DeleteKeeps
<1>4. UNCHANGED <<shown, local, requests, kind, calls, stream, troubles>>
  BY DEF OthersRemove
<1>5. RestTypes'
  BY <1>1, <1>4 DEF RestTypes, shown, local, requests
<1>6. PersonsKept /\ CallsOnly
  BY <1>4 DEF PersonsKept, CallsOnly, requests
<1> QED BY <1>3, <1>4, <1>5, <1>6, QuietStep

LEMMA OthersLeaveKeeps == ASSUME IInv, NEW r \in Rooms, OthersLeave(r) PROVE IInv'
<1>1. TypeOK /\ ServerInv /\ RestTypes
  BY TypeParts DEF IInv
<1>2. ServerInv' /\ WorldSame /\ WorldTypes
  BY <1>1, LeaveKeeps
<1>3. UNCHANGED <<shown, local, requests, kind, calls, stream, troubles>>
  BY DEF OthersLeave
<1>4. RestTypes'
  BY <1>1, <1>3 DEF RestTypes, shown, local, requests
<1>5. PersonsKept /\ CallsOnly
  BY <1>3 DEF PersonsKept, CallsOnly, requests
<1> QED BY <1>2, <1>3, <1>4, <1>5, QuietStep

LEMMA TimeoutKeeps == ASSUME IInv, NEW o \in Objects, Timeout(o) PROVE IInv'
<1>1. TypeOK /\ ServerInv /\ RestTypes
  BY TypeParts DEF IInv
<1>2. UNCHANGED <<shown, local, kind, calls, server, events, waitsIn, stream>> /\ Trouble
  BY DEF Timeout
<1>3. ServerInv' /\ WorldSame /\ WorldTypes
  BY <1>1, <1>2, SameWorld
<1>4. \/ adding[o] \in {"waiting", "executed"} /\ adding' = [adding EXCEPT ![o] = "failed"] /\ removing' = removing
      \/ removing' = [removing EXCEPT ![o] = "failed"] /\ adding' = adding
  BY DEF Timeout, NotListed
<1>5. RestTypes'
  BY <1>1, <1>2, <1>4, Counted DEF RestTypes, shown, local
<1>6. PersonsKept
  BY <1>1, <1>2, <1>4, Kinds DEF PersonsKept, RestTypes
<1>7. CallsOnly
  BY <1>1, <1>2, <1>4, Kinds DEF CallsOnly, RestTypes
<1> QED BY <1>2, <1>3, <1>5, <1>6, <1>7, QuietStep

LEMMA publishKeeps == ASSUME IInv, NEW p \in Mine, publish(p) PROVE IInv'
<1>1. TypeOK /\ ServerInv /\ RestTypes
  BY TypeParts DEF IInv
<1>2. UNCHANGED <<kind, server, events, troubles, shown, local, removing, waitsIn, stream>> /\ Call
  BY DEF publish, world
<1>3. ServerInv' /\ WorldSame /\ WorldTypes
  BY <1>1, <1>2, SameWorld
<1>4. adding' = [adding EXCEPT ![Origin(p)] = "sent"] /\ Origin(p) \in Objects /\ Origin(p) \notin Persons /\ Origin(p) \notin Subs
  BY Kinds DEF publish
<1>5. RestTypes'
  BY <1>1, <1>2, <1>4, Counted DEF RestTypes, shown, local
<1>6. PersonsKept
  BY <1>1, <1>2, <1>4, Kinds DEF PersonsKept, RestTypes
<1>7. CallsOnly
  BY <1>1, <1>2, <1>4, Kinds DEF CallsOnly, RestTypes
<1> QED BY <1>2, <1>3, <1>5, <1>6, <1>7, QuietStep

LEMMA ForwardKeeps == ASSUME IInv, NEW p \in Mine, Forward(p) PROVE IInv'
<1> DEFINE o == Origin(p)
           u == Relay(p)
<1>1. TypeOK /\ ServerInv /\ RestTypes
  BY TypeParts DEF IInv
<1>2. UNCHANGED <<kind, server, events, troubles, shown, local, calls, removing, waitsIn, stream>>
  BY DEF Forward, world
<1>3. ServerInv' /\ WorldSame /\ WorldTypes
  BY <1>1, <1>2, SameWorld
<1>4. /\ adding' = [adding EXCEPT ![o] = "done", ![u] = "sent"]
      /\ o \in Objects /\ o \notin Persons /\ o \notin Subs
      /\ u \in Objects /\ u \notin Persons /\ u \notin Subs
  BY Kinds DEF Forward
<1> HIDE DEF o, u
<1>5. /\ adding' \in [Objects -> {"none", "sent", "executed", "waiting", "ending", "done", "failed"}]
      /\ \A x \in Objects : x \in Persons \cup Subs => adding'[x] = adding[x]
  BY <1>1, <1>4 DEF RestTypes
<1>6. RestTypes'
  BY <1>1, <1>2, <1>5 DEF RestTypes, shown, local
<1>7. PersonsKept
  BY <1>2, <1>5, Kinds DEF PersonsKept
<1>8. CallsOnly
  BY <1>2, <1>5, Kinds DEF CallsOnly
<1> QED BY <1>2, <1>3, <1>6, <1>7, <1>8, QuietStep

LEMMA subscribeKeeps == ASSUME IInv, NEW s \in Subs, subscribe(s) PROVE IInv'
<1>1. TypeOK /\ ServerInv /\ RestTypes
  BY TypeParts DEF IInv
<1>2. UNCHANGED <<kind, server, events, troubles, shown, local, removing, waitsIn, stream>> /\ Call
  BY DEF subscribe, world
<1>3. ServerInv' /\ WorldSame /\ WorldTypes
  BY <1>1, <1>2, SameWorld
<1>4. adding' = [adding EXCEPT ![s] = "sent"] /\ s \in Objects /\ s \notin Persons
  BY Kinds DEF subscribe
<1>5. RestTypes'
  BY <1>1, <1>2, <1>4, Counted DEF RestTypes, shown, local
<1>6. PersonsKept
  BY <1>1, <1>2, <1>4, Kinds DEF PersonsKept, RestTypes
<1>7. CallsOnly
  BY <1>1, <1>2, <1>4, Kinds DEF CallsOnly, RestTypes
<1> QED BY <1>2, <1>3, <1>5, <1>6, <1>7, QuietStep

-----------------------------------------------------------------------------
(* Joining, leaving and moving                                             *)

LEMMA joinKeeps == ASSUME IInv, NEW r \in Rooms, join(r) PROVE IInv'
<1>1. TypeOK /\ ServerInv /\ RestTypes /\ ListsInv /\ MemberInv /\ CallsInv
  BY TypeParts DEF IInv
<1>2. UNCHANGED <<kind, server, events, troubles, shown, local, removing, waitsIn, stream>> /\ Call
  BY DEF join, world
<1>3. ServerInv' /\ WorldSame /\ WorldTypes
  BY <1>1, <1>2, SameWorld
<1>4. /\ adding' = [adding EXCEPT ![Person(r)] = "sent"] /\ Person(r) \in Objects
      /\ \A x \in Rooms : adding[Person(x)] = "none"
  BY Kinds DEF join
<1>5. RestTypes'
  BY <1>1, <1>2, <1>4, Counted DEF RestTypes, shown, local
<1>6. CallsOnly
  BY <1>1, <1>2, <1>4, Kinds DEF CallsOnly, RestTypes
<1>7. \A x \in Rooms : adding'[Person(x)] = IF x = r THEN "sent" ELSE "none"
  BY <1>1, <1>4, Kinds DEF RestTypes
<1>8. /\ member.origin = Nowhere /\ member.person = Nowhere /\ moveTo = Nowhere
      /\ member' = member /\ moveTo' = moveTo /\ localRoomMember' = localRoomMember /\ removing' = removing
  BY <1>1, <1>2, <1>4 DEF MemberInv, RestTypes, local
<1>9. MemberInv'
  <2>1. (\A x \in Rooms :
            /\ localRoomMember[x] => member.origin = x /\ Person(x) \in Channel
            /\ adding[Person(x)] \in {"sent", "executed"} /\ moveTo # x => member.origin = Nowhere
            /\ removing[Person(x)] \in {"sent", "executed"} => member.person = x)'
    BY <1>1, <1>3, <1>8 DEF MemberInv, WorldSame
  <2> QED BY <1>7, <1>8, <2>1 DEF MemberInv
<1> QED BY <1>1, <1>2, <1>3, <1>5, <1>6, <1>9, TypeParts, ListsKept, CallsKept DEF IInv, shown

\* leave and moveRoom: the member's person is asked to go.
LEMMA LeavingKeeps ==
    ASSUME IInv, member.person \in Rooms, UNCHANGED <<kind, server, events, troubles, shown, adding, stream>>,
           LET o == Person(member.person)
           IN  /\ removing' = [removing EXCEPT ![o] = "sent"]
               /\ waitsIn' = [waitsIn EXCEPT ![o] = member.person]
    PROVE  ServerInv' /\ WorldSame /\ WorldTypes /\ ListsInv' /\ CallsInv'
<1> DEFINE o == Person(member.person)
<1>1. TypeOK /\ ServerInv /\ RestTypes /\ ListsInv /\ MemberInv /\ CallsInv
  BY TypeParts DEF IInv
<1>2. ServerInv' /\ WorldSame /\ WorldTypes
  BY <1>1, SameWorld
<1>3. ListsInv'
  BY <1>1, <1>2, ListsKept
<1>4. o \in Objects /\ o \in Channel /\ Visible(o) /\ Home(o) = member.person
  <2>1. o \in Objects /\ o \in Channel /\ Home(o) = member.person
    BY <1>1, Kinds, Homes DEF MemberInv
  <2>2. o \notin Origins /\ o \notin orphans
    BY <1>1, Kinds DEF RestTypes
  <2> QED BY <2>1, <2>2, VisibleIs
<1>5. /\ \A x : Visible(x)' <=> Visible(x)
      /\ \A s : Target(s)' = Target(s)
  BY VisibleIs, TargetSame DEF shown
<1>6. removing' = [removing EXCEPT ![o] = "sent"] /\ waitsIn' = [waitsIn EXCEPT ![o] = member.person]
  OBVIOUS
<1> HIDE DEF o
<1>7. (\A x \in Objects : /\ removing[x] \in {"sent", "executed"} => waitsIn[x] = Home(x) /\ x \in Channel /\ Visible(x)
                          /\ removing[x] = "done" => Past(x))'
  BY <1>1, <1>2, <1>4, <1>5, <1>6 DEF CallsInv, WorldSame, RestTypes
<1>8. (\A s \in Subs : /\ stream[s] # "none" \/ adding[s] \in {"waiting", "ending", "done"} => WasAdded(s)
                       /\ adding[s] = "waiting" => stream[s] # "attached"
                       /\ adding[s] \in {"ending", "done"} /\ stream[s] # "attached" =>
                             \E x \in Subs \ {s} : Target(x) = Target(s) /\ stream[x] = "attached")'
  BY <1>1, <1>2, <1>5, Kinds DEF CallsInv, WorldSame
<1> QED BY <1>2, <1>3, <1>7, <1>8 DEF CallsInv

LEMMA leaveKeeps == ASSUME IInv, NEW r \in Rooms, leave(r) PROVE IInv'
<1>1. TypeOK /\ RestTypes /\ MemberInv
  BY TypeParts DEF IInv
<1>2. /\ UNCHANGED <<kind, server, events, troubles, shown, local, adding, stream>> /\ Call /\ member.person = r
      /\ removing' = [removing EXCEPT ![Person(r)] = "sent"] /\ waitsIn' = [waitsIn EXCEPT ![Person(r)] = r]
  BY DEF leave, world
<1>3. ServerInv' /\ WorldSame /\ WorldTypes /\ ListsInv' /\ CallsInv'
  BY <1>2, LeavingKeeps
<1>4. RestTypes'
  BY <1>1, <1>2, Counted, Kinds DEF RestTypes, shown, local
<1>5. \A x \in Rooms : x # r => removing'[Person(x)] = removing[Person(x)]
  BY <1>1, <1>2, Kinds DEF RestTypes
<1>6. MemberInv'
  <2>1. (\A x \in Rooms :
            /\ localRoomMember[x] => member.origin = x /\ Person(x) \in Channel
            /\ adding[Person(x)] \in {"sent", "executed"} /\ moveTo # x => member.origin = Nowhere
            /\ removing[Person(x)] \in {"sent", "executed"} => member.person = x)'
    BY <1>1, <1>2, <1>3, <1>5 DEF MemberInv, WorldSame, local
  <2> QED BY <1>1, <1>2, <1>3, <2>1 DEF MemberInv, WorldSame, local
<1> QED BY <1>3, <1>4, <1>6, TypeParts DEF IInv

LEMMA moveRoomKeeps == ASSUME IInv, NEW r \in Rooms, moveRoom(r) PROVE IInv'
<1> DEFINE o == Person(member.person)
<1>1. TypeOK /\ RestTypes /\ MemberInv
  BY TypeParts DEF IInv
<1>2. /\ UNCHANGED <<kind, server, events, troubles, shown, localRoomMember, member, adding, stream>> /\ Call
      /\ member.person \in Rooms /\ moveTo = Nowhere /\ moveTo' = r /\ adding[Person(r)] = "none"
      /\ removing' = [removing EXCEPT ![o] = "sent"] /\ waitsIn' = [waitsIn EXCEPT ![o] = member.person]
  BY <1>1 DEF moveRoom, world, RestTypes
<1>3. ServerInv' /\ WorldSame /\ WorldTypes /\ ListsInv' /\ CallsInv'
  BY <1>2, LeavingKeeps
<1>4. RestTypes'
  BY <1>1, <1>2, Counted, Kinds DEF RestTypes, shown
<1>5. \A x \in Rooms : x # member.person => removing'[Person(x)] = removing[Person(x)]
  BY <1>1, <1>2, Kinds DEF RestTypes
<1>6. member.origin # Nowhere /\ Nowhere \notin Rooms
  BY <1>1, <1>2, Kinds DEF MemberInv
<1>7. MemberInv'
  <2>1. (\A x \in Rooms :
            /\ localRoomMember[x] => member.origin = x /\ Person(x) \in Channel
            /\ adding[Person(x)] \in {"sent", "executed"} /\ moveTo # x => member.origin = Nowhere
            /\ removing[Person(x)] \in {"sent", "executed"} => member.person = x)'
    BY <1>1, <1>2, <1>3, <1>5, <1>6 DEF MemberInv, WorldSame
  <2> QED BY <1>1, <1>2, <1>3, <1>6, <2>1 DEF MemberInv, WorldSame
<1> QED BY <1>3, <1>4, <1>7, TypeParts DEF IInv

LEMMA JoinedKeeps == ASSUME IInv, NEW r \in Rooms, Joined(r) PROVE IInv'
<1> DEFINE o == Person(r)
<1>1. TypeOK /\ ServerInv /\ RestTypes /\ ListsInv /\ MemberInv /\ CallsInv
  BY TypeParts DEF IInv
<1>2. /\ UNCHANGED <<kind, server, events, troubles, shown, calls, removing, waitsIn, stream>>
      /\ adding[o] = "executed" /\ adding' = [adding EXCEPT ![o] = "done"] /\ o \in Objects /\ o \in Persons
  BY Kinds DEF Joined, world
<1>3. ServerInv' /\ WorldSame /\ WorldTypes
  BY <1>1, <1>2, SameWorld
<1>4. \A x \in Rooms : adding'[Person(x)] = IF x = r THEN "done" ELSE adding[Person(x)]
  BY <1>1, <1>2, Kinds DEF RestTypes
<1>5. /\ member' \in [room : Rooms \cup {Nowhere}, origin : Rooms \cup {Nowhere}, person : Rooms \cup {Nowhere}]
      /\ localRoomMember' \in [Rooms -> BOOLEAN] /\ moveTo' \in Rooms \cup {Nowhere}
      /\ MemberInv'
  <2>1. CASE moveTo = r
    <3>1. /\ member.origin # Nowhere /\ member.person = Nowhere /\ Nowhere \notin Rooms /\ r # Nowhere
          /\ \A x \in Rooms : removing[Person(x)] \notin {"sent", "executed"}
      BY <1>1, <1>2, <2>1, Kinds DEF MemberInv
    <3>2. /\ member' = [member EXCEPT !.room = r, !.person = IF o \in Channel THEN r ELSE Nowhere]
          /\ moveTo' = Nowhere /\ localRoomMember' = localRoomMember
      BY <2>1 DEF Joined
    <3>3. /\ member'.origin = member.origin /\ member'.room = r /\ member'.person = IF o \in Channel THEN r ELSE Nowhere
          /\ member' = [room |-> r, origin |-> member.origin, person |-> IF o \in Channel THEN r ELSE Nowhere]
          /\ member.origin \in Rooms \cup {Nowhere}
      BY <1>1, <3>2 DEF RestTypes
    <3>4. member' \in [room : Rooms \cup {Nowhere}, origin : Rooms \cup {Nowhere}, person : Rooms \cup {Nowhere}]
      BY <3>3
    <3>5. (\A x \in Rooms :
              /\ localRoomMember[x] => member.origin = x /\ Person(x) \in Channel
              /\ adding[Person(x)] \in {"sent", "executed"} /\ moveTo # x => member.origin = Nowhere
              /\ removing[Person(x)] \in {"sent", "executed"} => member.person = x)'
      BY <1>1, <1>2, <1>3, <1>4, <2>1, <3>1, <3>2, <3>3 DEF MemberInv, WorldSame
    <3>6. MemberInv'
      BY <1>1, <1>3, <1>4, <2>1, <3>1, <3>2, <3>3, <3>5 DEF MemberInv, WorldSame
    <3> QED BY <1>1, <3>2, <3>4, <3>6 DEF RestTypes
  <2>2. CASE moveTo # r
    <3>1. /\ member' = [room |-> r, origin |-> r, person |-> r]
          /\ localRoomMember' = [localRoomMember EXCEPT ![r] = TRUE]
          /\ moveTo' = moveTo /\ o \in lists[r]
      BY <2>2 DEF Joined
    <3>2. /\ member.origin = Nowhere /\ member.person = Nowhere /\ moveTo = Nowhere
          /\ \A x \in Rooms : removing[Person(x)] \notin {"sent", "executed"} /\ ~localRoomMember[x]
      BY <1>1, <1>2, <2>2, Kinds DEF MemberInv
    <3>3. o \in Channel
      BY <1>1, <1>2, <3>1 DEF ListsInv
    <3>4. \A x \in Rooms : adding'[Person(x)] \notin {"sent", "executed"}
      BY <1>1, <1>2, <1>4, <3>2 DEF MemberInv
    <3>5. (\A x \in Rooms :
              /\ localRoomMember[x] => member.origin = x /\ Person(x) \in Channel
              /\ adding[Person(x)] \in {"sent", "executed"} /\ moveTo # x => member.origin = Nowhere
              /\ removing[Person(x)] \in {"sent", "executed"} => member.person = x)'
      BY <1>1, <1>2, <1>3, <3>1, <3>2, <3>3, <3>4 DEF WorldSame, RestTypes
    <3>6. MemberInv'
      BY <1>3, <1>4, <3>1, <3>2, <3>3, <3>5, Kinds DEF MemberInv, WorldSame
    <3> QED BY <1>1, <3>1, <3>6 DEF RestTypes
  <2> QED BY <2>1, <2>2
<1>6. RestTypes'
  BY <1>1, <1>2, <1>3, <1>5 DEF RestTypes, shown, WorldTypes
<1>7. CallsOnly
  BY <1>1, <1>2, Kinds DEF CallsOnly, RestTypes
<1> QED BY <1>1, <1>2, <1>3, <1>5, <1>6, <1>7, TypeParts, ListsKept, CallsKept DEF IInv, shown

LEMMA RequestFailsKeeps == ASSUME IInv, NEW o \in Objects, RequestFails(o) PROVE IInv'
<1>1. TypeOK /\ ServerInv /\ RestTypes /\ ListsInv /\ MemberInv /\ CallsInv
  BY TypeParts DEF IInv
<1>2. /\ UNCHANGED <<kind, server, events, shown, calls, localRoomMember, member, waitsIn, stream>> /\ Trouble
      /\ moveTo' = IF o \in Persons THEN Nowhere ELSE moveTo
      /\ \/ adding[o] = "sent" /\ adding' = [adding EXCEPT ![o] = "failed"] /\ removing' = removing
         \/ removing[o] = "sent" /\ removing' = [removing EXCEPT ![o] = "refused"] /\ adding' = adding
  BY DEF RequestFails
<1>3. ServerInv' /\ WorldSame /\ WorldTypes
  BY <1>1, <1>2, SameWorld
<1>4. RestTypes'
  BY <1>1, <1>2, Counted DEF RestTypes, shown
<1>5. CallsOnly
  BY <1>1, <1>2, Kinds DEF CallsOnly, RestTypes
<1>6. MemberInv'
  <2>1. CASE o \notin Persons
    <3>1. \A r \in Rooms : adding'[Person(r)] = adding[Person(r)] /\ removing'[Person(r)] = removing[Person(r)]
      BY <1>1, <1>2, <2>1, Kinds DEF RestTypes
    <3>2. PersonsKept
      BY <1>2, <2>1, <3>1 DEF PersonsKept, local
    <3> QED BY <1>1, <1>3, <3>2, MemberKept DEF WorldSame
  <2>2. CASE o \in Persons
    <3>1. PICK r \in Rooms : o = Person(r)
      BY <2>2, Kinds
    <3>2. /\ moveTo' = Nowhere /\ member' = member /\ localRoomMember' = localRoomMember /\ Nowhere \notin Rooms
          /\ member.origin \in Rooms \cup {Nowhere}
      BY <1>1, <1>2, <2>2, Kinds DEF RestTypes
    <3>3. \A x \in Rooms :
             /\ adding'[Person(x)] \in {"sent", "executed"} => adding[Person(x)] \in {"sent", "executed"} /\ (adding[o] = "sent" => x # r \/ removing[o] = "sent")
             /\ adding'[Person(x)] # adding[Person(x)] => x = r /\ adding[o] = "sent" /\ adding'[Person(x)] = "failed"
             /\ removing'[Person(x)] \in {"sent", "executed"} => removing[Person(x)] \in {"sent", "executed"}
      BY <1>1, <1>2, <3>1, Kinds DEF RestTypes
    <3>4. ASSUME NEW x \in Rooms, adding'[Person(x)] \in {"sent", "executed"}
          PROVE  member.origin = Nowhere
      <4>1. adding[Person(x)] \in {"sent", "executed"}
        BY <3>3, <3>4
      <4>2. CASE moveTo # x
        BY <1>1, <4>1, <4>2 DEF MemberInv
      <4>3. CASE moveTo = x /\ removing[o] = "sent"
        BY <1>1, <3>1, <3>2, <4>1, <4>3 DEF MemberInv
      <4>4. CASE moveTo = x /\ adding[o] = "sent" /\ removing[o] # "sent"
        BY <1>1, <3>1, <3>2, <3>3, <3>4, <4>1, <4>4 DEF MemberInv
      <4> QED BY <1>2, <4>2, <4>3, <4>4
    <3>5. (member.origin # Nowhere => adding[Person(member.origin)] = "done")'
      BY <1>1, <3>1, <3>2, <3>3 DEF MemberInv
    <3>6. (\A x \in Rooms :
              /\ localRoomMember[x] => member.origin = x /\ Person(x) \in Channel
              /\ adding[Person(x)] \in {"sent", "executed"} /\ moveTo # x => member.origin = Nowhere
              /\ removing[Person(x)] \in {"sent", "executed"} => member.person = x)'
      BY <1>1, <1>3, <3>2, <3>3, <3>4 DEF MemberInv, WorldSame
    <3>7. (member.origin = Nowhere =>
              \A x, z \in Rooms : adding[Person(x)] # "none" /\ adding[Person(z)] # "none" => x = z)'
      BY <1>1, <3>1, <3>2, <3>3 DEF MemberInv
    <3> QED BY <1>1, <1>3, <3>2, <3>5, <3>6, <3>7 DEF MemberInv, WorldSame
  <2> QED BY <2>1, <2>2
<1> QED BY <1>1, <1>2, <1>3, <1>4, <1>5, <1>6, TypeParts, ListsKept, CallsKept DEF IInv, shown

-----------------------------------------------------------------------------
(* Publishing and subscribing                                              *)

LEMMA ShownIs == ASSUME RestTypes
                 PROVE  /\ \A p \in Publications : Shown(p) \in Objects /\ Shown(p) \notin Persons /\ Shown(p) \notin Subs
                        /\ \A p \in Publications : kind = "p2p" => Shown(p) = Origin(p)
                        /\ \A p \in Publications : kind = "sfu" => Shown(p) = Relay(p)
BY Kinds DEF Shown, RestTypes

\* A call that lists what the channel does not have, or hides, is remembered.
LEMMA ListedKeeps ==
    ASSUME TypeOK, ListsInv, WorldSame, UNCHANGED <<kind, orphans>>, NEW r, NEW o \in Objects,
           o \notin Persons, WasAdded(o), List(r, o)
    PROVE  /\ ListsInv'
           /\ lists' \in [Rooms -> SUBSET Objects] /\ late' \in [Rooms -> SUBSET Objects]
<1>1. lists \in [Rooms -> SUBSET Objects] /\ late \in [Rooms -> SUBSET Objects] /\ orphans \subseteq Objects
  BY DEF TypeOK, Objects
<1>2. /\ lists' = [lists EXCEPT ![r] = @ \cup {o}]
      /\ late' = IF Home(o) = r /\ o \in Channel /\ Visible(o) THEN late ELSE [late EXCEPT ![r] = @ \cup {o}]
  BY DEF List
<1>3. lists' \in [Rooms -> SUBSET Objects] /\ late' \in [Rooms -> SUBSET Objects]
  BY <1>1, <1>2
<1>4. \A x : Visible(x)' <=> Visible(x)
  BY VisibleIs
<1>5. (\A x \in orphans : WasAdded(x))'
  BY <1>1 DEF ListsInv, WorldSame
<1>6. ASSUME NEW z \in Rooms
      PROVE  /\ lists'[z] = {x \in Channel' : Home(x) = z /\ Visible(x)'} \cup late'[z]
             /\ \A x \in Objects : x \in late'[z] =>
                   /\ x \notin Persons
                   /\ Home(x) = z => Past(x)' \/ (WasAdded(x)' /\ ~Visible(x)')
  <2> DEFINE shows == {x \in Channel : Home(x) = z /\ Visible(x)}
  <2>1. lists[z] = shows \cup late[z] /\ shows = {x \in Channel' : Home(x) = z /\ Visible(x)'}
    BY <1>4 DEF ListsInv, WorldSame
  <2>2. \A x \in Objects : x \in late[z] =>
           /\ x \notin Persons
           /\ Home(x) = z => Past(x)' \/ (WasAdded(x)' /\ ~Visible(x)')
    BY <1>4 DEF ListsInv, WorldSame
  <2>3. CASE z # r
    <3>1. lists'[z] = lists[z] /\ late'[z] = late[z]
      BY <1>1, <1>2, <2>3
    <3> QED BY <2>1, <2>2, <3>1
  <2>4. CASE z = r /\ Home(o) = r /\ o \in Channel /\ Visible(o)
    <3>1. lists'[z] = lists[z] \cup {o} /\ late'[z] = late[z] /\ o \in shows
      BY <1>1, <1>2, <2>4
    <3> QED BY <2>1, <2>2, <3>1
  <2>5. CASE z = r /\ ~(Home(o) = r /\ o \in Channel /\ Visible(o))
    <3>1. lists'[z] = lists[z] \cup {o} /\ late'[z] = late[z] \cup {o}
      BY <1>1, <1>2, <2>5
    <3>2. Home(o) = z => Past(o)' \/ (WasAdded(o)' /\ ~Visible(o)')
      <4>1. WasAdded(o) /\ o \notin Channel => Past(o)
        BY DEF WasAdded, Channel, Past
      <4> QED BY <1>4, <2>5, <4>1 DEF WorldSame
    <3>3. lists'[z] = shows \cup late'[z]
      BY <2>1, <3>1
    <3> QED BY <2>1, <2>2, <3>1, <3>2, <3>3
  <2> QED BY <2>3, <2>4, <2>5
<1> QED BY <1>3, <1>5, <1>6 DEF ListsInv

LEMMA PublishedKeeps == ASSUME IInv, NEW p \in Mine, Published(p) PROVE IInv'
<1> DEFINE o == Shown(p)
<1>1. TypeOK /\ ServerInv /\ RestTypes /\ ListsInv /\ MemberInv /\ CallsInv
  BY TypeParts DEF IInv
<1>2. /\ UNCHANGED <<kind, server, events, troubles, local, calls, orphans, removing, waitsIn, stream>>
      /\ WasAdded(o) /\ adding' = [adding EXCEPT ![o] = "done"] /\ List(member.room, o)
  BY DEF Published, world
<1>3. ServerInv' /\ WorldSame /\ WorldTypes
  BY <1>1, <1>2, SameWorld
<1>4. o \in Objects /\ o \notin Persons /\ o \notin Subs
  BY <1>1, ShownIs, Kinds
<1> HIDE DEF o
<1>5. ListsInv' /\ lists' \in [Rooms -> SUBSET Objects] /\ late' \in [Rooms -> SUBSET Objects]
  BY <1>1, <1>2, <1>3, <1>4, ListedKeeps
<1>6. RestTypes'
  BY <1>1, <1>2, <1>5 DEF RestTypes, local
<1>7. PersonsKept
  BY <1>1, <1>2, <1>4, Kinds DEF PersonsKept, RestTypes
<1>8. CallsOnly
  BY <1>1, <1>2, <1>4, Kinds DEF CallsOnly, RestTypes
<1> QED BY <1>1, <1>2, <1>3, <1>5, <1>6, <1>7, <1>8, TypeParts, MemberKept, CallsKept DEF IInv, WorldSame

LEMMA SubscribeReturnsKeeps == ASSUME IInv, NEW s \in Subs, SubscribeReturns(s) PROVE IInv'
<1>1. TypeOK /\ ServerInv /\ RestTypes /\ ListsInv /\ MemberInv /\ CallsInv
  BY TypeParts DEF IInv
<1>2. /\ UNCHANGED <<kind, server, events, troubles, local, calls, orphans, removing, waitsIn, stream>>
      /\ adding[s] = "ending" /\ adding' = [adding EXCEPT ![s] = "done"] /\ List(member.room, s)
  BY DEF SubscribeReturns, world
<1>3. ServerInv' /\ WorldSame /\ WorldTypes
  BY <1>1, <1>2, SameWorld
<1>4. s \in Objects /\ s \notin Persons /\ WasAdded(s)
  BY <1>1, <1>2, Kinds DEF CallsInv
<1>5. ListsInv' /\ lists' \in [Rooms -> SUBSET Objects] /\ late' \in [Rooms -> SUBSET Objects]
  BY <1>1, <1>2, <1>3, <1>4, ListedKeeps
<1>6. RestTypes'
  BY <1>1, <1>2, <1>5 DEF RestTypes, local
<1>7. PersonsKept
  BY <1>1, <1>2, <1>4, Kinds DEF PersonsKept, RestTypes
<1>8. CallsOnly
  BY <1>1, <1>2, <1>4, Kinds DEF CallsOnly, RestTypes
<1> QED BY <1>1, <1>2, <1>3, <1>5, <1>6, <1>7, <1>8, TypeParts, MemberKept, CallsKept DEF IInv, WorldSame

\* A step of the subscriptions: what it must say of each of them.
LEMMA SubsStep ==
    ASSUME CallsInv, WorldSame, UNCHANGED <<kind, orphans, removing, waitsIn>>,
           \A s \in Subs : /\ stream'[s] # "none" => stream[s] # "none"
                           /\ adding'[s] \in {"waiting", "ending", "done"} =>
                                 adding[s] \in {"waiting", "ending", "done"} \/ WasAdded(s)
                           /\ stream[s] = "attached" => stream'[s] = "attached"
                           /\ adding'[s] = "waiting" => stream'[s] # "attached"
                           /\ adding'[s] \in {"ending", "done"} /\ stream'[s] # "attached" =>
                                 \/ adding[s] \in {"ending", "done"} /\ stream[s] # "attached"
                                 \/ \E x \in Subs \ {s} : Target(x) = Target(s) /\ stream'[x] = "attached"
    PROVE  CallsInv'
<1>1. /\ \A o : Visible(o)' <=> Visible(o)
      /\ \A s : Target(s)' = Target(s)
  BY VisibleIs, TargetSame
<1>2. (\A o \in Objects : /\ removing[o] \in {"sent", "executed"} => waitsIn[o] = Home(o) /\ o \in Channel /\ Visible(o)
                          /\ removing[o] = "done" => Past(o))'
  BY <1>1 DEF CallsInv, WorldSame
<1>3. ASSUME NEW s \in Subs
      PROVE  (/\ stream[s] # "none" \/ adding[s] \in {"waiting", "ending", "done"} => WasAdded(s)
              /\ adding[s] = "waiting" => stream[s] # "attached")'
  BY Kinds DEF CallsInv, WorldSame
<1>4. ASSUME NEW s \in Subs, adding'[s] \in {"ending", "done"}, stream'[s] # "attached"
      PROVE  \E x \in Subs \ {s} : Target(x)' = Target(s)' /\ stream'[x] = "attached"
  BY <1>1, <1>4 DEF CallsInv
<1> QED BY <1>2, <1>3, <1>4 DEF CallsInv

LEMMA SubscribeAnsweredKeeps == ASSUME IInv, NEW s \in Subs, SubscribeAnswered(s) PROVE IInv'
<1>1. TypeOK /\ ServerInv /\ RestTypes /\ ListsInv /\ MemberInv /\ CallsInv
  BY TypeParts DEF IInv
<1>2. /\ UNCHANGED <<kind, server, events, troubles, shown, local, calls, removing, waitsIn, stream>>
      /\ WasAdded(s)
      /\ adding' = [adding EXCEPT ![s] = IF stream[s] = "attached" THEN "ending" ELSE "waiting"]
  BY DEF SubscribeAnswered, world
<1>3. ServerInv' /\ WorldSame /\ WorldTypes
  BY <1>1, <1>2, SameWorld
<1>4. s \in Objects /\ s \notin Persons
  BY Kinds
<1>5. RestTypes'
  BY <1>1, <1>2 DEF RestTypes, shown, local
<1>6. PersonsKept
  BY <1>1, <1>2, <1>4, Kinds DEF PersonsKept, RestTypes
<1>7. \A x \in Subs : adding'[x] = IF x # s THEN adding[x] ELSE IF stream[s] = "attached" THEN "ending" ELSE "waiting"
  BY <1>1, <1>2, Kinds DEF RestTypes
<1>8. CallsInv'
  BY <1>1, <1>2, <1>3, <1>7, SubsStep DEF CallsInv, shown
<1> QED BY <1>1, <1>2, <1>3, <1>5, <1>6, <1>8, TypeParts, ListsKept, MemberKept DEF IInv, WorldSame

LEMMA StreamAttachedKeeps == ASSUME IInv, NEW s \in Subs, StreamAttached(s) PROVE IInv'
<1>1. TypeOK /\ ServerInv /\ RestTypes /\ ListsInv /\ MemberInv /\ CallsInv
  BY TypeParts DEF IInv
<1>2. /\ UNCHANGED <<kind, server, events, troubles, local, calls, orphans, removing, waitsIn>>
      /\ stream[s] = "starting" /\ stream' = [stream EXCEPT ![s] = "attached"] /\ List(member.origin, s)
      /\ adding' = [o \in Objects |->
            IF o \in Subs /\ adding[o] = "waiting" /\ Target(o) = Target(s) THEN "ending" ELSE adding[o]]
  BY DEF StreamAttached, world
<1>3. ServerInv' /\ WorldSame /\ WorldTypes
  BY <1>1, <1>2, SameWorld
<1>4. s \in Objects /\ s \notin Persons /\ WasAdded(s)
  BY <1>1, <1>2, Kinds DEF CallsInv
<1>5. ListsInv' /\ lists' \in [Rooms -> SUBSET Objects] /\ late' \in [Rooms -> SUBSET Objects]
  BY <1>1, <1>2, <1>3, <1>4, ListedKeeps
<1>6. /\ adding' \in [Objects -> {"none", "sent", "executed", "waiting", "ending", "done", "failed"}]
      /\ \A o \in Objects : o \notin Subs => adding'[o] = adding[o]
      /\ \A x \in Subs : adding'[x] = IF adding[x] = "waiting" /\ Target(x) = Target(s) THEN "ending" ELSE adding[x]
  BY <1>1, <1>2, Kinds DEF RestTypes
<1>7. RestTypes'
  BY <1>1, <1>2, <1>5, <1>6 DEF RestTypes, local
<1>8. PersonsKept
  BY <1>2, <1>6, Kinds DEF PersonsKept
<1>9. \A x \in Subs : stream'[x] = IF x = s THEN "attached" ELSE stream[x]
  BY <1>1, <1>2 DEF RestTypes
<1>10. CallsInv'
  <2>1. ASSUME NEW x \in Subs
        PROVE  /\ stream'[x] # "none" => stream[x] # "none"
               /\ adding'[x] \in {"waiting", "ending", "done"} => adding[x] \in {"waiting", "ending", "done"} \/ WasAdded(x)
               /\ stream[x] = "attached" => stream'[x] = "attached"
               /\ adding'[x] = "waiting" => stream'[x] # "attached"
    BY <1>1, <1>2, <1>6, <1>9 DEF CallsInv
  <2>2. ASSUME NEW x \in Subs, adding'[x] \in {"ending", "done"}, stream'[x] # "attached"
        PROVE  \/ adding[x] \in {"ending", "done"} /\ stream[x] # "attached"
               \/ \E y \in Subs \ {x} : Target(y) = Target(x) /\ stream'[y] = "attached"
    BY <1>6, <1>9, <2>2
  <2> QED BY <1>1, <1>2, <1>3, <2>1, <2>2, SubsStep
<1> QED BY <1>1, <1>2, <1>3, <1>5, <1>7, <1>8, <1>10, TypeParts, MemberKept DEF IInv, WorldSame

LEMMA StreamFailsKeeps == ASSUME IInv, NEW s \in Subs, StreamFails(s) PROVE IInv'
<1>1. TypeOK /\ ServerInv /\ RestTypes /\ ListsInv /\ MemberInv /\ CallsInv
  BY TypeParts DEF IInv
<1>2. /\ UNCHANGED <<shown, local, kind, calls, server, events, removing, waitsIn>>
      /\ Trouble \/ troubles' = troubles
      /\ stream[s] = "starting" /\ stream' = [stream EXCEPT ![s] = "failed"]
      /\ adding' = [o \in Objects |->
            IF o \in Subs /\ adding[o] = "waiting" /\ Target(o) = Target(s) THEN "failed" ELSE adding[o]]
  BY DEF StreamFails
<1>3. ServerInv' /\ WorldSame /\ WorldTypes
  BY <1>1, <1>2, SameWorld
<1>4. /\ adding' \in [Objects -> {"none", "sent", "executed", "waiting", "ending", "done", "failed"}]
      /\ \A o \in Objects : o \notin Subs => adding'[o] = adding[o]
      /\ \A x \in Subs : adding'[x] = adding[x] \/ adding'[x] = "failed"
  BY <1>1, <1>2, Kinds DEF RestTypes
<1>5. RestTypes'
  BY <1>1, <1>2, <1>4, Counted DEF RestTypes, shown, local
<1>6. PersonsKept
  BY <1>2, <1>4, Kinds DEF PersonsKept
<1>7. \A x \in Subs : stream'[x] = IF x = s THEN "failed" ELSE stream[x]
  BY <1>1, <1>2 DEF RestTypes
<1>8. CallsInv'
  <2>1. ASSUME NEW x \in Subs
        PROVE  /\ stream'[x] # "none" => stream[x] # "none"
               /\ adding'[x] \in {"waiting", "ending", "done"} => adding[x] = adding'[x]
               /\ stream[x] = "attached" <=> stream'[x] = "attached"
    BY <1>2, <1>4, <1>7
  <2> QED BY <1>1, <1>2, <1>3, <2>1, SubsStep DEF CallsInv, shown
<1> QED BY <1>1, <1>2, <1>3, <1>5, <1>6, <1>8, TypeParts, ListsKept, MemberKept DEF IInv, WorldSame

\* unpublish and unsubscribe: what is not refused is in the channel of the member's room, and
\* shown there.
LEMMA RemoveTargetKeeps ==
    ASSUME IInv, NEW o \in Objects, o \notin Persons, RemoveTarget(o),
           member.person = Home(o) /\ (IF o \in Relays THEN Origin(o[2]) ELSE o) \in Channel => o \in Channel /\ Visible(o)
    PROVE  IInv'
<1>1. TypeOK /\ ServerInv /\ RestTypes /\ ListsInv /\ MemberInv /\ CallsInv
  BY TypeParts DEF IInv
<1> DEFINE known == member.person = Home(o) /\ (IF o \in Relays THEN Origin(o[2]) ELSE o) \in Channel
<1>2. /\ UNCHANGED <<kind, server, events, troubles, shown, local, adding, stream>> /\ Call
      /\ removing' = [removing EXCEPT ![o] = IF known THEN "sent" ELSE "refused"]
      /\ waitsIn' = [waitsIn EXCEPT ![o] = member.room]
  BY DEF RemoveTarget, world
<1>3. ServerInv' /\ WorldSame /\ WorldTypes
  BY <1>1, <1>2, SameWorld
<1>4. known => member.room = Home(o) /\ o \in Channel /\ Visible(o)
  BY <1>1, Kinds, Homes DEF MemberInv
<1> HIDE DEF known
<1>5. member.room \in Rooms \cup {Nowhere}
  BY <1>1 DEF RestTypes
<1>6. RestTypes'
  BY <1>1, <1>2, <1>5, Counted DEF RestTypes, shown, local
<1>7. PersonsKept
  BY <1>1, <1>2, Kinds DEF PersonsKept, RestTypes
<1>8. /\ \A x : Visible(x)' <=> Visible(x)
      /\ \A s : Target(s)' = Target(s)
  BY <1>2, VisibleIs, TargetSame DEF shown
<1>9. (\A x \in Objects : /\ removing[x] \in {"sent", "executed"} => waitsIn[x] = Home(x) /\ x \in Channel /\ Visible(x)
                          /\ removing[x] = "done" => Past(x))'
  BY <1>1, <1>2, <1>3, <1>4, <1>8 DEF CallsInv, WorldSame, RestTypes
<1>10. (\A s \in Subs : /\ stream[s] # "none" \/ adding[s] \in {"waiting", "ending", "done"} => WasAdded(s)
                        /\ adding[s] = "waiting" => stream[s] # "attached"
                        /\ adding[s] \in {"ending", "done"} /\ stream[s] # "attached" =>
                              \E x \in Subs \ {s} : Target(x) = Target(s) /\ stream[x] = "attached")'
  BY <1>1, <1>2, <1>3, <1>8, Kinds DEF CallsInv, WorldSame
<1> QED BY <1>1, <1>2, <1>3, <1>6, <1>7, <1>9, <1>10, TypeParts, ListsKept, MemberKept DEF IInv, CallsInv, WorldSame

LEMMA unpublishKeeps == ASSUME IInv, NEW p \in Mine, unpublish(p) PROVE IInv'
<1> DEFINE o == Shown(p)
<1>1. TypeOK /\ ServerInv /\ RestTypes /\ ListsInv /\ MemberInv
  BY TypeParts DEF IInv
<1>2. p \in Publications /\ o \in Objects /\ o \notin Persons
  BY <1>1, ShownIs, Kinds
<1>3. o \in lists[member.room] /\ o \notin orphans /\ RemoveTarget(o)
  BY DEF unpublish
<1>4. ASSUME member.person = Home(o), (IF o \in Relays THEN Origin(o[2]) ELSE o) \in Channel
      PROVE  o \in Channel /\ Visible(o)
  <2>1. CASE kind = "p2p"
    <3>1. o = Origin(p) /\ o \notin Relays /\ Visible(o)
      BY <1>1, <1>2, <2>1, ShownIs, Kinds, VisibleIs
    <3> QED BY <1>4, <3>1
  <2>2. CASE kind = "sfu"
    <3>1. o = Relay(p) /\ o \in Relays /\ o[2] = p /\ o \notin Origins
      BY <1>1, <1>2, <2>2, ShownIs, Kinds
    <3>2. Visible(o) /\ Origin(p) \in Channel
      BY <1>3, <1>4, <3>1, VisibleIs
    <3>3. member.room = Home(o) /\ Home(o) \in Rooms
      BY <1>1, <1>2, <1>4, Homes, Kinds DEF MemberInv
    <3>4. o \in Channel \/ o \in late[Home(o)]
      BY <1>1, <1>3, <3>3 DEF ListsInv
    <3>5. o \in late[Home(o)] => Past(o)
      BY <1>1, <1>2, <3>2, <3>3 DEF ListsInv
    <3>6. ~Past(o)
      BY <1>1, <1>2, <3>1, <3>2 DEF Past, Channel, ServerInv
    <3> QED BY <3>2, <3>4, <3>5, <3>6
  <2> QED BY <1>1, <2>1, <2>2 DEF RestTypes
<1> QED
  <2> HIDE DEF o
  <2> QED BY <1>2, <1>3, <1>4, RemoveTargetKeeps

LEMMA unsubscribeKeeps == ASSUME IInv, NEW s \in Subs, unsubscribe(s) PROVE IInv'
<1>1. RestTypes
  BY TypeParts DEF IInv
<1>2. s \in Objects /\ s \notin Persons /\ s \notin Relays /\ s \notin Origins
  BY Kinds
<1>3. Visible(s)
  BY <1>1, <1>2, VisibleIs DEF RestTypes
<1> QED BY <1>2, <1>3, RemoveTargetKeeps DEF unsubscribe

-----------------------------------------------------------------------------
(* Events                                                                  *)

LEMMA EventKeeps ==
    ASSUME IInv, NEW room \in Rooms, ApplyEvent(room)
    PROVE  /\ ServerInv' /\ WorldTypes
           /\ \E e \in Event : /\ e = Head(events[room])
                               /\ e.type = "left" => WorldSame
                               /\ e.type = "added" => Appears(e.obj, room)
                               /\ e.type = "removed" => Disappears(e.obj, room)
<1>1. TypeOK /\ ServerInv
  BY DEF IInv
<1> QED BY <1>1, AppliedKeeps, Zenon

LEMMA LeftKeeps == ASSUME IInv, NEW r \in Rooms, ApplyEvent(r), Head(events[r]).type = "left" PROVE IInv'
<1>1. TypeOK /\ ServerInv /\ RestTypes
  BY TypeParts DEF IInv
<1>2. ServerInv' /\ WorldSame /\ WorldTypes
  <2> r \in Rooms
    OBVIOUS
  <2>1. PICK e \in Event : e = Head(events[r]) /\ (e.type = "left" => WorldSame)
    BY EventKeeps, Zenon
  <2> QED BY <2>1, EventKeeps, Zenon
<1>3. PublisherLeft(r) /\ UNCHANGED <<kind, calls, server, waitsIn, late, troubles>>
  BY DEF ApplyEvent
<1>4. /\ UNCHANGED <<local, orphans, lists, removing, stream>>
      /\ adding' \in [Objects -> {"none", "sent", "executed", "waiting", "ending", "done", "failed"}]
      /\ \A o \in Objects : o \notin Subs => adding'[o] = adding[o]
      /\ \A s \in Subs : adding'[s] = adding[s] \/ adding'[s] = "failed"
  BY <1>1, <1>3, Kinds DEF PublisherLeft, RestTypes
<1>5. RestTypes'
  BY <1>1, <1>3, <1>4 DEF RestTypes, local
<1>6. PersonsKept
  BY <1>4, Kinds DEF PersonsKept
<1>7. CallsOnly
  BY <1>3, <1>4 DEF CallsOnly
<1> QED BY <1>2, <1>3, <1>4, <1>5, <1>6, <1>7, QuietStep DEF shown

LEMMA AddedKeeps == ASSUME IInv, NEW r \in Rooms, ApplyEvent(r), Head(events[r]).type = "added" PROVE IInv'
<1> PICK o : o = Head(events[r]).obj
  OBVIOUS
<1> DEFINE hides == kind = "sfu" /\ (Orphan(o) \/ o \in Origins)
<1>1. TypeOK /\ ServerInv /\ RestTypes /\ ListsInv /\ MemberInv /\ CallsInv
  BY TypeParts DEF IInv
<1>2. ServerInv' /\ WorldTypes /\ Appears(o, r)
  <2>1. PICK e \in Event : e = Head(events[r]) /\ (e.type = "added" => Appears(e.obj, r))
    BY EventKeeps, Zenon
  <2>2. Appears(e.obj, r)
    BY <2>1
  <2>3. e.obj = o
    BY <2>1
  <2> QED BY <2>2, <2>3, EventKeeps, Zenon
<1>3. Added(o) /\ UNCHANGED <<kind, calls, server, waitsIn, late, troubles>>
  BY DEF ApplyEvent
<1>4. /\ o \in Objects /\ Home(o) = r /\ ~WasAdded(o) /\ WasAdded(o)' /\ o \notin Channel
      /\ \A x \in Objects : x \in Channel' <=> x \in Channel \/ x = o
      /\ \A x \in Objects : x # o => (WasAdded(x)' <=> WasAdded(x)) /\ (Past(x)' <=> Past(x))
      /\ \A x \in Objects : (WasAdded(x) => x # o) /\ (Past(x) => x # o) /\ (x \in Channel => x # o)
      /\ Channel \subseteq Objects /\ Channel' \subseteq Objects
  BY <1>2 DEF Appears, Channel, Past, WasAdded
<1>5. /\ orphans' = IF Orphan(o) THEN orphans \cup {o} ELSE orphans
      /\ lists' = IF hides THEN lists ELSE [lists EXCEPT ![r] = @ \cup {o}]
      /\ stream' = IF o \in Subs /\ member.person = r THEN [stream EXCEPT ![o] = "starting"] ELSE stream
      /\ UNCHANGED <<local, adding, removing>>
  BY <1>3, <1>4 DEF Added, Origins
<1>6. orphans \subseteq Objects /\ o \notin orphans /\ (Orphan(o) => o \in Relays /\ o \notin Origins)
  BY <1>1, <1>4, Kinds DEF Orphan, RestTypes, ListsInv, Objects
<1>7. RestTypes'
  BY <1>1, <1>3, <1>4, <1>5, <1>6 DEF RestTypes, local
<1>8. /\ \A x : x # o => (Visible(x)' <=> Visible(x))
      /\ Visible(o)' <=> ~hides
      /\ \A s : Target(s)' = Target(s)
  BY <1>1, <1>3, <1>5, <1>6, VisibleIs, TargetSame DEF RestTypes
<1>9. ListsInv'
  <2>1. (\A x \in orphans : WasAdded(x))'
    BY <1>1, <1>4, <1>5, <1>6 DEF ListsInv
  <2>2. ASSUME NEW z \in Rooms
        PROVE  lists'[z] = {x \in Channel' : Home(x) = z /\ Visible(x)'} \cup late[z]
    <3>1. lists[z] = {x \in Channel : Home(x) = z /\ Visible(x)} \cup late[z]
      BY <1>1 DEF ListsInv
    <3>2. \A x : x \in lists'[z] <=> x \in lists[z] \/ (x = o /\ z = r /\ ~hides)
      BY <1>1, <1>5 DEF RestTypes
    <3>3. \A x : x \in {y \in Channel' : Home(y) = z /\ Visible(y)'} <=>
                 x \in {y \in Channel : Home(y) = z /\ Visible(y)} \/ (x = o /\ z = r /\ ~hides)
      BY <1>4, <1>8
    <3>4. \A x : x \in lists'[z] <=> x \in {y \in Channel' : Home(y) = z /\ Visible(y)'} \cup late[z]
      BY <3>1, <3>2, <3>3
    <3>5. lists'[z] \in SUBSET Objects
      BY <1>7 DEF RestTypes
    <3> QED BY <3>4, <3>5
  <2>3. ASSUME NEW z \in Rooms, NEW x \in Objects, x \in late[z]
        PROVE  /\ x \notin Persons
               /\ Home(x) = z => Past(x)' \/ (WasAdded(x)' /\ ~Visible(x)')
    BY <1>1, <1>4, <1>8, <2>3 DEF ListsInv
  <2> QED BY <1>3, <2>1, <2>2, <2>3 DEF ListsInv
<1>10. MemberInv'
  <2>1. member' = member /\ moveTo' = moveTo /\ localRoomMember' = localRoomMember /\ adding' = adding /\ removing' = removing
    BY <1>5 DEF local
  <2>2. Channel \subseteq Channel'
    BY <1>4
  <2> QED BY <1>1, <2>1, <2>2 DEF MemberInv
<1>11. CallsInv'
  <2>1. (\A x \in Objects : /\ removing[x] \in {"sent", "executed"} => waitsIn[x] = Home(x) /\ x \in Channel /\ Visible(x)
                            /\ removing[x] = "done" => Past(x))'
    BY <1>1, <1>3, <1>4, <1>5, <1>8 DEF CallsInv
  <2>2. \A s \in Subs : s \in Objects /\ stream'[s] = IF s = o /\ member.person = r THEN "starting" ELSE stream[s]
    BY <1>1, <1>5, Kinds DEF RestTypes
  <2>3. \A s \in Subs : stream[s] # "none" \/ adding[s] \in {"waiting", "ending", "done"} => s # o
    BY <1>1, <1>4 DEF CallsInv
  <2>4. (\A s \in Subs : /\ stream[s] # "none" \/ adding[s] \in {"waiting", "ending", "done"} => WasAdded(s)
                         /\ adding[s] = "waiting" => stream[s] # "attached")'
    BY <1>1, <1>4, <1>5, <2>2 DEF CallsInv
  <2>5. ASSUME NEW s \in Subs, adding'[s] \in {"ending", "done"}, stream'[s] # "attached"
        PROVE  \E x \in Subs \ {s} : Target(x)' = Target(s)' /\ stream'[x] = "attached"
    <3>1. PICK x \in Subs \ {s} : Target(x) = Target(s) /\ stream[x] = "attached"
      BY <1>1, <1>5, <2>2, <2>3, <2>5 DEF CallsInv
    <3>2. stream'[x] = "attached"
      BY <2>2, <2>3, <3>1
    <3> QED BY <1>8, <3>1, <3>2
  <2> QED BY <2>1, <2>4, <2>5 DEF CallsInv
<1> QED BY <1>2, <1>7, <1>9, <1>10, <1>11, TypeParts DEF IInv

LEMMA RemovedKeeps == ASSUME IInv, NEW r \in Rooms, ApplyEvent(r), Head(events[r]).type = "removed" PROVE IInv'
<1> PICK o : o = Head(events[r]).obj
  OBVIOUS
<1> DEFINE through == Visible(o) /\ removing[o] \in {"sent", "refused", "executed"} /\ waitsIn[o] = r
           moves == o \in Persons /\ moveTo # Nowhere /\ removing[o] \in {"sent", "executed"}
<1>1. TypeOK /\ ServerInv /\ RestTypes /\ ListsInv /\ MemberInv /\ CallsInv
  BY TypeParts DEF IInv
<1>2. ServerInv' /\ WorldTypes /\ Disappears(o, r)
  <2>1. PICK e \in Event : e = Head(events[r]) /\ (e.type = "removed" => Disappears(e.obj, r))
    BY EventKeeps, Zenon
  <2>2. Disappears(e.obj, r)
    BY <2>1
  <2>3. e.obj = o
    BY <2>1
  <2> QED BY <2>2, <2>3, EventKeeps, Zenon
<1>3. Removed(o) /\ UNCHANGED <<kind, calls, server, waitsIn, late, troubles>>
  BY DEF ApplyEvent
<1>4. /\ o \in Objects /\ Home(o) = r /\ o \in Channel /\ ~Past(o) /\ Past(o)'
      /\ \A x \in Objects : x \in Channel' <=> x \in Channel /\ x # o
      /\ \A x \in Objects : (WasAdded(x)' <=> WasAdded(x)) /\ (Past(x) => Past(x)')
      /\ Channel \subseteq Objects /\ Channel' \subseteq Objects
  BY <1>2 DEF Disappears, Channel
<1>5. /\ lists' = IF Visible(o) THEN [lists EXCEPT ![r] = @ \ {o}] ELSE lists
      /\ removing' = IF through THEN [removing EXCEPT ![o] = "done"] ELSE removing
      /\ member' = IF o \in Persons THEN [member EXCEPT !.person = IF @ = r THEN Nowhere ELSE @] ELSE member
      /\ localRoomMember' = IF o \in Persons /\ member.origin = r
                            THEN [localRoomMember EXCEPT ![r] = FALSE] ELSE localRoomMember
      /\ adding' = IF moves THEN [adding EXCEPT ![Person(moveTo)] = "sent"] ELSE adding
      /\ UNCHANGED <<orphans, stream, moveTo>>
  BY <1>3, <1>4 DEF Removed
<1>6. /\ member'.room = member.room /\ member'.origin = member.origin
      /\ member'.person = IF o \in Persons /\ member.person = r THEN Nowhere ELSE member.person
      /\ member' \in [room : Rooms \cup {Nowhere}, origin : Rooms \cup {Nowhere}, person : Rooms \cup {Nowhere}]
  <2>1. member \in [room : Rooms \cup {Nowhere}, origin : Rooms \cup {Nowhere}, person : Rooms \cup {Nowhere}]
    BY <1>1 DEF RestTypes
  <2> QED BY <1>5, <2>1
<1>7. /\ \A x \in Objects : removing'[x] = IF x = o /\ through THEN "done" ELSE removing[x]
      /\ removing' \in [Objects -> {"none", "sent", "executed", "refused", "done", "failed"}]
  BY <1>1, <1>4, <1>5 DEF RestTypes
<1>8. moves => moveTo \in Rooms /\ Person(moveTo) \in Objects /\ Person(moveTo) \in Persons
  BY <1>1, Kinds DEF RestTypes
<1>9. /\ \A x \in Objects : adding'[x] = IF moves /\ x = Person(moveTo) THEN "sent" ELSE adding[x]
      /\ adding' \in [Objects -> {"none", "sent", "executed", "waiting", "ending", "done", "failed"}]
  BY <1>1, <1>5, <1>8 DEF RestTypes
<1>10. RestTypes'
  <2>1. lists' \in [Rooms -> SUBSET Objects] /\ localRoomMember' \in [Rooms -> BOOLEAN]
    BY <1>1, <1>5 DEF RestTypes
  <2> QED BY <1>1, <1>3, <1>5, <1>6, <1>7, <1>9, <2>1 DEF RestTypes
<1>11. /\ \A x : Visible(x)' <=> Visible(x)
       /\ \A s : Target(s)' = Target(s)
  BY <1>3, <1>5, VisibleIs, TargetSame
<1>12. ListsInv'
  <2>1. (\A x \in orphans : WasAdded(x))'
    BY <1>1, <1>4, <1>5 DEF ListsInv, RestTypes, Objects
  <2>2. ASSUME NEW z \in Rooms
        PROVE  lists'[z] = {x \in Channel' : Home(x) = z /\ Visible(x)'} \cup late[z]
    <3>1. lists[z] = {x \in Channel : Home(x) = z /\ Visible(x)} \cup late[z]
      BY <1>1 DEF ListsInv
    <3>2. \A x : x \in lists'[z] <=> x \in lists[z] /\ ~(x = o /\ z = r /\ Visible(o))
      BY <1>1, <1>5 DEF RestTypes
    <3>3. \A x : x \in {y \in Channel' : Home(y) = z /\ Visible(y)'} <=>
                 x \in {y \in Channel : Home(y) = z /\ Visible(y)} /\ ~(x = o /\ z = r /\ Visible(o))
      BY <1>4, <1>11
    <3>4. z = r /\ Visible(o) => o \notin late[z]
      BY <1>1, <1>4 DEF ListsInv
    <3>5. \A x : x \in lists'[z] <=> x \in {y \in Channel' : Home(y) = z /\ Visible(y)'} \cup late[z]
      BY <3>1, <3>2, <3>3, <3>4
    <3>6. lists'[z] \in SUBSET Objects
      BY <1>10 DEF RestTypes
    <3> QED BY <3>5, <3>6
  <2>3. ASSUME NEW z \in Rooms, NEW x \in Objects, x \in late[z]
        PROVE  /\ x \notin Persons
               /\ Home(x) = z => Past(x)' \/ (WasAdded(x)' /\ ~Visible(x)')
    BY <1>1, <1>4, <1>11, <2>3 DEF ListsInv
  <2> QED BY <1>3, <2>1, <2>2, <2>3 DEF ListsInv
<1>13. removing[o] \in {"sent", "executed"} => through
  BY <1>1, <1>4 DEF CallsInv
<1>14. CallsInv'
  <2>1. (\A x \in Objects : /\ removing[x] \in {"sent", "executed"} => waitsIn[x] = Home(x) /\ x \in Channel /\ Visible(x)
                            /\ removing[x] = "done" => Past(x))'
    BY <1>1, <1>3, <1>4, <1>7, <1>11, <1>13 DEF CallsInv
  <2>2. \A s \in Subs : s \in Objects /\ adding'[s] = adding[s] /\ stream'[s] = stream[s]
    BY <1>5, <1>8, <1>9, Kinds
  <2>3. ASSUME NEW s \in Subs
        PROVE  (/\ stream[s] # "none" \/ adding[s] \in {"waiting", "ending", "done"} => WasAdded(s)
                /\ adding[s] = "waiting" => stream[s] # "attached")'
    BY <1>1, <1>4, <2>2 DEF CallsInv
  <2>4. ASSUME NEW s \in Subs, adding'[s] \in {"ending", "done"}, stream'[s] # "attached"
        PROVE  \E x \in Subs \ {s} : Target(x)' = Target(s)' /\ stream'[x] = "attached"
    BY <1>1, <1>11, <2>2, <2>4 DEF CallsInv
  <2> QED BY <2>1, <2>3, <2>4 DEF CallsInv
<1>15. MemberInv'
  <2>1. CASE o \notin Persons
    <3>1. \A x \in Rooms : Person(x) \in Objects /\ Person(x) # o
      BY <2>1, Kinds
    <3>2. member' = member /\ moveTo' = moveTo /\ localRoomMember' = localRoomMember
      BY <1>5, <2>1
    <3>3. /\ \A x \in Rooms : adding'[Person(x)] = adding[Person(x)] /\ removing'[Person(x)] = removing[Person(x)]
          /\ \A x \in Rooms : Person(x) \in Channel' <=> Person(x) \in Channel
          /\ member.person \in Rooms \cup {Nowhere} /\ member.origin \in Rooms \cup {Nowhere} /\ moveTo \in Rooms \cup {Nowhere}
      BY <1>1, <1>4, <1>7, <1>9, <2>1, <3>1 DEF RestTypes
    <3> QED BY <1>1, <3>2, <3>3 DEF MemberInv
  <2>2. CASE o \in Persons
    <3>1. o = Person(r) /\ \A x \in Rooms : Person(x) \in Objects /\ (Person(x) = o <=> x = r)
      BY <1>4, <2>2, Kinds, Homes
    <3>2. /\ member.person \in Rooms \cup {Nowhere} /\ member.origin \in Rooms \cup {Nowhere} /\ moveTo \in Rooms \cup {Nowhere}
          /\ Nowhere \notin Rooms /\ moveTo' = moveTo
          /\ member'.person = IF member.person = r THEN Nowhere ELSE member.person
      BY <1>1, <1>5, <1>6, <2>2, Kinds DEF RestTypes
    <3>3. moves => /\ member.person = r /\ member.origin # Nowhere /\ adding[Person(moveTo)] # "done"
                   /\ adding[Person(member.origin)] = "done"
      BY <1>1, <3>1 DEF MemberInv
    <3>4. \A x \in Rooms : adding'[Person(x)] = IF moves /\ x = moveTo THEN "sent" ELSE adding[Person(x)]
      BY <1>8, <1>9, <3>1, Kinds
    <3>5. \A x \in Rooms : /\ removing'[Person(x)] \in {"sent", "executed"} => x # r /\ removing[Person(x)] \in {"sent", "executed"}
                           /\ x # r => (Person(x) \in Channel' <=> Person(x) \in Channel)
      BY <1>4, <1>7, <1>13, <3>1
    <3>6. \A x \in Rooms : localRoomMember'[x] => localRoomMember[x] /\ x # r
      BY <1>1, <1>5, <2>2 DEF MemberInv, RestTypes
    <3> HIDE DEF moves
    <3>7. (member.person # Nowhere => /\ member.person = member.room /\ member.origin # Nowhere
                                      /\ Person(member.person) \in Channel)'
      BY <1>1, <1>6, <3>2, <3>5 DEF MemberInv
    <3>8. (member.origin # Nowhere => adding[Person(member.origin)] = "done")'
      BY <1>1, <1>6, <3>2, <3>3, <3>4 DEF MemberInv
    <3>9. (moveTo # Nowhere => /\ member.origin # Nowhere /\ adding[Person(moveTo)] # "done"
                               /\ adding[Person(moveTo)] \in {"sent", "executed"} => member.person = Nowhere)'
      BY <1>1, <1>6, <3>2, <3>3, <3>4 DEF MemberInv
    <3>10. ASSUME NEW x \in Rooms
           PROVE  (/\ localRoomMember[x] => member.origin = x /\ Person(x) \in Channel
                   /\ adding[Person(x)] \in {"sent", "executed"} /\ moveTo # x => member.origin = Nowhere
                   /\ removing[Person(x)] \in {"sent", "executed"} => member.person = x)'
      BY <1>1, <1>6, <3>2, <3>4, <3>5, <3>6 DEF MemberInv
    <3>11. (member.origin = Nowhere =>
               \A x, z \in Rooms : adding[Person(x)] # "none" /\ adding[Person(z)] # "none" => x = z)'
      BY <1>1, <1>6, <3>3, <3>4 DEF MemberInv
    <3> QED BY <3>7, <3>8, <3>9, <3>10, <3>11 DEF MemberInv
  <2> QED BY <2>1, <2>2
<1> QED BY <1>2, <1>10, <1>12, <1>14, <1>15, TypeParts DEF IInv

LEMMA ApplyEventKeeps == ASSUME IInv, NEW r \in Rooms, ApplyEvent(r) PROVE IInv'
<1>1. Head(events[r]) \in Event
  <2>1. PICK e \in Event : e = Head(events[r])
    BY EventKeeps, Zenon
  <2> QED BY <2>1
<1>2. Head(events[r]).type \in {"added", "removed", "left"}
  BY <1>1 DEF Event
<1> QED BY <1>2, LeftKeeps, AddedKeeps, RemovedKeeps

-----------------------------------------------------------------------------
(* The invariant holds                                                     *)

LEMMA InitHolds == Init => IInv
<1> SUFFICES ASSUME Init PROVE IInv
  OBVIOUS
<1>1. /\ kind \in {"p2p", "sfu"} /\ server.gone = {}
      /\ server.up = {Origin(p) : p \in Theirs} \cup (IF kind = "sfu" THEN {Relay(p) : p \in Theirs} ELSE {})
      /\ server = [up |-> server.up, gone |-> {}]
      /\ events = [r \in Rooms |-> << >>] /\ orphans = {}
      /\ \A r \in Rooms : lists[r] = {Shown(p) : p \in {q \in Theirs : Place[q] = r}} /\ late[r] = {}
  BY DEF Init
<1>2. server.up \subseteq Objects /\ Theirs \subseteq Publications
  BY <1>1, Kinds DEF Publications
<1>3. \A r \in Rooms : {Shown(p) : p \in {q \in Theirs : Place[q] = r}} \subseteq Objects
  BY <1>1, <1>2, Kinds DEF Shown
<1>4. RestTypes
  <2>1. calls \in 0..MaxCalls /\ troubles \in 0..MaxTroubles
    BY RoomAssumption DEF Init
  <2>2. lists \in [Rooms -> SUBSET Objects] /\ late \in [Rooms -> SUBSET Objects]
    BY <1>3 DEF Init
  <2>3. /\ localRoomMember \in [Rooms -> BOOLEAN]
        /\ member \in [room : Rooms \cup {Nowhere}, origin : Rooms \cup {Nowhere}, person : Rooms \cup {Nowhere}]
        /\ moveTo \in Rooms \cup {Nowhere}
    BY DEF Init
  <2>4. /\ adding \in [Objects -> {"none", "sent", "executed", "waiting", "ending", "done", "failed"}]
        /\ removing \in [Objects -> {"none", "sent", "executed", "refused", "done", "failed"}]
        /\ waitsIn \in [Objects -> Rooms \cup {Nowhere}]
        /\ stream \in [Subs -> {"none", "starting", "attached", "failed"}]
    BY DEF Init
  <2> QED BY <1>1, <2>1, <2>2, <2>3, <2>4 DEF RestTypes
<1>5. server \in [up : SUBSET Objects, gone : SUBSET (Objects \cup {Others(r) : r \in Rooms})]
  BY <1>1, <1>2
<1>6. events \in [Rooms -> Seq([type : {"added", "removed", "left"}, obj : Objects \cup {Others(r) : r \in Rooms}])]
  BY <1>1
<1>7. TypeOK
  BY <1>4, <1>5, <1>6 DEF TypeOK, RestTypes
<1>8. \A o \in Objects : \A t : t \notin Pending(o)
  BY <1>1, Homes DEF Pending, Range
<1>9. ServerInv
  <2>1. \A r \in Rooms : InOrder(events[r]) /\ \A i \in DOMAIN events[r] : EventIsTrue(r, events[r][i])
    BY <1>1 DEF InOrder
  <2> QED BY <1>1, <2>1 DEF ServerInv
<1>10. \A x : x \in Channel <=> x \in server.up
  BY <1>1, <1>2, <1>8 DEF Channel, WasAdded
<1>11. ListsInv
  <2>1. ASSUME NEW r \in Rooms
        PROVE  lists[r] = {x \in Channel : Home(x) = r /\ Visible(x)} \cup late[r]
    <3>1. \A x : x \in server.up /\ Visible(x) <=> \E p \in Theirs : x = Shown(p)
      <4>1. CASE kind = "p2p"
        BY <1>1, <4>1, VisibleIs DEF Shown
      <4>2. CASE kind = "sfu"
        <5>1. \A p \in Theirs : /\ Origin(p) \in Origins
                                /\ Relay(p) \notin Origins /\ Relay(p) \in server.up
          BY <1>1, <1>2, <4>2, Kinds
        <5>2. \A x : x \in server.up => \E p \in Theirs : x = Origin(p) \/ x = Relay(p)
          BY <1>1, <4>2
        <5>3. \A p : Shown(p) = Relay(p)
          BY <4>2 DEF Shown
        <5> QED BY <1>1, <4>2, <5>1, <5>2, <5>3, VisibleIs
      <4> QED BY <1>1, <4>1, <4>2
    <3>2. \A p \in Theirs : Home(Shown(p)) = Place[p]
      BY <1>1, <1>2, Homes DEF Shown
    <3>3. \A x : x \in {Shown(p) : p \in {q \in Theirs : Place[q] = r}} <=> \E p \in Theirs : x = Shown(p) /\ Place[p] = r
      OBVIOUS
    <3>4. \A x : x \in {Shown(p) : p \in {q \in Theirs : Place[q] = r}} <=> x \in {y \in Channel : Home(y) = r /\ Visible(y)}
      BY <1>10, <3>1, <3>2, <3>3
    <3>5. {Shown(p) : p \in {q \in Theirs : Place[q] = r}} = {y \in Channel : Home(y) = r /\ Visible(y)}
      BY <3>4
    <3> QED BY <1>1, <3>5
  <2> QED BY <1>1, <2>1 DEF ListsInv
<1>12. MemberInv
  BY Kinds DEF Init, MemberInv
<1>13. CallsInv
  BY Kinds DEF Init, CallsInv
<1> QED BY <1>7, <1>9, <1>11, <1>12, <1>13 DEF IInv

LEMMA NextKeeps == IInv /\ [Next]_vars => IInv'
<1> SUFFICES ASSUME IInv, [Next]_vars PROVE IInv'
  OBVIOUS
<1>1. CASE Next
  <2>1. Mine \subseteq Publications
    BY Kinds
  <2> QED BY <1>1, ExecuteAddKeeps, ExecuteRemoveKeeps, OthersRemoveKeeps, RequestFailsKeeps, TimeoutKeeps,
             ApplyEventKeeps, OthersLeaveKeeps, joinKeeps, JoinedKeeps, leaveKeeps, moveRoomKeeps,
             publishKeeps, ForwardKeeps, PublishedKeeps, unpublishKeeps,
             subscribeKeeps, SubscribeAnsweredKeeps, SubscribeReturnsKeeps, StreamAttachedKeeps, StreamFailsKeeps,
             unsubscribeKeeps DEF Next
<1>2. CASE UNCHANGED vars
  <2>1. UNCHANGED <<kind, server, events, shown, local, adding, removing, waitsIn, stream, calls, troubles>>
    BY <1>2 DEF vars, shown, local
  <2>2. TypeOK /\ ServerInv /\ RestTypes
    BY TypeParts DEF IInv
  <2>3. ServerInv' /\ WorldSame /\ WorldTypes
    BY <2>1, <2>2, SameWorld
  <2>4. RestTypes' /\ PersonsKept /\ CallsOnly
    BY <2>1, <2>2 DEF RestTypes, PersonsKept, CallsOnly, shown, local
  <2> QED BY <2>1, <2>3, <2>4, QuietStep
<1> QED BY <1>1, <1>2

\* The events of a channel tell in order what the server did, and the lists, the member and
\* the calls are in step with them: the invariant that the properties rest on.
THEOREM Invariance == Spec => []IInv
<1>1. Init => IInv
  BY InitHolds
<1>2. IInv /\ [Next]_vars => IInv'
  BY NextKeeps
<1> QED BY <1>1, <1>2, PTL DEF Spec

\* A room lists what its channel has, without what it hides, and what a call put there when
\* the channel did not have it; its localRoomMember is in its channel.
THEOREM RoomsShowChannels == Spec => []RoomShowsChannel
<1>1. IInv => RoomShowsChannel
  BY DEF IInv, ListsInv, MemberInv, RoomShowsChannel
<1> QED BY <1>1, Invariance, PTL

\* When unpublish, unsubscribe or leave resolves, what it removed has gone; a subscribe that
\* returns has its stream or was taken in by that of another subscription.
THEOREM CallsAlwaysTellTruth == Spec => []CallsTellTruth
<1>1. IInv => CallsTellTruth
  BY DEF IInv, CallsInv, CallsTellTruth, Past, Channel
<1> QED BY <1>1, Invariance, PTL

\* A removal that was not refused waits in the right room for an event that is to come, and
\* a subscribe waits only while its stream is not there.
THEOREM NobodyEverWaitsInVain == Spec => []NobodyWaitsInVain
<1>1. IInv => NobodyWaitsInVain
  BY DEF IInv, CallsInv, NobodyWaitsInVain
<1> QED BY <1>1, Invariance, PTL
=============================================================================
