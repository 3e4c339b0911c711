----------------------- MODULE PersonRendezvous_proof -----------------------
(***************************************************************************)
(* What PersonRendezvous promises for every number of publications,        *)
(* events and connections: NothingLost, MediaFlows, NobodyStaysWaiting.    *)
(*                                                                         *)
(* The two persons handle the same events in the same order and each       *)
(* event leaves one task, so each side is described by how many events it  *)
(* has run (Ran) and the two are compared by that number: Fed says what a  *)
(* subscriber has once its publisher has run the start, and the earliest   *)
(* event that anybody waits at has therefore been served.                  *)
(***************************************************************************)
EXTENDS PersonRendezvous, SequenceTheorems, WellFoundedInduction, TLAPS

----------------------------------------------------------------------------
(* The inductive invariant.                                                *)

\* What TypeOK leaves out; a task that adds a subscription has its number.
Numbered(q) == \A j \in 1..Len(q) : q[j].kind = "startSub" => q[j].sub \in 1..MaxEvents
Bounded ==
    /\ Len(events) <= MaxEvents
    /\ \A x \in Persons : seen[x] <= Len(events) /\ handling[x] \subseteq 1..seen[x]
    /\ sent \in [Persons -> Seq(Message)] /\ handled \in [Persons -> Seq(Message)]
    /\ \A x \in Persons : conn[x] # NoConnection => Numbered(conn[x].queue)

\* Until a connection is closed, a person's first one is the only one, and the buffer is
\* handed to it.
KeptFor(x) ==
    /\ conn[x] = NoConnection <=> made[x] = 0
    /\ conn[x] # NoConnection => buffer[x] = <<>>
    /\ sent[x] = handled[x] \o buffer[x] \o toward[x]
Kept == "closed" \notin causes => \A x \in Persons : KeptFor(x)

Begins(i, p) == i \in 1..Len(events) /\ events[i].pub = p /\ events[i].kind = "subscribed"
Ends(i, p) == i \in 1..Len(events) /\ events[i].pub = p /\ events[i].kind = "unsubscribed"
\* Between a and r, r included, no subscription of p ends.
Lasts(p, a, r) == \A i \in 1..Len(events) : a < i /\ i <= r => ~Ends(i, p)

\* The server ends only what has begun.
Alternate ==
    \A p \in Pubs : \A i \in 1..Len(events) :
        Ends(i, p) => \E a \in 1..Len(events) : a < i /\ Begins(a, p) /\ Lasts(p, a, i - 1)

\* The two sides, a person without a connection being one that has done nothing.
Linked(x) == conn[x] # NoConnection
Done(x) == CHOOSE d \in 0..seen[x] : handling[x] = (d + 1)..seen[x]
RanOf(d, q) == d - Len(q) + IF q # <<>> /\ Head(q).kind = "sending" THEN 1 ELSE 0
Ran(x) == IF Linked(x) THEN RanOf(Done(x), conn[x].queue) ELSE 0
Published(x) == IF Linked(x) THEN conn[x].publications ELSE {}
PubsIn(w) == {w[i].pub : i \in 1..Len(w)}
Waiting(x) == IF Linked(x) THEN PubsIn(conn[x].pending) ELSE {}
Negotiates(x) == Linked(x) /\ conn[x].isNegotiating
Had(x) == IF Linked(x) THEN Streams(conn[x]) ELSE {}
InBox(x) == buffer[x] \o toward[x]

\* The events a person has handled are the first Done(x).
InOrder(x) == starting[x] = {} /\ Done(x) \in 0..seen[x] /\ handling[x] = (Done(x) + 1)..seen[x]

\* One connection on each side, and messages between these.
OfFirst(s) == \A i \in 1..Len(s) : s[i].from = 1 /\ (s[i].kind = "answer" => s[i].to = 1)
OnlyConnection(x) ==
    /\ ~Linked(x) => Done(x) = 0 /\ made[x] = 0
    /\ Linked(x) =>
        /\ Done(x) > 0 /\ conn[x].id = 1 /\ conn[x].peer \in {0, 1} /\ buffer[x] = <<>>
        /\ \A s \in conn[x].streams : s[2] = 1
    /\ OfFirst(InBox(x))

\* The task that event i leaves in the queue of x, at position j.
Fits(x, i, task, j) ==
    /\ task.pub = events[i].pub
    /\ IF Publisher(task.pub) = x
       THEN IF events[i].kind = "subscribed"
            THEN task.kind = "startPub" \/ (task.kind = "sending" /\ j = 1)
            ELSE task.kind = "stopPub"
       ELSE task.kind = IF events[i].kind = "subscribed" THEN "startSub" ELSE "stopSub"

\* A queue holds the tasks of the last of the d events handled.
QueueFits(x, d, q) ==
    /\ Len(q) <= d
    /\ \A j \in 1..Len(q) : Fits(x, d - Len(q) + j, q[j], j)
TasksFit(x) == Linked(x) => QueueFits(x, Done(x), conn[x].queue)

\* What waits while the connection negotiates.
Additions(w) == \A i \in 1..Len(w) : w[i].op = "add"
OnlyAdditions(x) ==
    Linked(x) => /\ Additions(conn[x].pending)
                 /\ ~conn[x].isNegotiating => conn[x].pending = <<>>

\* A publication whose subscription a person has run is sent, or is about to be.
Current(p, r) == \E a \in 1..Len(events) : a <= r /\ Begins(a, p) /\ Lasts(p, a, r)

IsPub(p, r, S) == Current(p, r) => p \in S
IsPublished ==
    \A p \in Pubs :
        LET x == Publisher(p)
        IN  IsPub(p, Ran(x), Published(x) \cup Waiting(x))

\* A negotiation is one offer on its way, or one answer; there are no others.
Offers == {"produce", "unproduce"}
Answers == {"answer"}
None(s, K) == \A i \in 1..Len(s) : s[i].kind \notin K
One(s, K) ==
    \E i \in 1..Len(s) : s[i].kind \in K /\ \A j \in 1..Len(s) : s[j].kind \in K => j = i
Free(out, in) == None(out, Offers) /\ None(in, Answers)
Engaged(out, in) ==
    \/ One(out, Offers) /\ None(in, Answers)
    \/ None(out, Offers) /\ One(in, Answers)

Exchange ==
    \A x \in Persons :
        /\ Negotiates(x) => Engaged(InBox(Other(x)), InBox(x))
        /\ ~Negotiates(x) => Free(InBox(Other(x)), InBox(x))

\* What x is still to offer, or has offered without it being taken.
Offering(s, p) == \E i \in 1..Len(s) : s[i].kind = "produce" /\ s[i].pub = p
Due(x) == Waiting(x) \cup {p \in Pubs : Offering(InBox(Other(x)), p)}

\* Once its publisher, at r, has run the start of a subscription and offered it, its
\* subscriber, at s, has the stream until it runs the end; and it had run every earlier
\* end before the stream came.
FedIn(p, r, s, D, H) ==
    \A a \in 1..Len(events) :
        /\ Begins(a, p) /\ a <= r
        /\ ~Lasts(p, a, r) \/ p \notin D
        /\ Lasts(p, a, s)
        => p \in H /\ \A i \in 1..Len(events) : i < a /\ Ends(i, p) => i <= s
Fed ==
    \A p \in Pubs :
        LET x == Publisher(p)
            y == Subscriber(p)
        IN  FedIn(p, Ran(x), Ran(y), Due(x), Had(y))

Structured(x) == InOrder(x) /\ OnlyConnection(x) /\ TasksFit(x) /\ OnlyAdditions(x)
Agreement == IsPublished /\ Exchange /\ Fed
IInv ==
    /\ TypeOK /\ Bounded /\ Kept /\ Alternate
    /\ Undisturbed => (\A x \in Persons : Structured(x)) /\ Agreement

----------------------------------------------------------------------------
(* Persons, and the last event of a publication.                           *)

\* There are two persons, each the other's other.
LEMMA TwoPersons ==
    ASSUME NEW x \in Persons
    PROVE  /\ Other(x) \in Persons /\ Other(x) # x /\ Other(Other(x)) = x
           /\ \A y \in Persons : y = x \/ y = Other(x)
<1>1. PICK a \in Persons, b \in Persons : a # b /\ Persons = {a, b}
  BY RendezvousAssumption
<1>2. \A z \in Persons : Other(z) \in Persons /\ Other(z) # z
  BY <1>1 DEF Other
<1> QED BY <1>1, <1>2

\* A publication has one publisher, the subscriber being the other person.
LEMMA Sides ==
    ASSUME NEW p \in Pubs
    PROVE  /\ Publisher(p) \in Persons /\ Subscriber(p) \in Persons
           /\ Subscriber(p) # Publisher(p)
           /\ Subscriber(p) = Other(Publisher(p)) /\ Publisher(p) = Other(Subscriber(p))
           /\ \A x \in Persons : x # Publisher(p) => x = Subscriber(p)
<1>1. Publisher(p) \in Persons
  BY RendezvousAssumption DEF Publisher
<1> QED BY <1>1, TwoPersons DEF Subscriber

\* A set of numbers up to n has a greatest one.
LEMMA GreatestExists ==
    ASSUME NEW n \in Nat, NEW S \in SUBSET (1..n), S # {}
    PROVE  Max(S) \in S /\ \A y \in S : y <= Max(S)
<1> DEFINE R == {ss \in Nat \X Nat : ss[1] < ss[2]}
           T == {k \in Nat : k <= n /\ n - k \in S}
<1>1. IsWellFoundedOn(R, Nat)
  BY NatLessThanWellFounded DEF OpToRel
<1>2. T # {} /\ T \subseteq Nat
  <2>1. PICK s \in S : TRUE
    OBVIOUS
  <2>2. n - s \in Nat /\ n - s <= n /\ n - (n - s) = s
    BY <2>1
  <2> QED BY <2>1, <2>2
<1>3. PICK k \in T : \A j \in T : ~ (<<j, k>> \in R)
  <2> HIDE DEF R, T
  <2> QED BY <1>1, <1>2, WFMin
<1>4. ASSUME NEW j \in T PROVE k <= j
  <2> DEFINE q == <<j, k>>
  <2>1. q \in Nat \X Nat /\ q[1] = j /\ q[2] = k /\ k \in Nat /\ j \in Nat
    OBVIOUS
  <2>2. j < k => q \in R
    BY ONLY <2>1 DEF R
  <2> QED BY <1>3, <2>1, <2>2
<1>5. n - k \in S
  BY <1>3
<1>6. ASSUME NEW y \in S PROVE y <= n - k
  <2>1. n - y \in Nat /\ n - y <= n /\ n - (n - y) = y
    OBVIOUS
  <2>2. n - y \in T
    BY <2>1
  <2>3. k <= n - y
    BY <1>4, <2>2
  <2> QED BY <2>1, <2>3
<1>7. \E x \in S : \A y \in S : x >= y
  BY <1>5, <1>6
<1> QED BY <1>7 DEF Max

\* Events have a publication and one of two kinds.
LEMMA EventsAre ==
    ASSUME TypeOK
    PROVE  /\ events \in Seq(Event) /\ Len(events) \in Nat
           /\ \A i \in 1..Len(events) :
                /\ events[i] \in Event /\ events[i].pub \in Pubs
                /\ events[i].kind \in {"subscribed", "unsubscribed"}
<1>1. events \in Seq(Event)
  BY DEF TypeOK
<1>2. Len(events) \in Nat /\ \A i \in 1..Len(events) : events[i] \in Event
  BY ONLY <1>1
<1>3. ASSUME NEW e \in Event PROVE e.pub \in Pubs /\ e.kind \in {"subscribed", "unsubscribed"}
  BY DEF Event
<1> QED BY <1>1, <1>2, <1>3

\* SelectLastInSeq is 0, or the last index whose element passes; here for a publication.
LEMMA ActiveBegins ==
    ASSUME TypeOK, NEW p \in Pubs, Active(p)
    PROVE  \E a \in 1..Len(events) : Begins(a, p) /\ Lasts(p, a, Len(events))
<1> DEFINE I == {i \in 1..Len(events) : events[i].pub = p}
           last == IF I # {} THEN Max(I) ELSE 0
<1>1. last # 0 /\ events[last].kind = "subscribed"
  BY DEF Active, SelectLastInSeq
<1>2. Len(events) \in Nat
  BY EventsAre
<1>3. I # {}
  BY <1>1
<1>4. last \in I /\ \A y \in I : y <= last
  <2>1. I \in SUBSET (1..Len(events))
    OBVIOUS
  <2> HIDE DEF I
  <2> QED BY <1>2, <1>3, <2>1, GreatestExists
<1> HIDE DEF last
<1>5. Begins(last, p)
  BY <1>1, <1>4 DEF Begins
<1>6. Lasts(p, last, Len(events))
  BY <1>2, <1>4 DEF Lasts, Ends
<1> QED BY <1>4, <1>5, <1>6

\* An event that begins a subscription is its number; one that ends it has the number of
\* an earlier one, if any.
LEMMA SubscriptionNumber ==
    ASSUME TypeOK, Bounded, NEW i \in 1..Len(events)
    PROVE  /\ SubscriptionOf(i) \in 0..MaxEvents
           /\ events[i].kind = "subscribed" => SubscriptionOf(i) \in 1..MaxEvents
<1> DEFINE s == SubSeq(events, 1, i)
           I == {j \in 1..Len(s) : s[j].pub = events[i].pub /\ s[j].kind = "subscribed"}
<1>1. SubscriptionOf(i) = IF I # {} THEN Max(I) ELSE 0
  BY DEF SubscriptionOf, SelectLastInSeq
<1>2. events \in Seq(Event) /\ Len(events) \in Nat /\ Len(events) <= MaxEvents /\ MaxEvents \in Nat
  BY EventsAre, RendezvousAssumption DEF Bounded
<1>3. Len(s) = i /\ s[i] = events[i]
  BY <1>2
<1>4. I \in SUBSET (1..i)
  BY <1>3
<1>5. events[i].kind = "subscribed" => i \in I
  BY <1>3
<1> HIDE DEF I, s
<1>6. I # {} => Max(I) \in 1..i
  <2>1. i \in Nat
    OBVIOUS
  <2> QED BY ONLY <1>4, <2>1, GreatestExists
<1> QED BY <1>1, <1>2, <1>5, <1>6

----------------------------------------------------------------------------
(* What the updates of a connection make of its fields.                    *)

\* The fields of a connection.
LEMMA ConnectionIs ==
    ASSUME NEW c \in Connection
    PROVE  /\ c # NoConnection
           /\ c.id \in 1..MaxConnections /\ c.queue \in Seq(Task) /\ c.publications \in SUBSET Pubs
           /\ c.isNegotiating \in BOOLEAN /\ c.pending \in Seq(Op) /\ c.peer \in 0..MaxConnections
           /\ c.subscriptions \in SUBSET (1..MaxEvents)
           /\ c.streams \in SUBSET (Pubs \X (1..MaxConnections))
<1>1. /\ c.id \in 1..MaxConnections /\ c.queue \in Seq(Task) /\ c.publications \in SUBSET Pubs
      /\ c.isNegotiating \in BOOLEAN /\ c.pending \in Seq(Op) /\ c.peer \in 0..MaxConnections
      /\ c.subscriptions \in SUBSET (1..MaxEvents)
      /\ c.streams \in SUBSET (Pubs \X (1..MaxConnections))
  BY DEF Connection
<1>2. c # NoConnection
  BY <1>1 DEF NoConnection
<1> QED BY <1>1, <1>2

\* Same but for the queue.
SameButQueue(d, c) ==
    /\ d.id = c.id /\ d.publications = c.publications /\ d.isNegotiating = c.isNegotiating
    /\ d.pending = c.pending /\ d.peer = c.peer /\ d.subscriptions = c.subscriptions
    /\ d.streams = c.streams

\* Only the queue of a connection changes.
LEMMA QueueSet ==
    ASSUME NEW c \in Connection, NEW q \in Seq(Task)
    PROVE  LET d == [c EXCEPT !.queue = q]
           IN  d \in Connection /\ d.queue = q /\ SameButQueue(d, c)
<1> DEFINE d == [c EXCEPT !.queue = q]
<1>1. d \in Connection
  BY DEF Connection
<1>2. d.queue = q /\ SameButQueue(d, c)
  BY DEF Connection, SameButQueue
<1> QED BY <1>1, <1>2

\* Sender.add while nothing is negotiated, and while something is.
LEMMA AddedIs ==
    ASSUME NEW c \in Connection, NEW p \in Pubs
    PROVE  LET d == added(c, p)
           IN  /\ d \in Connection /\ d.isNegotiating = TRUE
               /\ d.queue = c.queue /\ d.id = c.id /\ d.peer = c.peer
               /\ d.subscriptions = c.subscriptions /\ d.streams = c.streams
               /\ ~c.isNegotiating => d.publications = c.publications \cup {p} /\ d.pending = c.pending
               /\ c.isNegotiating =>
                    /\ d.publications = c.publications
                    /\ d.pending = Append(c.pending, [op |-> "add", pub |-> p])
<1>0. [op |-> "add", pub |-> p] \in Op
  BY DEF Op
<1>1. CASE c.isNegotiating
  <2> DEFINE w == Append(c.pending, [op |-> "add", pub |-> p])
             d == [c EXCEPT !.pending = w]
  <2>1. w \in Seq(Op)
    BY <1>0, ConnectionIs
  <2>2. added(c, p) = d
    BY <1>1 DEF added, Busy
  <2> HIDE DEF w
  <2>3. d \in Connection
    BY <2>1 DEF Connection
  <2>4. /\ d.isNegotiating = c.isNegotiating /\ d.pending = w /\ d.publications = c.publications
        /\ d.queue = c.queue /\ d.id = c.id /\ d.peer = c.peer
        /\ d.subscriptions = c.subscriptions /\ d.streams = c.streams
    BY DEF Connection
  <2> HIDE DEF d
  <2> QED BY <1>1, <2>2, <2>3, <2>4 DEF w
<1>2. CASE ~c.isNegotiating
  <2> DEFINE d == [c EXCEPT !.isNegotiating = TRUE, !.publications = @ \cup {p}]
  <2>2. added(c, p) = d
    BY <1>2 DEF added, Busy
  <2>3. d \in Connection
    BY DEF Connection
  <2>4. /\ d.isNegotiating = TRUE /\ d.pending = c.pending /\ d.publications = c.publications \cup {p}
        /\ d.queue = c.queue /\ d.id = c.id /\ d.peer = c.peer
        /\ d.subscriptions = c.subscriptions /\ d.streams = c.streams
    BY DEF Connection
  <2> HIDE DEF d
  <2> QED BY <1>2, <2>2, <2>3, <2>4
<1> QED BY <1>1, <1>2

\* Sender.remove: of what is published and while nothing is negotiated, it begins an offer.
LEMMA RemovedIs ==
    ASSUME NEW c \in Connection, NEW p \in Pubs
    PROVE  LET d == removed(c, p)
           IN  /\ d \in Connection
               /\ d.queue = c.queue /\ d.id = c.id /\ d.peer = c.peer
               /\ d.subscriptions = c.subscriptions /\ d.streams = c.streams
               /\ p \in c.publications /\ ~c.isNegotiating =>
                    /\ d.publications = c.publications \ {p} /\ d.pending = c.pending
                    /\ d.isNegotiating = TRUE
<1>0. [op |-> "remove", pub |-> p] \in Op
  BY DEF Op
<1>1. CASE p \notin c.publications
  BY <1>1 DEF removed
<1>2. CASE p \in c.publications /\ c.isNegotiating
  <2> DEFINE w == Append(c.pending, [op |-> "remove", pub |-> p])
             d == [c EXCEPT !.publications = @ \ {p}, !.pending = w]
  <2>1. w \in Seq(Op)
    BY <1>0, ConnectionIs
  <2>2. removed(c, p) = d
    BY <1>2 DEF removed, Busy
  <2> HIDE DEF w
  <2>3. d \in Connection
    BY <2>1 DEF Connection
  <2>4. /\ d.queue = c.queue /\ d.id = c.id /\ d.peer = c.peer
        /\ d.subscriptions = c.subscriptions /\ d.streams = c.streams
    BY DEF Connection
  <2> HIDE DEF d
  <2> QED BY <1>2, <2>2, <2>3, <2>4
<1>3. CASE p \in c.publications /\ ~c.isNegotiating
  <2> DEFINE d == [c EXCEPT !.isNegotiating = TRUE, !.publications = @ \ {p}]
  <2>2. removed(c, p) = d
    BY <1>3 DEF removed, Busy
  <2>3. d \in Connection
    BY DEF Connection
  <2>4. /\ d.isNegotiating = TRUE /\ d.pending = c.pending /\ d.publications = c.publications \ {p}
        /\ d.queue = c.queue /\ d.id = c.id /\ d.peer = c.peer
        /\ d.subscriptions = c.subscriptions /\ d.streams = c.streams
    BY DEF Connection
  <2> HIDE DEF d
  <2> QED BY <1>3, <2>2, <2>3, <2>4
<1> QED BY <1>1, <1>2, <1>3

\* Receiver.add; the streams stay as they are.
LEMMA SubscribedIs ==
    ASSUME NEW c \in Connection, c.queue # <<>>, Head(c.queue).sub \in 1..MaxEvents
    PROVE  LET d == Subscribed(c)
           IN  /\ d \in Connection /\ d.queue = Tail(c.queue)
               /\ d.id = c.id /\ d.publications = c.publications
               /\ d.isNegotiating = c.isNegotiating /\ d.pending = c.pending /\ d.peer = c.peer
               /\ d.streams = c.streams
<1> DEFINE q == Tail(c.queue)
           S == c.subscriptions \cup {Head(c.queue).sub}
           d == [c EXCEPT !.subscriptions = S, !.queue = q]
<1>1. q \in Seq(Task) /\ S \in SUBSET (1..MaxEvents)
  BY ConnectionIs
<1>2. Subscribed(c) = d
  BY DEF Subscribed
<1> HIDE DEF q, S
<1>3. d \in Connection
  BY <1>1 DEF Connection
<1>4. /\ d.queue = q /\ d.id = c.id /\ d.publications = c.publications
      /\ d.isNegotiating = c.isNegotiating /\ d.pending = c.pending /\ d.peer = c.peer
      /\ d.streams = c.streams
  BY DEF Connection
<1> HIDE DEF d
<1> QED BY <1>2, <1>3, <1>4 DEF q

\* Receiver.remove: at most the streams of the task's publication go.
LEMMA UnsubscribedIs ==
    ASSUME NEW c \in Connection, NEW task
    PROVE  LET d == Unsubscribed(c, task)
           IN  /\ d \in Connection /\ d.queue = c.queue
               /\ d.id = c.id /\ d.publications = c.publications
               /\ d.isNegotiating = c.isNegotiating /\ d.pending = c.pending /\ d.peer = c.peer
               /\ d.streams \subseteq c.streams
               /\ \A s \in c.streams : s[1] # task.pub => s \in d.streams
<1>1. CASE task.sub \notin c.subscriptions
  BY <1>1 DEF Unsubscribed
<1>2. CASE task.sub \in c.subscriptions
  <2> DEFINE S == c.subscriptions \ {task.sub}
             T == {s \in c.streams : s[1] # task.pub}
             d == [c EXCEPT !.subscriptions = S, !.streams = T]
  <2>1. S \in SUBSET (1..MaxEvents) /\ T \in SUBSET (Pubs \X (1..MaxConnections))
    BY ConnectionIs
  <2>2. Unsubscribed(c, task) = d
    BY <1>2 DEF Unsubscribed
  <2>0. T \subseteq c.streams /\ \A s \in c.streams : s[1] # task.pub => s \in T
    OBVIOUS
  <2> HIDE DEF S, T
  <2>3. d \in Connection
    BY <2>1 DEF Connection
  <2>4. /\ d.queue = c.queue /\ d.id = c.id /\ d.publications = c.publications
        /\ d.isNegotiating = c.isNegotiating /\ d.pending = c.pending /\ d.peer = c.peer
        /\ d.streams = T
    BY DEF Connection
  <2> HIDE DEF d
  <2> QED BY <2>0, <2>2, <2>3, <2>4
<1> QED BY <1>1, <1>2

\* A new connection.
LEMMA MadeIs ==
    ASSUME NEW id \in 1..MaxConnections, NEW task \in Task
    PROVE  LET d == Made(id, task)
           IN  /\ d \in Connection /\ d.id = id /\ d.queue = <<task>> /\ d.publications = {}
               /\ d.isNegotiating = FALSE /\ d.pending = <<>> /\ d.peer = 0 /\ d.streams = {}
<1>1. <<task>> \in Seq(Task) /\ <<>> \in Seq(Op) /\ 0 \in 0..MaxConnections
  BY RendezvousAssumption
<1> DEFINE q == <<task>>
           w == <<>>
<1> HIDE DEF q, w
<1>2. q \in Seq(Task) /\ w \in Seq(Op)
  BY <1>1 DEF q, w
<1> DEFINE d == [id |-> id, queue |-> q, publications |-> {}, isNegotiating |-> FALSE,
                 pending |-> w, peer |-> 0, subscriptions |-> {}, streams |-> {}]
<1>3. d \in Connection
  BY <1>1, <1>2 DEF Connection
<1>4. Made(id, task) = d
  BY DEF Made, q, w
<1> QED BY <1>3, <1>4 DEF q, w

\* An offer is taken.
LEMMA MetIs ==
    ASSUME NEW c \in Connection, NEW k \in 1..MaxConnections, NEW p \in Pubs
    PROVE  LET met == [c EXCEPT !.peer = k]
               d == [met EXCEPT !.streams = @ \cup {<<p, k>>}]
           IN  /\ met \in Connection /\ d \in Connection
               /\ met.peer = k /\ met.queue = c.queue /\ met.id = c.id
               /\ met.publications = c.publications /\ met.isNegotiating = c.isNegotiating
               /\ met.pending = c.pending /\ met.streams = c.streams
               /\ d.peer = k /\ d.queue = c.queue /\ d.id = c.id
               /\ d.publications = c.publications /\ d.isNegotiating = c.isNegotiating
               /\ d.pending = c.pending /\ d.streams = c.streams \cup {<<p, k>>}
<1> DEFINE met == [c EXCEPT !.peer = k]
           T == c.streams \cup {<<p, k>>}
           d == [met EXCEPT !.streams = T]
<1>1. met \in Connection
  <2>1. k \in 0..MaxConnections
    OBVIOUS
  <2> QED BY <2>1 DEF Connection
<1>2. /\ met.peer = k /\ met.queue = c.queue /\ met.id = c.id
      /\ met.publications = c.publications /\ met.isNegotiating = c.isNegotiating
      /\ met.pending = c.pending /\ met.streams = c.streams
  BY DEF Connection
<1>3. T \in SUBSET (Pubs \X (1..MaxConnections))
  BY ConnectionIs
<1>0. [met EXCEPT !.streams = @ \cup {<<p, k>>}] = d
  BY <1>2
<1> HIDE DEF met, T
<1>4. d \in Connection
  BY <1>1, <1>3 DEF Connection
<1>5. /\ d.peer = met.peer /\ d.queue = met.queue /\ d.id = met.id
      /\ d.publications = met.publications /\ d.isNegotiating = met.isNegotiating
      /\ d.pending = met.pending /\ d.streams = T
  BY <1>1 DEF Connection
<1> HIDE DEF d
<1> QED BY <1>0, <1>1, <1>2, <1>4, <1>5 DEF met, T

\* The answer ends the negotiation; one operation that waits is taken.
LEMMA AnsweredIs ==
    ASSUME NEW c0 \in Connection
    PROVE  LET c == [c0 EXCEPT !.isNegotiating = FALSE]
               d == [c EXCEPT !.pending = Tail(@)]
           IN  /\ c \in Connection /\ c.isNegotiating = FALSE /\ c.pending = c0.pending
               /\ c.queue = c0.queue /\ c.id = c0.id /\ c.publications = c0.publications
               /\ c.peer = c0.peer /\ c.streams = c0.streams
               /\ c0.pending # <<>> =>
                    /\ d \in Connection /\ d.isNegotiating = FALSE /\ d.pending = Tail(c0.pending)
                    /\ d.queue = c0.queue /\ d.id = c0.id /\ d.publications = c0.publications
                    /\ d.peer = c0.peer /\ d.streams = c0.streams
                    /\ Head(c0.pending) \in Op
<1> DEFINE c == [c0 EXCEPT !.isNegotiating = FALSE]
           w == Tail(c0.pending)
           d == [c EXCEPT !.pending = w]
<1>1. c \in Connection
  BY DEF Connection
<1>2. /\ c.isNegotiating = FALSE /\ c.pending = c0.pending
      /\ c.queue = c0.queue /\ c.id = c0.id /\ c.publications = c0.publications
      /\ c.peer = c0.peer /\ c.streams = c0.streams
  BY DEF Connection
<1>3. c0.pending # <<>> => w \in Seq(Op) /\ Head(c0.pending) \in Op
  BY ConnectionIs
<1>0. [c EXCEPT !.pending = Tail(@)] = d
  BY <1>2
<1> HIDE DEF c, w
<1>4. w \in Seq(Op) => d \in Connection
  BY <1>1 DEF Connection
<1>5. /\ d.isNegotiating = c.isNegotiating /\ d.pending = w
      /\ d.queue = c.queue /\ d.id = c.id /\ d.publications = c.publications
      /\ d.peer = c.peer /\ d.streams = c.streams
  BY <1>1 DEF Connection
<1> HIDE DEF d
<1> QED BY <1>0, <1>1, <1>2, <1>3, <1>4, <1>5 DEF c, w

----------------------------------------------------------------------------
(* Types.                                                                  *)

\* The variables' types, one by one.
LEMMA Types ==
    ASSUME TypeOK
    PROVE  /\ seen \in [Persons -> Nat]
           /\ handling \in [Persons -> SUBSET (1..MaxEvents)]
           /\ starting \in [Persons -> SUBSET Pubs]
           /\ conn \in [Persons -> Connection \cup {NoConnection}]
           /\ made \in [Persons -> 0..MaxConnections]
           /\ buffer \in [Persons -> Seq(Message)]
           /\ toward \in [Persons -> Seq(Message)]
           /\ published \subseteq Pubs
           /\ causes \subseteq {"late stream", "overtaken", "skipped stop", "early offer",
                                "timeout", "closed"}
<1> QED BY DEF TypeOK

\* A connection's first task.
LEMMA HeadTask ==
    ASSUME TypeOK, Bounded, NEW x \in Persons, conn[x] # NoConnection, conn[x].queue # <<>>
    PROVE  LET q == conn[x].queue
           IN  /\ conn[x] \in Connection /\ q \in Seq(Task) /\ Len(q) \in Nat /\ Len(q) > 0
               /\ Head(q) = q[1] /\ Head(q) \in Task /\ Head(q).pub \in Pubs
               /\ Head(q).kind = "startSub" => Head(q).sub \in 1..MaxEvents
               /\ Tail(q) \in Seq(Task) /\ Len(Tail(q)) = Len(q) - 1
               /\ \A j \in 1..Len(Tail(q)) : Tail(q)[j] = q[j + 1]
               /\ Numbered(q) /\ Numbered(Tail(q))
<1> DEFINE q == conn[x].queue
<1>1. conn[x] \in Connection
  BY Types
<1>2. q \in Seq(Task) /\ Numbered(q)
  BY <1>1, ConnectionIs DEF Bounded
<1> HIDE DEF q
<1>3. q # <<>>
  BY DEF q
<1>4. /\ Len(q) \in Nat /\ Len(q) > 0 /\ Head(q) = q[1] /\ Head(q) \in Task
      /\ Tail(q) \in Seq(Task) /\ Len(Tail(q)) = Len(q) - 1
      /\ \A j \in 1..Len(Tail(q)) : Tail(q)[j] = q[j + 1]
  BY ONLY <1>2, <1>3
<1>5. Head(q).pub \in Pubs
  BY <1>4 DEF Task
<1>6. Numbered(Tail(q)) /\ (q[1].kind = "startSub" => q[1].sub \in 1..MaxEvents)
  BY <1>2, <1>4 DEF Numbered
<1> QED BY <1>1, <1>2, <1>4, <1>5, <1>6 DEF q

\* A message is added at the end of a person's messages, or taken at their head.
LEMMA MessagesMove ==
    ASSUME NEW f \in [Persons -> Seq(Message)], NEW y \in Persons
    PROVE  /\ \A m \in Message : [f EXCEPT ![y] = Append(@, m)] \in [Persons -> Seq(Message)]
           /\ f[y] # <<>> => Head(f[y]) \in Message
                             /\ [f EXCEPT ![y] = Tail(@)] \in [Persons -> Seq(Message)]
<1>1. f[y] \in Seq(Message)
  OBVIOUS
<1>2. \A m \in Message : Append(f[y], m) \in Seq(Message)
  BY <1>1, AppendProperties
<1>3. f[y] # <<>> => Tail(f[y]) \in Seq(Message) /\ Head(f[y]) \in Message
  BY <1>1, HeadTailProperties
<1> QED BY <1>2, <1>3

\* The messages that are sent.
LEMMA MessagesAre ==
    /\ \A p \in Pubs : \A k \in 1..MaxConnections :
        /\ [kind |-> "produce", pub |-> p, from |-> k] \in Message
        /\ [kind |-> "unproduce", pub |-> p, from |-> k] \in Message
    /\ \A k, l \in 1..MaxConnections : [kind |-> "answer", from |-> k, to |-> l] \in Message
    /\ \A m \in Message :
        /\ m.kind \in {"produce", "unproduce", "answer"} /\ m.from \in 1..MaxConnections
        /\ m.kind \in {"produce", "unproduce"} => m.pub \in Pubs
        /\ m.kind = "answer" => m.to \in 1..MaxConnections
<1> QED BY DEF Message

\* A step of a person's connection keeps the types.
LEMMA TypedStep ==
    ASSUME TypeOK, Bounded, NEW x \in Persons,
           NEW d \in Connection \cup {NoConnection}, d # NoConnection => Numbered(d.queue),
           conn' = [conn EXCEPT ![x] = d],
           events' = events, published' = published, seen' = seen,
           handling' = handling \/ \E i \in 1..MaxEvents : handling' = [handling EXCEPT ![x] = @ \ {i}],
           starting' \in [Persons -> SUBSET Pubs],
           made' \in [Persons -> 0..MaxConnections],
           buffer' \in [Persons -> Seq(Message)], toward' \in [Persons -> Seq(Message)],
           sent' \in [Persons -> Seq(Message)], handled' \in [Persons -> Seq(Message)],
           causes' \subseteq {"late stream", "overtaken", "skipped stop", "early offer",
                              "timeout", "closed"}
    PROVE  TypeOK' /\ Bounded'
<1>1. conn' \in [Persons -> Connection \cup {NoConnection}]
  BY Types
<1>2. /\ handling' \in [Persons -> SUBSET (1..MaxEvents)]
      /\ \A y \in Persons : handling'[y] \subseteq handling[y]
  BY Types
<1>3. events' \in Seq(Event) /\ published' \subseteq Pubs /\ seen' \in [Persons -> Nat]
  BY Types, EventsAre
<1>4. TypeOK'
  BY <1>1, <1>2, <1>3 DEF TypeOK
<1>5. \A y \in Persons : conn'[y] # NoConnection => Numbered(conn'[y].queue)
  <2> SUFFICES ASSUME NEW y \in Persons, conn'[y] # NoConnection PROVE Numbered(conn'[y].queue)
    OBVIOUS
  <2>1. CASE y = x
    BY <2>1, Types
  <2>2. CASE y # x
    <3>1. conn'[y] = conn[y]
      BY <2>2, Types
    <3> QED BY <3>1 DEF Bounded
  <2> QED BY <2>1, <2>2
<1>6. \A y \in Persons : seen'[y] <= Len(events') /\ handling'[y] \subseteq 1..seen'[y]
  BY <1>2 DEF Bounded
<1>7. Len(events') <= MaxEvents
  BY DEF Bounded
<1>8. \A y \in Persons : (conn[y] # NoConnection)' => Numbered((conn[y].queue)')
  BY <1>5
<1> QED BY <1>4, <1>6, <1>7, <1>8 DEF Bounded, Numbered

----------------------------------------------------------------------------
(* What the actions do, one by one.                                        *)

\* The steps below leave every connection but one alone.
OnlyOf(x) ==
    /\ conn' = [conn EXCEPT ![x] = conn'[x]]
    /\ events' = events /\ seen' = seen /\ published' = published

Unmoved == made' = made /\ buffer' = buffer /\ starting' = starting

\* A first task that becomes "sending".
LEMMA Marked ==
    ASSUME NEW q \in Seq(Task), q # <<>>, Numbered(q)
    PROVE  LET r == [q EXCEPT ![1].kind = "sending"]
           IN  /\ r \in Seq(Task) /\ Len(r) = Len(q) /\ r # <<>> /\ Numbered(r)
               /\ r[1].kind = "sending" /\ r[1].pub = q[1].pub
               /\ \A j \in 2..Len(q) : r[j] = q[j]
<1> DEFINE t == [q[1] EXCEPT !.kind = "sending"]
           r == [q EXCEPT ![1] = t]
<1>1. q[1] \in Task /\ Len(q) \in Nat /\ Len(q) > 0 /\ 1 \in 1..Len(q)
  OBVIOUS
<1>2. t \in Task /\ t.kind = "sending" /\ t.pub = q[1].pub
  BY <1>1 DEF Task
<1>3. [q EXCEPT ![1].kind = "sending"] = r
  OBVIOUS
<1> HIDE DEF t
<1>4. r \in Seq(Task) /\ Len(r) = Len(q) /\ \A j \in 1..Len(q) : r[j] = IF j = 1 THEN t ELSE q[j]
  BY <1>1, <1>2, ExceptSeq
<1> HIDE DEF r
<1>5. Numbered(r)
  BY <1>1, <1>2, <1>4 DEF Numbered
<1>6. r # <<>> /\ r[1] = t /\ \A j \in 2..Len(q) : r[j] = q[j]
  BY <1>1, <1>4
<1> QED BY <1>2, <1>3, <1>4, <1>5, <1>6

\* startPublishing sends its offer, or waits for the end of the negotiation.
LEMMA StartPublishingDoes ==
    ASSUME TypeOK, Bounded, NEW x \in Persons, Runnable(conn[x]), StartPublishing(x)
    PROVE  LET c == conn[x]
               d == conn'[x]
               p == Head(conn[x].queue).pub
               m == Produce(conn[x], p)
           IN  /\ c \in Connection /\ c.queue # <<>> /\ p \in Pubs /\ Head(c.queue).kind = "startPub"
               /\ OnlyOf(x) /\ d \in Connection /\ Numbered(d.queue) /\ m \in Message
               /\ d.id = c.id /\ d.peer = c.peer /\ d.streams = c.streams /\ d.isNegotiating = TRUE
               /\ Unmoved /\ handling' = handling /\ handled' = handled /\ causes' = causes
               /\ c.isNegotiating =>
                    /\ d.queue = Tail(c.queue) /\ d.publications = c.publications
                    /\ d.pending = Append(c.pending, [op |-> "add", pub |-> p])
                    /\ toward' = toward /\ sent' = sent
               /\ ~c.isNegotiating =>
                    /\ d.queue \in Seq(Task) /\ Len(d.queue) = Len(c.queue)
                    /\ d.queue # <<>> /\ d.queue[1].kind = "sending" /\ d.queue[1].pub = p
                    /\ \A j \in 2..Len(c.queue) : d.queue[j] = c.queue[j]
                    /\ d.publications = c.publications \cup {p} /\ d.pending = c.pending
                    /\ toward' = [toward EXCEPT ![Other(x)] = Append(@, m)]
                    /\ sent' = [sent EXCEPT ![Other(x)] = Append(@, m)]
<1> DEFINE c == conn[x]
           p == Head(conn[x].queue).pub
           a == added(c, p)
           m == Produce(conn[x], p)
<1>1. /\ c # NoConnection /\ c.queue # <<>> /\ Head(c.queue).kind = "startPub"
      /\ Unmoved /\ handling' = handling /\ handled' = handled /\ causes' = causes
      /\ events' = events /\ seen' = seen /\ published' = published
  BY DEF Runnable, StartPublishing, channel, Unmoved
<1>2. c \in Connection /\ p \in Pubs /\ Numbered(c.queue) /\ Numbered(Tail(c.queue))
      /\ c.queue \in Seq(Task) /\ Tail(c.queue) \in Seq(Task) /\ Head(c.queue) = c.queue[1]
  BY <1>1, HeadTask
<1>3. m \in Message
  BY <1>2, ConnectionIs, MessagesAre DEF Produce
<1>4. /\ a \in Connection /\ a.queue = c.queue /\ a.isNegotiating = TRUE
      /\ a.id = c.id /\ a.peer = c.peer /\ a.streams = c.streams
      /\ ~c.isNegotiating => a.publications = c.publications \cup {p} /\ a.pending = c.pending
      /\ c.isNegotiating => a.publications = c.publications
                            /\ a.pending = Append(c.pending, [op |-> "add", pub |-> p])
  BY <1>2, AddedIs
<1>5. conn \in [Persons -> Connection \cup {NoConnection}]
  BY Types
<1>6. CASE c.isNegotiating
  <2> DEFINE d == [a EXCEPT !.queue = Tail(c.queue)]
  <2>1. conn' = [conn EXCEPT ![x] = d] /\ toward' = toward /\ sent' = sent
    BY <1>4, <1>6 DEF StartPublishing, Busy
  <2>2. d \in Connection /\ d.queue = Tail(c.queue) /\ SameButQueue(d, a)
    BY <1>2, <1>4, QueueSet
  <2> HIDE DEF a, d, m
  <2>3. conn'[x] = d
    BY <1>5, <2>1
  <2> QED BY <1>1, <1>2, <1>3, <1>4, <1>6, <2>1, <2>2, <2>3 DEF SameButQueue, OnlyOf, m
<1>7. CASE ~c.isNegotiating
  <2> DEFINE r == [c.queue EXCEPT ![1].kind = "sending"]
             d == [a EXCEPT !.queue = r]
  <2>0. [a EXCEPT !.queue[1].kind = "sending"] = d
    BY <1>4
  <2>1. /\ conn' = [conn EXCEPT ![x] = d]
        /\ toward' = [toward EXCEPT ![Other(x)] = Append(@, m)]
        /\ sent' = [sent EXCEPT ![Other(x)] = Append(@, m)]
    BY <1>7, <2>0 DEF StartPublishing, Busy, Post
  <2>4. /\ r \in Seq(Task) /\ Len(r) = Len(c.queue) /\ r # <<>> /\ Numbered(r)
        /\ r[1].kind = "sending" /\ r[1].pub = c.queue[1].pub
        /\ \A j \in 2..Len(c.queue) : r[j] = c.queue[j]
    BY <1>1, <1>2, Marked
  <2> HIDE DEF r
  <2>2. d \in Connection /\ d.queue = r /\ SameButQueue(d, a)
    BY <1>2, <1>4, <2>4, QueueSet
  <2> HIDE DEF a, d, m
  <2>3. conn'[x] = d
    BY <1>5, <2>1
  <2>5. \A j \in 2..Len(c.queue) : conn'[x].queue[j] = c.queue[j]
    BY <2>2, <2>3, <2>4
  <2>6. conn' = [conn EXCEPT ![x] = conn'[x]]
    BY <2>1, <2>3
  <2> QED BY <1>1, <1>2, <1>3, <1>4, <1>7, <2>1, <2>2, <2>3, <2>4, <2>5, <2>6 DEF SameButQueue, OnlyOf, m
<1> QED BY <1>6, <1>7

\* stopPublishing: announced when the publication is sent and nothing is negotiated;
\* without media left the connection is closed.
LEMMA StopPublishingDoes ==
    ASSUME TypeOK, Bounded, NEW x \in Persons, Runnable(conn[x]), StopPublishing(x)
    PROVE  LET c == conn[x]
               d == conn'[x]
               p == Head(conn[x].queue).pub
               m == Unproduce(conn[x], p)
           IN  /\ c \in Connection /\ c.queue # <<>> /\ p \in Pubs /\ Head(c.queue).kind = "stopPub"
               /\ OnlyOf(x) /\ d \in Connection \cup {NoConnection} /\ m \in Message
               /\ d # NoConnection => Numbered(d.queue)
               /\ Unmoved /\ handling' = handling /\ handled' = handled
               /\ causes \subseteq causes' /\ causes' \subseteq causes \cup {"closed", "skipped stop"}
               /\ d = NoConnection => "closed" \in causes'
               /\ \/ toward' = toward /\ sent' = sent
                  \/ /\ toward' = [toward EXCEPT ![Other(x)] = Append(@, m)]
                     /\ sent' = [sent EXCEPT ![Other(x)] = Append(@, m)]
               /\ "closed" \notin causes' /\ "skipped stop" \notin causes' =>
                    /\ p \in c.publications /\ ~c.isNegotiating /\ d \in Connection
                    /\ d.queue = Tail(c.queue) /\ d.id = c.id /\ d.peer = c.peer
                    /\ d.streams = c.streams /\ d.isNegotiating = TRUE /\ d.pending = c.pending
                    /\ d.publications = c.publications \ {p}
                    /\ toward' = [toward EXCEPT ![Other(x)] = Append(@, m)]
<1> DEFINE c == conn[x]
           p == Head(conn[x].queue).pub
           a == removed(c, p)
           d == [a EXCEPT !.queue = Tail(@)]
           m == Unproduce(conn[x], p)
           sends == p \in c.publications /\ ~c.isNegotiating /\ hasMedia(d)
<1>1. /\ c # NoConnection /\ c.queue # <<>> /\ Head(c.queue).kind = "stopPub"
      /\ Unmoved /\ handling' = handling /\ handled' = handled
      /\ events' = events /\ seen' = seen /\ published' = published
  BY DEF Runnable, StopPublishing, channel, Unmoved
<1>2. c \in Connection /\ p \in Pubs /\ Numbered(Tail(c.queue)) /\ Tail(c.queue) \in Seq(Task)
  BY <1>1, HeadTask
<1>3. m \in Message
  BY <1>2, ConnectionIs, MessagesAre DEF Unproduce
<1>4. /\ a \in Connection /\ a.queue = c.queue
      /\ a.id = c.id /\ a.peer = c.peer /\ a.streams = c.streams
      /\ p \in c.publications /\ ~c.isNegotiating =>
            /\ a.publications = c.publications \ {p} /\ a.pending = c.pending
            /\ a.isNegotiating = TRUE
  BY <1>2, RemovedIs
<1>5. conn \in [Persons -> Connection \cup {NoConnection}]
  BY Types
<1>6. d \in Connection /\ d.queue = Tail(c.queue) /\ SameButQueue(d, a)
  BY <1>2, <1>4, QueueSet
<1>7. /\ conn' = [conn EXCEPT ![x] = IF hasMedia(d) THEN d ELSE NoConnection]
      /\ causes' = causes \cup (IF hasMedia(d) THEN {} ELSE {"closed"})
                          \cup (IF p \in c.publications /\ ~c.isNegotiating THEN {} ELSE {"skipped stop"})
      /\ IF sends THEN /\ toward' = [toward EXCEPT ![Other(x)] = Append(@, m)]
                       /\ sent' = [sent EXCEPT ![Other(x)] = Append(@, m)]
                  ELSE toward' = toward /\ sent' = sent
  BY DEF StopPublishing, CloseIfNeeded, Closing, Busy, Post
<1> HIDE DEF a, d, m
<1>8. conn'[x] = IF hasMedia(d) THEN d ELSE NoConnection
  BY <1>5, <1>7
<1>9. OnlyOf(x)
  BY <1>1, <1>7, <1>8 DEF OnlyOf
<1>10. CASE hasMedia(d)
  <2>1. conn'[x] = d /\ d # NoConnection
    BY <1>6, <1>8, <1>10, ConnectionIs
  <2> QED BY <1>1, <1>2, <1>3, <1>4, <1>6, <1>7, <1>9, <1>10, <2>1 DEF SameButQueue, m
<1>11. CASE ~hasMedia(d)
  <2>1. conn'[x] = NoConnection
    BY <1>8, <1>11
  <2> QED BY <1>1, <1>2, <1>3, <1>7, <1>9, <1>11, <2>1 DEF m
<1> QED BY <1>10, <1>11

\* The end of a startSubscribing, with its stream or after the timeout.
LEMMA SubscribedDoes ==
    ASSUME TypeOK, Bounded, NEW x \in Persons,
           conn[x] # NoConnection, conn[x].queue # <<>>, Head(conn[x].queue).kind = "startSub",
           conn' = [conn EXCEPT ![x] = Subscribed(conn[x])],
           events' = events, seen' = seen, published' = published
    PROVE  LET c == conn[x]
               d == conn'[x]
           IN  /\ c \in Connection /\ OnlyOf(x) /\ d \in Connection /\ Numbered(d.queue)
               /\ d.queue = Tail(c.queue) /\ d.id = c.id /\ d.publications = c.publications
               /\ d.isNegotiating = c.isNegotiating /\ d.pending = c.pending /\ d.peer = c.peer
               /\ d.streams = c.streams
<1> DEFINE c == conn[x]
           d == Subscribed(c)
<1>1. c \in Connection /\ Numbered(Tail(c.queue)) /\ Head(c.queue).sub \in 1..MaxEvents
  BY HeadTask
<1>2. /\ d \in Connection /\ d.queue = Tail(c.queue) /\ d.id = c.id
      /\ d.publications = c.publications /\ d.isNegotiating = c.isNegotiating
      /\ d.pending = c.pending /\ d.peer = c.peer /\ d.streams = c.streams
  BY <1>1, SubscribedIs
<1> HIDE DEF d
<1>3. conn'[x] = d
  <2>1. conn' = [conn EXCEPT ![x] = d]
    BY DEF d
  <2> QED BY <2>1, Types
<1> QED BY <1>1, <1>2, <1>3 DEF OnlyOf, d

\* stopSubscribing: at most the streams of its publication go; without media left the
\* connection is closed.
LEMMA StopSubscribingDoes ==
    ASSUME TypeOK, Bounded, NEW x \in Persons, Runnable(conn[x]), StopSubscribing(x)
    PROVE  LET c == conn[x]
               d == conn'[x]
               p == Head(conn[x].queue).pub
           IN  /\ c \in Connection /\ c.queue # <<>> /\ p \in Pubs /\ Head(c.queue).kind = "stopSub"
               /\ OnlyOf(x) /\ d \in Connection \cup {NoConnection}
               /\ d # NoConnection => Numbered(d.queue)
               /\ Unmoved /\ handling' = handling /\ handled' = handled /\ toward' = toward /\ sent' = sent
               /\ causes \subseteq causes' /\ causes' \subseteq causes \cup {"closed"}
               /\ d = NoConnection => "closed" \in causes'
               /\ "closed" \notin causes' =>
                    /\ d \in Connection
                    /\ d.queue = Tail(c.queue) /\ d.id = c.id /\ d.publications = c.publications
                    /\ d.isNegotiating = c.isNegotiating /\ d.pending = c.pending /\ d.peer = c.peer
                    /\ d.streams \subseteq c.streams
                    /\ \A s \in c.streams : s[1] # p => s \in d.streams
<1> DEFINE c == conn[x]
           p == Head(conn[x].queue).pub
           a == Unsubscribed(c, Head(c.queue))
           d == [a EXCEPT !.queue = Tail(@)]
<1>1. /\ c # NoConnection /\ c.queue # <<>> /\ Head(c.queue).kind = "stopSub"
      /\ Unmoved /\ handling' = handling /\ handled' = handled /\ toward' = toward /\ sent' = sent
      /\ events' = events /\ seen' = seen /\ published' = published
  BY DEF Runnable, StopSubscribing, channel, Unmoved
<1>2. c \in Connection /\ p \in Pubs /\ Numbered(Tail(c.queue)) /\ Tail(c.queue) \in Seq(Task)
  BY <1>1, HeadTask
<1>4. /\ a \in Connection /\ a.queue = c.queue
      /\ a.id = c.id /\ a.publications = c.publications
      /\ a.isNegotiating = c.isNegotiating /\ a.pending = c.pending /\ a.peer = c.peer
      /\ a.streams \subseteq c.streams
      /\ \A s \in c.streams : s[1] # p => s \in a.streams
  BY <1>2, UnsubscribedIs
<1>5. conn \in [Persons -> Connection \cup {NoConnection}]
  BY Types
<1>6. d \in Connection /\ d.queue = Tail(c.queue) /\ SameButQueue(d, a)
  BY <1>2, <1>4, QueueSet
<1>7. /\ conn' = [conn EXCEPT ![x] = IF hasMedia(d) THEN d ELSE NoConnection]
      /\ causes' = causes \cup (IF hasMedia(d) THEN {} ELSE {"closed"})
  BY DEF StopSubscribing, CloseIfNeeded, Closing
<1> HIDE DEF a, d
<1>8. conn'[x] = IF hasMedia(d) THEN d ELSE NoConnection
  BY <1>5, <1>7
<1>9. OnlyOf(x)
  BY <1>1, <1>7, <1>8 DEF OnlyOf
<1>10. CASE hasMedia(d)
  <2>1. conn'[x] = d /\ d # NoConnection
    BY <1>6, <1>8, <1>10, ConnectionIs
  <2> QED BY <1>1, <1>2, <1>4, <1>6, <1>7, <1>9, <1>10, <2>1 DEF SameButQueue
<1>11. CASE ~hasMedia(d)
  <2>1. conn'[x] = NoConnection
    BY <1>8, <1>11
  <2> QED BY <1>1, <1>2, <1>7, <1>9, <1>11, <2>1
<1> QED BY <1>10, <1>11

\* The answer to signaling.send.
LEMMA SentDoes ==
    ASSUME TypeOK, Bounded, NEW x \in Persons, Sent(x)
    PROVE  LET c == conn[x]
               d == conn'[x]
           IN  /\ c \in Connection /\ OnlyOf(x) /\ d \in Connection /\ Numbered(d.queue)
               /\ c.queue # <<>> /\ Head(c.queue).kind = "sending"
               /\ d.queue = Tail(c.queue) /\ SameButQueue(d, c)
               /\ Unmoved /\ handling' = handling /\ handled' = handled /\ causes' = causes
               /\ toward' = toward /\ sent' = sent
<1> DEFINE c == conn[x]
           d == [c EXCEPT !.queue = Tail(c.queue)]
<1>1. /\ c # NoConnection /\ c.queue # <<>> /\ Head(c.queue).kind = "sending"
      /\ conn' = [conn EXCEPT ![x] = d]
      /\ Unmoved /\ handling' = handling /\ handled' = handled /\ causes' = causes
      /\ toward' = toward /\ sent' = sent
      /\ events' = events /\ seen' = seen /\ published' = published
  BY DEF Sent, channel, history, Unmoved
<1>2. c \in Connection /\ Numbered(Tail(c.queue)) /\ Tail(c.queue) \in Seq(Task)
  BY <1>1, HeadTask
<1>3. d \in Connection /\ d.queue = Tail(c.queue) /\ SameButQueue(d, c)
  BY <1>2, QueueSet
<1> HIDE DEF d
<1>4. conn'[x] = d
  BY <1>1, Types
<1> QED BY <1>1, <1>2, <1>3, <1>4 DEF OnlyOf

\* A task is pushed, onto a connection that is there or onto a new one.
LEMMA PushTaskDoes ==
    ASSUME TypeOK, Bounded, NEW x \in Persons, NEW task \in Task,
           task.kind = "startSub" => task.sub \in 1..MaxEvents,
           CanPush(x), PushTask(x, task),
           events' = events, seen' = seen, published' = published
    PROVE  LET c == conn[x]
               d == conn'[x]
           IN  /\ OnlyOf(x) /\ d \in Connection /\ Numbered(d.queue)
               /\ c # NoConnection =>
                    /\ c \in Connection /\ d.queue = Append(c.queue, task) /\ SameButQueue(d, c)
                    /\ made' = made /\ buffer' = buffer /\ toward' = toward
               /\ c = NoConnection =>
                    /\ d.id = made[x] + 1 /\ d.queue = <<task>> /\ d.publications = {}
                    /\ d.isNegotiating = FALSE /\ d.pending = <<>> /\ d.peer = 0 /\ d.streams = {}
                    /\ made' = [made EXCEPT ![x] = @ + 1]
                    /\ toward' = [toward EXCEPT ![x] = buffer[x] \o @]
                    /\ buffer' = [buffer EXCEPT ![x] = <<>>]
               /\ made' \in [Persons -> 0..MaxConnections]
               /\ buffer' \in [Persons -> Seq(Message)] /\ toward' \in [Persons -> Seq(Message)]
<1> DEFINE c == conn[x]
<1>1. /\ conn \in [Persons -> Connection \cup {NoConnection}]
      /\ made \in [Persons -> 0..MaxConnections]
      /\ buffer \in [Persons -> Seq(Message)] /\ toward \in [Persons -> Seq(Message)]
  BY Types
<1>2. CASE c # NoConnection
  <2> DEFINE q == Append(c.queue, task)
             d == [c EXCEPT !.queue = q]
  <2>1. c \in Connection /\ c.queue \in Seq(Task) /\ Numbered(c.queue)
    BY <1>1, <1>2, ConnectionIs DEF Bounded
  <2>2. q \in Seq(Task) /\ Len(q) = Len(c.queue) + 1 /\ Len(c.queue) \in Nat
        /\ \A j \in 1..Len(q) : q[j] = IF j = Len(q) THEN task ELSE c.queue[j]
    BY <2>1, AppendProperties
  <2>3. Numbered(q)
    BY <2>1, <2>2 DEF Numbered
  <2>4. conn' = [conn EXCEPT ![x] = d] /\ made' = made /\ buffer' = buffer /\ toward' = toward
    BY <1>2 DEF PushTask
  <2>5. d \in Connection /\ d.queue = q /\ SameButQueue(d, c)
    BY <2>1, <2>2, QueueSet
  <2> HIDE DEF d
  <2>6. conn'[x] = d
    BY <1>1, <2>4
  <2> QED BY <1>1, <1>2, <2>1, <2>3, <2>4, <2>5, <2>6 DEF OnlyOf
<1>3. CASE c = NoConnection
  <2> DEFINE d == Made(made[x] + 1, task)
  <2>1. made[x] + 1 \in 1..MaxConnections
    BY <1>1, <1>3, RendezvousAssumption DEF CanPush
  <2>2. /\ d \in Connection /\ d.id = made[x] + 1 /\ d.queue = <<task>> /\ d.publications = {}
        /\ d.isNegotiating = FALSE /\ d.pending = <<>> /\ d.peer = 0 /\ d.streams = {}
    BY <2>1, MadeIs
  <2>3. Numbered(<<task>>)
    BY DEF Numbered
  <2>4. /\ conn' = [conn EXCEPT ![x] = d] /\ made' = [made EXCEPT ![x] = @ + 1]
        /\ toward' = [toward EXCEPT ![x] = buffer[x] \o @]
        /\ buffer' = [buffer EXCEPT ![x] = <<>>]
    BY <1>3 DEF PushTask
  <2> HIDE DEF d
  <2>6. conn'[x] = d
    BY <1>1, <2>4
  <2>7. made' \in [Persons -> 0..MaxConnections]
    BY <1>1, <2>1, <2>4
  <2>8. buffer[x] \o toward[x] \in Seq(Message)
    BY <1>1, ConcatProperties
  <2>9. buffer' \in [Persons -> Seq(Message)] /\ toward' \in [Persons -> Seq(Message)]
    <3>1. <<>> \in Seq(Message)
      OBVIOUS
    <3> QED BY <1>1, <2>4, <2>8, <3>1
  <2> QED BY <1>3, <2>2, <2>3, <2>4, <2>6, <2>7, <2>9 DEF OnlyOf
<1> QED BY <1>2, <1>3

\* The task that an event leaves.
TaskOf(x, i) ==
    [kind |-> IF Publisher(events[i].pub) = x
              THEN IF events[i].kind = "subscribed" THEN "startPub" ELSE "stopPub"
              ELSE IF events[i].kind = "subscribed" THEN "startSub" ELSE "stopSub",
     pub |-> events[i].pub,
     sub |-> IF Publisher(events[i].pub) = x THEN 0 ELSE SubscriptionOf(i)]

\* What an event leaves in a person's queue fits that event.
LEMMA TaskOfIs ==
    ASSUME TypeOK, Bounded, NEW x \in Persons, NEW i \in 1..Len(events)
    PROVE  LET task == TaskOf(x, i)
           IN  /\ task \in Task /\ task.pub = events[i].pub
               /\ task.kind = "startSub" => task.sub \in 1..MaxEvents
               /\ \A j \in Nat : Fits(x, i, task, j)
               /\ task.kind # "sending"
<1> DEFINE task == TaskOf(x, i)
<1>1. events[i].pub \in Pubs /\ events[i].kind \in {"subscribed", "unsubscribed"}
  BY EventsAre
<1>2. /\ SubscriptionOf(i) \in 0..MaxEvents
      /\ events[i].kind = "subscribed" => SubscriptionOf(i) \in 1..MaxEvents
  BY SubscriptionNumber
<1>3. 0 \in 0..MaxEvents
  BY RendezvousAssumption
<1>4. task \in Task
  BY <1>1, <1>2, <1>3 DEF TaskOf, Task
<1>5. task.pub = events[i].pub /\ (task.kind = "startSub" => task.sub \in 1..MaxEvents)
      /\ task.kind # "sending"
  BY <1>1, <1>2 DEF TaskOf
<1>6. \A j \in Nat : Fits(x, i, task, j)
  BY <1>1 DEF TaskOf, Fits
<1> QED BY <1>4, <1>5, <1>6

\* A handler goes on: the task of its event is pushed, unless its stream is not set or it
\* ends something and there is no connection.
LEMMA HandleDoes ==
    ASSUME TypeOK, Bounded, NEW x \in Persons, NEW i \in 1..MaxEvents, Handle(x, i)
    PROVE  LET e == events[i]
               mine == Publisher(events[i].pub) = x
               task == TaskOf(x, i)
               starts == mine /\ events[i].pub \notin published
               early == \E j \in handling[x] : j < i
           IN  /\ i \in handling[x] /\ i \in 1..Len(events) /\ i \in 1..seen[x]
               /\ handling' = [handling EXCEPT ![x] = @ \ {i}]
               /\ events' = events /\ seen' = seen /\ published' = published
               /\ sent' = sent /\ handled' = handled
               /\ causes \subseteq causes' /\ causes' \subseteq causes \cup {"overtaken", "late stream"}
               /\ "overtaken" \notin causes' => ~early
               /\ "late stream" \notin causes' => ~starts
               /\ \/ /\ starts /\ conn' = conn
                     /\ made' = made /\ buffer' = buffer /\ toward' = toward
                     /\ \/ starting' = [starting EXCEPT ![x] = @ \cup {e.pub}]
                        \/ starting' = starting
                  \/ /\ e.kind = "unsubscribed" /\ conn[x] = NoConnection /\ conn' = conn
                     /\ made' = made /\ buffer' = buffer /\ toward' = toward /\ starting' = starting
                  \/ /\ CanPush(x) /\ PushTask(x, task) /\ starting' = starting
<1> DEFINE e == events[i]
           mine == Publisher(e.pub) = x
           starts == mine /\ e.pub \notin published
           early == \E j \in handling[x] : j < i
<1>1. i \in handling[x] /\ handling' = [handling EXCEPT ![x] = @ \ {i}]
      /\ events' = events /\ seen' = seen /\ published' = published
      /\ sent' = sent /\ handled' = handled
  BY DEF Handle
<1>2. i \in 1..seen[x] /\ seen[x] <= Len(events) /\ seen[x] \in Nat
  BY <1>1, Types DEF Bounded
<1>3. i \in 1..Len(events)
  BY <1>2, EventsAre
<1>4. causes' = causes \cup (IF early THEN {"overtaken"} ELSE {})
                       \cup (IF starts THEN {"late stream"} ELSE {})
  BY DEF Handle
<1>5. e.kind \in {"subscribed", "unsubscribed"} /\ e.pub \in Pubs
  BY <1>3, EventsAre
<1>6. /\ e.kind = "subscribed" /\ starts =>
           /\ starting' = [starting EXCEPT ![x] = @ \cup {e.pub}]
           /\ conn' = conn /\ made' = made /\ buffer' = buffer /\ toward' = toward
      /\ e.kind = "subscribed" /\ ~starts =>
           /\ CanPush(x) /\ starting' = starting
           /\ PushTask(x, [kind |-> IF mine THEN "startPub" ELSE "startSub",
                           pub |-> e.pub, sub |-> IF mine THEN 0 ELSE SubscriptionOf(i)])
      /\ e.kind = "unsubscribed" /\ conn[x] # NoConnection =>
           /\ PushTask(x, [kind |-> IF mine THEN "stopPub" ELSE "stopSub",
                           pub |-> e.pub, sub |-> IF mine THEN 0 ELSE SubscriptionOf(i)])
           /\ starting' = starting
      /\ e.kind = "unsubscribed" /\ conn[x] = NoConnection =>
           conn' = conn /\ made' = made /\ buffer' = buffer /\ toward' = toward /\ starting' = starting
  BY DEF Handle
<1>7. CASE e.kind = "subscribed" /\ starts
  BY <1>1, <1>2, <1>3, <1>4, <1>6, <1>7
<1>8. CASE e.kind = "subscribed" /\ ~starts
  <2>1. TaskOf(x, i) = [kind |-> IF mine THEN "startPub" ELSE "startSub",
                        pub |-> e.pub, sub |-> IF mine THEN 0 ELSE SubscriptionOf(i)]
    BY <1>8 DEF TaskOf
  <2>2. CanPush(x) /\ PushTask(x, TaskOf(x, i)) /\ starting' = starting
    BY <1>6, <1>8, <2>1
  <2> QED BY <1>1, <1>2, <1>3, <1>4, <2>2
<1>9. CASE e.kind = "unsubscribed" /\ conn[x] # NoConnection
  <2>1. TaskOf(x, i) = [kind |-> IF mine THEN "stopPub" ELSE "stopSub",
                        pub |-> e.pub, sub |-> IF mine THEN 0 ELSE SubscriptionOf(i)]
    BY <1>9 DEF TaskOf
  <2>2. CanPush(x) /\ PushTask(x, TaskOf(x, i)) /\ starting' = starting
    BY <1>6, <1>9, <2>1 DEF CanPush
  <2> QED BY <1>1, <1>2, <1>3, <1>4, <2>2
<1>10. CASE e.kind = "unsubscribed" /\ conn[x] = NoConnection
  BY <1>1, <1>2, <1>3, <1>4, <1>6, <1>10
<1> QED BY <1>5, <1>7, <1>8, <1>9, <1>10

\* A message taken and another posted to the other person.
LEMMA TakeAndPost ==
    ASSUME TypeOK, NEW x \in Persons, toward[x] # <<>>, NEW m \in Message
    PROVE  LET rest == [toward EXCEPT ![x] = Tail(@)]
               f == [toward EXCEPT ![x] = Tail(@), ![Other(x)] = Append(@, m)]
           IN  /\ rest \in [Persons -> Seq(Message)] /\ f \in [Persons -> Seq(Message)]
               /\ [rest EXCEPT ![Other(x)] = Append(@, m)] = f
               /\ [sent EXCEPT ![Other(x)] = Append(@, m)][x] = sent[x]
               /\ rest[x] = Tail(toward[x]) /\ rest[Other(x)] = toward[Other(x)]
               /\ f[x] = Tail(toward[x]) /\ f[Other(x)] = Append(toward[Other(x)], m)
<1> DEFINE rest == [toward EXCEPT ![x] = Tail(@)]
           f == [toward EXCEPT ![x] = Tail(@), ![Other(x)] = Append(@, m)]
<1>1. Other(x) \in Persons /\ Other(x) # x
  BY TwoPersons
<1>2. toward \in [Persons -> Seq(Message)]
  BY Types
<1>3. rest \in [Persons -> Seq(Message)]
  BY <1>2, MessagesMove
<1>4. [rest EXCEPT ![Other(x)] = Append(@, m)] = f
  BY <1>1, <1>2
<1>5. f \in [Persons -> Seq(Message)]
  BY <1>1, <1>3, <1>4, MessagesMove
<1>6. /\ rest[x] = Tail(toward[x]) /\ rest[Other(x)] = toward[Other(x)]
      /\ f[x] = Tail(toward[x]) /\ f[Other(x)] = Append(toward[Other(x)], m)
  BY <1>1, <1>2
<1>7. [sent EXCEPT ![Other(x)] = Append(@, m)][x] = sent[x]
  BY <1>1
<1> QED BY <1>3, <1>4, <1>5, <1>6, <1>7

\* MessageBuffer.
LEMMA NoListenerDoes ==
    ASSUME TypeOK, Bounded, NEW x \in Persons, NoListener(x)
    PROVE  /\ toward[x] # <<>> /\ conn[x] = NoConnection /\ conn' = conn
           /\ Head(toward[x]) \in Message
           /\ toward' = [toward EXCEPT ![x] = Tail(@)] /\ toward' \in [Persons -> Seq(Message)]
           /\ buffer' \in [Persons -> Seq(Message)]
           /\ made[x] = 0 => buffer' = [buffer EXCEPT ![x] = Append(@, Head(toward[x]))]
           /\ events' = events /\ seen' = seen /\ published' = published
           /\ handling' = handling /\ made' = made /\ starting' = starting
           /\ sent' = sent /\ handled' = handled /\ causes' = causes
<1>1. /\ toward[x] # <<>> /\ conn[x] = NoConnection /\ conn' = conn
      /\ toward' = [toward EXCEPT ![x] = Tail(@)]
      /\ buffer' = IF made[x] = 0 THEN [buffer EXCEPT ![x] = Append(@, Head(toward[x]))] ELSE buffer
      /\ events' = events /\ seen' = seen /\ published' = published
      /\ handling' = handling /\ made' = made /\ starting' = starting
      /\ sent' = sent /\ handled' = handled /\ causes' = causes
  BY DEF NoListener, Take, channel, history
<1>2. Head(toward[x]) \in Message /\ toward' \in [Persons -> Seq(Message)]
  BY <1>1, Types, MessagesMove
<1>3. buffer' \in [Persons -> Seq(Message)]
  BY <1>1, <1>2, Types, MessagesMove
<1> QED BY <1>1, <1>2, <1>3

\* An offer is taken and answered, or refused by a browser that knows another connection.
LEMMA OfferedDoes ==
    ASSUME TypeOK, Bounded, NEW x \in Persons, Offered(x)
    PROVE  LET m == Head(toward[x])
               c == conn[x]
               d == conn'[x]
               ans == [kind |-> "answer", from |-> conn[x].id, to |-> Head(toward[x]).from]
           IN  /\ toward[x] # <<>> /\ c \in Connection /\ m \in Message /\ ans \in Message
               /\ m.kind \in Offers /\ m.pub \in Pubs
               /\ OnlyOf(x) /\ Unmoved /\ handling' = handling /\ d \in Connection /\ d.queue = c.queue
               /\ handled' = [handled EXCEPT ![x] = Append(@, m)]
               /\ causes' = causes \cup Early(c, m)
               /\ \/ /\ d.id = c.id /\ d.peer = m.from /\ d.publications = c.publications
                     /\ d.isNegotiating = c.isNegotiating /\ d.pending = c.pending
                     /\ d.streams = IF m.kind = "produce" THEN c.streams \cup {<<m.pub, m.from>>}
                                                          ELSE c.streams
                     /\ toward' = [toward EXCEPT ![x] = Tail(@), ![Other(x)] = Append(@, ans)]
                     /\ sent' = [sent EXCEPT ![Other(x)] = Append(@, ans)]
                  \/ /\ c.peer \notin {0, m.from} /\ conn' = conn /\ sent' = sent
                     /\ toward' = [toward EXCEPT ![x] = Tail(@)]
<1> DEFINE m == Head(toward[x])
           c == conn[x]
           ans == [kind |-> "answer", from |-> conn[x].id, to |-> m.from]
           met == [c EXCEPT !.peer = m.from]
           fed == [met EXCEPT !.streams = @ \cup {<<m.pub, m.from>>}]
<1>1. /\ toward[x] # <<>> /\ c # NoConnection /\ m.kind \in {"produce", "unproduce"}
      /\ handled' = [handled EXCEPT ![x] = Append(@, m)]
      /\ \/ /\ Answer(x, ans)
            /\ conn' = [conn EXCEPT ![x] = IF m.kind = "produce" THEN fed ELSE met]
         \/ /\ c.peer \notin {0, m.from}
            /\ toward' = [toward EXCEPT ![x] = Tail(@)]
            /\ conn' = conn /\ sent' = sent
      /\ causes' = causes \cup Early(c, m)
      /\ Unmoved /\ handling' = handling /\ events' = events /\ seen' = seen /\ published' = published
  BY DEF Offered, Take, channel, Unmoved
<1>2. conn \in [Persons -> Connection \cup {NoConnection}] /\ c \in Connection
  BY <1>1, Types
<1>3. m \in Message /\ m.pub \in Pubs /\ m.from \in 1..MaxConnections
  <2>1. m \in Message
    BY <1>1, Types, MessagesMove
  <2> HIDE DEF m
  <2> QED BY <1>1, <2>1, MessagesAre
<1>4. ans \in Message
  BY <1>2, <1>3, ConnectionIs, MessagesAre
<1> HIDE DEF ans, m
<1>5. /\ met \in Connection /\ fed \in Connection
      /\ met.peer = m.from /\ met.queue = c.queue /\ met.id = c.id
      /\ met.publications = c.publications /\ met.isNegotiating = c.isNegotiating
      /\ met.pending = c.pending /\ met.streams = c.streams
      /\ fed.peer = m.from /\ fed.queue = c.queue /\ fed.id = c.id
      /\ fed.publications = c.publications /\ fed.isNegotiating = c.isNegotiating
      /\ fed.pending = c.pending /\ fed.streams = c.streams \cup {<<m.pub, m.from>>}
  <2>1. \A k \in 1..MaxConnections : \A p \in Pubs :
            LET a == [c EXCEPT !.peer = k]
                b == [a EXCEPT !.streams = @ \cup {<<p, k>>}]
            IN  /\ a \in Connection /\ b \in Connection
                /\ a.peer = k /\ a.queue = c.queue /\ a.id = c.id
                /\ a.publications = c.publications /\ a.isNegotiating = c.isNegotiating
                /\ a.pending = c.pending /\ a.streams = c.streams
                /\ b.peer = k /\ b.queue = c.queue /\ b.id = c.id
                /\ b.publications = c.publications /\ b.isNegotiating = c.isNegotiating
                /\ b.pending = c.pending /\ b.streams = c.streams \cup {<<p, k>>}
    BY <1>2, MetIs
  <2> QED BY ONLY <1>3, <2>1
<1> HIDE DEF met, fed
<1>6. CASE conn' = conn /\ c.peer \notin {0, m.from} /\ toward' = [toward EXCEPT ![x] = Tail(@)] /\ sent' = sent
  <2>1. OnlyOf(x)
    BY <1>1, <1>2, <1>6 DEF OnlyOf
  <2> QED BY <1>1, <1>2, <1>3, <1>4, <1>6, <2>1 DEF ans, m, Offers
<1>7. CASE /\ Answer(x, ans)
           /\ conn' = [conn EXCEPT ![x] = IF m.kind = "produce" THEN fed ELSE met]
  <2>1. conn'[x] = IF m.kind = "produce" THEN fed ELSE met
    BY <1>2, <1>7
  <2>2. OnlyOf(x)
    BY <1>1, <1>7, <2>1 DEF OnlyOf
  <2>3. /\ toward' = [toward EXCEPT ![x] = Tail(@), ![Other(x)] = Append(@, ans)]
        /\ sent' = [sent EXCEPT ![Other(x)] = Append(@, ans)]
    BY <1>7 DEF Answer
  <2>4. CASE m.kind = "produce"
    BY <1>1, <1>2, <1>3, <1>4, <1>5, <2>1, <2>2, <2>3, <2>4 DEF ans, m, Offers
  <2>5. CASE m.kind # "produce"
    BY <1>1, <1>2, <1>3, <1>4, <1>5, <2>1, <2>2, <2>3, <2>5 DEF ans, m, Offers
  <2> QED BY <2>4, <2>5
<1> QED BY <1>1, <1>6, <1>7

\* An answer that nobody waits for.
LEMMA AnswerRefusedDoes ==
    ASSUME TypeOK, Bounded, NEW x \in Persons, AnswerRefused(x)
    PROVE  LET m == Head(toward[x])
               c == conn[x]
           IN  /\ toward[x] # <<>> /\ c \in Connection /\ m \in Message /\ m.kind = "answer"
               /\ ~c.isNegotiating \/ m.to # c.id
               /\ conn' = conn /\ Unmoved /\ handling' = handling
               /\ events' = events /\ seen' = seen /\ published' = published
               /\ handled' = [handled EXCEPT ![x] = Append(@, m)] /\ sent' = sent
               /\ toward' = [toward EXCEPT ![x] = Tail(@)] /\ causes' = causes
<1>1. Head(toward[x]) \in Message
  BY Types, MessagesMove DEF AnswerRefused, Take
<1> QED BY <1>1, Types DEF AnswerRefused, Take, channel, Unmoved

\* The answer that is waited for: of what waits, one operation is taken, and an addition
\* is offered.
LEMMA AnsweredDoes ==
    ASSUME TypeOK, Bounded, NEW x \in Persons, Answered(x)
    PROVE  LET m == Head(toward[x])
               c == conn[x]
               d == conn'[x]
               op == Head(conn[x].pending)
               o == Produce(conn[x], Head(conn[x].pending).pub)
           IN  /\ toward[x] # <<>> /\ c \in Connection /\ m \in Message
               /\ m.kind = "answer" /\ c.isNegotiating
               /\ OnlyOf(x) /\ Unmoved /\ handling' = handling /\ d \in Connection /\ d.queue = c.queue
               /\ d.id = c.id /\ d.peer = c.peer /\ d.streams = c.streams
               /\ handled' = [handled EXCEPT ![x] = Append(@, m)] /\ causes' = causes
               /\ \/ /\ c.pending = <<>> \/ op.op = "remove"
                     /\ d.isNegotiating = FALSE /\ d.publications = c.publications
                     /\ c.pending = <<>> => d.pending = <<>>
                     /\ toward' = [toward EXCEPT ![x] = Tail(@)] /\ sent' = sent
                  \/ /\ c.pending # <<>> /\ op.op = "add" /\ op.pub \in Pubs /\ o \in Message
                     /\ d.isNegotiating = TRUE /\ d.publications = c.publications \cup {op.pub}
                     /\ d.pending = Tail(c.pending)
                     /\ toward' = [toward EXCEPT ![x] = Tail(@), ![Other(x)] = Append(@, o)]
                     /\ sent' = [sent EXCEPT ![Other(x)] = Append(@, o)]
<1> DEFINE m == Head(toward[x])
           c0 == conn[x]
           op == Head(c0.pending)
           o == Produce(c0, op.pub)
           c == [c0 EXCEPT !.isNegotiating = FALSE]
           d == [c EXCEPT !.pending = Tail(@)]
           rest == [toward EXCEPT ![x] = Tail(@)]
<1>0. conn \in [Persons -> Connection \cup {NoConnection}]
  BY Types
<1>1. /\ toward[x] # <<>> /\ c0 # NoConnection /\ m.kind = "answer" /\ c0.isNegotiating
      /\ handled' = [handled EXCEPT ![x] = Append(@, m)] /\ causes' = causes
      /\ Unmoved /\ handling' = handling /\ events' = events /\ seen' = seen /\ published' = published
  BY DEF Answered, Take, channel, Unmoved
<1>2. c0 \in Connection
  BY <1>0, <1>1
<1>3. m \in Message
  BY <1>1, Types, MessagesMove
<1>4. /\ c \in Connection /\ c.isNegotiating = FALSE /\ c.pending = c0.pending
      /\ c.queue = c0.queue /\ c.id = c0.id /\ c.publications = c0.publications
      /\ c.peer = c0.peer /\ c.streams = c0.streams
      /\ c0.pending # <<>> =>
           /\ d \in Connection /\ d.isNegotiating = FALSE /\ d.pending = Tail(c0.pending)
           /\ d.queue = c0.queue /\ d.id = c0.id /\ d.publications = c0.publications
           /\ d.peer = c0.peer /\ d.streams = c0.streams
           /\ Head(c0.pending) \in Op
  BY <1>2, AnsweredIs
<1>5. \/ /\ c0.pending = <<>>
         /\ conn' = [conn EXCEPT ![x] = c]
         /\ toward' = rest /\ sent' = sent
      \/ /\ c0.pending # <<>> /\ op.op = "remove"
         /\ conn' = [conn EXCEPT ![x] = d]
         /\ toward' = rest /\ sent' = sent
      \/ /\ c0.pending # <<>> /\ op.op = "add"
         /\ conn' = [conn EXCEPT ![x] = added(d, op.pub)]
         /\ toward' = [rest EXCEPT ![Other(x)] = Append(@, o)]
         /\ sent' = [sent EXCEPT ![Other(x)] = Append(@, o)]
  <2>1. c.pending = c0.pending /\ Produce(c, Head(c.pending).pub) = o
    BY <1>4 DEF Produce
  <2> HIDE DEF c, o
  <2> QED BY <2>1 DEF Answered, c
<1> HIDE DEF c, d, o
<1>6. CASE /\ c0.pending = <<>>
           /\ conn' = [conn EXCEPT ![x] = c]
           /\ toward' = rest /\ sent' = sent
  <2>1. conn'[x] = c
    BY <1>0, <1>6
  <2>2. OnlyOf(x)
    BY <1>1, <1>6, <2>1 DEF OnlyOf
  <2> QED BY <1>1, <1>2, <1>3, <1>4, <1>6, <2>1, <2>2
<1>7. CASE /\ c0.pending # <<>> /\ op.op = "remove"
           /\ conn' = [conn EXCEPT ![x] = d]
           /\ toward' = rest /\ sent' = sent
  <2>1. conn'[x] = d
    BY <1>0, <1>7
  <2>2. OnlyOf(x)
    BY <1>1, <1>7, <2>1 DEF OnlyOf
  <2> QED BY <1>1, <1>2, <1>3, <1>4, <1>7, <2>1, <2>2
<1>8. CASE /\ c0.pending # <<>> /\ op.op = "add"
           /\ conn' = [conn EXCEPT ![x] = added(d, op.pub)]
           /\ toward' = [rest EXCEPT ![Other(x)] = Append(@, o)]
           /\ sent' = [sent EXCEPT ![Other(x)] = Append(@, o)]
  <2>1. op.pub \in Pubs
    BY <1>4, <1>8 DEF Op
  <2>2. LET a == added(d, op.pub)
        IN  /\ a \in Connection /\ a.isNegotiating = TRUE
            /\ a.queue = d.queue /\ a.id = d.id /\ a.peer = d.peer /\ a.streams = d.streams
            /\ a.publications = d.publications \cup {op.pub} /\ a.pending = d.pending
    BY <1>4, <1>8, <2>1, AddedIs
  <2>3. conn'[x] = added(d, op.pub)
    BY <1>0, <1>8
  <2>4. OnlyOf(x)
    BY <1>1, <1>8, <2>3 DEF OnlyOf
  <2>5. o \in Message
    BY <1>2, <2>1, ConnectionIs, MessagesAre DEF o, Produce
  <2>6. toward' = [toward EXCEPT ![x] = Tail(@), ![Other(x)] = Append(@, o)]
    BY <1>1, <1>8, <2>5, TakeAndPost
  <2> QED BY <1>1, <1>2, <1>3, <1>4, <1>8, <2>1, <2>2, <2>3, <2>4, <2>5, <2>6 DEF o
<1> QED BY <1>5, <1>6, <1>7, <1>8

----------------------------------------------------------------------------
(* Types and messages are kept.                                            *)

\* The first part of the invariant holds at the beginning.
LEMMA InitKeeps ==
    ASSUME Init
    PROVE  TypeOK /\ Bounded /\ Kept
<1>1. NoConnection \in {NoConnection} /\ 0 \in 0..MaxConnections /\ MaxEvents \in Nat
  BY RendezvousAssumption
<1>2. <<>> \in Seq(Event) /\ <<>> \in Seq(Message) /\ Len(<<>>) = 0
  OBVIOUS
<1>3. TypeOK
  BY <1>1, <1>2 DEF Init, TypeOK
<1>4. Bounded
  BY <1>1, <1>2 DEF Init, Bounded
<1>5. Kept
  BY <1>2 DEF Init, Kept, KeptFor
<1> QED BY <1>3, <1>4, <1>5

\* A subscription begun or ended at the server.
LEMMA SubscribeDoes ==
    ASSUME TypeOK, Bounded, NEW p \in Pubs, Subscribe(p)
    PROVE  LET n == Len(events)
           IN  /\ n < MaxEvents /\ n \in Nat
               /\ events' \in Seq(Event) /\ Len(events') = n + 1
               /\ \A i \in 1..n : events'[i] = events[i]
               /\ events'[n + 1].pub = p
               /\ events'[n + 1].kind = IF Active(p) THEN "unsubscribed" ELSE "subscribed"
               /\ UNCHANGED <<seen, handling, published, starting, conn, made, buffer, toward, history>>
<1> DEFINE k == IF Active(p) THEN "unsubscribed" ELSE "subscribed"
           e == [kind |-> k, pub |-> p]
<1>1. /\ Len(events) < MaxEvents /\ events' = Append(events, e)
      /\ UNCHANGED <<seen, handling, published, starting, conn, made, buffer, toward, history>>
  BY DEF Subscribe
<1>2. e \in Event /\ e.pub = p /\ e.kind = k
  BY DEF Event
<1> HIDE DEF k, e
<1>3. events \in Seq(Event) /\ Len(events) \in Nat
  BY EventsAre
<1>4. /\ Append(events, e) \in Seq(Event) /\ Len(Append(events, e)) = Len(events) + 1
      /\ \A i \in 1..Len(events) : Append(events, e)[i] = events[i]
      /\ Append(events, e)[Len(events) + 1] = e
  BY <1>2, <1>3, AppendProperties
<1> QED BY <1>1, <1>2, <1>3, <1>4 DEF k

\* An event received.
LEMMA ReceiveDoes ==
    ASSUME TypeOK, Bounded, NEW x \in Persons, Receive(x)
    PROVE  /\ seen[x] \in Nat /\ seen[x] < Len(events)
           /\ seen' = [seen EXCEPT ![x] = @ + 1]
           /\ handling' = [handling EXCEPT ![x] = @ \cup {seen[x] + 1}]
           /\ UNCHANGED <<events, published, starting, conn, made, buffer, toward, history>>
<1> QED BY Types DEF Receive

\* Messages move from the way to the buffer or to a connection, and none is lost.
LEMMA Shifts ==
    ASSUME NEW h \in Seq(Message), NEW b \in Seq(Message), NEW t \in Seq(Message)
    PROVE  /\ \A m \in Message : Append(h \o b \o t, m) = h \o b \o Append(t, m)
           /\ h \o b \o t = h \o <<>> \o (b \o t)
           /\ t # <<>> => /\ Append(h, Head(t)) \o <<>> \o Tail(t) = h \o <<>> \o t
                          /\ h \o Append(b, Head(t)) \o Tail(t) = h \o b \o t
<1>0. \A u, v, w \in Seq(Message) : (u \o v) \o w = u \o (v \o w)
  BY ConcatAssociative, SMTT(30)
<1>1. ASSUME NEW s \in Seq(Message), NEW m \in Message
      PROVE  Append(s \o t, m) = s \o Append(t, m)
  <2>1. /\ s \o t \in Seq(Message) /\ Append(t, m) \in Seq(Message) /\ <<m>> \in Seq(Message)
    BY AppendProperties, ConcatProperties
  <2>2. Append(s \o t, m) = (s \o t) \o <<m>> /\ Append(t, m) = t \o <<m>>
    BY <2>1, AppendIsConcat
  <2>3. (s \o t) \o <<m>> = s \o (t \o <<m>>)
    BY <1>0, <2>1, SMTT(30)
  <2> QED BY <2>2, <2>3
<1>2. ASSUME NEW s \in Seq(Message), t # <<>>
      PROVE  Append(s, Head(t)) \o Tail(t) = s \o t
  <2>1. Head(t) \in Message /\ Tail(t) \in Seq(Message) /\ <<Head(t)>> \in Seq(Message)
    BY <1>2, HeadTailProperties
  <2>2. <<Head(t)>> \o Tail(t) = t
    BY <1>2, <2>1
  <2>3. Append(s, Head(t)) = s \o <<Head(t)>>
    BY <2>1, AppendIsConcat
  <2>4. (s \o <<Head(t)>>) \o Tail(t) = s \o (<<Head(t)>> \o Tail(t))
    BY <1>0, <2>1
  <2> QED BY <2>2, <2>3, <2>4
<1>3. /\ h \o b \in Seq(Message) /\ h \o <<>> = h
      /\ (h \o b) \o t = h \o (b \o t)
  BY ConcatProperties, ConcatEmptySeq, ConcatAssociative, SMTT(30)
<1>4. ASSUME t # <<>> PROVE h \o Append(b, Head(t)) \o Tail(t) = h \o b \o t
  <2>1. Head(t) \in Message
    BY <1>4, HeadTailProperties
  <2>2. Append(b, Head(t)) = b \o <<Head(t)>> /\ Append(h \o b, Head(t)) = (h \o b) \o <<Head(t)>>
    BY <2>1, <1>3, AppendIsConcat
  <2>3. <<Head(t)>> \in Seq(Message)
    BY <2>1
  <2>4. h \o (b \o <<Head(t)>>) = (h \o b) \o <<Head(t)>>
    BY <2>3, ConcatAssociative
  <2> QED BY <1>2, <1>3, <1>4, <2>2, <2>4
<1>5. ASSUME t # <<>> PROVE Append(h, Head(t)) \o <<>> = Append(h, Head(t))
  <2>1. Append(h, Head(t)) \in Seq(Message)
    BY <1>5, HeadTailProperties, AppendProperties
  <2> QED BY <2>1, ConcatEmptySeq
<1> QED BY <1>1, <1>2, <1>3, <1>4, <1>5

\* The person's messages and connection are the same for KeptFor.
LEMMA KeptSame ==
    ASSUME NEW y \in Persons, KeptFor(y),
           (conn'[y] = NoConnection <=> conn[y] = NoConnection) /\ made'[y] = made[y],
           buffer'[y] = buffer[y] /\ toward'[y] = toward[y],
           sent'[y] = sent[y] /\ handled'[y] = handled[y]
    PROVE  KeptFor(y)'
<1> QED BY DEF KeptFor

\* A message posted to the other person.
LEMMA KeptPosted ==
    ASSUME TypeOK, Bounded, NEW x \in Persons, NEW m \in Message, KeptFor(x), KeptFor(Other(x)),
           conn[x] # NoConnection /\ conn'[x] # NoConnection /\ OnlyOf(x),
           made' = made /\ buffer' = buffer /\ handled' = handled,
           toward' = [toward EXCEPT ![Other(x)] = Append(@, m)],
           sent' = [sent EXCEPT ![Other(x)] = Append(@, m)]
    PROVE  \A y \in Persons : KeptFor(y)'
<1> SUFFICES ASSUME NEW y \in Persons PROVE KeptFor(y)'
  OBVIOUS
<1>0. /\ conn \in [Persons -> Connection \cup {NoConnection}] /\ toward \in [Persons -> Seq(Message)]
      /\ sent \in [Persons -> Seq(Message)] /\ handled \in [Persons -> Seq(Message)]
      /\ buffer \in [Persons -> Seq(Message)]
      /\ Other(x) # x /\ Other(x) \in Persons /\ (y = x \/ y = Other(x))
  BY Types, TwoPersons DEF Bounded
<1>1. CASE y = x
  <2>1. toward'[y] = toward[y] /\ sent'[y] = sent[y]
    BY <1>0, <1>1
  <2> QED BY <1>1, <2>1, KeptSame
<1>2. CASE y = Other(x)
  <2>1. /\ toward'[y] = Append(toward[y], m) /\ sent'[y] = Append(sent[y], m)
        /\ handled[y] \in Seq(Message) /\ buffer[y] \in Seq(Message) /\ toward[y] \in Seq(Message)
    BY <1>0, <1>2
  <2>2. conn'[y] = conn[y]
    BY <1>0, <1>2 DEF OnlyOf
  <2>4. sent[y] = handled[y] \o buffer[y] \o toward[y]
    BY <1>2 DEF KeptFor
  <2>5. Append(handled[y] \o buffer[y] \o toward[y], m) = handled[y] \o buffer[y] \o Append(toward[y], m)
    <3>1. ASSUME NEW h \in Seq(Message), NEW b \in Seq(Message), NEW t \in Seq(Message)
          PROVE  \A k \in Message : Append(h \o b \o t, k) = h \o b \o Append(t, k)
      BY ONLY Shifts, SMTT(30)
    <3> QED BY ONLY <2>1, <3>1, ZenonT(30)
  <2>3. sent'[y] = handled[y] \o buffer[y] \o toward'[y]
    BY <2>1, <2>4, <2>5
  <2> QED BY <1>2, <2>2, <2>3 DEF KeptFor
<1> QED BY <1>0, <1>1, <1>2

\* Actions that make or take no connection and move no message.
LEMMA KeptStill ==
    ASSUME Kept, TypeOK, NEW x \in Persons, OnlyOf(x),
           conn'[x] = NoConnection <=> conn[x] = NoConnection,
           made' = made /\ buffer' = buffer /\ handled' = handled /\ toward' = toward /\ sent' = sent,
           causes \subseteq causes'
    PROVE  Kept'
<1> SUFFICES ASSUME "closed" \notin causes', NEW y \in Persons PROVE KeptFor(y)'
  BY DEF Kept
<1>1. KeptFor(y)
  BY DEF Kept
<1>2. conn'[y] = NoConnection <=> conn[y] = NoConnection
  BY Types DEF OnlyOf
<1> QED BY <1>1, <1>2, KeptSame

\* No message moves and no handler ends.
Calm ==
    /\ Unmoved /\ handling' = handling /\ handled' = handled /\ toward' = toward /\ sent' = sent

\* A step that only works on a connection keeps the types.
LEMMA CalmTyped ==
    ASSUME TypeOK, Bounded, NEW x \in Persons, OnlyOf(x), Calm,
           conn'[x] \in Connection \cup {NoConnection},
           conn'[x] # NoConnection => Numbered(conn'[x].queue),
           causes' \subseteq causes \cup {"closed", "skipped stop", "timeout"}
    PROVE  TypeOK' /\ Bounded'
<1> DEFINE d == conn'[x]
<1>1. conn' = [conn EXCEPT ![x] = d] /\ events' = events /\ seen' = seen /\ published' = published
  BY DEF OnlyOf
<1>2. /\ starting' \in [Persons -> SUBSET Pubs] /\ made' \in [Persons -> 0..MaxConnections]
      /\ buffer' \in [Persons -> Seq(Message)] /\ toward' \in [Persons -> Seq(Message)]
      /\ causes' \subseteq {"late stream", "overtaken", "skipped stop", "early offer", "timeout", "closed"}
  BY Types DEF Calm, Unmoved
<1>3. /\ sent' \in [Persons -> Seq(Message)] /\ handled' \in [Persons -> Seq(Message)]
      /\ handling' = handling
  BY DEF Bounded, Calm
<1>4. d \in Connection \cup {NoConnection} /\ (d # NoConnection => Numbered(d.queue))
  OBVIOUS
<1> HIDE DEF d
<1> QED BY <1>1, <1>2, <1>3, <1>4, TypedStep

\* An offer is sent, or a stop announced.
LEMMA PostTyped ==
    ASSUME TypeOK, Bounded, NEW x \in Persons, NEW m \in Message, OnlyOf(x), Unmoved,
           handling' = handling, handled' = handled,
           toward' = [toward EXCEPT ![Other(x)] = Append(@, m)],
           sent' = [sent EXCEPT ![Other(x)] = Append(@, m)],
           conn'[x] \in Connection \cup {NoConnection},
           conn'[x] # NoConnection => Numbered(conn'[x].queue),
           causes' \subseteq causes \cup {"closed", "skipped stop", "timeout"}
    PROVE  TypeOK' /\ Bounded'
<1> DEFINE d == conn'[x]
<1>1. conn' = [conn EXCEPT ![x] = d] /\ events' = events /\ seen' = seen /\ published' = published
  BY DEF OnlyOf
<1>2. /\ starting' \in [Persons -> SUBSET Pubs] /\ made' \in [Persons -> 0..MaxConnections]
      /\ buffer' \in [Persons -> Seq(Message)]
      /\ causes' \subseteq {"late stream", "overtaken", "skipped stop", "early offer", "timeout", "closed"}
  BY Types DEF Unmoved
<1>3. Other(x) \in Persons /\ sent \in [Persons -> Seq(Message)] /\ handled' \in [Persons -> Seq(Message)]
  BY TwoPersons DEF Bounded
<1>4. sent' \in [Persons -> Seq(Message)] /\ toward' \in [Persons -> Seq(Message)]
  BY <1>3, Types, MessagesMove
<1>5. d \in Connection \cup {NoConnection} /\ (d # NoConnection => Numbered(d.queue))
  OBVIOUS
<1> HIDE DEF d
<1> QED BY <1>1, <1>2, <1>3, <1>4, <1>5, TypedStep

\* The tasks of a queue keep types and messages.
LEMMA RunKeeps ==
    ASSUME TypeOK, Bounded, Kept, NEW x \in Persons, Run(x)
    PROVE  TypeOK' /\ Bounded' /\ Kept'
<1>0. Runnable(conn[x]) /\ conn[x] # NoConnection
  BY DEF Run, Runnable
<1>1. CASE StartPublishing(x)
  <2> DEFINE m == Produce(conn[x], Head(conn[x].queue).pub)
  <2>1. /\ OnlyOf(x) /\ conn'[x] \in Connection /\ Numbered(conn'[x].queue) /\ m \in Message
        /\ Unmoved /\ handling' = handling /\ handled' = handled /\ causes' = causes
        /\ \/ toward' = toward /\ sent' = sent
           \/ /\ toward' = [toward EXCEPT ![Other(x)] = Append(@, m)]
              /\ sent' = [sent EXCEPT ![Other(x)] = Append(@, m)]
    BY <1>0, <1>1, StartPublishingDoes
  <2>2. conn'[x] # NoConnection
    BY <2>1, ConnectionIs
  <2> HIDE DEF m
  <2>3. CASE toward' = toward /\ sent' = sent
    <3>1. TypeOK' /\ Bounded'
      BY <2>1, <2>3, CalmTyped DEF Calm
    <3> QED BY <1>0, <2>1, <2>2, <2>3, <3>1, KeptStill DEF Unmoved
  <2>4. CASE /\ toward' = [toward EXCEPT ![Other(x)] = Append(@, m)]
             /\ sent' = [sent EXCEPT ![Other(x)] = Append(@, m)]
    <3>1. TypeOK' /\ Bounded'
      BY <2>1, <2>4, PostTyped
    <3>2. KeptFor(x) /\ KeptFor(Other(x)) => \A y \in Persons : KeptFor(y)'
      BY <1>0, <2>1, <2>2, <2>4, KeptPosted DEF Unmoved
    <3> QED BY <2>1, <3>1, <3>2, TwoPersons DEF Kept
  <2> QED BY <2>1, <2>3, <2>4
<1>2. CASE StopPublishing(x)
  <2> DEFINE m == Unproduce(conn[x], Head(conn[x].queue).pub)
  <2>1. /\ OnlyOf(x) /\ m \in Message
        /\ conn'[x] \in Connection \cup {NoConnection}
        /\ conn'[x] # NoConnection => Numbered(conn'[x].queue)
        /\ Unmoved /\ handling' = handling /\ handled' = handled
        /\ causes \subseteq causes' /\ causes' \subseteq causes \cup {"closed", "skipped stop"}
        /\ conn'[x] = NoConnection => "closed" \in causes'
        /\ \/ toward' = toward /\ sent' = sent
           \/ /\ toward' = [toward EXCEPT ![Other(x)] = Append(@, m)]
              /\ sent' = [sent EXCEPT ![Other(x)] = Append(@, m)]
    BY <1>0, <1>2, StopPublishingDoes
  <2> HIDE DEF m
  <2>2. causes' \subseteq causes \cup {"closed", "skipped stop", "timeout"}
    BY <2>1
  <2>5. CASE conn'[x] = NoConnection
    <3>1. Kept'
      BY <2>1, <2>5 DEF Kept
    <3> QED BY <2>1, <2>2, <3>1, CalmTyped, PostTyped DEF Calm
  <2>3. CASE conn'[x] # NoConnection /\ toward' = toward /\ sent' = sent
    <3>1. TypeOK' /\ Bounded'
      BY <2>1, <2>2, <2>3, CalmTyped DEF Calm
    <3> QED BY <1>0, <2>1, <2>3, <3>1, KeptStill DEF Unmoved
  <2>4. CASE /\ conn'[x] # NoConnection
             /\ toward' = [toward EXCEPT ![Other(x)] = Append(@, m)]
             /\ sent' = [sent EXCEPT ![Other(x)] = Append(@, m)]
    <3>1. TypeOK' /\ Bounded'
      BY <2>1, <2>2, <2>4, PostTyped
    <3>2. KeptFor(x) /\ KeptFor(Other(x)) => \A y \in Persons : KeptFor(y)'
      BY <1>0, <2>1, <2>4, KeptPosted DEF Unmoved
    <3> QED BY <2>1, <3>1, <3>2, TwoPersons DEF Kept
  <2> QED BY <2>1, <2>3, <2>4, <2>5
<1>3. CASE StartSubscribing(x)
  <2>1. /\ conn[x].queue # <<>> /\ Head(conn[x].queue).kind = "startSub"
        /\ conn' = [conn EXCEPT ![x] = Subscribed(conn[x])]
        /\ events' = events /\ seen' = seen /\ published' = published
        /\ Calm /\ causes' = causes
    BY <1>0, <1>3 DEF StartSubscribing, Runnable, channel, history, Calm, Unmoved
  <2>2. OnlyOf(x) /\ conn'[x] \in Connection /\ Numbered(conn'[x].queue)
    BY <1>0, <2>1, SubscribedDoes
  <2>3. conn'[x] # NoConnection
    BY <2>2, ConnectionIs
  <2>4. TypeOK' /\ Bounded'
    BY <2>1, <2>2, CalmTyped
  <2> QED BY <1>0, <2>1, <2>2, <2>3, <2>4, KeptStill DEF Calm, Unmoved
<1>4. CASE StopSubscribing(x)
  <2>1. /\ OnlyOf(x) /\ Calm
        /\ conn'[x] \in Connection \cup {NoConnection}
        /\ conn'[x] # NoConnection => Numbered(conn'[x].queue)
        /\ causes \subseteq causes' /\ causes' \subseteq causes \cup {"closed"}
        /\ conn'[x] = NoConnection => "closed" \in causes'
    BY <1>0, <1>4, StopSubscribingDoes DEF Calm
  <2>2. causes' \subseteq causes \cup {"closed", "skipped stop", "timeout"}
    BY <2>1
  <2>3. TypeOK' /\ Bounded'
    BY <2>1, <2>2, CalmTyped
  <2>4. CASE conn'[x] = NoConnection
    BY <2>1, <2>3, <2>4 DEF Kept
  <2>5. CASE conn'[x] # NoConnection
    BY <1>0, <2>1, <2>3, <2>5, KeptStill DEF Calm, Unmoved
  <2> QED BY <2>4, <2>5
<1> QED BY <1>1, <1>2, <1>3, <1>4 DEF Run

\* So do the answer of signaling.send and a wait that times out.
LEMMA SentKeeps ==
    ASSUME TypeOK, Bounded, Kept, NEW x \in Persons, Sent(x) \/ WaitTimeout(x)
    PROVE  TypeOK' /\ Bounded' /\ Kept'
<1>1. CASE Sent(x)
  <2>1. /\ OnlyOf(x) /\ Calm /\ conn'[x] \in Connection /\ Numbered(conn'[x].queue)
        /\ causes' = causes
    BY <1>1, SentDoes DEF Calm
  <2>2. conn'[x] # NoConnection /\ conn[x] # NoConnection
    BY <1>1, <2>1, ConnectionIs DEF Sent
  <2>4. TypeOK' /\ Bounded'
    BY <2>1, <2>2, CalmTyped
  <2> QED BY <2>1, <2>2, <2>4, KeptStill DEF Calm, Unmoved
<1>2. CASE WaitTimeout(x)
  <2>1. /\ conn[x] # NoConnection /\ conn[x].queue # <<>> /\ Head(conn[x].queue).kind = "startSub"
        /\ conn' = [conn EXCEPT ![x] = Subscribed(conn[x])]
        /\ events' = events /\ seen' = seen /\ published' = published
        /\ Calm /\ causes' = causes \cup {"timeout"}
    BY <1>2 DEF WaitTimeout, channel, Calm, Unmoved
  <2>2. OnlyOf(x) /\ conn'[x] \in Connection /\ Numbered(conn'[x].queue)
    BY <2>1, SubscribedDoes
  <2>3. conn'[x] # NoConnection
    BY <2>2, ConnectionIs
  <2>5. causes' \subseteq causes \cup {"closed", "skipped stop", "timeout"} /\ causes \subseteq causes'
    BY <2>1
  <2>4. TypeOK' /\ Bounded'
    BY <2>1, <2>2, <2>5, CalmTyped
  <2> QED BY <2>1, <2>2, <2>3, <2>4, <2>5, KeptStill DEF Calm, Unmoved
<1> QED BY <1>1, <1>2

\* A pushed task loses nothing.
LEMMA PushKept ==
    ASSUME TypeOK, Bounded, Kept, NEW x \in Persons, NEW task \in Task,
           task.kind = "startSub" => task.sub \in 1..MaxEvents,
           CanPush(x), PushTask(x, task),
           events' = events, seen' = seen, published' = published,
           sent' = sent, handled' = handled, causes \subseteq causes'
    PROVE  Kept'
<1> SUFFICES ASSUME "closed" \notin causes', NEW y \in Persons PROVE KeptFor(y)'
  BY DEF Kept
<1>0. KeptFor(y)
  BY DEF Kept
<1>1. OnlyOf(x) /\ conn'[x] \in Connection
  BY PushTaskDoes
<1>2. conn'[x] # NoConnection
  BY <1>1, ConnectionIs
<1>3. /\ conn \in [Persons -> Connection \cup {NoConnection}]
      /\ made \in [Persons -> 0..MaxConnections]
      /\ buffer \in [Persons -> Seq(Message)] /\ toward \in [Persons -> Seq(Message)]
      /\ handled[y] \in Seq(Message)
  BY Types DEF Bounded
<1>4. CASE conn[x] # NoConnection
  <2>1. made' = made /\ buffer' = buffer /\ toward' = toward
    BY <1>4 DEF PushTask
  <2>2. conn'[y] = NoConnection <=> conn[y] = NoConnection
    BY <1>1, <1>2, <1>3, <1>4 DEF OnlyOf
  <2> QED BY <1>0, <2>1, <2>2, KeptSame
<1>5. CASE conn[x] = NoConnection
  <2>1. /\ made' = [made EXCEPT ![x] = @ + 1]
        /\ toward' = [toward EXCEPT ![x] = buffer[x] \o @]
        /\ buffer' = [buffer EXCEPT ![x] = <<>>]
    BY <1>5 DEF PushTask
  <2>2. CASE y # x
    <3>1. conn'[y] = conn[y] /\ made'[y] = made[y] /\ buffer'[y] = buffer[y] /\ toward'[y] = toward[y]
      BY <1>1, <1>3, <2>1, <2>2 DEF OnlyOf
    <3> QED BY <1>0, <3>1, KeptSame
  <2>3. CASE y = x
    <3>1. /\ made'[y] # 0 /\ buffer'[y] = <<>> /\ toward'[y] = buffer[y] \o toward[y]
          /\ buffer[y] \in Seq(Message) /\ toward[y] \in Seq(Message)
      BY <1>3, <2>1, <2>3
    <3>2. handled[y] \o buffer[y] \o toward[y] = handled[y] \o <<>> \o (buffer[y] \o toward[y])
      <4>1. ASSUME NEW h \in Seq(Message), NEW b \in Seq(Message), NEW t \in Seq(Message)
            PROVE  h \o b \o t = h \o <<>> \o (b \o t)
        BY ONLY Shifts, SMTT(30)
      <4> QED BY ONLY <1>3, <3>1, <4>1
    <3> QED BY <1>0, <1>2, <2>3, <3>1, <3>2 DEF KeptFor
  <2> QED BY <2>2, <2>3
<1> QED BY <1>4, <1>5

\* Channel events keep types and messages.
LEMMA HandleKeeps ==
    ASSUME TypeOK, Bounded, Kept, NEW x \in Persons, NEW i \in 1..MaxEvents, Handle(x, i)
    PROVE  TypeOK' /\ Bounded' /\ Kept'
<1> DEFINE task == TaskOf(x, i)
           e == events[i]
<1>1. /\ i \in 1..Len(events)
      /\ handling' = [handling EXCEPT ![x] = @ \ {i}]
      /\ events' = events /\ seen' = seen /\ published' = published
      /\ sent' = sent /\ handled' = handled
      /\ causes \subseteq causes' /\ causes' \subseteq causes \cup {"overtaken", "late stream"}
      /\ \/ /\ conn' = conn
            /\ made' = made /\ buffer' = buffer /\ toward' = toward
            /\ \/ starting' = [starting EXCEPT ![x] = @ \cup {e.pub}]
               \/ starting' = starting
         \/ CanPush(x) /\ PushTask(x, task) /\ starting' = starting
  BY HandleDoes
<1>2. e.pub \in Pubs /\ task \in Task /\ (task.kind = "startSub" => task.sub \in 1..MaxEvents)
  BY <1>1, EventsAre, TaskOfIs
<1>3. /\ causes' \subseteq {"late stream", "overtaken", "skipped stop", "early offer", "timeout", "closed"}
      /\ sent' \in [Persons -> Seq(Message)] /\ handled' \in [Persons -> Seq(Message)]
      /\ handling' = handling \/ \E j \in 1..MaxEvents : handling' = [handling EXCEPT ![x] = @ \ {j}]
  BY <1>1, Types DEF Bounded
<1>4. starting' \in [Persons -> SUBSET Pubs]
  BY <1>1, <1>2, Types
<1> HIDE DEF task, e
<1>5. CASE conn' = conn /\ made' = made /\ buffer' = buffer /\ toward' = toward
  <2>1. conn' = [conn EXCEPT ![x] = conn[x]] /\ conn[x] \in Connection \cup {NoConnection}
        /\ (conn[x] # NoConnection => Numbered(conn[x].queue))
    BY <1>5, Types DEF Bounded
  <2>2. /\ made' \in [Persons -> 0..MaxConnections]
        /\ buffer' \in [Persons -> Seq(Message)] /\ toward' \in [Persons -> Seq(Message)]
    BY <1>5, Types
  <2>3. TypeOK' /\ Bounded'
    BY <1>1, <1>3, <1>4, <2>1, <2>2, TypedStep
  <2>4. Kept'
    BY <1>1, <1>5 DEF Kept, KeptFor
  <2> QED BY <2>3, <2>4
<1>6. CASE CanPush(x) /\ PushTask(x, task) /\ starting' = starting
  <2>1. /\ OnlyOf(x) /\ conn'[x] \in Connection /\ Numbered(conn'[x].queue)
        /\ made' \in [Persons -> 0..MaxConnections]
        /\ buffer' \in [Persons -> Seq(Message)] /\ toward' \in [Persons -> Seq(Message)]
    BY <1>1, <1>2, <1>6, PushTaskDoes
  <2> DEFINE d == conn'[x]
  <2>2. d \in Connection \cup {NoConnection} /\ (d # NoConnection => Numbered(d.queue))
        /\ conn' = [conn EXCEPT ![x] = d]
    BY <2>1 DEF OnlyOf
  <2> HIDE DEF d
  <2>3. TypeOK' /\ Bounded'
    BY <1>1, <1>3, <1>4, <2>1, <2>2, TypedStep
  <2>4. Kept'
    BY <1>1, <1>2, <1>6, PushKept
  <2> QED BY <2>3, <2>4
<1> QED BY <1>1, <1>5, <1>6

\* A start that waited for its stream keeps the first part of the invariant.
LEMMA StreamPublishedKeeps ==
    ASSUME TypeOK, Bounded, Kept, NEW x \in Persons, NEW p \in Pubs, StreamPublished(x, p)
    PROVE  TypeOK' /\ Bounded' /\ Kept'
<1> DEFINE task == [kind |-> "startPub", pub |-> p, sub |-> 0]
<1>1. /\ starting' = [starting EXCEPT ![x] = @ \ {p}]
      /\ events' = events /\ seen' = seen /\ published' = published /\ handling' = handling
      /\ sent' = sent /\ handled' = handled /\ causes' = causes
      /\ CanPush(x) /\ PushTask(x, task)
  BY DEF StreamPublished, channel, history
<1>2. task \in Task /\ task.kind # "startSub"
  BY RendezvousAssumption DEF Task
<1> HIDE DEF task
<1>3. /\ causes' \subseteq {"late stream", "overtaken", "skipped stop", "early offer", "timeout", "closed"}
      /\ sent' \in [Persons -> Seq(Message)] /\ handled' \in [Persons -> Seq(Message)]
      /\ starting' \in [Persons -> SUBSET Pubs]
  BY <1>1, Types DEF Bounded
<1>4. /\ OnlyOf(x) /\ conn'[x] \in Connection /\ Numbered(conn'[x].queue)
      /\ made' \in [Persons -> 0..MaxConnections]
      /\ buffer' \in [Persons -> Seq(Message)] /\ toward' \in [Persons -> Seq(Message)]
  BY <1>1, <1>2, PushTaskDoes
<1> DEFINE d == conn'[x]
<1>5. d \in Connection \cup {NoConnection} /\ (d # NoConnection => Numbered(d.queue))
      /\ conn' = [conn EXCEPT ![x] = d]
  BY <1>4 DEF OnlyOf
<1> HIDE DEF d
<1>6. TypeOK' /\ Bounded'
  BY <1>1, <1>3, <1>4, <1>5, TypedStep
<1>7. Kept'
  BY <1>1, <1>2, PushKept
<1> QED BY <1>6, <1>7

\* So do the events of the channel and the application.
LEMMA ChannelKeeps ==
    ASSUME TypeOK, Bounded, Kept,
           (\E p \in Pubs : Subscribe(p) \/ Publish(p)) \/ \E x \in Persons : Receive(x)
    PROVE  TypeOK' /\ Bounded' /\ Kept'
<1>0. /\ seen \in [Persons -> Nat] /\ handling \in [Persons -> SUBSET (1..MaxEvents)]
      /\ events \in Seq(Event) /\ Len(events) \in Nat /\ Len(events) <= MaxEvents /\ MaxEvents \in Nat
      /\ \A y \in Persons : seen[y] <= Len(events) /\ handling[y] \subseteq 1..seen[y]
  BY Types, EventsAre, RendezvousAssumption DEF Bounded
<1>1. ASSUME NEW p \in Pubs, Subscribe(p) PROVE TypeOK' /\ Bounded' /\ Kept'
  <2>1. /\ Len(events) < MaxEvents
        /\ events' \in Seq(Event) /\ Len(events') = Len(events) + 1
        /\ UNCHANGED <<seen, handling, published, starting, conn, made, buffer, toward, history>>
    BY <1>1, SubscribeDoes
  <2>2. TypeOK'
    BY <2>1 DEF TypeOK, history
  <2>3. Bounded'
    BY <1>0, <2>1 DEF Bounded, history
  <2>4. Kept'
    BY <2>1 DEF Kept, KeptFor, history
  <2> QED BY <2>2, <2>3, <2>4
<1>2. ASSUME NEW p \in Pubs, Publish(p) PROVE TypeOK' /\ Bounded' /\ Kept'
  <2>1. /\ published' = published \cup {p}
        /\ UNCHANGED <<events, seen, handling, starting, conn, made, buffer, toward, history>>
    BY <1>2 DEF Publish
  <2>2. TypeOK'
    BY <2>1 DEF TypeOK, history
  <2>3. Bounded'
    BY <2>1 DEF Bounded, history
  <2>4. Kept'
    BY <2>1 DEF Kept, KeptFor, history
  <2> QED BY <2>2, <2>3, <2>4
<1>3. ASSUME NEW x \in Persons, Receive(x) PROVE TypeOK' /\ Bounded' /\ Kept'
  <2>1. /\ seen[x] \in Nat /\ seen[x] < Len(events)
        /\ seen' = [seen EXCEPT ![x] = @ + 1]
        /\ handling' = [handling EXCEPT ![x] = @ \cup {seen[x] + 1}]
        /\ UNCHANGED <<events, published, starting, conn, made, buffer, toward, history>>
    BY <1>3, ReceiveDoes
  <2>2. /\ seen' \in [Persons -> Nat] /\ handling' \in [Persons -> SUBSET (1..MaxEvents)]
        /\ \A y \in Persons : seen'[y] <= Len(events) /\ handling'[y] \subseteq 1..seen'[y]
    <3>1. seen[x] + 1 \in 1..MaxEvents /\ seen[x] + 1 \in Nat
      BY <1>0, <2>1
    <3>2. seen' \in [Persons -> Nat] /\ handling' \in [Persons -> SUBSET (1..MaxEvents)]
      BY <1>0, <2>1, <3>1
    <3>3. ASSUME NEW y \in Persons PROVE seen'[y] <= Len(events) /\ handling'[y] \subseteq 1..seen'[y]
      <4>1. CASE y = x
        <5>1. seen'[x] = seen[x] + 1 /\ handling'[x] = handling[x] \cup {seen[x] + 1}
          BY <1>0, <2>1
        <5>2. handling[x] \subseteq 1..seen[x]
          BY <1>0
        <5> QED BY <1>0, <2>1, <4>1, <5>1, <5>2
      <4>2. CASE y # x
        BY <1>0, <2>1, <4>2
      <4> QED BY <4>1, <4>2
    <3> QED BY <3>2, <3>3
  <2>3. TypeOK'
    BY <2>1, <2>2 DEF TypeOK, history
  <2>4. Bounded'
    BY <2>1, <2>2 DEF Bounded, history
  <2>5. Kept'
    BY <2>1 DEF Kept, KeptFor, history
  <2> QED BY <2>3, <2>4, <2>5
<1> QED BY <1>1, <1>2, <1>3

\* A person's message given to its connection, and perhaps another posted.
LEMMA KeptTaken ==
    ASSUME TypeOK, Bounded, Kept, NEW x \in Persons, NEW m \in Message,
           toward[x] # <<>>, conn[x] # NoConnection, conn'[x] # NoConnection, OnlyOf(x),
           made' = made, buffer' = buffer, causes \subseteq causes',
           handled' = [handled EXCEPT ![x] = Append(@, Head(toward[x]))],
           \/ toward' = [toward EXCEPT ![x] = Tail(@)] /\ sent' = sent
           \/ /\ toward' = [toward EXCEPT ![x] = Tail(@), ![Other(x)] = Append(@, m)]
              /\ sent' = [sent EXCEPT ![Other(x)] = Append(@, m)]
    PROVE  Kept' /\ toward' \in [Persons -> Seq(Message)]
           /\ sent' \in [Persons -> Seq(Message)] /\ handled' \in [Persons -> Seq(Message)]
<1>0. /\ conn \in [Persons -> Connection \cup {NoConnection}] /\ toward \in [Persons -> Seq(Message)]
      /\ sent \in [Persons -> Seq(Message)] /\ handled \in [Persons -> Seq(Message)]
      /\ buffer \in [Persons -> Seq(Message)]
      /\ Other(x) # x /\ Other(x) \in Persons /\ \A y \in Persons : y = x \/ y = Other(x)
  BY Types, TwoPersons DEF Bounded
<1>1. Head(toward[x]) \in Message
  BY <1>0, MessagesMove
<1>2. handled' \in [Persons -> Seq(Message)]
  BY <1>0, <1>1, MessagesMove
<1>3. toward' \in [Persons -> Seq(Message)] /\ sent' \in [Persons -> Seq(Message)]
  <2>1. /\ [toward EXCEPT ![x] = Tail(@)] \in [Persons -> Seq(Message)]
        /\ [toward EXCEPT ![x] = Tail(@), ![Other(x)] = Append(@, m)] \in [Persons -> Seq(Message)]
    BY TakeAndPost
  <2>2. [sent EXCEPT ![Other(x)] = Append(@, m)] \in [Persons -> Seq(Message)]
    BY <1>0, MessagesMove
  <2> QED BY <1>0, <2>1, <2>2
<1>4. toward'[x] = Tail(toward[x]) /\ sent'[x] = sent[x]
  BY <1>0, TakeAndPost
<1>5. handled'[x] = Append(handled[x], Head(toward[x])) /\ handled'[Other(x)] = handled[Other(x)]
  BY <1>0
<1>6. \/ toward'[Other(x)] = toward[Other(x)] /\ sent'[Other(x)] = sent[Other(x)]
      \/ /\ toward'[Other(x)] = Append(toward[Other(x)], m)
         /\ sent'[Other(x)] = Append(sent[Other(x)], m)
  BY <1>0
<1>7. conn'[Other(x)] = conn[Other(x)]
  BY <1>0 DEF OnlyOf
<1>8. ASSUME "closed" \notin causes', NEW y \in Persons PROVE KeptFor(y)'
  <2>0. KeptFor(y)
    BY <1>8 DEF Kept
  <2>1. CASE y = x
    <3>1. buffer[y] = <<>> /\ sent[y] = handled[y] \o <<>> \o toward[y] /\ made[y] # 0
      BY <2>0, <2>1 DEF KeptFor
    <3>2. handled[y] \in Seq(Message) /\ toward[y] \in Seq(Message) /\ <<>> \in Seq(Message)
      BY <1>0
    <3>3. Append(handled[y], Head(toward[y])) \o <<>> \o Tail(toward[y]) = handled[y] \o <<>> \o toward[y]
      <4>1. ASSUME NEW h \in Seq(Message), NEW b \in Seq(Message), NEW t \in Seq(Message), t # <<>>
            PROVE  Append(h, Head(t)) \o <<>> \o Tail(t) = h \o <<>> \o t
        BY ONLY <4>1, Shifts
      <4>2. toward[y] # <<>>
        BY <2>1
      <4> QED BY ONLY <3>2, <4>1, <4>2
    <3> QED BY <1>4, <1>5, <2>1, <3>1, <3>3 DEF KeptFor
  <2>2. CASE y = Other(x)
    <3>1. CASE toward'[y] = toward[y] /\ sent'[y] = sent[y]
      BY <1>5, <1>7, <2>0, <2>2, <3>1, KeptSame
    <3>2. CASE toward'[y] = Append(toward[y], m) /\ sent'[y] = Append(sent[y], m)
      <4>0. handled[y] \in Seq(Message) /\ toward[y] \in Seq(Message) /\ buffer[y] \in Seq(Message)
        BY <1>0
      <4>1. Append(handled[y] \o buffer[y] \o toward[y], m) = handled[y] \o buffer[y] \o Append(toward[y], m)
        <5>1. ASSUME NEW h \in Seq(Message), NEW b \in Seq(Message), NEW t \in Seq(Message)
              PROVE  \A k \in Message : Append(h \o b \o t, k) = h \o b \o Append(t, k)
          BY ONLY Shifts, SMTT(30)
        <5> QED BY ONLY <4>0, <5>1, ZenonT(30)
      <4> QED BY <1>5, <1>7, <2>0, <2>2, <3>2, <4>1 DEF KeptFor
    <3> QED BY <1>6, <2>2, <3>1, <3>2
  <2> QED BY <1>0, <2>1, <2>2
<1>9. Kept'
  BY <1>8 DEF Kept
<1> QED BY <1>2, <1>3, <1>9

\* So does every way of taking a message.
LEMMA MessageKeeps ==
    ASSUME TypeOK, Bounded, Kept, NEW x \in Persons,
           NoListener(x) \/ Offered(x) \/ AnswerRefused(x) \/ Answered(x)
    PROVE  TypeOK' /\ Bounded' /\ Kept'
<1>1. CASE NoListener(x)
  <2>1. /\ toward[x] # <<>> /\ conn[x] = NoConnection /\ conn' = conn
        /\ toward' = [toward EXCEPT ![x] = Tail(@)] /\ toward' \in [Persons -> Seq(Message)]
        /\ buffer' \in [Persons -> Seq(Message)]
        /\ made[x] = 0 => buffer' = [buffer EXCEPT ![x] = Append(@, Head(toward[x]))]
        /\ events' = events /\ seen' = seen /\ published' = published
        /\ handling' = handling /\ made' = made /\ starting' = starting
        /\ sent' = sent /\ handled' = handled /\ causes' = causes
    BY <1>1, NoListenerDoes
  <2>2. TypeOK'
    BY <2>1 DEF TypeOK
  <2>3. Bounded'
    BY <2>1 DEF Bounded
  <2>4. ASSUME "closed" \notin causes', NEW y \in Persons PROVE KeptFor(y)'
    <3>0. KeptFor(y) /\ KeptFor(x)
      BY <2>1, <2>4 DEF Kept
    <3>1. made[x] = 0
      BY <2>1, <3>0 DEF KeptFor
    <3>2. CASE y # x
      <4>1. toward'[y] = toward[y] /\ buffer'[y] = buffer[y]
        BY <2>1, <3>1, <3>2, Types
      <4> QED BY <2>1, <3>0, <4>1, KeptSame
    <3>3. CASE y = x
      <4>1. /\ toward'[x] = Tail(toward[x]) /\ buffer'[x] = Append(buffer[x], Head(toward[x]))
            /\ toward[x] \in Seq(Message) /\ buffer[x] \in Seq(Message) /\ handled[x] \in Seq(Message)
        BY <2>1, <3>1, Types DEF Bounded
      <4>2. handled[x] \o Append(buffer[x], Head(toward[x])) \o Tail(toward[x])
              = handled[x] \o buffer[x] \o toward[x]
        <5>1. ASSUME NEW h \in Seq(Message), NEW b \in Seq(Message), NEW t \in Seq(Message), t # <<>>
              PROVE  h \o Append(b, Head(t)) \o Tail(t) = h \o b \o t
          BY ONLY <5>1, Shifts
        <5>2. /\ toward[x] \in Seq(Message) /\ buffer[x] \in Seq(Message)
              /\ handled[x] \in Seq(Message) /\ toward[x] # <<>>
          BY <2>1, <4>1
        <5> QED BY ONLY <5>1, <5>2
      <4> QED BY <2>1, <3>0, <3>3, <4>1, <4>2 DEF KeptFor
    <3> QED BY <3>2, <3>3
  <2>5. Kept'
    BY <2>4 DEF Kept
  <2> QED BY <2>2, <2>3, <2>5
<1>2. ASSUME NEW m \in Message, OnlyOf(x), Unmoved, handling' = handling,
             toward[x] # <<>>, conn[x] # NoConnection, conn'[x] \in Connection,
             conn'[x].queue = conn[x].queue,
             causes \subseteq causes', causes' \subseteq causes \cup {"early offer"},
             handled' = [handled EXCEPT ![x] = Append(@, Head(toward[x]))],
             \/ toward' = [toward EXCEPT ![x] = Tail(@)] /\ sent' = sent
             \/ /\ toward' = [toward EXCEPT ![x] = Tail(@), ![Other(x)] = Append(@, m)]
                /\ sent' = [sent EXCEPT ![Other(x)] = Append(@, m)]
      PROVE  TypeOK' /\ Bounded' /\ Kept'
  <2>0. conn'[x] # NoConnection /\ made' = made /\ buffer' = buffer
    BY <1>2, ConnectionIs DEF Unmoved
  <2>1. Kept' /\ toward' \in [Persons -> Seq(Message)]
        /\ sent' \in [Persons -> Seq(Message)] /\ handled' \in [Persons -> Seq(Message)]
    BY <1>2, <2>0, KeptTaken
  <2> DEFINE d == conn'[x]
  <2>2. /\ d \in Connection \cup {NoConnection} /\ (d # NoConnection => Numbered(d.queue))
        /\ conn' = [conn EXCEPT ![x] = d] /\ events' = events /\ seen' = seen /\ published' = published
    BY <1>2 DEF OnlyOf, Bounded
  <2>3. /\ starting' \in [Persons -> SUBSET Pubs] /\ made' \in [Persons -> 0..MaxConnections]
        /\ buffer' \in [Persons -> Seq(Message)]
        /\ causes' \subseteq {"late stream", "overtaken", "skipped stop", "early offer", "timeout", "closed"}
    BY <1>2, Types DEF Unmoved
  <2> HIDE DEF d
  <2>4. TypeOK' /\ Bounded'
    BY <1>2, <2>1, <2>2, <2>3, TypedStep
  <2> QED BY <2>1, <2>4
<1>3. CASE Offered(x)
  <2> DEFINE ans == [kind |-> "answer", from |-> conn[x].id, to |-> Head(toward[x]).from]
  <2>1. /\ toward[x] # <<>> /\ conn[x] \in Connection /\ ans \in Message
        /\ OnlyOf(x) /\ Unmoved /\ handling' = handling /\ conn'[x] \in Connection
        /\ conn'[x].queue = conn[x].queue
        /\ handled' = [handled EXCEPT ![x] = Append(@, Head(toward[x]))]
        /\ causes' = causes \cup Early(conn[x], Head(toward[x]))
        /\ \/ /\ toward' = [toward EXCEPT ![x] = Tail(@), ![Other(x)] = Append(@, ans)]
              /\ sent' = [sent EXCEPT ![Other(x)] = Append(@, ans)]
           \/ sent' = sent /\ toward' = [toward EXCEPT ![x] = Tail(@)]
    BY <1>3, OfferedDoes
  <2>2. conn[x] # NoConnection
    BY <2>1, ConnectionIs
  <2>3. causes \subseteq causes' /\ causes' \subseteq causes \cup {"early offer"}
    BY <2>1 DEF Early
  <2> HIDE DEF ans
  <2> QED BY <1>2, <2>1, <2>2, <2>3
<1>4. CASE AnswerRefused(x)
  <2>1. /\ toward[x] # <<>> /\ conn[x] \in Connection /\ Head(toward[x]) \in Message
        /\ conn' = conn /\ Unmoved /\ handling' = handling
        /\ events' = events /\ seen' = seen /\ published' = published
        /\ handled' = [handled EXCEPT ![x] = Append(@, Head(toward[x]))] /\ sent' = sent
        /\ toward' = [toward EXCEPT ![x] = Tail(@)] /\ causes' = causes
    BY <1>4, AnswerRefusedDoes
  <2>2. conn[x] # NoConnection /\ OnlyOf(x)
    BY <2>1, Types, ConnectionIs DEF OnlyOf
  <2> QED BY <1>2, <2>1, <2>2
<1>5. CASE Answered(x)
  <2> DEFINE o == Produce(conn[x], Head(conn[x].pending).pub)
  <2>1. /\ toward[x] # <<>> /\ conn[x] \in Connection /\ Head(toward[x]) \in Message
        /\ OnlyOf(x) /\ Unmoved /\ handling' = handling /\ conn'[x] \in Connection
        /\ conn'[x].queue = conn[x].queue
        /\ handled' = [handled EXCEPT ![x] = Append(@, Head(toward[x]))] /\ causes' = causes
        /\ \/ toward' = [toward EXCEPT ![x] = Tail(@)] /\ sent' = sent
           \/ /\ o \in Message
              /\ toward' = [toward EXCEPT ![x] = Tail(@), ![Other(x)] = Append(@, o)]
              /\ sent' = [sent EXCEPT ![Other(x)] = Append(@, o)]
    BY <1>5, AnsweredDoes
  <2>2. conn[x] # NoConnection
    BY <2>1, ConnectionIs
  <2> HIDE DEF o
  <2> QED BY <1>2, <2>1, <2>2
<1> QED BY <1>1, <1>3, <1>4, <1>5

----------------------------------------------------------------------------
(* Queues and messages, one element more or less.                          *)

\* The task at the head is that of the event after the last one run.
LEMMA HeadFits ==
    ASSUME NEW x \in Persons, NEW d \in Nat, NEW q \in Seq(Task), q # <<>>, QueueFits(x, d, q)
    PROVE  LET r == RanOf(d, q)
           IN  /\ r \in Nat /\ r <= d
               /\ Head(q).kind # "sending" => r + 1 <= d /\ Fits(x, r + 1, Head(q), 1)
               /\ QueueFits(x, d, Tail(q))
               /\ Head(q).kind # "sending" => RanOf(d, Tail(q)) = r + 1
               /\ Head(q).kind = "sending" => RanOf(d, Tail(q)) = r
<1>1. /\ Len(q) \in Nat /\ Len(q) > 0 /\ Head(q) = q[1]
      /\ Tail(q) \in Seq(Task) /\ Len(Tail(q)) = Len(q) - 1
      /\ \A j \in 1..Len(Tail(q)) : Tail(q)[j] = q[j + 1]
  OBVIOUS
<1> DEFINE n == Len(q)
           t == Tail(q)
<1>2. n <= d /\ \A j \in 1..n : Fits(x, d - n + j, q[j], j)
  BY DEF QueueFits
<1>3. \A j \in 2..n : q[j].kind # "sending"
  <2> SUFFICES ASSUME NEW j \in 2..n PROVE q[j].kind # "sending"
    OBVIOUS
  <2>1. Fits(x, d - n + j, q[j], j) /\ j # 1
    BY <1>1, <1>2
  <2> QED BY <2>1 DEF Fits
<1>4. ASSUME t # <<>> PROVE Head(t) = q[2] /\ 2 \in 2..n
  <2> HIDE DEF t
  <2>1. Len(t) \in Nat /\ Len(t) > 0 /\ Head(t) = t[1]
    BY <1>1, <1>4 DEF t
  <2> QED BY <1>1, <2>1 DEF t
<1>5. RanOf(d, t) = d - (n - 1)
  <2>1. ~(t # <<>> /\ Head(t).kind = "sending")
    BY <1>3, <1>4
  <2> QED BY <1>1, <2>1 DEF RanOf
<1>6. RanOf(d, q) = d - n + IF Head(q).kind = "sending" THEN 1 ELSE 0
  BY DEF RanOf
<1>7. QueueFits(x, d, t)
  <2> SUFFICES ASSUME NEW j \in 1..Len(t) PROVE Fits(x, d - Len(t) + j, t[j], j)
    BY <1>1, <1>2 DEF QueueFits
  <2>1. j + 1 \in 2..n /\ j + 1 \in 1..n /\ t[j] = q[j + 1] /\ d - Len(t) + j = d - n + (j + 1)
    BY <1>1
  <2>2. Fits(x, d - n + (j + 1), q[j + 1], j + 1) /\ q[j + 1].kind # "sending"
    BY <1>2, <1>3, <2>1
  <2>3. Fits(x, d - n + (j + 1), q[j + 1], j)
    BY <2>2 DEF Fits
  <2> QED BY <2>1, <2>3
<1>8. Fits(x, d - n + 1, Head(q), 1)
  BY <1>1, <1>2
<1> HIDE DEF t
<1>9. CASE Head(q).kind = "sending"
  BY <1>1, <1>2, <1>5, <1>6, <1>7, <1>9 DEF t
<1>10. CASE Head(q).kind # "sending"
  <2>1. RanOf(d, q) = d - n /\ d - n \in Nat
    BY <1>1, <1>2, <1>6, <1>10
  <2> QED BY <1>1, <1>2, <1>5, <1>7, <1>8, <1>10, <2>1 DEF t
<1> QED BY <1>9, <1>10

\* A start that sends its offer.
LEMMA MarkedFits ==
    ASSUME NEW x \in Persons, NEW d \in Nat, NEW q \in Seq(Task), q # <<>>, QueueFits(x, d, q),
           Head(q).kind = "startPub",
           NEW r \in Seq(Task), Len(r) = Len(q), r[1].kind = "sending", r[1].pub = q[1].pub,
           \A j \in 2..Len(q) : r[j] = q[j]
    PROVE  QueueFits(x, d, r) /\ RanOf(d, r) = RanOf(d, q) + 1
<1>1. Len(q) \in Nat /\ Len(q) > 0 /\ Head(q) = q[1] /\ r # <<>> /\ Head(r) = r[1]
  OBVIOUS
<1>2. Len(q) <= d /\ \A j \in 1..Len(q) : Fits(x, d - Len(q) + j, q[j], j)
  BY DEF QueueFits
<1>3. Fits(x, d - Len(q) + 1, r[1], 1)
  <2>1. Fits(x, d - Len(q) + 1, q[1], 1)
    BY <1>1, <1>2
  <2> QED BY <1>1, <2>1 DEF Fits
<1>4. \A j \in 1..Len(r) : Fits(x, d - Len(r) + j, r[j], j)
  <2> SUFFICES ASSUME NEW j \in 1..Len(q) PROVE Fits(x, d - Len(q) + j, r[j], j)
    OBVIOUS
  <2>1. CASE j = 1
    BY <1>3, <2>1
  <2>2. CASE j # 1
    <3>1. j \in 2..Len(q)
      BY <1>1, <2>2
    <3> QED BY <1>2, <3>1
  <2> QED BY <2>1, <2>2
<1>5. RanOf(d, q) = d - Len(q) /\ RanOf(d, r) = d - Len(q) + 1
  BY <1>1, <1>2 DEF RanOf
<1> QED BY <1>2, <1>4, <1>5 DEF QueueFits

\* The task of the next event is pushed.
LEMMA AppendFits ==
    ASSUME NEW x \in Persons, NEW d \in Nat, NEW q \in Seq(Task), QueueFits(x, d, q),
           NEW task \in Task, \A j \in Nat : Fits(x, d + 1, task, j), task.kind # "sending"
    PROVE  QueueFits(x, d + 1, Append(q, task)) /\ RanOf(d + 1, Append(q, task)) = RanOf(d, q)
<1> DEFINE r == Append(q, task)
<1>1. /\ r \in Seq(Task) /\ Len(r) = Len(q) + 1 /\ Len(q) \in Nat /\ r # <<>>
      /\ \A j \in 1..Len(q) : r[j] = q[j]
      /\ r[Len(q) + 1] = task
  BY AppendProperties
<1>2. Head(r) = r[1] /\ (q # <<>> => Head(q) = q[1] /\ Len(q) > 0) /\ (q = <<>> => Len(q) = 0)
  BY <1>1
<1> HIDE DEF r
<1>3. Len(q) <= d /\ \A j \in 1..Len(q) : Fits(x, d - Len(q) + j, q[j], j)
  BY DEF QueueFits
<1>4. ASSUME NEW j \in 1..Len(r) PROVE Fits(x, d + 1 - Len(r) + j, r[j], j)
  <2>1. CASE j = Len(q) + 1
    <3>1. d + 1 - Len(r) + j = d + 1 /\ r[j] = task /\ j \in Nat
      BY <1>1, <2>1
    <3> QED BY <3>1
  <2>2. CASE j # Len(q) + 1
    <3>1. j \in 1..Len(q) /\ d + 1 - Len(r) + j = d - Len(q) + j /\ r[j] = q[j]
      BY <1>1, <2>2
    <3> QED BY <1>3, <3>1
  <2> QED BY <2>1, <2>2
<1>5. QueueFits(x, d + 1, r)
  BY <1>1, <1>3, <1>4 DEF QueueFits
<1>6. RanOf(d + 1, r) = RanOf(d, q)
  <2>1. CASE q = <<>>
    BY <1>1, <1>2, <2>1 DEF RanOf
  <2>2. CASE q # <<>>
    <3>1. Head(r) = Head(q)
      BY <1>1, <1>2, <2>2
    <3>2. d + 1 - Len(r) = d - Len(q)
      BY <1>1
    <3> QED BY <1>1, <2>2, <3>1, <3>2 DEF RanOf
  <2> QED BY <2>1, <2>2
<1> QED BY <1>5, <1>6 DEF r

\* What a message more at the end changes.
LEMMA WithOneMore ==
    ASSUME NEW s \in Seq(Message), NEW m \in Message
    PROVE  LET t == Append(s, m)
           IN  /\ OfFirst(s) /\ m.from = 1 /\ (m.kind = "answer" => m.to = 1) => OfFirst(t)
               /\ \A K : /\ m.kind \notin K /\ None(s, K) => None(t, K)
                         /\ m.kind \in K /\ None(s, K) => One(t, K)
                         /\ m.kind \notin K /\ One(s, K) => One(t, K)
               /\ \A p : /\ Offering(s, p) => Offering(t, p)
                         /\ m.kind = "produce" /\ m.pub = p => Offering(t, p)
                         /\ ~(m.kind = "produce" /\ m.pub = p) /\ ~Offering(s, p) => ~Offering(t, p)
<1> DEFINE t == Append(s, m)
           n == Len(s)
<1>1. /\ n \in Nat /\ Len(t) = n + 1 /\ t[n + 1] = m /\ \A i \in 1..n : t[i] = s[i]
  BY AppendProperties
<1> HIDE DEF t, n
<1>2. n + 1 \in 1..Len(t) /\ \A i \in 1..Len(t) : i \in 1..n \/ i = n + 1
  BY <1>1
<1>3. \A i \in 1..n : i \in 1..Len(t) /\ i # n + 1
  BY <1>1
<1>4. OfFirst(s) /\ m.from = 1 /\ (m.kind = "answer" => m.to = 1) => OfFirst(t)
  BY <1>1, <1>2 DEF OfFirst, n
<1>5. ASSUME NEW K PROVE /\ m.kind \notin K /\ None(s, K) => None(t, K)
                         /\ m.kind \in K /\ None(s, K) => One(t, K)
                         /\ m.kind \notin K /\ One(s, K) => One(t, K)
  <2>1. m.kind \notin K /\ None(s, K) => None(t, K)
    BY <1>1, <1>2 DEF None, n
  <2>2. ASSUME m.kind \in K, None(s, K) PROVE One(t, K)
    <3>1. \A j \in 1..Len(t) : t[j].kind \in K => j = n + 1
      BY <1>1, <1>2, <2>2 DEF None, n
    <3> QED BY <1>1, <1>2, <2>2, <3>1 DEF One
  <2>3. ASSUME m.kind \notin K, One(s, K) PROVE One(t, K)
    <3>1. PICK i \in 1..n : s[i].kind \in K /\ \A j \in 1..n : s[j].kind \in K => j = i
      BY <2>3 DEF One, n
    <3>2. \A j \in 1..Len(t) : t[j].kind \in K => j = i
      BY <1>1, <1>2, <2>3, <3>1
    <3> QED BY <1>1, <1>3, <3>1, <3>2 DEF One
  <2> QED BY <2>1, <2>2, <2>3
<1>6. ASSUME NEW p
      PROVE  /\ Offering(s, p) => Offering(t, p)
             /\ m.kind = "produce" /\ m.pub = p => Offering(t, p)
             /\ ~(m.kind = "produce" /\ m.pub = p) /\ ~Offering(s, p) => ~Offering(t, p)
  BY <1>1, <1>2, <1>3 DEF Offering, n
<1> QED BY <1>4, <1>5, <1>6 DEF t

\* What the message at the head changes when it goes.
LEMMA WithoutHead ==
    ASSUME NEW s \in Seq(Message), s # <<>>
    PROVE  LET t == Tail(s)
               m == Head(s)
           IN  /\ OfFirst(s) => OfFirst(t) /\ m.from = 1 /\ (m.kind = "answer" => m.to = 1)
               /\ \A K : /\ None(s, K) => None(t, K) /\ m.kind \notin K
                         /\ m.kind \in K /\ One(s, K) => None(t, K)
                         /\ m.kind \notin K /\ One(s, K) => One(t, K)
               /\ \A p : /\ Offering(t, p) => Offering(s, p)
                         /\ ~(m.kind = "produce" /\ m.pub = p) /\ ~Offering(t, p) => ~Offering(s, p)
<1> DEFINE t == Tail(s)
           m == Head(s)
           n == Len(s)
<1>1. /\ n \in Nat /\ n > 0 /\ Len(t) = n - 1 /\ s[1] = m /\ \A i \in 1..Len(t) : t[i] = s[i + 1]
  OBVIOUS
<1> HIDE DEF t, n, m
<1>2. 1 \in 1..n /\ \A i \in 1..Len(t) : i + 1 \in 1..n /\ i + 1 # 1
  BY <1>1
<1>3. \A i \in 1..n : i # 1 => i - 1 \in 1..Len(t) /\ (i - 1) + 1 = i
  BY <1>1
<1>8. \A i \in 1..n : i # 1 => t[i - 1] = s[i]
  BY <1>1, <1>3
<1>4. OfFirst(s) => OfFirst(t) /\ m.from = 1 /\ (m.kind = "answer" => m.to = 1)
  BY <1>1, <1>2 DEF OfFirst, n
<1>5. ASSUME NEW K PROVE /\ None(s, K) => None(t, K) /\ m.kind \notin K
                         /\ m.kind \in K /\ One(s, K) => None(t, K)
                         /\ m.kind \notin K /\ One(s, K) => One(t, K)
  <2>1. None(s, K) => None(t, K) /\ m.kind \notin K
    BY <1>1, <1>2 DEF None, n
  <2>2. ASSUME m.kind \in K, One(s, K) PROVE None(t, K)
    <3>1. PICK i \in 1..n : s[i].kind \in K /\ \A j \in 1..n : s[j].kind \in K => j = i
      BY <2>2 DEF One, n
    <3>2. i = 1
      BY <1>1, <1>2, <2>2, <3>1
    <3>3. ASSUME NEW j \in 1..Len(t) PROVE t[j].kind \notin K
      <4>1. j + 1 \in 1..n /\ j + 1 # 1 /\ t[j] = s[j + 1]
        BY <1>1, <1>2
      <4> QED BY <3>1, <3>2, <4>1
    <3> QED BY <3>3 DEF None
  <2>3. ASSUME m.kind \notin K, One(s, K) PROVE One(t, K)
    <3>1. PICK i \in 1..n : s[i].kind \in K /\ \A j \in 1..n : s[j].kind \in K => j = i
      BY <2>3 DEF One, n
    <3>2. i # 1
      BY <1>1, <2>3, <3>1
    <3>3. i - 1 \in 1..Len(t) /\ t[i - 1].kind \in K
      BY <1>3, <1>8, <3>1, <3>2
    <3>4. ASSUME NEW j \in 1..Len(t), t[j].kind \in K PROVE j = i - 1
      <4>1. j + 1 \in 1..n /\ s[j + 1].kind \in K
        BY <1>1, <1>2, <3>4
      <4>2. j + 1 = i
        BY <3>1, <4>1
      <4> QED BY <1>1, <4>2
    <3> QED BY <3>3, <3>4 DEF One
  <2> QED BY <2>1, <2>2, <2>3
<1>6. ASSUME NEW p
      PROVE  /\ Offering(t, p) => Offering(s, p)
             /\ ~(m.kind = "produce" /\ m.pub = p) /\ ~Offering(t, p) => ~Offering(s, p)
  <2>1. Offering(t, p) => Offering(s, p)
    BY <1>1, <1>2 DEF Offering, n
  <2>2. ASSUME ~(m.kind = "produce" /\ m.pub = p), Offering(s, p) PROVE Offering(t, p)
    <3>1. PICK i \in 1..n : s[i].kind = "produce" /\ s[i].pub = p
      BY <2>2 DEF Offering, n
    <3>2. i # 1
      BY <1>1, <2>2, <3>1
    <3> QED BY <1>3, <1>8, <3>1, <3>2 DEF Offering
  <2> QED BY <2>1, <2>2
<1> QED BY <1>4, <1>5, <1>6 DEF t, m

----------------------------------------------------------------------------
(* What a step makes of the two sides.                                     *)

ViewSame(y) ==
    /\ Ran(y)' = Ran(y) /\ Published(y)' = Published(y) /\ Waiting(y)' = Waiting(y)
    /\ Negotiates(y)' <=> Negotiates(y)
    /\ Had(y)' = Had(y)

\* Pending operations, one more or one less.
LEMMA PubsInMoves ==
    ASSUME NEW w \in Seq(Op)
    PROVE  /\ \A op \in Op : /\ PubsIn(Append(w, op)) = PubsIn(w) \cup {op.pub}
                             /\ Additions(w) /\ op.op = "add" => Additions(Append(w, op))
           /\ w # <<>> => /\ PubsIn(w) = PubsIn(Tail(w)) \cup {Head(w).pub}
                          /\ Additions(w) => Additions(Tail(w)) /\ Head(w).op = "add"
           /\ w = <<>> => PubsIn(w) = {} /\ Additions(w)
<1>1. ASSUME NEW op \in Op
      PROVE  /\ PubsIn(Append(w, op)) = PubsIn(w) \cup {op.pub}
             /\ Additions(w) /\ op.op = "add" => Additions(Append(w, op))
  <2> DEFINE t == Append(w, op)
             n == Len(w)
  <2>1. /\ n \in Nat /\ Len(t) = n + 1 /\ t[n + 1] = op /\ \A i \in 1..n : t[i] = w[i]
    BY AppendProperties
  <2> HIDE DEF t, n
  <2>2. n + 1 \in 1..Len(t) /\ \A i \in 1..Len(t) : i \in 1..n \/ i = n + 1
    BY <2>1
  <2>3. \A i \in 1..n : i \in 1..Len(t)
    BY <2>1
  <2>4. PubsIn(t) = PubsIn(w) \cup {op.pub}
    BY <2>1, <2>2, <2>3 DEF PubsIn, n
  <2>5. Additions(w) /\ op.op = "add" => Additions(t)
    BY <2>1, <2>2 DEF Additions, n
  <2> QED BY <2>4, <2>5 DEF t
<1>2. ASSUME w # <<>>
      PROVE  /\ PubsIn(w) = PubsIn(Tail(w)) \cup {Head(w).pub}
             /\ Additions(w) => Additions(Tail(w)) /\ Head(w).op = "add"
  <2> DEFINE t == Tail(w)
             n == Len(w)
  <2>1. /\ n \in Nat /\ n > 0 /\ Len(t) = n - 1 /\ Head(w) = w[1] /\ \A i \in 1..Len(t) : t[i] = w[i + 1]
    BY <1>2
  <2> HIDE DEF t, n
  <2>2. 1 \in 1..n /\ \A i \in 1..Len(t) : i + 1 \in 1..n
    BY <2>1
  <2>3. \A i \in 1..n : i # 1 => i - 1 \in 1..Len(t) /\ (i - 1) + 1 = i
    BY <2>1
  <2>4. \A i \in 1..n : i # 1 => t[i - 1] = w[i]
    BY <2>1, <2>3
  <2>5. PubsIn(w) = PubsIn(t) \cup {Head(w).pub}
    BY <2>1, <2>2, <2>3, <2>4 DEF PubsIn, n
  <2>6. Additions(w) => Additions(t) /\ Head(w).op = "add"
    BY <2>1, <2>2 DEF Additions, n
  <2> QED BY <2>5, <2>6 DEF t
<1>3. w = <<>> => PubsIn(w) = {} /\ Additions(w)
  BY DEF PubsIn, Additions
<1> QED BY <1>1, <1>2, <1>3

\* How many events have been handled, when they are handled in order.
LEMMA DoneIs ==
    ASSUME NEW s \in Nat, NEW d \in 0..s
    PROVE  (CHOOSE e \in 0..s : (d + 1)..s = (e + 1)..s) = d
<1> SUFFICES ASSUME NEW e \in 0..s, (d + 1)..s = (e + 1)..s PROVE e = d
  OBVIOUS
<1>1. CASE e < d
  <2>1. e + 1 \in (e + 1)..s /\ e + 1 \notin (d + 1)..s
    BY <1>1
  <2> QED BY <2>1
<1>2. CASE d < e
  <2>1. d + 1 \in (d + 1)..s /\ d + 1 \notin (e + 1)..s
    BY <1>2
  <2> QED BY <2>1
<1> QED BY <1>1, <1>2

\* The messages to a person who has his connection are on their way, none in his buffer.
LEMMA InBoxIs ==
    ASSUME TypeOK, NEW x \in Persons
    PROVE  /\ InBox(x) \in Seq(Message)
           /\ OnlyConnection(x) /\ Linked(x) => InBox(x) = toward[x]
<1>1. buffer[x] \in Seq(Message) /\ toward[x] \in Seq(Message)
  BY Types
<1>2. <<>> \o toward[x] = toward[x]
  BY <1>1, ConcatEmptySeq
<1> QED BY <1>1, <1>2, ConcatProperties DEF InBox, OnlyConnection

\* A message posted to a person joins what is on its way.
LEMMA InBoxGrows ==
    ASSUME TypeOK, NEW x \in Persons, NEW m \in Message,
           toward'[x] = Append(toward[x], m), buffer'[x] = buffer[x]
    PROVE  InBox(x)' = Append(InBox(x), m)
<1>1. buffer[x] \in Seq(Message) /\ toward[x] \in Seq(Message) /\ <<m>> \in Seq(Message)
  <2>1. buffer \in [Persons -> Seq(Message)] /\ toward \in [Persons -> Seq(Message)]
    BY Types
  <2>2. <<m>> \in Seq(Message)
    OBVIOUS
  <2> QED BY <2>1, <2>2
<1>2. Append(toward[x], m) = toward[x] \o <<m>>
  BY <1>1, AppendIsConcat
<1>3. buffer[x] \o toward[x] \in Seq(Message)
  BY <1>1, ConcatProperties
<1>4. Append(buffer[x] \o toward[x], m) = (buffer[x] \o toward[x]) \o <<m>>
  BY <1>3, AppendIsConcat
<1>5. ASSUME NEW u \in Seq(Message), NEW v \in Seq(Message), NEW w \in Seq(Message)
      PROVE  (u \o v) \o w = u \o (v \o w)
  BY ONLY ConcatAssociative
<1>6. (buffer[x] \o toward[x]) \o <<m>> = buffer[x] \o (toward[x] \o <<m>>)
  BY ONLY <1>1, <1>5
<1> QED BY <1>2, <1>4, <1>6 DEF InBox

\* A person whose connection and events stay.
LEMMA IdleSide ==
    ASSUME NEW y \in Persons, Structured(y),
           conn'[y] = conn[y], starting'[y] = starting[y], seen'[y] = seen[y],
           handling'[y] = handling[y], made'[y] = made[y], Linked(y) => buffer'[y] = buffer[y],
           events' = events, OfFirst(InBox(y)')
    PROVE  Structured(y)' /\ ViewSame(y)
<1>1. Done(y)' = Done(y)
  BY DEF Done
<1>2. Linked(y)' = Linked(y)
  BY DEF Linked
<1>3. InOrder(y)'
  BY <1>1 DEF Structured, InOrder
<1>4. OnlyConnection(y)'
  BY <1>1, <1>2 DEF Structured, OnlyConnection, OfFirst
<1>5. TasksFit(y)'
  BY <1>1, <1>2 DEF Structured, TasksFit, QueueFits, Fits
<1>6. OnlyAdditions(y)'
  BY <1>2 DEF Structured, OnlyAdditions, Additions
<1>7. ViewSame(y)
  BY <1>1, <1>2 DEF ViewSame, Ran, RanOf, Published, Waiting, PubsIn, Negotiates, Had, Streams
<1> QED BY <1>3, <1>4, <1>5, <1>6, <1>7 DEF Structured

\* A person whose connection moves on.
LEMMA ActiveSide ==
    ASSUME NEW x \in Persons, Structured(x), Linked(x), NEW d \in Connection, conn'[x] = d,
           d.id = conn[x].id, d.peer \in {0, 1}, \A s \in d.streams : s[2] = 1,
           QueueFits(x, Done(x), d.queue), Additions(d.pending),
           ~d.isNegotiating => d.pending = <<>>,
           starting' = starting, seen' = seen, handling' = handling, made' = made,
           buffer' = buffer, events' = events, OfFirst(InBox(x)')
    PROVE  /\ Structured(x)' /\ Linked(x)'
           /\ Ran(x)' = RanOf(Done(x), d.queue) /\ Published(x)' = d.publications
           /\ Waiting(x)' = PubsIn(d.pending) /\ (Negotiates(x)' <=> d.isNegotiating)
           /\ Had(x)' = Streams(d)
<1>1. Done(x)' = Done(x)
  BY DEF Done
<1>2. Linked(x)'
  BY ConnectionIs DEF Linked
<1>3. InOrder(x)'
  BY <1>1 DEF Structured, InOrder
<1>4. OnlyConnection(x)'
  BY <1>1, <1>2 DEF Structured, OnlyConnection, OfFirst
<1>5. TasksFit(x)'
  BY <1>1, <1>2 DEF TasksFit, QueueFits, Fits
<1>6. OnlyAdditions(x)'
  BY <1>2 DEF OnlyAdditions, Additions
<1>7. /\ Ran(x)' = RanOf(Done(x), d.queue) /\ Published(x)' = d.publications
      /\ Waiting(x)' = PubsIn(d.pending) /\ (Negotiates(x)' <=> d.isNegotiating)
      /\ Had(x)' = Streams(d)
  BY <1>1, <1>2 DEF Ran, RanOf, Published, Waiting, PubsIn, Negotiates, Had, Streams
<1> QED BY <1>2, <1>3, <1>4, <1>5, <1>6, <1>7 DEF Structured

\* The views of a person with a connection.
LEMMA LinkedSide ==
    ASSUME TypeOK, Bounded, NEW x \in Persons, Structured(x), conn[x] # NoConnection
    PROVE  LET c == conn[x]
           IN  /\ Linked(x) /\ c \in Connection /\ Done(x) \in Nat /\ Done(x) <= Len(events)
               /\ QueueFits(x, Done(x), c.queue) /\ c.queue \in Seq(Task)
               /\ Additions(c.pending) /\ (~c.isNegotiating => c.pending = <<>>) /\ c.pending \in Seq(Op)
               /\ c.id = 1 /\ c.peer \in {0, 1} /\ \A s \in c.streams : s[2] = 1
               /\ Ran(x) = RanOf(Done(x), c.queue) /\ Published(x) = c.publications
               /\ Waiting(x) = PubsIn(c.pending) /\ (Negotiates(x) <=> c.isNegotiating)
               /\ Had(x) = Streams(c) /\ InBox(x) = toward[x] /\ OfFirst(InBox(x))
<1>1. Linked(x) /\ conn[x] \in Connection
  BY Types DEF Linked
<1>2. conn[x].queue \in Seq(Task) /\ conn[x].pending \in Seq(Op)
  BY <1>1, ConnectionIs
<1>3. Done(x) \in Nat /\ Done(x) <= Len(events)
  <2>1. seen[x] \in Nat /\ seen[x] <= Len(events) /\ Len(events) \in Nat
    BY Types, EventsAre DEF Bounded
  <2>2. Done(x) \in 0..seen[x]
    BY DEF Structured, InOrder
  <2> QED BY <2>1, <2>2
<1>4. InBox(x) = toward[x]
  BY <1>1, InBoxIs DEF Structured
<1> QED BY <1>1, <1>2, <1>3, <1>4
        DEF Structured, OnlyConnection, TasksFit, OnlyAdditions, Ran, Published, Waiting, Negotiates, Had

\* What the task at the head says of the event after the last one run.
LEMMA HeadEvent ==
    ASSUME TypeOK, Bounded, NEW x \in Persons, Structured(x), conn[x] # NoConnection,
           conn[x].queue # <<>>, Head(conn[x].queue).kind # "sending"
    PROVE  LET p == Head(conn[x].queue).pub
               k == Head(conn[x].queue).kind
               r == Ran(x)
               t == Tail(conn[x].queue)
           IN  /\ p \in Pubs /\ r \in Nat /\ r + 1 \in 1..Len(events)
               /\ k = "startPub" => Begins(r + 1, p) /\ Publisher(p) = x
               /\ k = "stopPub" => Ends(r + 1, p) /\ Publisher(p) = x
               /\ k = "startSub" => Begins(r + 1, p) /\ Publisher(p) # x
               /\ k = "stopSub" => Ends(r + 1, p) /\ Publisher(p) # x
               /\ t \in Seq(Task) /\ QueueFits(x, Done(x), t) /\ RanOf(Done(x), t) = r + 1
<1> DEFINE q == conn[x].queue
           d == Done(x)
           r == Ran(x)
<1>1. /\ d \in Nat /\ d <= Len(events) /\ QueueFits(x, d, q) /\ q \in Seq(Task)
      /\ r = RanOf(d, q)
  BY LinkedSide
<1>2. Head(q).pub \in Pubs /\ Tail(q) \in Seq(Task)
  BY HeadTask
<1> HIDE DEF d, q, r
<1>3. q # <<>> /\ Head(q).kind # "sending"
  BY DEF q
<1>4. /\ r \in Nat /\ r + 1 <= d /\ Fits(x, r + 1, Head(q), 1)
      /\ QueueFits(x, d, Tail(q)) /\ RanOf(d, Tail(q)) = r + 1
  BY <1>1, <1>3, HeadFits
<1>5. r + 1 \in 1..Len(events)
  BY <1>1, <1>4, EventsAre
<1>6. events[r + 1].kind \in {"subscribed", "unsubscribed"}
  BY <1>5, EventsAre
<1>7. /\ Head(q).kind = "startPub" => Begins(r + 1, Head(q).pub) /\ Publisher(Head(q).pub) = x
      /\ Head(q).kind = "stopPub" => Ends(r + 1, Head(q).pub) /\ Publisher(Head(q).pub) = x
      /\ Head(q).kind = "startSub" => Begins(r + 1, Head(q).pub) /\ Publisher(Head(q).pub) # x
      /\ Head(q).kind = "stopSub" => Ends(r + 1, Head(q).pub) /\ Publisher(Head(q).pub) # x
  BY <1>3, <1>4, <1>5, <1>6 DEF Fits, Begins, Ends
<1> QED BY <1>2, <1>4, <1>5, <1>7 DEF d, q, r

\* The box of a person whose messages do not move.
LEMMA InBoxSame ==
    ASSUME NEW y \in Persons, buffer'[y] = buffer[y], toward'[y] = toward[y]
    PROVE  InBox(y)' = InBox(y)
<1> QED BY DEF InBox

\* The other side when a person's connection does something.
LEMMA OtherIdle ==
    ASSUME TypeOK, Bounded, NEW x \in Persons, \A z \in Persons : Structured(z), OnlyOf(x), Unmoved,
           handling' = handling, OfFirst(InBox(Other(x))')
    PROVE  Structured(Other(x))' /\ ViewSame(Other(x))
<1>1. Other(x) \in Persons /\ Other(x) # x
  BY TwoPersons
<1>2. conn'[Other(x)] = conn[Other(x)]
  BY <1>1, Types DEF OnlyOf
<1>3. /\ starting' = starting /\ seen' = seen /\ made' = made /\ buffer' = buffer /\ events' = events
  BY DEF OnlyOf, Unmoved
<1> QED BY <1>1, <1>2, <1>3, IdleSide

\* A start is run: its offer goes out, or waits.
LEMMA StartPublishingMoves ==
    ASSUME TypeOK, Bounded, NEW x \in Persons, \A z \in Persons : Structured(z),
           Runnable(conn[x]), StartPublishing(x)
    PROVE  LET p == Head(conn[x].queue).pub
               y == Other(x)
               m == Produce(conn[x], p)
           IN  /\ \A z \in Persons : Structured(z)'
               /\ p \in Pubs /\ Publisher(p) = x /\ Ran(x) \in Nat /\ Begins(Ran(x) + 1, p)
               /\ Ran(x)' = Ran(x) + 1 /\ Had(x)' = Had(x) /\ Negotiates(x)' /\ ViewSame(y)
               /\ InBox(x)' = InBox(x) /\ m \in Message /\ m.kind = "produce" /\ m.pub = p
               /\ Negotiates(x) =>
                    /\ Published(x)' = Published(x) /\ Waiting(x)' = Waiting(x) \cup {p}
                    /\ InBox(y)' = InBox(y)
               /\ ~Negotiates(x) =>
                    /\ Published(x)' = Published(x) \cup {p} /\ Waiting(x)' = Waiting(x)
                    /\ InBox(y)' = Append(InBox(y), m)
<1> DEFINE c == conn[x]
           d == conn'[x]
           p == Head(conn[x].queue).pub
           y == Other(x)
           m == Produce(conn[x], p)
           op == [op |-> "add", pub |-> p]
<1>1. /\ c \in Connection /\ c.queue # <<>> /\ p \in Pubs /\ Head(c.queue).kind = "startPub"
      /\ OnlyOf(x) /\ d \in Connection /\ m \in Message
      /\ d.id = c.id /\ d.peer = c.peer /\ d.streams = c.streams /\ d.isNegotiating = TRUE
      /\ Unmoved /\ handling' = handling
      /\ c.isNegotiating =>
           /\ d.queue = Tail(c.queue) /\ d.publications = c.publications
           /\ d.pending = Append(c.pending, op)
           /\ toward' = toward
      /\ ~c.isNegotiating =>
           /\ d.queue \in Seq(Task) /\ Len(d.queue) = Len(c.queue)
           /\ d.queue # <<>> /\ d.queue[1].kind = "sending" /\ d.queue[1].pub = p
           /\ \A j \in 2..Len(c.queue) : d.queue[j] = c.queue[j]
           /\ d.publications = c.publications \cup {p} /\ d.pending = c.pending
           /\ toward' = [toward EXCEPT ![y] = Append(@, m)]
  BY StartPublishingDoes
<1>2. c # NoConnection
  BY DEF Runnable
<1>3. /\ Linked(x) /\ Done(x) \in Nat
      /\ QueueFits(x, Done(x), c.queue) /\ c.queue \in Seq(Task)
      /\ Additions(c.pending) /\ (~c.isNegotiating => c.pending = <<>>) /\ c.pending \in Seq(Op)
      /\ c.id = 1 /\ c.peer \in {0, 1} /\ \A s \in c.streams : s[2] = 1
      /\ Ran(x) = RanOf(Done(x), c.queue) /\ Published(x) = c.publications
      /\ Waiting(x) = PubsIn(c.pending) /\ (Negotiates(x) <=> c.isNegotiating)
      /\ Had(x) = Streams(c) /\ OfFirst(InBox(x))
  BY <1>2, LinkedSide
<1>4. /\ Ran(x) \in Nat /\ Begins(Ran(x) + 1, p) /\ Publisher(p) = x
      /\ QueueFits(x, Done(x), Tail(c.queue)) /\ RanOf(Done(x), Tail(c.queue)) = Ran(x) + 1
  BY <1>1, <1>2, HeadEvent
<1>5. /\ y \in Persons /\ y # x /\ \A z \in Persons : z = x \/ z = y
  BY TwoPersons
<1>6. /\ starting' = starting /\ seen' = seen /\ handling' = handling /\ made' = made
      /\ buffer' = buffer /\ events' = events
  BY <1>1 DEF OnlyOf, Unmoved
<1>7. toward \in [Persons -> Seq(Message)] /\ OfFirst(InBox(y)) /\ InBox(y) \in Seq(Message)
  BY <1>5, Types, InBoxIs DEF Structured, OnlyConnection
<1>8. m.kind = "produce" /\ m.pub = p /\ m.from = 1
  BY <1>3 DEF Produce
<1>9. toward'[x] = toward[x]
  BY <1>1, <1>5, <1>7
<1>10. InBox(x)' = InBox(x)
  BY <1>6, <1>9, InBoxSame
<1> HIDE DEF m
<1>11. CASE c.isNegotiating
  <2>1. op \in Op /\ op.op = "add" /\ op.pub = p
    BY <1>1 DEF Op
  <2> HIDE DEF op
  <2>2. Additions(d.pending) /\ PubsIn(d.pending) = PubsIn(c.pending) \cup {p}
    <3>1. \A w \in Seq(Op) : /\ PubsIn(Append(w, op)) = PubsIn(w) \cup {p}
                             /\ Additions(w) => Additions(Append(w, op))
      BY <2>1, PubsInMoves
    <3>2. c.pending \in Seq(Op) /\ Additions(c.pending) /\ d.pending = Append(c.pending, op)
      BY <1>1, <1>3, <1>11
    <3> QED BY ONLY <3>1, <3>2
  <2>3. InBox(y)' = InBox(y)
    BY <1>1, <1>5, <1>6, <1>11, InBoxSame
  <2>4. Structured(y)' /\ ViewSame(y)
    BY <1>1, <1>7, <2>3, OtherIdle
  <2>5. /\ QueueFits(x, Done(x), d.queue) /\ RanOf(Done(x), d.queue) = Ran(x) + 1
        /\ \A s \in d.streams : s[2] = 1
        /\ d.peer \in {0, 1} /\ OfFirst(InBox(x)')
    BY <1>1, <1>3, <1>4, <1>10, <1>11
  <2> HIDE DEF y, c, p
  <2> DEFINE dd == d
  <2>6. conn'[x] = dd /\ dd \in Connection
    BY <1>1
  <2> HIDE DEF dd
  <2>7. /\ Structured(x)'
        /\ Ran(x)' = Ran(x) + 1 /\ Published(x)' = d.publications
        /\ Waiting(x)' = PubsIn(d.pending) /\ (Negotiates(x)' <=> d.isNegotiating)
        /\ Had(x)' = Streams(d)
    BY <1>1, <1>3, <1>6, <2>2, <2>5, <2>6, ActiveSide DEF c
  <2>8. \A z \in Persons : Structured(z)'
    BY <1>5, <2>4, <2>7
  <2>9. Published(x)' = Published(x) /\ Waiting(x)' = Waiting(x) \cup {p} /\ Negotiates(x)' /\ Had(x)' = Had(x)
    BY <1>1, <1>3, <1>11, <2>2, <2>7 DEF Streams
  <2> QED BY <1>1, <1>3, <1>4, <1>8, <1>10, <1>11, <2>3, <2>4, <2>7, <2>8, <2>9 DEF y, c, p, m
<1>12. CASE ~c.isNegotiating
  <2>1. toward'[y] = Append(toward[y], m) /\ buffer'[y] = buffer[y]
    BY <1>1, <1>5, <1>6, <1>7, <1>12
  <2>2. InBox(y)' = Append(InBox(y), m)
    BY <1>1, <1>5, <2>1, InBoxGrows
  <2>3. OfFirst(InBox(y)')
    BY <1>1, <1>7, <1>8, <2>2, WithOneMore
  <2>4. Structured(y)' /\ ViewSame(y)
    BY <1>1, <2>3, OtherIdle
  <2>0. QueueFits(x, Done(x), d.queue) /\ RanOf(Done(x), d.queue) = Ran(x) + 1
    <3>1. Head(c.queue).kind = "startPub" /\ Head(c.queue) = c.queue[1]
      BY <1>1, <1>2, HeadTask
    <3>2. d.queue[1].pub = c.queue[1].pub
      BY <1>1, <1>12, <3>1
    <3> DEFINE dq == d.queue
               cq == c.queue
    <3>3. /\ dq \in Seq(Task) /\ Len(dq) = Len(cq) /\ dq[1].kind = "sending"
          /\ dq[1].pub = cq[1].pub /\ \A j \in 2..Len(cq) : dq[j] = cq[j]
          /\ cq \in Seq(Task) /\ cq # <<>> /\ QueueFits(x, Done(x), cq) /\ Head(cq).kind = "startPub"
          /\ Ran(x) = RanOf(Done(x), cq)
      BY <1>1, <1>3, <1>12, <3>1, <3>2
    <3> HIDE DEF dq, cq
    <3>4. QueueFits(x, Done(x), dq) /\ RanOf(Done(x), dq) = RanOf(Done(x), cq) + 1
      BY <1>3, <3>3, MarkedFits
    <3> QED BY <3>3, <3>4 DEF dq
  <2>5. /\ \A s \in d.streams : s[2] = 1
        /\ d.peer \in {0, 1} /\ OfFirst(InBox(x)') /\ Additions(d.pending)
    BY <1>1, <1>3, <1>10, <1>12
  <2> HIDE DEF y, c, p
  <2> DEFINE dd == d
  <2>6. conn'[x] = dd /\ dd \in Connection
    BY <1>1
  <2> HIDE DEF dd
  <2>7. /\ Structured(x)'
        /\ Ran(x)' = Ran(x) + 1 /\ Published(x)' = d.publications
        /\ Waiting(x)' = PubsIn(d.pending) /\ (Negotiates(x)' <=> d.isNegotiating)
        /\ Had(x)' = Streams(d)
    BY <1>1, <1>3, <1>6, <2>0, <2>5, <2>6, ActiveSide DEF c
  <2>8. \A z \in Persons : Structured(z)'
    BY <1>5, <2>4, <2>7
  <2>9. /\ Published(x)' = Published(x) \cup {p} /\ Waiting(x)' = Waiting(x) /\ Negotiates(x)'
        /\ Had(x)' = Had(x)
    BY <1>1, <1>3, <1>12, <2>7 DEF Streams
  <2> QED BY <1>1, <1>3, <1>4, <1>8, <1>10, <1>12, <2>2, <2>4, <2>7, <2>8, <2>9 DEF y, c, p, m
<1> QED BY <1>11, <1>12

\* A stop is run, and announced; otherwise it is a skipped stop, or closes the connection.
LEMMA StopPublishingMoves ==
    ASSUME TypeOK, Bounded, NEW x \in Persons, \A z \in Persons : Structured(z),
           Runnable(conn[x]), StopPublishing(x),
           "closed" \notin causes', "skipped stop" \notin causes'
    PROVE  LET p == Head(conn[x].queue).pub
               y == Other(x)
               m == Unproduce(conn[x], p)
           IN  /\ \A z \in Persons : Structured(z)'
               /\ p \in Pubs /\ Publisher(p) = x /\ Ran(x) \in Nat /\ Ends(Ran(x) + 1, p)
               /\ Ran(x)' = Ran(x) + 1 /\ Had(x)' = Had(x) /\ ViewSame(y)
               /\ ~Negotiates(x) /\ Negotiates(x)' /\ Waiting(x) = {} /\ Waiting(x)' = {}
               /\ Published(x)' = Published(x) \ {p}
               /\ InBox(x)' = InBox(x) /\ InBox(y)' = Append(InBox(y), m)
               /\ m \in Message /\ m.kind = "unproduce"
<1> DEFINE c == conn[x]
           d == conn'[x]
           p == Head(conn[x].queue).pub
           y == Other(x)
           m == Unproduce(conn[x], p)
<1>1. /\ c \in Connection /\ c.queue # <<>> /\ p \in Pubs /\ Head(c.queue).kind = "stopPub"
      /\ OnlyOf(x) /\ m \in Message /\ Unmoved /\ handling' = handling
      /\ p \in c.publications /\ ~c.isNegotiating /\ d \in Connection
      /\ d.queue = Tail(c.queue) /\ d.id = c.id /\ d.peer = c.peer
      /\ d.streams = c.streams /\ d.isNegotiating = TRUE /\ d.pending = c.pending
      /\ d.publications = c.publications \ {p}
      /\ toward' = [toward EXCEPT ![y] = Append(@, m)]
  BY StopPublishingDoes
<1>2. c # NoConnection
  BY DEF Runnable
<1>3. /\ Linked(x) /\ Done(x) \in Nat
      /\ QueueFits(x, Done(x), c.queue) /\ c.queue \in Seq(Task)
      /\ Additions(c.pending) /\ (~c.isNegotiating => c.pending = <<>>) /\ c.pending \in Seq(Op)
      /\ c.id = 1 /\ c.peer \in {0, 1} /\ \A s \in c.streams : s[2] = 1
      /\ Ran(x) = RanOf(Done(x), c.queue) /\ Published(x) = c.publications
      /\ Waiting(x) = PubsIn(c.pending) /\ (Negotiates(x) <=> c.isNegotiating)
      /\ Had(x) = Streams(c) /\ OfFirst(InBox(x))
  BY <1>2, LinkedSide
<1>4. /\ Ran(x) \in Nat /\ Ends(Ran(x) + 1, p) /\ Publisher(p) = x
      /\ QueueFits(x, Done(x), Tail(c.queue)) /\ RanOf(Done(x), Tail(c.queue)) = Ran(x) + 1
  BY <1>1, <1>2, HeadEvent
<1>5. /\ y \in Persons /\ y # x /\ \A z \in Persons : z = x \/ z = y
  BY TwoPersons
<1>6. /\ starting' = starting /\ seen' = seen /\ handling' = handling /\ made' = made
      /\ buffer' = buffer /\ events' = events
  BY <1>1 DEF OnlyOf, Unmoved
<1>7. toward \in [Persons -> Seq(Message)] /\ OfFirst(InBox(y)) /\ InBox(y) \in Seq(Message)
  BY <1>5, Types, InBoxIs DEF Structured, OnlyConnection
<1>8. m.kind = "unproduce" /\ m.from = 1
  BY <1>3 DEF Unproduce
<1>9. toward'[x] = toward[x]
  BY <1>1, <1>5, <1>7
<1>10. InBox(x)' = InBox(x)
  BY <1>6, <1>9, InBoxSame
<1> HIDE DEF m
<1>11. toward'[y] = Append(toward[y], m) /\ buffer'[y] = buffer[y]
  BY <1>1, <1>5, <1>6, <1>7
<1>12. InBox(y)' = Append(InBox(y), m)
  BY <1>1, <1>5, <1>11, InBoxGrows
<1>13. OfFirst(InBox(y)')
  <2>1. m \in Message
    BY <1>1
  <2>2. \A s \in Seq(Message) : OfFirst(s) => OfFirst(Append(s, m))
    BY ONLY <1>8, <2>1, WithOneMore
  <2>3. OfFirst(Append(InBox(y), m))
    BY ONLY <1>7, <2>2
  <2> QED BY <1>12, <2>3
<1>14. Structured(y)' /\ ViewSame(y)
  BY <1>1, <1>13, OtherIdle
<1>15. /\ \A s \in d.streams : s[2] = 1
       /\ d.peer \in {0, 1} /\ OfFirst(InBox(x)') /\ Additions(d.pending)
       /\ QueueFits(x, Done(x), d.queue) /\ RanOf(Done(x), d.queue) = Ran(x) + 1
  BY <1>1, <1>3, <1>4, <1>10
<1>16. PubsIn(c.pending) = {} /\ PubsIn(d.pending) = {}
  BY <1>1, <1>3, PubsInMoves
<1> HIDE DEF y, c, p
<1> DEFINE dd == d
<1>17. conn'[x] = dd /\ dd \in Connection
  BY <1>1
<1> HIDE DEF dd
<1>18. /\ Structured(x)'
       /\ Ran(x)' = Ran(x) + 1 /\ Published(x)' = d.publications
       /\ Waiting(x)' = PubsIn(d.pending) /\ (Negotiates(x)' <=> d.isNegotiating)
       /\ Had(x)' = Streams(d)
  BY <1>1, <1>3, <1>6, <1>15, <1>17, ActiveSide DEF c
<1>19. \A z \in Persons : Structured(z)'
  BY <1>5, <1>14, <1>18
<1>20. /\ Published(x)' = Published(x) \ {p} /\ Waiting(x) = {} /\ Waiting(x)' = {}
       /\ ~Negotiates(x) /\ Negotiates(x)' /\ Had(x)' = Had(x)
  BY <1>1, <1>3, <1>16, <1>18 DEF Streams
<1> QED BY <1>1, <1>4, <1>8, <1>10, <1>12, <1>14, <1>18, <1>19, <1>20 DEF y, c, p, m

\* The end of a startSubscribing: nothing but the number of events run changes.
LEMMA SubscribedMoves ==
    ASSUME TypeOK, Bounded, NEW x \in Persons, \A z \in Persons : Structured(z),
           conn[x] # NoConnection, conn[x].queue # <<>>, Head(conn[x].queue).kind = "startSub",
           conn' = [conn EXCEPT ![x] = Subscribed(conn[x])],
           events' = events, seen' = seen, published' = published, Calm
    PROVE  LET p == Head(conn[x].queue).pub
           IN  /\ \A z \in Persons : Structured(z)' /\ InBox(z)' = InBox(z)
               /\ p \in Pubs /\ Publisher(p) # x /\ Ran(x) \in Nat /\ Begins(Ran(x) + 1, p)
               /\ Ran(x)' = Ran(x) + 1 /\ Had(x)' = Had(x) /\ ViewSame(Other(x))
               /\ (Negotiates(x)' <=> Negotiates(x)) /\ Waiting(x)' = Waiting(x)
               /\ Published(x)' = Published(x)
<1> DEFINE c == conn[x]
           d == conn'[x]
           p == Head(conn[x].queue).pub
           y == Other(x)
<1>1. /\ c \in Connection /\ OnlyOf(x) /\ d \in Connection
      /\ d.queue = Tail(c.queue) /\ d.id = c.id /\ d.publications = c.publications
      /\ d.isNegotiating = c.isNegotiating /\ d.pending = c.pending /\ d.peer = c.peer
      /\ d.streams = c.streams
  BY SubscribedDoes
<1>3. /\ Linked(x) /\ Done(x) \in Nat
      /\ Additions(c.pending) /\ (~c.isNegotiating => c.pending = <<>>)
      /\ c.id = 1 /\ c.peer \in {0, 1} /\ \A s \in c.streams : s[2] = 1
      /\ Ran(x) = RanOf(Done(x), c.queue) /\ Published(x) = c.publications
      /\ Waiting(x) = PubsIn(c.pending) /\ (Negotiates(x) <=> c.isNegotiating)
      /\ Had(x) = Streams(c)
  BY LinkedSide
<1>4. /\ p \in Pubs /\ Ran(x) \in Nat /\ Begins(Ran(x) + 1, p) /\ Publisher(p) # x
      /\ QueueFits(x, Done(x), Tail(c.queue)) /\ RanOf(Done(x), Tail(c.queue)) = Ran(x) + 1
  BY HeadEvent
<1>5. /\ y \in Persons /\ y # x /\ \A z \in Persons : z = x \/ z = y
  BY TwoPersons
<1>6. /\ starting' = starting /\ seen' = seen /\ handling' = handling /\ made' = made
      /\ buffer' = buffer /\ events' = events /\ toward' = toward /\ Unmoved
  BY DEF Calm, Unmoved
<1>7. ASSUME NEW z \in Persons PROVE InBox(z)' = InBox(z) /\ OfFirst(InBox(z)')
  <2>1. InBox(z)' = InBox(z)
    BY <1>6, InBoxSame
  <2> QED BY <2>1 DEF Structured, OnlyConnection
<1>14. Structured(y)' /\ ViewSame(y)
  BY <1>1, <1>5, <1>6, <1>7, OtherIdle
<1>15. /\ \A s \in d.streams : s[2] = 1
       /\ d.peer \in {0, 1} /\ OfFirst(InBox(x)') /\ Additions(d.pending)
       /\ QueueFits(x, Done(x), d.queue) /\ RanOf(Done(x), d.queue) = Ran(x) + 1
       /\ ~d.isNegotiating => d.pending = <<>>
  BY <1>1, <1>3, <1>4, <1>7
<1> HIDE DEF y, c, p
<1> DEFINE dd == d
<1>17. conn'[x] = dd /\ dd \in Connection
  BY <1>1
<1> HIDE DEF dd
<1>18. /\ Structured(x)'
       /\ Ran(x)' = Ran(x) + 1 /\ Published(x)' = d.publications
       /\ Waiting(x)' = PubsIn(d.pending) /\ (Negotiates(x)' <=> d.isNegotiating)
       /\ Had(x)' = Streams(d)
  BY <1>1, <1>3, <1>6, <1>15, <1>17, ActiveSide DEF c
<1>19. \A z \in Persons : Structured(z)' /\ InBox(z)' = InBox(z)
  BY <1>5, <1>7, <1>14, <1>18
<1>20. /\ Published(x)' = Published(x) /\ Waiting(x)' = Waiting(x)
       /\ (Negotiates(x)' <=> Negotiates(x)) /\ Had(x)' = Had(x)
  BY <1>1, <1>3, <1>18 DEF Streams
<1> QED BY <1>4, <1>14, <1>18, <1>19, <1>20 DEF y, c, p

\* A stopSubscribing that leaves media: at most the publication's stream goes.
LEMMA StopSubscribingMoves ==
    ASSUME TypeOK, Bounded, NEW x \in Persons, \A z \in Persons : Structured(z),
           Runnable(conn[x]), StopSubscribing(x), "closed" \notin causes'
    PROVE  LET p == Head(conn[x].queue).pub
           IN  /\ \A z \in Persons : Structured(z)' /\ InBox(z)' = InBox(z)
               /\ p \in Pubs /\ Publisher(p) # x /\ Ran(x) \in Nat /\ Ends(Ran(x) + 1, p)
               /\ Ran(x)' = Ran(x) + 1 /\ ViewSame(Other(x))
               /\ \A q \in Had(x) : q # p => q \in Had(x)'
               /\ (Negotiates(x)' <=> Negotiates(x)) /\ Waiting(x)' = Waiting(x)
               /\ Published(x)' = Published(x)
<1> DEFINE c == conn[x]
           d == conn'[x]
           p == Head(conn[x].queue).pub
           y == Other(x)
<1>1. /\ c \in Connection /\ c.queue # <<>> /\ p \in Pubs /\ Head(c.queue).kind = "stopSub"
      /\ OnlyOf(x) /\ d \in Connection /\ Unmoved /\ handling' = handling /\ toward' = toward
      /\ d.queue = Tail(c.queue) /\ d.id = c.id /\ d.publications = c.publications
      /\ d.isNegotiating = c.isNegotiating /\ d.pending = c.pending /\ d.peer = c.peer
      /\ d.streams \subseteq c.streams
      /\ \A s \in c.streams : s[1] # p => s \in d.streams
  BY StopSubscribingDoes
<1>2. c # NoConnection
  BY DEF Runnable
<1>3. /\ Linked(x) /\ Done(x) \in Nat
      /\ Additions(c.pending) /\ (~c.isNegotiating => c.pending = <<>>)
      /\ c.id = 1 /\ c.peer \in {0, 1} /\ \A s \in c.streams : s[2] = 1
      /\ Ran(x) = RanOf(Done(x), c.queue) /\ Published(x) = c.publications
      /\ Waiting(x) = PubsIn(c.pending) /\ (Negotiates(x) <=> c.isNegotiating)
      /\ Had(x) = Streams(c)
  BY <1>2, LinkedSide
<1>4. /\ Ran(x) \in Nat /\ Ends(Ran(x) + 1, p) /\ Publisher(p) # x
      /\ QueueFits(x, Done(x), Tail(c.queue)) /\ RanOf(Done(x), Tail(c.queue)) = Ran(x) + 1
  BY <1>1, <1>2, HeadEvent
<1>5. /\ y \in Persons /\ y # x /\ \A z \in Persons : z = x \/ z = y
  BY TwoPersons
<1>6. /\ starting' = starting /\ seen' = seen /\ handling' = handling /\ made' = made
      /\ buffer' = buffer /\ events' = events /\ toward' = toward
  BY <1>1 DEF OnlyOf, Unmoved
<1>7. ASSUME NEW z \in Persons PROVE InBox(z)' = InBox(z) /\ OfFirst(InBox(z)')
  <2>1. InBox(z)' = InBox(z)
    BY <1>6, InBoxSame
  <2> QED BY <2>1 DEF Structured, OnlyConnection
<1>14. Structured(y)' /\ ViewSame(y)
  BY <1>1, <1>5, <1>7, OtherIdle
<1>15. /\ \A s \in d.streams : s[2] = 1
       /\ d.peer \in {0, 1} /\ OfFirst(InBox(x)') /\ Additions(d.pending)
       /\ QueueFits(x, Done(x), d.queue) /\ RanOf(Done(x), d.queue) = Ran(x) + 1
       /\ ~d.isNegotiating => d.pending = <<>>
  BY <1>1, <1>3, <1>4, <1>7
<1> HIDE DEF y, c, p
<1> DEFINE dd == d
<1>17. conn'[x] = dd /\ dd \in Connection
  BY <1>1
<1> HIDE DEF dd
<1>18. /\ Structured(x)'
       /\ Ran(x)' = Ran(x) + 1 /\ Published(x)' = d.publications
       /\ Waiting(x)' = PubsIn(d.pending) /\ (Negotiates(x)' <=> d.isNegotiating)
       /\ Had(x)' = Streams(d)
  BY <1>1, <1>3, <1>6, <1>15, <1>17, ActiveSide DEF c
<1>19. \A z \in Persons : Structured(z)' /\ InBox(z)' = InBox(z)
  BY <1>5, <1>7, <1>14, <1>18
<1>20. /\ Published(x)' = Published(x) /\ Waiting(x)' = Waiting(x)
       /\ (Negotiates(x)' <=> Negotiates(x))
  BY <1>1, <1>3, <1>18
<1>21. \A q \in Had(x) : q # p => q \in Had(x)'
  BY <1>1, <1>3, <1>18 DEF Streams
<1> QED BY <1>1, <1>4, <1>14, <1>18, <1>19, <1>20, <1>21 DEF y, c, p

\* The end of a send changes nothing that the sides show.
LEMMA SentMoves ==
    ASSUME TypeOK, Bounded, NEW x \in Persons, \A z \in Persons : Structured(z), Sent(x)
    PROVE  \A z \in Persons : Structured(z)' /\ InBox(z)' = InBox(z) /\ ViewSame(z)
<1> DEFINE c == conn[x]
           d == conn'[x]
           y == Other(x)
<1>1. /\ c \in Connection /\ OnlyOf(x) /\ d \in Connection
      /\ c.queue # <<>> /\ Head(c.queue).kind = "sending"
      /\ d.queue = Tail(c.queue) /\ SameButQueue(d, c)
      /\ Unmoved /\ handling' = handling /\ toward' = toward
  BY SentDoes
<1>2. c # NoConnection
  BY DEF Sent
<1>3. /\ Linked(x) /\ Done(x) \in Nat
      /\ QueueFits(x, Done(x), c.queue) /\ c.queue \in Seq(Task)
      /\ Additions(c.pending) /\ (~c.isNegotiating => c.pending = <<>>)
      /\ c.id = 1 /\ c.peer \in {0, 1} /\ \A s \in c.streams : s[2] = 1
      /\ Ran(x) = RanOf(Done(x), c.queue) /\ Published(x) = c.publications
      /\ Waiting(x) = PubsIn(c.pending) /\ (Negotiates(x) <=> c.isNegotiating)
      /\ Had(x) = Streams(c)
  BY <1>2, LinkedSide
<1>4. QueueFits(x, Done(x), Tail(c.queue)) /\ RanOf(Done(x), Tail(c.queue)) = Ran(x)
  BY <1>1, <1>3, HeadFits
<1>5. /\ y \in Persons /\ y # x /\ \A z \in Persons : z = x \/ z = y
  BY TwoPersons
<1>6. /\ starting' = starting /\ seen' = seen /\ handling' = handling /\ made' = made
      /\ buffer' = buffer /\ events' = events /\ toward' = toward
  BY <1>1 DEF OnlyOf, Unmoved
<1>7. ASSUME NEW z \in Persons PROVE InBox(z)' = InBox(z) /\ OfFirst(InBox(z)')
  <2>1. InBox(z)' = InBox(z)
    BY <1>6, InBoxSame
  <2> QED BY <2>1 DEF Structured, OnlyConnection
<1>14. Structured(y)' /\ ViewSame(y)
  BY <1>1, <1>5, <1>7, OtherIdle
<1>15. /\ \A s \in d.streams : s[2] = 1
       /\ d.peer \in {0, 1} /\ OfFirst(InBox(x)') /\ Additions(d.pending) /\ d.id = c.id
       /\ QueueFits(x, Done(x), d.queue) /\ RanOf(Done(x), d.queue) = Ran(x)
       /\ ~d.isNegotiating => d.pending = <<>>
  BY <1>1, <1>3, <1>4, <1>7 DEF SameButQueue
<1> HIDE DEF y, c
<1> DEFINE dd == d
<1>17. conn'[x] = dd /\ dd \in Connection
  BY <1>1
<1> HIDE DEF dd
<1>18. /\ Structured(x)'
       /\ Ran(x)' = Ran(x) /\ Published(x)' = d.publications
       /\ Waiting(x)' = PubsIn(d.pending) /\ (Negotiates(x)' <=> d.isNegotiating)
       /\ Had(x)' = Streams(d)
  BY <1>1, <1>3, <1>6, <1>15, <1>17, ActiveSide DEF c
<1>19. ViewSame(x)
  BY <1>1, <1>3, <1>18 DEF Streams, SameButQueue, ViewSame
<1> QED BY <1>5, <1>7, <1>14, <1>18, <1>19

\* A message goes to the buffer while there is no connection.
LEMMA NoListenerMoves ==
    ASSUME TypeOK, Bounded, NEW x \in Persons, \A z \in Persons : Structured(z), NoListener(x)
    PROVE  \A z \in Persons : Structured(z)' /\ InBox(z)' = InBox(z) /\ ViewSame(z)
<1>1. /\ toward[x] # <<>> /\ conn[x] = NoConnection /\ conn' = conn /\ Head(toward[x]) \in Message
      /\ toward' = [toward EXCEPT ![x] = Tail(@)]
      /\ made[x] = 0 => buffer' = [buffer EXCEPT ![x] = Append(@, Head(toward[x]))]
      /\ events' = events /\ seen' = seen /\ handling' = handling /\ made' = made /\ starting' = starting
  BY NoListenerDoes
<1>2. ~Linked(x)
  BY <1>1 DEF Linked
<1>3. buffer' = [buffer EXCEPT ![x] = Append(@, Head(toward[x]))]
  BY <1>1, <1>2 DEF Structured, OnlyConnection
<1>4. buffer \in [Persons -> Seq(Message)] /\ toward \in [Persons -> Seq(Message)]
  BY Types
<1>5. InBox(x)' = InBox(x)
  <2>1. /\ buffer'[x] = Append(buffer[x], Head(toward[x])) /\ toward'[x] = Tail(toward[x])
        /\ buffer[x] \in Seq(Message) /\ toward[x] \in Seq(Message) /\ toward[x] # <<>>
    BY <1>1, <1>3, <1>4
  <2>2. ASSUME NEW b \in Seq(Message), NEW t \in Seq(Message), t # <<>>
        PROVE  Append(b, Head(t)) \o Tail(t) = b \o t
    <3>0. <<>> \in Seq(Message) /\ Head(t) \in Message /\ Tail(t) \in Seq(Message)
      BY <2>2
    <3>1. <<>> \o Append(b, Head(t)) \o Tail(t) = <<>> \o b \o t
      BY ONLY <2>2, <3>0, Shifts
    <3>2. Append(b, Head(t)) \in Seq(Message)
      BY <3>0, AppendProperties
    <3>3. <<>> \o Append(b, Head(t)) = Append(b, Head(t)) /\ <<>> \o b = b
      BY <3>2, ConcatEmptySeq
    <3> QED BY <3>1, <3>3
  <2>3. Append(buffer[x], Head(toward[x])) \o Tail(toward[x]) = buffer[x] \o toward[x]
    BY ONLY <2>1, <2>2
  <2> QED BY <2>1, <2>3 DEF InBox
<1>6. ASSUME NEW z \in Persons, z # x PROVE buffer'[z] = buffer[z] /\ toward'[z] = toward[z]
  BY <1>1, <1>3, <1>4, <1>6
<1>7. ASSUME NEW z \in Persons PROVE InBox(z)' = InBox(z) /\ OfFirst(InBox(z)')
  <2>1. InBox(z)' = InBox(z)
    BY <1>5, <1>6, InBoxSame
  <2> QED BY <2>1 DEF Structured, OnlyConnection
<1>8. ASSUME NEW z \in Persons PROVE Structured(z)' /\ ViewSame(z)
  <2>1. Linked(z) => buffer'[z] = buffer[z]
    BY <1>2, <1>6
  <2> QED BY <1>1, <1>7, <2>1, IdleSide
<1> QED BY <1>7, <1>8

\* An offer is taken and answered: the subscriber has its stream, which it did not have
\* unless the offer came early.
LEMMA OfferedMoves ==
    ASSUME TypeOK, Bounded, NEW x \in Persons, \A z \in Persons : Structured(z), Offered(x),
           "early offer" \notin causes'
    PROVE  LET m == Head(InBox(x))
               y == Other(x)
               ans == [kind |-> "answer", from |-> conn[x].id, to |-> m.from]
           IN  /\ \A z \in Persons : Structured(z)'
               /\ InBox(x) # <<>> /\ m \in Message /\ m.kind \in Offers /\ ans \in Message
               /\ InBox(x)' = Tail(InBox(x)) /\ InBox(y)' = Append(InBox(y), ans)
               /\ ViewSame(y) /\ Ran(x)' = Ran(x) /\ Published(x)' = Published(x)
               /\ Waiting(x)' = Waiting(x) /\ (Negotiates(x)' <=> Negotiates(x))
               /\ Had(x) \subseteq Had(x)'
               /\ m.kind = "produce" => m.pub \notin Had(x) /\ m.pub \in Had(x)'
<1> DEFINE c == conn[x]
           d == conn'[x]
           m == Head(toward[x])
           y == Other(x)
           ans == [kind |-> "answer", from |-> conn[x].id, to |-> m.from]
<1>1. /\ toward[x] # <<>> /\ c \in Connection /\ m \in Message /\ ans \in Message
      /\ m.kind \in Offers /\ m.pub \in Pubs
      /\ OnlyOf(x) /\ Unmoved /\ handling' = handling /\ d \in Connection /\ d.queue = c.queue
      /\ causes' = causes \cup Early(c, m)
      /\ \/ /\ d.id = c.id /\ d.peer = m.from /\ d.publications = c.publications
            /\ d.isNegotiating = c.isNegotiating /\ d.pending = c.pending
            /\ d.streams = IF m.kind = "produce" THEN c.streams \cup {<<m.pub, m.from>>}
                                                 ELSE c.streams
            /\ toward' = [toward EXCEPT ![x] = Tail(@), ![y] = Append(@, ans)]
         \/ c.peer \notin {0, m.from}
  BY OfferedDoes
<1>2. c # NoConnection
  BY <1>1, ConnectionIs
<1>3. /\ Linked(x) /\ Done(x) \in Nat /\ QueueFits(x, Done(x), c.queue)
      /\ Additions(c.pending) /\ (~c.isNegotiating => c.pending = <<>>)
      /\ c.id = 1 /\ c.peer \in {0, 1} /\ \A s \in c.streams : s[2] = 1
      /\ Ran(x) = RanOf(Done(x), c.queue) /\ Published(x) = c.publications
      /\ Waiting(x) = PubsIn(c.pending) /\ (Negotiates(x) <=> c.isNegotiating)
      /\ Had(x) = Streams(c) /\ InBox(x) = toward[x] /\ OfFirst(InBox(x))
  BY <1>2, LinkedSide
<1>4. toward[x] \in Seq(Message) /\ InBox(y) \in Seq(Message) /\ OfFirst(InBox(y)) /\ y \in Persons
      /\ y # x /\ \A z \in Persons : z = x \/ z = y
  BY TwoPersons, Types, InBoxIs DEF Structured, OnlyConnection
<1>5. m.from = 1 /\ OfFirst(Tail(toward[x]))
  <2>1. \A s \in Seq(Message) : s # <<>> /\ OfFirst(s) => OfFirst(Tail(s)) /\ Head(s).from = 1
    BY WithoutHead
  <2> QED BY <1>1, <1>3, <1>4, <2>1
<1>6. /\ starting' = starting /\ seen' = seen /\ handling' = handling /\ made' = made
      /\ buffer' = buffer /\ events' = events
  BY <1>1 DEF OnlyOf, Unmoved
<1>7. toward'[x] = Tail(toward[x]) /\ toward'[y] = Append(toward[y], ans)
  <2>1. toward' = [toward EXCEPT ![x] = Tail(@), ![y] = Append(@, ans)]
    BY <1>1, <1>3, <1>5
  <2>2. ans \in Message /\ toward[x] # <<>>
    BY <1>1
  <2> HIDE DEF ans, m
  <2> QED BY <2>1, <2>2, TakeAndPost
<1>8. ans.kind = "answer" /\ ans.from = 1 /\ ans.to = 1
  BY <1>3, <1>5
<1> HIDE DEF m, ans
<1>9. InBox(y)' = Append(InBox(y), ans) /\ OfFirst(InBox(y)')
  <2>1. buffer'[y] = buffer[y] /\ ans \in Message
    BY <1>1, <1>6
  <2>2. InBox(y)' = Append(InBox(y), ans)
    BY <1>4, <1>7, <2>1, InBoxGrows
  <2>3. \A s \in Seq(Message) : OfFirst(s) => OfFirst(Append(s, ans))
    BY ONLY <1>8, <2>1, WithOneMore
  <2>4. OfFirst(Append(InBox(y), ans))
    BY ONLY <1>4, <2>3
  <2> QED BY <2>2, <2>4
<1>10. InBox(x)' = Tail(InBox(x)) /\ OfFirst(InBox(x)')
  <2>1. buffer'[x] = <<>> /\ buffer[x] = <<>>
    BY <1>3, <1>6 DEF Structured, OnlyConnection
  <2>2. Tail(toward[x]) \in Seq(Message)
    <3>1. toward[x] # <<>> /\ toward[x] \in Seq(Message)
      BY <1>1, <1>4
    <3> QED BY ONLY <3>1
  <2>3. InBox(x)' = Tail(toward[x])
    BY <1>7, <2>1, <2>2, ConcatEmptySeq DEF InBox
  <2> QED BY <1>3, <1>5, <2>3
<1>14. Structured(y)' /\ ViewSame(y)
  BY <1>1, <1>9, OtherIdle
<1>15. /\ d.peer \in {0, 1} /\ Additions(d.pending) /\ d.id = c.id
       /\ QueueFits(x, Done(x), d.queue) /\ RanOf(Done(x), d.queue) = Ran(x)
       /\ ~d.isNegotiating => d.pending = <<>>
       /\ PubsIn(d.pending) = Waiting(x) /\ d.publications = Published(x)
       /\ (d.isNegotiating <=> Negotiates(x))
  BY <1>1, <1>3, <1>5
<1>16. /\ \A s \in d.streams : s[2] = 1
       /\ Had(x) \subseteq Streams(d)
       /\ m.kind = "produce" => m.pub \in Streams(d)
  <2>1. CASE m.kind = "produce"
    <3>1. d.streams = c.streams \cup {<<m.pub, m.from>>}
      BY <1>1, <1>3, <1>5, <2>1
    <3>2. <<m.pub, m.from>>[1] = m.pub /\ <<m.pub, m.from>>[2] = 1
      BY <1>5
    <3>3. Streams(d) = {s[1] : s \in d.streams} /\ Streams(c) = {s[1] : s \in c.streams}
      BY DEF Streams
    <3>4. \A s \in d.streams : s[2] = 1
      BY <1>3, <3>1, <3>2
    <3>5. m.pub \in Streams(d) /\ Streams(c) \subseteq Streams(d)
      BY <3>1, <3>2, <3>3
    <3> QED BY <1>3, <3>4, <3>5
  <2>2. CASE m.kind # "produce"
    <3>1. d.streams = c.streams
      BY <1>1, <1>3, <1>5, <2>2
    <3> QED BY <1>3, <2>2, <3>1 DEF Streams
  <2> QED BY <2>1, <2>2
<1>17. m.kind = "produce" => m.pub \notin Had(x)
  BY <1>1, <1>3 DEF Early
<1> HIDE DEF y, c
<1> DEFINE dd == d
<1>18. conn'[x] = dd /\ dd \in Connection
  BY <1>1
<1> HIDE DEF dd
<1>19. /\ Structured(x)'
       /\ Ran(x)' = RanOf(Done(x), d.queue) /\ Published(x)' = d.publications
       /\ Waiting(x)' = PubsIn(d.pending) /\ (Negotiates(x)' <=> d.isNegotiating)
       /\ Had(x)' = Streams(d)
  BY <1>3, <1>6, <1>10, <1>15, <1>16, <1>18, ActiveSide DEF c
<1>20. \A z \in Persons : Structured(z)'
  BY <1>4, <1>14, <1>19
<1>21. m = Head(InBox(x)) /\ InBox(x) # <<>>
  BY <1>1, <1>3 DEF m
<1>22. ans = [kind |-> "answer", from |-> conn[x].id, to |-> Head(InBox(x)).from]
  BY <1>21 DEF ans
<1> QED BY <1>1, <1>9, <1>10, <1>14, <1>15, <1>16, <1>17, <1>19, <1>20, <1>21, <1>22 DEF y

\* An answer is taken: the negotiation ends, or the next one begins with what waits.
LEMMA AnsweredMoves ==
    ASSUME TypeOK, Bounded, NEW x \in Persons, \A z \in Persons : Structured(z), Answered(x)
    PROVE  LET m == Head(InBox(x))
               y == Other(x)
               p == Head(conn[x].pending).pub
               o == Produce(conn[x], p)
           IN  /\ \A z \in Persons : Structured(z)'
               /\ InBox(x) # <<>> /\ m \in Message /\ m.kind = "answer" /\ Negotiates(x)
               /\ InBox(x)' = Tail(InBox(x))
               /\ ViewSame(y) /\ Ran(x)' = Ran(x) /\ Had(x)' = Had(x)
               /\ \/ /\ ~Negotiates(x)' /\ Published(x)' = Published(x)
                     /\ Waiting(x) = {} /\ Waiting(x)' = {} /\ InBox(y)' = InBox(y)
                  \/ /\ Negotiates(x)' /\ Published(x)' = Published(x) \cup {p}
                     /\ Waiting(x) = Waiting(x)' \cup {p} /\ o \in Message
                     /\ o.kind = "produce" /\ o.pub = p /\ InBox(y)' = Append(InBox(y), o)
<1> DEFINE c == conn[x]
           d == conn'[x]
           m == Head(toward[x])
           y == Other(x)
           op == Head(conn[x].pending)
           o == Produce(conn[x], op.pub)
<1>1. /\ toward[x] # <<>> /\ c \in Connection /\ m \in Message
      /\ m.kind = "answer" /\ c.isNegotiating
      /\ OnlyOf(x) /\ Unmoved /\ handling' = handling /\ d \in Connection /\ d.queue = c.queue
      /\ d.id = c.id /\ d.peer = c.peer /\ d.streams = c.streams
      /\ \/ /\ c.pending = <<>> \/ op.op = "remove"
            /\ d.isNegotiating = FALSE /\ d.publications = c.publications
            /\ c.pending = <<>> => d.pending = <<>>
            /\ toward' = [toward EXCEPT ![x] = Tail(@)]
         \/ /\ c.pending # <<>> /\ op.op = "add" /\ op.pub \in Pubs /\ o \in Message
            /\ d.isNegotiating = TRUE /\ d.publications = c.publications \cup {op.pub}
            /\ d.pending = Tail(c.pending)
            /\ toward' = [toward EXCEPT ![x] = Tail(@), ![y] = Append(@, o)]
  BY AnsweredDoes
<1>2. c # NoConnection
  BY <1>1, ConnectionIs
<1>3. /\ Linked(x) /\ Done(x) \in Nat /\ QueueFits(x, Done(x), c.queue)
      /\ Additions(c.pending) /\ c.pending \in Seq(Op)
      /\ c.id = 1 /\ c.peer \in {0, 1} /\ \A s \in c.streams : s[2] = 1
      /\ Ran(x) = RanOf(Done(x), c.queue) /\ Published(x) = c.publications
      /\ Waiting(x) = PubsIn(c.pending) /\ (Negotiates(x) <=> c.isNegotiating)
      /\ Had(x) = Streams(c) /\ InBox(x) = toward[x] /\ OfFirst(InBox(x))
  BY <1>2, LinkedSide
<1>4. toward[x] \in Seq(Message) /\ InBox(y) \in Seq(Message) /\ OfFirst(InBox(y)) /\ y \in Persons
      /\ y # x /\ \A z \in Persons : z = x \/ z = y
  BY TwoPersons, Types, InBoxIs DEF Structured, OnlyConnection
<1>5. OfFirst(Tail(toward[x]))
  <2>1. \A s \in Seq(Message) : s # <<>> /\ OfFirst(s) => OfFirst(Tail(s))
    BY WithoutHead
  <2> QED BY <1>1, <1>3, <1>4, <2>1
<1>6. /\ starting' = starting /\ seen' = seen /\ handling' = handling /\ made' = made
      /\ buffer' = buffer /\ events' = events
  BY <1>1 DEF OnlyOf, Unmoved
<1>7. toward'[x] = Tail(toward[x])
  BY <1>1, TakeAndPost
<1>8. o.kind = "produce" /\ o.from = 1 /\ o.pub = op.pub
  BY <1>3 DEF Produce
<1> HIDE DEF m, o
<1>10. InBox(x)' = Tail(InBox(x)) /\ OfFirst(InBox(x)')
  <2>1. buffer'[x] = <<>> /\ buffer[x] = <<>>
    BY <1>3, <1>6 DEF Structured, OnlyConnection
  <2>2. Tail(toward[x]) \in Seq(Message)
    BY <1>1, <1>4
  <2>3. InBox(x)' = Tail(toward[x])
    BY <1>7, <2>1, <2>2, ConcatEmptySeq DEF InBox
  <2> QED BY <1>3, <1>5, <2>3
<1>21. m = Head(InBox(x)) /\ InBox(x) # <<>>
  BY <1>1, <1>3 DEF m
<1>11. \A w \in Seq(Op) : /\ w # <<>> /\ Additions(w) =>
                                 PubsIn(w) = PubsIn(Tail(w)) \cup {Head(w).pub}
                                 /\ Additions(Tail(w)) /\ Head(w).op = "add"
                          /\ w = <<>> => PubsIn(w) = {} /\ Additions(w)
  BY PubsInMoves
<1> DEFINE dd == d
<1>18. conn'[x] = dd /\ dd \in Connection
  BY <1>1
<1>12. CASE c.pending = <<>>
  <2>1. /\ d.isNegotiating = FALSE /\ d.publications = c.publications /\ d.pending = <<>>
        /\ toward' = [toward EXCEPT ![x] = Tail(@)]
    BY <1>1, <1>12
  <2>2. toward'[y] = toward[y] /\ buffer'[y] = buffer[y]
    BY <1>4, <1>6, <2>1, Types
  <2>3. InBox(y)' = InBox(y) /\ OfFirst(InBox(y)')
    BY <1>4, <2>2, InBoxSame
  <2>4. Structured(y)' /\ ViewSame(y)
    BY <1>1, <2>3, OtherIdle
  <2>5. PubsIn(c.pending) = {} /\ PubsIn(d.pending) = {} /\ Additions(d.pending)
    BY <1>3, <1>11, <1>12, <2>1
  <2>6. /\ \A s \in d.streams : s[2] = 1
        /\ QueueFits(x, Done(x), d.queue) /\ d.peer \in {0, 1}
    BY <1>1, <1>3
  <2> HIDE DEF y, c, dd
  <2>7. /\ Structured(x)'
        /\ Ran(x)' = RanOf(Done(x), d.queue) /\ Published(x)' = d.publications
        /\ Waiting(x)' = PubsIn(d.pending) /\ (Negotiates(x)' <=> d.isNegotiating)
        /\ Had(x)' = Streams(d)
    BY <1>1, <1>3, <1>6, <1>10, <1>18, <2>1, <2>5, <2>6, ActiveSide DEF c
  <2>8. /\ Ran(x)' = Ran(x) /\ Had(x)' = Had(x) /\ ~Negotiates(x)' /\ Published(x)' = Published(x)
        /\ Waiting(x) = {} /\ Waiting(x)' = {} /\ Negotiates(x)
    BY <1>1, <1>3, <2>1, <2>5, <2>7 DEF Streams
  <2>9. \A z \in Persons : Structured(z)'
    BY <1>4, <2>4, <2>7
  <2> QED BY <1>1, <1>10, <1>21, <2>3, <2>4, <2>8, <2>9 DEF y, o
<1>13. CASE c.pending # <<>>
  <2>0. op.op = "add" /\ PubsIn(c.pending) = PubsIn(Tail(c.pending)) \cup {op.pub}
        /\ Additions(Tail(c.pending))
    BY <1>3, <1>11, <1>13
  <2>1. /\ d.isNegotiating = TRUE /\ d.publications = c.publications \cup {op.pub}
        /\ d.pending = Tail(c.pending) /\ o \in Message
        /\ toward' = [toward EXCEPT ![x] = Tail(@), ![y] = Append(@, o)]
    BY <1>1, <1>13, <2>0
  <2>2. toward'[y] = Append(toward[y], o) /\ buffer'[y] = buffer[y]
    BY <1>1, <1>6, <2>1, TakeAndPost
  <2>3. InBox(y)' = Append(InBox(y), o) /\ OfFirst(InBox(y)')
    <3>1. InBox(y)' = Append(InBox(y), o)
      BY <1>4, <2>1, <2>2, InBoxGrows
    <3>2. o \in Message
      BY <2>1
    <3>3. \A s \in Seq(Message) : OfFirst(s) => OfFirst(Append(s, o))
      BY ONLY <1>8, <3>2, WithOneMore
    <3>4. OfFirst(Append(InBox(y), o))
      BY ONLY <1>4, <3>3
    <3> QED BY <3>1, <3>4
  <2>4. Structured(y)' /\ ViewSame(y)
    BY <1>1, <2>3, OtherIdle
  <2>5. Additions(d.pending) /\ PubsIn(c.pending) = PubsIn(d.pending) \cup {op.pub}
    BY <2>0, <2>1
  <2>6. /\ \A s \in d.streams : s[2] = 1
        /\ QueueFits(x, Done(x), d.queue) /\ d.peer \in {0, 1}
    BY <1>1, <1>3
  <2> HIDE DEF y, c, dd, op
  <2>7. /\ Structured(x)'
        /\ Ran(x)' = RanOf(Done(x), d.queue) /\ Published(x)' = d.publications
        /\ Waiting(x)' = PubsIn(d.pending) /\ (Negotiates(x)' <=> d.isNegotiating)
        /\ Had(x)' = Streams(d)
    BY <1>1, <1>3, <1>6, <1>10, <1>18, <2>1, <2>5, <2>6, ActiveSide DEF c
  <2>8. /\ Ran(x)' = Ran(x) /\ Had(x)' = Had(x) /\ Negotiates(x)' /\ Negotiates(x)
        /\ Published(x)' = Published(x) \cup {op.pub}
        /\ Waiting(x) = Waiting(x)' \cup {op.pub}
    BY <1>1, <1>3, <2>1, <2>5, <2>7 DEF Streams
  <2>9. \A z \in Persons : Structured(z)'
    BY <1>4, <2>4, <2>7
  <2> QED BY <1>1, <1>8, <1>10, <1>21, <2>1, <2>3, <2>4, <2>8, <2>9 DEF y, o, op
<1> QED BY <1>12, <1>13

\* The least event in hand is the next one.
LEMMA NextInHand ==
    ASSUME NEW s \in Nat, NEW e \in 0..s, NEW i \in (e + 1)..s, ~(\E j \in (e + 1)..s : j < i)
    PROVE  LET h == ((e + 1)..s) \ {i}
           IN  /\ i = e + 1 /\ e \in Nat /\ e + 1 \in 0..s
               /\ h = ((e + 1) + 1)..s
               /\ (CHOOSE f \in 0..s : h = (f + 1)..s) = e + 1
<1>1. i = e + 1 /\ e \in Nat /\ e + 1 \in 0..s
  OBVIOUS
<1>2. ((e + 1)..s) \ {i} = ((e + 1) + 1)..s
  BY <1>1
<1>3. (CHOOSE f \in 0..s : ((e + 1) + 1)..s = (f + 1)..s) = e + 1
  <2> DEFINE d == e + 1
  <2>1. d \in 0..s
    BY <1>1
  <2> HIDE DEF d
  <2>2. (CHOOSE f \in 0..s : (d + 1)..s = (f + 1)..s) = d
    BY ONLY s \in Nat, <2>1, DoneIs
  <2> QED BY <2>2 DEF d
<1> QED BY <1>1, <1>2, <1>3

\* A queue with one task, that of the first event.
LEMMA FirstFits ==
    ASSUME NEW x \in Persons, NEW task \in Task, Fits(x, 1, task, 1), task.kind # "sending"
    PROVE  QueueFits(x, 1, <<task>>) /\ RanOf(1, <<task>>) = 0 /\ PubsIn(<<>>) = {}
<1> DEFINE q == <<task>>
           w == <<>>
<1>1. Len(q) = 1 /\ q[1] = task /\ q # <<>> /\ Head(q) = task /\ w \in Seq(Op) /\ w = <<>>
  BY ONLY task \in Task
<1> HIDE DEF q, w
<1>2. \A j \in 1..Len(q) : j = 1 /\ 1 - Len(q) + j = 1
  BY ONLY <1>1
<1>3. QueueFits(x, 1, q)
  BY <1>1, <1>2 DEF QueueFits
<1>4. RanOf(1, q) = 0
  BY <1>1 DEF RanOf
<1>5. PubsIn(w) = {}
  BY ONLY <1>1, PubsInMoves
<1> QED BY <1>3, <1>4, <1>5 DEF q, w

\* The next event is handled, and its task joins the queue.
LEMMA HandledMoves ==
    ASSUME TypeOK, Bounded, Alternate, NEW x \in Persons, \A z \in Persons : Structured(z),
           NEW i \in Nat, i \in handling[x], i \in 1..Len(events), i \in 1..seen[x],
           handling' = [handling EXCEPT ![x] = @ \ {i}],
           events' = events, seen' = seen, published' = published,
           ~(\E j \in handling[x] : j < i),
           \/ events[i].kind = "unsubscribed" /\ conn[x] = NoConnection
           \/ CanPush(x) /\ PushTask(x, TaskOf(x, i)) /\ starting' = starting
    PROVE  \A z \in Persons : Structured(z)' /\ InBox(z)' = InBox(z) /\ ViewSame(z)
<1> DEFINE c == conn[x]
           d == conn'[x]
           y == Other(x)
           task == TaskOf(x, i)
<1>1. /\ i \in handling[x] /\ i \in 1..Len(events) /\ i \in 1..seen[x]
      /\ handling' = [handling EXCEPT ![x] = @ \ {i}]
      /\ events' = events /\ seen' = seen /\ published' = published
      /\ ~(\E j \in handling[x] : j < i)
      /\ \/ events[i].kind = "unsubscribed" /\ c = NoConnection
         \/ CanPush(x) /\ PushTask(x, task) /\ starting' = starting
  OBVIOUS
<1>2. /\ seen[x] \in Nat /\ handling \in [Persons -> SUBSET (1..MaxEvents)]
      /\ conn \in [Persons -> Connection \cup {NoConnection}]
      /\ made \in [Persons -> 0..MaxConnections]
      /\ buffer \in [Persons -> Seq(Message)] /\ toward \in [Persons -> Seq(Message)]
  BY Types
<1>3. PICK e \in 0..seen[x] : e = Done(x) /\ handling[x] = (e + 1)..seen[x] /\ starting[x] = {}
  BY DEF Structured, InOrder
<1>4. i = e + 1 /\ e \in Nat /\ e + 1 \in 0..seen[x]
  <2>1. i \in (e + 1)..seen[x] /\ ~(\E j \in (e + 1)..seen[x] : j < i)
    BY <1>1, <1>3
  <2> QED BY ONLY <1>2, <1>3, <2>1, NextInHand
<1>5. handling'[x] = ((e + 1) + 1)..seen[x]
      /\ (CHOOSE f \in 0..seen[x] : handling'[x] = (f + 1)..seen[x]) = e + 1
  <2> DEFINE h == ((e + 1)..seen[x]) \ {i}
  <2>1. handling'[x] = ((e + 1)..seen[x]) \ {i}
    BY <1>1, <1>2, <1>3
  <2>2. i \in (e + 1)..seen[x] /\ ~(\E j \in (e + 1)..seen[x] : j < i)
    BY <1>1, <1>3
  <2>3. h = ((e + 1) + 1)..seen[x] /\ (CHOOSE f \in 0..seen[x] : h = (f + 1)..seen[x]) = e + 1
    BY ONLY <1>2, <1>3, <2>2, NextInHand
  <2> HIDE DEF h
  <2>4. handling'[x] = h
    BY <2>1 DEF h
  <2> QED BY ONLY <2>3, <2>4
<1>6. Done(x)' = e + 1
  BY <1>1, <1>5 DEF Done
<1>7. /\ y \in Persons /\ y # x /\ \A z \in Persons : z = x \/ z = y
  BY TwoPersons
<1>8. c = NoConnection => e = 0 /\ made[x] = 0
  BY <1>3 DEF Structured, OnlyConnection, Linked
<1>9. ~(events[i].kind = "unsubscribed" /\ c = NoConnection)
  <2> SUFFICES ASSUME events[i].kind = "unsubscribed", c = NoConnection PROVE FALSE
    OBVIOUS
  <2>1. i = 1
    BY <1>4, <1>8
  <2>2. Ends(i, events[i].pub) /\ events[i].pub \in Pubs
    BY <1>1, EventsAre DEF Ends
  <2> QED BY <1>1, <2>1, <2>2 DEF Alternate
<1>10. CanPush(x) /\ PushTask(x, task) /\ starting' = starting
  BY <1>1, <1>9
<1>11. /\ task \in Task /\ (task.kind = "startSub" => task.sub \in 1..MaxEvents)
       /\ \A j \in Nat : Fits(x, e + 1, task, j)
       /\ task.kind # "sending"
  BY <1>1, <1>4, TaskOfIs
<1> HIDE DEF task
<1>12. /\ OnlyOf(x) /\ d \in Connection
       /\ c # NoConnection =>
            /\ c \in Connection /\ d.queue = Append(c.queue, task) /\ SameButQueue(d, c)
            /\ made' = made /\ buffer' = buffer /\ toward' = toward
       /\ c = NoConnection =>
            /\ d.id = made[x] + 1 /\ d.queue = <<task>> /\ d.publications = {}
            /\ d.isNegotiating = FALSE /\ d.pending = <<>> /\ d.peer = 0 /\ d.streams = {}
            /\ made' = [made EXCEPT ![x] = @ + 1]
            /\ toward' = [toward EXCEPT ![x] = buffer[x] \o @]
            /\ buffer' = [buffer EXCEPT ![x] = <<>>]
  BY <1>1, <1>10, <1>11, PushTaskDoes
<1>13. /\ conn'[y] = conn[y] /\ handling'[y] = handling[y] /\ starting'[y] = starting[y]
       /\ made'[y] = made[y] /\ buffer'[y] = buffer[y] /\ toward'[y] = toward[y] /\ seen'[y] = seen[y]
  <2>1. conn'[y] = conn[y] /\ handling'[y] = handling[y] /\ starting'[y] = starting[y] /\ seen'[y] = seen[y]
    BY <1>1, <1>2, <1>7, <1>10, <1>12 DEF OnlyOf
  <2>2. made'[y] = made[y] /\ buffer'[y] = buffer[y] /\ toward'[y] = toward[y]
    BY <1>2, <1>7, <1>12
  <2> QED BY <2>1, <2>2
<1>14. Structured(y)' /\ ViewSame(y) /\ InBox(y)' = InBox(y)
  <2>1. InBox(y)' = InBox(y) /\ OfFirst(InBox(y)')
    BY <1>7, <1>13, InBoxSame DEF Structured, OnlyConnection
  <2> QED BY <1>1, <1>7, <1>13, <2>1, IdleSide
<1>15. d # NoConnection
  BY <1>12, ConnectionIs
<1>16. InOrder(x)'
  <2>1. starting'[x] = {}
    BY <1>3, <1>10
  <2> QED BY <1>1, <1>4, <1>5, <1>6, <2>1 DEF InOrder
<1>17. CASE c # NoConnection
  <2>1. /\ Linked(x) /\ QueueFits(x, e, c.queue) /\ c.queue \in Seq(Task)
        /\ Additions(c.pending) /\ (~c.isNegotiating => c.pending = <<>>)
        /\ c.id = 1 /\ c.peer \in {0, 1} /\ \A s \in c.streams : s[2] = 1
        /\ Ran(x) = RanOf(e, c.queue) /\ Published(x) = c.publications
        /\ Waiting(x) = PubsIn(c.pending) /\ (Negotiates(x) <=> c.isNegotiating)
        /\ Had(x) = Streams(c) /\ OfFirst(InBox(x))
    BY <1>3, <1>17, LinkedSide
  <2>2. /\ d.queue = Append(c.queue, task) /\ SameButQueue(d, c)
        /\ made' = made /\ buffer' = buffer /\ toward' = toward
    BY <1>12, <1>17
  <2>3. QueueFits(x, e + 1, d.queue) /\ RanOf(e + 1, d.queue) = RanOf(e, c.queue)
    BY <1>4, <1>11, <2>1, <2>2, AppendFits
  <2>4. InBox(x)' = InBox(x)
    BY <2>2, InBoxSame
  <2>5. buffer[x] = <<>>
    BY <2>1 DEF Structured, OnlyConnection
  <2>6. Linked(x)'
    BY <1>15 DEF Linked
  <2>7. OnlyConnection(x)'
    <3>1. e + 1 > 0 /\ d.id = 1 /\ d.peer \in {0, 1} /\ \A s \in d.streams : s[2] = 1
      BY <1>4, <2>1, <2>2 DEF SameButQueue
    <3>2. OfFirst(InBox(x)')
      BY <2>1, <2>4
    <3> QED BY <1>6, <2>2, <2>5, <2>6, <3>1, <3>2 DEF OnlyConnection, OfFirst
  <2>8. TasksFit(x)'
    BY <1>1, <1>6, <2>3 DEF TasksFit, QueueFits, Fits
  <2>9. OnlyAdditions(x)'
    BY <2>1, <2>2 DEF OnlyAdditions, Additions, SameButQueue
  <2>10. ViewSame(x)
    <3>1. Ran(x)' = RanOf(e + 1, d.queue)
      BY <1>6, <2>6 DEF Ran, RanOf
    <3>2. /\ Published(x)' = d.publications /\ Waiting(x)' = PubsIn(d.pending)
          /\ (Negotiates(x)' <=> d.isNegotiating) /\ Had(x)' = Streams(d)
      BY <2>6 DEF Published, Waiting, PubsIn, Negotiates, Had, Streams
    <3> QED BY <2>1, <2>2, <2>3, <3>1, <3>2 DEF SameButQueue, ViewSame, Streams
  <2>11. Structured(x)'
    BY <1>16, <2>7, <2>8, <2>9 DEF Structured
  <2> QED BY <1>7, <1>14, <2>4, <2>10, <2>11
<1>18. CASE c = NoConnection
  <2>1. ~Linked(x) /\ e = 0 /\ made[x] = 0 /\ OfFirst(InBox(x))
    BY <1>8, <1>18 DEF Linked, Structured, OnlyConnection
  <2>2. /\ d.id = 1 /\ d.queue = <<task>> /\ d.publications = {}
        /\ d.isNegotiating = FALSE /\ d.pending = <<>> /\ d.peer = 0 /\ d.streams = {}
        /\ toward'[x] = buffer[x] \o toward[x] /\ buffer'[x] = <<>>
    BY <1>2, <1>12, <1>18, <2>1
  <2>3. QueueFits(x, 1, <<task>>) /\ RanOf(1, <<task>>) = 0
    <3>1. Fits(x, 1, task, 1)
      BY <1>11, <2>1
    <3> QED BY <1>11, <3>1, FirstFits
  <2>4. InBox(x)' = InBox(x)
    <3>1. buffer[x] \o toward[x] \in Seq(Message)
      BY <1>2, ConcatProperties
    <3>2. <<>> \o (buffer[x] \o toward[x]) = buffer[x] \o toward[x]
      BY <3>1, ConcatEmptySeq
    <3> QED BY <2>2, <3>2 DEF InBox
  <2>6. Linked(x)'
    BY <1>15 DEF Linked
  <2>7. OnlyConnection(x)'
    <3>2. OfFirst(InBox(x)')
      BY <2>1, <2>4
    <3> QED BY <1>6, <2>1, <2>2, <2>6, <3>2 DEF OnlyConnection, OfFirst
  <2>8. TasksFit(x)'
    BY <1>1, <1>6, <2>1, <2>2, <2>3 DEF TasksFit, QueueFits, Fits
  <2>9. OnlyAdditions(x)'
    BY <2>2 DEF OnlyAdditions, Additions
  <2>10. ViewSame(x)
    <3>1. Ran(x)' = RanOf(1, d.queue)
      BY <1>6, <2>1, <2>6 DEF Ran, RanOf
    <3>2. /\ Published(x)' = d.publications /\ Waiting(x)' = PubsIn(d.pending)
          /\ (Negotiates(x)' <=> d.isNegotiating) /\ Had(x)' = Streams(d)
      BY <2>6 DEF Published, Waiting, PubsIn, Negotiates, Had, Streams
    <3>3. PubsIn(<<>>) = {}
      <4>1. Fits(x, 1, task, 1)
        BY <1>11, <2>1
      <4> QED BY <1>11, <4>1, FirstFits
    <3>4. Streams(d) = {}
      BY <2>2 DEF Streams
    <3>5. /\ Ran(x) = 0 /\ Published(x) = {} /\ Waiting(x) = {} /\ ~Negotiates(x) /\ Had(x) = {}
      BY <2>1 DEF Ran, Published, Waiting, Negotiates, Had
    <3> QED BY <2>2, <2>3, <3>1, <3>2, <3>3, <3>4, <3>5 DEF ViewSame
  <2>11. Structured(x)'
    BY <1>16, <2>7, <2>8, <2>9 DEF Structured
  <2> QED BY <1>7, <1>14, <2>4, <2>10, <2>11
<1> QED BY <1>17, <1>18

\* A handler moves an event from handling into the queue and changes nothing else.
LEMMA HandleMoves ==
    ASSUME TypeOK, Bounded, Alternate, NEW x \in Persons, \A z \in Persons : Structured(z),
           NEW i \in 1..MaxEvents, Handle(x, i),
           "overtaken" \notin causes', "late stream" \notin causes'
    PROVE  \A z \in Persons : Structured(z)' /\ InBox(z)' = InBox(z) /\ ViewSame(z)
<1>1. /\ i \in Nat /\ i \in handling[x] /\ i \in 1..Len(events) /\ i \in 1..seen[x]
      /\ handling' = [handling EXCEPT ![x] = @ \ {i}]
      /\ events' = events /\ seen' = seen /\ published' = published
      /\ ~(\E j \in handling[x] : j < i)
      /\ \/ events[i].kind = "unsubscribed" /\ conn[x] = NoConnection
         \/ CanPush(x) /\ PushTask(x, TaskOf(x, i)) /\ starting' = starting
  <2>1. /\ i \in handling[x] /\ i \in 1..Len(events) /\ i \in 1..seen[x]
        /\ handling' = [handling EXCEPT ![x] = @ \ {i}]
        /\ events' = events /\ seen' = seen /\ published' = published
        /\ ~(\E j \in handling[x] : j < i)
    BY HandleDoes
  <2>2. \/ events[i].kind = "unsubscribed" /\ conn[x] = NoConnection
        \/ CanPush(x) /\ PushTask(x, TaskOf(x, i)) /\ starting' = starting
    BY HandleDoes
  <2>3. i \in Nat
    BY ONLY RendezvousAssumption, <2>1
  <2> QED BY ONLY <2>1, <2>2, <2>3
<1> QED BY <1>1, HandledMoves

\* An event is received.
LEMMA ReceiveMoves ==
    ASSUME TypeOK, Bounded, NEW x \in Persons, \A z \in Persons : Structured(z), Receive(x)
    PROVE  \A z \in Persons : Structured(z)' /\ InBox(z)' = InBox(z) /\ ViewSame(z)
<1>1. /\ seen[x] \in Nat /\ seen[x] < Len(events)
      /\ seen' = [seen EXCEPT ![x] = @ + 1]
      /\ handling' = [handling EXCEPT ![x] = @ \cup {seen[x] + 1}]
      /\ UNCHANGED <<events, published, starting, conn, made, buffer, toward, history>>
  BY ReceiveDoes
<1>2. seen \in [Persons -> Nat] /\ handling \in [Persons -> SUBSET (1..MaxEvents)]
  BY Types
<1>3. ASSUME NEW z \in Persons PROVE InBox(z)' = InBox(z) /\ OfFirst(InBox(z)')
  <2>1. InBox(z)' = InBox(z)
    BY <1>1, InBoxSame
  <2> QED BY <2>1 DEF Structured, OnlyConnection
<1>4. ASSUME NEW z \in Persons PROVE Structured(z)' /\ ViewSame(z)
  <2>1. CASE z # x
    <3>1. /\ conn'[z] = conn[z] /\ starting'[z] = starting[z] /\ seen'[z] = seen[z]
          /\ handling'[z] = handling[z] /\ made'[z] = made[z] /\ buffer'[z] = buffer[z]
          /\ events' = events
      BY <1>1, <1>2, <2>1
    <3> QED BY <1>3, <3>1, IdleSide
  <2>2. CASE z = x
    <3> DEFINE e == Done(z)
               s == seen[z] + 1
    <3>1. e \in 0..seen[z] /\ handling[z] = (e + 1)..seen[z] /\ starting[z] = {}
      BY DEF Structured, InOrder
    <3>2. seen'[z] = s /\ handling'[z] = handling[z] \cup {s} /\ seen[z] \in Nat
      BY <1>1, <1>2, <2>2
    <3> HIDE DEF e
    <3>3. handling'[z] = (e + 1)..s /\ e \in 0..s /\ s \in Nat
      BY <3>1, <3>2
    <3> HIDE DEF s
    <3>4. Done(z)' = e
      <4>1. (CHOOSE f \in 0..s : (e + 1)..s = (f + 1)..s) = e
        BY <3>3, DoneIs
      <4> QED BY <3>2, <3>3, <4>1 DEF Done
    <3>5. Linked(z)' = Linked(z)
      BY <1>1 DEF Linked
    <3>6. InOrder(z)'
      BY <1>1, <3>1, <3>2, <3>3, <3>4 DEF InOrder
    <3>7. OnlyConnection(z)'
      BY <1>1, <1>3, <3>4, <3>5 DEF Structured, OnlyConnection, OfFirst, e
    <3>8. TasksFit(z)'
      <4>1. Linked(z) => QueueFits(z, Done(z), conn[z].queue)
        BY DEF Structured, TasksFit
      <4>2. conn' = conn /\ events' = events /\ Done(z)' = Done(z)
        BY <1>1, <3>4 DEF e
      <4> QED BY ONLY <4>1, <4>2 DEF TasksFit, QueueFits, Fits, Linked
    <3>9. OnlyAdditions(z)'
      BY <1>1, <3>5 DEF Structured, OnlyAdditions, Additions
    <3>10. ViewSame(z)
      BY <1>1, <3>4, <3>5 DEF ViewSame, Ran, RanOf, Published, Waiting, PubsIn, Negotiates, Had, Streams, e
    <3> QED BY <3>6, <3>7, <3>8, <3>9, <3>10 DEF Structured
  <2> QED BY <2>1, <2>2
<1> QED BY <1>3, <1>4

\* publish sets a stream, or the server adds an event at the end.
LEMMA EventsMove ==
    ASSUME TypeOK, Bounded, \A z \in Persons : Structured(z),
           Len(events) \in Nat, Len(events') \in Nat, Len(events) <= Len(events'),
           \A i \in 1..Len(events) : events'[i] = events[i],
           UNCHANGED <<seen, handling, starting, conn, made, buffer, toward>>
    PROVE  \A z \in Persons : Structured(z)' /\ InBox(z)' = InBox(z) /\ ViewSame(z)
<1> SUFFICES ASSUME NEW z \in Persons PROVE Structured(z)' /\ InBox(z)' = InBox(z) /\ ViewSame(z)
  OBVIOUS
<1>1. Done(z)' = Done(z) /\ Linked(z)' = Linked(z) /\ InBox(z)' = InBox(z)
  BY DEF Done, Linked, InBox
<1>2. InOrder(z)'
  BY <1>1 DEF Structured, InOrder
<1>3. OnlyConnection(z)'
  BY <1>1 DEF Structured, OnlyConnection, OfFirst
<1>4. TasksFit(z)'
  <2> SUFFICES ASSUME Linked(z) PROVE QueueFits(z, Done(z), conn[z].queue)'
    BY <1>1 DEF TasksFit
  <2> DEFINE q == conn[z].queue
             d == Done(z)
  <2>1. conn[z] # NoConnection
    BY DEF Linked
  <2>2. d \in Nat /\ d <= Len(events) /\ QueueFits(z, d, q) /\ q \in Seq(Task)
    BY <2>1, LinkedSide
  <2>3. q' = q /\ d' = d
    BY <1>1
  <2> HIDE DEF q, d
  <2>4. Len(q) <= d /\ \A j \in 1..Len(q) : Fits(z, d - Len(q) + j, q[j], j)
    BY <2>2 DEF QueueFits
  <2>5. ASSUME NEW j \in 1..Len(q) PROVE Fits(z, d - Len(q) + j, q[j], j)'
    <3>1. d - Len(q) + j \in 1..Len(events)
      BY <2>2, <2>4
    <3>2. events'[d - Len(q) + j] = events[d - Len(q) + j]
      BY <3>1
    <3>3. Fits(z, d - Len(q) + j, q[j], j)
      BY <2>4
    <3> QED BY <2>3, <3>2, <3>3 DEF Fits
  <2>6. QueueFits(z, d, q)'
    BY <2>3, <2>4, <2>5 DEF QueueFits
  <2> QED BY <2>6 DEF q, d
<1>5. OnlyAdditions(z)'
  BY <1>1 DEF Structured, OnlyAdditions, Additions
<1>6. ViewSame(z)
  BY <1>1 DEF ViewSame, Ran, RanOf, Published, Waiting, PubsIn, Negotiates, Had, Streams
<1> QED BY <1>1, <1>2, <1>3, <1>4, <1>5, <1>6 DEF Structured

----------------------------------------------------------------------------
(* Agreement, one step of one side at a time.                              *)

\* A publisher runs an event that ends nothing of p.
LEMMA PublishedOn ==
    ASSUME NEW p, NEW r \in Nat, NEW S, NEW T, IsPub(p, r, S), ~Ends(r + 1, p),
           p \in S \/ Begins(r + 1, p) => p \in T
    PROVE  IsPub(p, r + 1, T)
<1> SUFFICES ASSUME NEW a \in 1..Len(events), a <= r + 1, Begins(a, p), Lasts(p, a, r + 1)
             PROVE  p \in T
  BY DEF IsPub, Current
<1>1. CASE a = r + 1
  BY <1>1
<1>2. CASE a # r + 1
  <2>1. a <= r
    BY <1>2
  <2>2. Lasts(p, a, r)
    BY DEF Lasts
  <2> QED BY <2>1, <2>2 DEF IsPub, Current
<1> QED BY <1>1, <1>2

\* It runs the end of p.
LEMMA PublishedNoMore ==
    ASSUME NEW p, NEW r \in Nat, NEW T, Ends(r + 1, p)
    PROVE  IsPub(p, r + 1, T)
<1> SUFFICES ASSUME NEW a \in 1..Len(events), a <= r + 1, Begins(a, p), Lasts(p, a, r + 1)
             PROVE  FALSE
  BY DEF IsPub, Current
<1>1. a # r + 1
  BY DEF Begins, Ends
<1>2. r + 1 \in 1..Len(events) /\ a < r + 1
  BY <1>1 DEF Ends
<1> QED BY <1>2 DEF Lasts

\* The publisher runs an event that ends nothing of p; if it begins p, this becomes due.
LEMMA FedStart ==
    ASSUME NEW p, NEW r \in Nat, NEW s \in Nat, NEW D, NEW E, NEW H, FedIn(p, r, s, D, H),
           ~Ends(r + 1, p), p \in D \/ Begins(r + 1, p) => p \in E
    PROVE  FedIn(p, r + 1, s, E, H)
<1> SUFFICES ASSUME NEW a \in 1..Len(events), Begins(a, p), a <= r + 1,
                    ~Lasts(p, a, r + 1) \/ p \notin E, Lasts(p, a, s)
             PROVE  p \in H /\ \A i \in 1..Len(events) : i < a /\ Ends(i, p) => i <= s
  BY DEF FedIn
<1>1. ~Lasts(p, a, r + 1) => a <= r /\ ~Lasts(p, a, r)
  <2> SUFFICES ASSUME NEW i \in 1..Len(events), a < i, i <= r + 1, Ends(i, p)
               PROVE  a <= r /\ ~Lasts(p, a, r)
    BY DEF Lasts
  <2>1. i # r + 1
    OBVIOUS
  <2>2. i <= r /\ a <= r
    BY <2>1
  <2> QED BY <2>2 DEF Lasts
<1>2. p \notin E => a <= r /\ p \notin D
  <2> SUFFICES ASSUME p \notin E PROVE a <= r /\ p \notin D
    OBVIOUS
  <2>1. a # r + 1
    OBVIOUS
  <2> QED BY <2>1
<1> QED BY <1>1, <1>2 DEF FedIn

\* The publisher runs the end of p, of which nothing is due.
LEMMA FedStop ==
    ASSUME NEW p, NEW r \in Nat, NEW s \in Nat, NEW D, NEW E, NEW H, FedIn(p, r, s, D, H),
           Ends(r + 1, p), p \notin D
    PROVE  FedIn(p, r + 1, s, E, H)
<1> SUFFICES ASSUME NEW a \in 1..Len(events), Begins(a, p), a <= r + 1, Lasts(p, a, s)
             PROVE  p \in H /\ \A i \in 1..Len(events) : i < a /\ Ends(i, p) => i <= s
  BY DEF FedIn
<1>1. a # r + 1
  BY DEF Begins, Ends
<1>2. a <= r
  BY <1>1
<1> QED BY <1>2 DEF FedIn

\* The subscriber runs an event; only the end of p takes the stream of p away.
LEMMA FedRun ==
    ASSUME NEW p, NEW r \in Nat, NEW s \in Nat, NEW D, NEW G, NEW H, FedIn(p, r, s, D, H),
           p \in H /\ ~Ends(s + 1, p) => p \in G
    PROVE  FedIn(p, r, s + 1, D, G)
<1> SUFFICES ASSUME NEW a \in 1..Len(events), Begins(a, p), a <= r,
                    ~Lasts(p, a, r) \/ p \notin D, Lasts(p, a, s + 1)
             PROVE  p \in G /\ \A i \in 1..Len(events) : i < a /\ Ends(i, p) => i <= s + 1
  BY DEF FedIn
<1>1. Lasts(p, a, s)
  BY DEF Lasts
<1>2. p \in H /\ \A i \in 1..Len(events) : i < a /\ Ends(i, p) => i <= s
  BY <1>1 DEF FedIn
<1>3. ~Ends(s + 1, p)
  <2> SUFFICES ASSUME Ends(s + 1, p) PROVE FALSE
    OBVIOUS
  <2>1. s + 1 \in 1..Len(events) /\ a # s + 1
    BY DEF Ends, Begins
  <2>2. CASE a < s + 1
    BY <2>1, <2>2 DEF Lasts
  <2>3. CASE s + 1 < a
    <3>1. s + 1 <= s
      BY <1>2, <2>1, <2>3
    <3> QED BY <3>1
  <2> QED BY <2>1, <2>2, <2>3
<1>4. \A i \in 1..Len(events) : i < a /\ Ends(i, p) => i <= s + 1
  BY <1>2
<1> QED BY <1>2, <1>3, <1>4

\* Nothing runs, what is due stays due and no stream goes.
LEMMA FedSame ==
    ASSUME NEW p, NEW r \in Nat, NEW s \in Nat, NEW D, NEW E, NEW G, NEW H, FedIn(p, r, s, D, H),
           p \in D => p \in E, p \in H => p \in G
    PROVE  FedIn(p, r, s, E, G)
<1> QED BY DEF FedIn

\* The offer of p is taken, by a subscriber that has no stream of p.
LEMMA FedOffered ==
    ASSUME Alternate, NEW p \in Pubs, NEW r \in Nat, NEW s \in Nat, NEW D, NEW E, NEW G, NEW H,
           FedIn(p, r, s, D, H), p \notin H, p \in G
    PROVE  FedIn(p, r, s, E, G)
<1> SUFFICES ASSUME NEW a \in 1..Len(events), Begins(a, p), a <= r, Lasts(p, a, s),
                    NEW i \in 1..Len(events), i < a, Ends(i, p)
             PROVE  i <= s
  BY DEF FedIn
<1>1. PICK b \in 1..Len(events) : b < i /\ Begins(b, p) /\ Lasts(p, b, i - 1)
  BY DEF Alternate
<1>2. b <= r /\ ~Lasts(p, b, r)
  <2>1. b < i /\ i <= r
    BY <1>1
  <2> QED BY <2>1 DEF Lasts
<1>3. ~Lasts(p, b, s)
  BY <1>1, <1>2 DEF FedIn
<1>4. PICK j \in 1..Len(events) : b < j /\ j <= s /\ Ends(j, p)
  BY <1>3 DEF Lasts
<1>5. ~(j <= i - 1)
  BY <1>1, <1>4 DEF Lasts
<1> QED BY <1>4, <1>5

----------------------------------------------------------------------------
(* The exchange of offers and answers.                                     *)

\* An offer is sent; it engages the sender and is nothing to the receiver's own exchange.
LEMMA OfferSent ==
    ASSUME NEW out \in Seq(Message), NEW in \in Seq(Message), NEW m \in Message, m.kind \in Offers
    PROVE  /\ Free(out, in) => Engaged(Append(out, m), in)
           /\ Free(in, out) => Free(in, Append(out, m))
           /\ Engaged(in, out) => Engaged(in, Append(out, m))
<1>1. m.kind \notin Answers
  BY DEF Offers, Answers
<1> DEFINE t == Append(out, m)
<1>2. /\ None(out, Offers) => One(t, Offers)
      /\ None(out, Answers) => None(t, Answers)
      /\ One(out, Answers) => One(t, Answers)
  BY <1>1, WithOneMore
<1> HIDE DEF t
<1>3. /\ Free(out, in) => Engaged(t, in)
      /\ Free(in, out) => Free(in, t)
      /\ Engaged(in, out) => Engaged(in, t)
  BY ONLY <1>2 DEF Free, Engaged
<1> QED BY <1>3 DEF t

\* An offer is taken out of box and answered: its sender is still engaged, and nothing
\* changes for who answers.
LEMMA OfferTaken ==
    ASSUME NEW box \in Seq(Message), NEW back \in Seq(Message), NEW m \in Message,
           box # <<>>, Head(box).kind \in Offers, m.kind \in Answers
    PROVE  /\ Engaged(box, back) => Engaged(Tail(box), Append(back, m))
           /\ ~Free(box, back)
           /\ Free(back, box) => Free(Append(back, m), Tail(box))
           /\ Engaged(back, box) => Engaged(Append(back, m), Tail(box))
<1>1. m.kind \notin Offers /\ Head(box).kind \notin Answers
  BY DEF Offers, Answers
<1> DEFINE t == Append(back, m)
           u == Tail(box)
<1>2. /\ None(back, Answers) => One(t, Answers)
      /\ None(back, Offers) => None(t, Offers)
      /\ One(back, Offers) => One(t, Offers)
  BY <1>1, WithOneMore
<1>3. /\ None(box, Answers) => None(u, Answers)
      /\ One(box, Answers) => One(u, Answers)
      /\ ~None(box, Offers)
      /\ One(box, Offers) => None(u, Offers)
  BY <1>1, WithoutHead
<1> HIDE DEF t, u
<1>4. /\ Engaged(box, back) => Engaged(u, t)
      /\ ~Free(box, back)
      /\ Free(back, box) => Free(t, u)
      /\ Engaged(back, box) => Engaged(t, u)
  BY ONLY <1>2, <1>3 DEF Free, Engaged
<1> QED BY <1>4 DEF t, u

\* An answer is taken out of box.
LEMMA AnswerTaken ==
    ASSUME NEW box \in Seq(Message), NEW out \in Seq(Message),
           box # <<>>, Head(box).kind \in Answers
    PROVE  /\ Engaged(out, box) => Free(out, Tail(box))
           /\ ~Free(out, box)
           /\ Free(box, out) => Free(Tail(box), out)
           /\ Engaged(box, out) => Engaged(Tail(box), out)
<1>1. Head(box).kind \notin Offers
  BY DEF Offers, Answers
<1> DEFINE u == Tail(box)
<1>3. /\ None(box, Offers) => None(u, Offers)
      /\ One(box, Offers) => One(u, Offers)
      /\ ~None(box, Answers)
      /\ One(box, Answers) => None(u, Answers)
  BY <1>1, WithoutHead
<1> HIDE DEF u
<1>4. /\ Engaged(out, box) => Free(out, u)
      /\ ~Free(out, box)
      /\ Free(box, out) => Free(u, out)
      /\ Engaged(box, out) => Engaged(u, out)
  BY ONLY <1>3 DEF Free, Engaged
<1> QED BY <1>4 DEF u

----------------------------------------------------------------------------
(* Agreement, when one side moves.                                         *)

\* How far a person has run.
LEMMA RanIs ==
    ASSUME TypeOK, Bounded, NEW x \in Persons, Structured(x)
    PROVE  Ran(x) \in Nat /\ Ran(x) <= Len(events)
<1>1. CASE conn[x] = NoConnection
  <2>1. Ran(x) = 0
    BY <1>1 DEF Ran, Linked
  <2> QED BY <2>1, EventsAre
<1>2. CASE conn[x] # NoConnection
  <2> DEFINE q == conn[x].queue
             d == Done(x)
  <2>1. d \in Nat /\ d <= Len(events) /\ QueueFits(x, d, q) /\ q \in Seq(Task) /\ Ran(x) = RanOf(d, q)
    BY <1>2, LinkedSide
  <2>2. Len(events) \in Nat
    BY EventsAre
  <2> HIDE DEF q, d
  <2>3. CASE q = <<>>
    <3>1. RanOf(d, q) = d
      BY ONLY <2>1, <2>3 DEF RanOf
    <3> QED BY <2>1, <3>1
  <2>4. CASE q # <<>>
    <3>1. RanOf(d, q) \in Nat /\ RanOf(d, q) <= d
      BY ONLY x \in Persons, <2>1, <2>4, HeadFits
    <3> QED BY <2>1, <2>2, <3>1
  <2> QED BY <2>3, <2>4
<1> QED BY <1>1, <1>2

\* While no event is added, IsPublished and Fed speak of the same events.
LEMMA SameEvents ==
    ASSUME events' = events,
           \A p \in Pubs :
              IsPub(p, Ran(Publisher(p))', Published(Publisher(p))' \cup Waiting(Publisher(p))'),
           \A p \in Pubs :
              FedIn(p, Ran(Publisher(p))', Ran(Subscriber(p))', Due(Publisher(p))', Had(Subscriber(p))')
    PROVE  IsPublished' /\ Fed'
<1>1. ASSUME NEW p \in Pubs PROVE
        /\ IsPub(p, Ran(Publisher(p)), Published(Publisher(p)) \cup Waiting(Publisher(p)))'
        /\ FedIn(p, Ran(Publisher(p)), Ran(Subscriber(p)), Due(Publisher(p)), Had(Subscriber(p)))'
  <2>1. IsPub(p, Ran(Publisher(p)), Published(Publisher(p)) \cup Waiting(Publisher(p)))'
    BY DEF IsPub, Current, Begins, Lasts, Ends
  <2>2. FedIn(p, Ran(Publisher(p)), Ran(Subscriber(p)), Due(Publisher(p)), Had(Subscriber(p)))'
    BY DEF FedIn, Begins, Lasts, Ends
  <2> QED BY <2>1, <2>2
<1> QED BY <1>1 DEF IsPublished, Fed

\* One side runs an event.
LEMMA RunAgrees ==
    ASSUME IsPublished, Fed, NEW x \in Persons, NEW y \in Persons, y = Other(x),
           NEW r \in Nat, r = Ran(x), Ran(y) \in Nat, events' = events,
           Ran(x)' = r + 1, ViewSame(y), InBox(x)' = InBox(x),
           \A q \in Pubs : Publisher(q) = x =>
              \/ Ends(r + 1, q) /\ q \notin Due(x)
              \/ /\ ~Ends(r + 1, q)
                 /\ q \in Published(x) \cup Waiting(x) \/ Begins(r + 1, q) =>
                       q \in Published(x)' \cup Waiting(x)'
                 /\ q \in Due(x) \/ Begins(r + 1, q) => q \in Due(x)',
           \A q \in Pubs : Publisher(q) = y => (q \in Had(x) /\ ~Ends(r + 1, q) => q \in Had(x)')
    PROVE  IsPublished' /\ Fed'
<1>0. Other(y) = x /\ y # x /\ \A z \in Persons : z = x \/ z = y
  BY TwoPersons
<1>1. Due(y)' = Due(y)
  BY <1>0 DEF ViewSame, Due
<1>2. ASSUME NEW p \in Pubs PROVE
        /\ IsPub(p, Ran(Publisher(p))', Published(Publisher(p))' \cup Waiting(Publisher(p))')
        /\ FedIn(p, Ran(Publisher(p))', Ran(Subscriber(p))', Due(Publisher(p))', Had(Subscriber(p))')
  <2>1. CASE Publisher(p) = x
    <3>0. Subscriber(p) = y
      BY <2>1, Sides
    <3>1. /\ IsPub(p, r, Published(x) \cup Waiting(x))
          /\ FedIn(p, r, Ran(y), Due(x), Had(y))
      BY <2>1, <3>0 DEF IsPublished, Fed
    <3>2. CASE Ends(r + 1, p) /\ p \notin Due(x)
      <4>1. IsPub(p, r + 1, Published(x)' \cup Waiting(x)')
        BY <3>2, PublishedNoMore
      <4>2. FedIn(p, r + 1, Ran(y), Due(x)', Had(y))
        BY <3>1, <3>2, FedStop
      <4> QED BY <2>1, <3>0, <4>1, <4>2 DEF ViewSame
    <3>3. CASE /\ ~Ends(r + 1, p)
               /\ p \in Published(x) \cup Waiting(x) \/ Begins(r + 1, p) =>
                     p \in Published(x)' \cup Waiting(x)'
               /\ p \in Due(x) \/ Begins(r + 1, p) => p \in Due(x)'
      <4>1. IsPub(p, r + 1, Published(x)' \cup Waiting(x)')
        BY <3>1, <3>3, PublishedOn
      <4>2. FedIn(p, r + 1, Ran(y), Due(x)', Had(y))
        BY <3>1, <3>3, FedStart
      <4> QED BY <2>1, <3>0, <4>1, <4>2 DEF ViewSame
    <3> QED BY <2>1, <3>2, <3>3
  <2>2. CASE Publisher(p) = y
    <3>0. Subscriber(p) = x
      BY <1>0, <2>2, Sides
    <3>1. /\ IsPub(p, Ran(y), Published(y) \cup Waiting(y))
          /\ FedIn(p, Ran(y), r, Due(y), Had(x))
      BY <2>2, <3>0 DEF IsPublished, Fed
    <3>2. FedIn(p, Ran(y), r + 1, Due(y), Had(x)')
      BY <2>2, <3>1, FedRun
    <3> QED BY <1>1, <2>2, <3>0, <3>1, <3>2 DEF ViewSame
  <2> QED BY <1>0, <2>1, <2>2, Sides
<1> QED BY <1>2, SameEvents

\* One side takes a message.
LEMMA MoveAgrees ==
    ASSUME Alternate, IsPublished, Fed, NEW x \in Persons, NEW y \in Persons, y = Other(x),
           Ran(x) \in Nat, Ran(y) \in Nat, events' = events, Ran(x)' = Ran(x), ViewSame(y),
           \A q \in Pubs : Publisher(q) = x =>
              /\ q \in Published(x) \cup Waiting(x) => q \in Published(x)' \cup Waiting(x)'
              /\ q \in Due(x) => q \in Due(x)',
           \A q \in Pubs : Publisher(q) = y =>
              \/ (q \in Due(y) => q \in Due(y)') /\ (q \in Had(x) => q \in Had(x)')
              \/ q \notin Had(x) /\ q \in Had(x)'
    PROVE  IsPublished' /\ Fed'
<1>0. Other(y) = x /\ y # x /\ \A z \in Persons : z = x \/ z = y
  BY TwoPersons
<1>2. ASSUME NEW p \in Pubs PROVE
        /\ IsPub(p, Ran(Publisher(p))', Published(Publisher(p))' \cup Waiting(Publisher(p))')
        /\ FedIn(p, Ran(Publisher(p))', Ran(Subscriber(p))', Due(Publisher(p))', Had(Subscriber(p))')
  <2>1. CASE Publisher(p) = x
    <3>0. Subscriber(p) = y
      BY <2>1, Sides
    <3>1. /\ IsPub(p, Ran(x), Published(x) \cup Waiting(x))
          /\ FedIn(p, Ran(x), Ran(y), Due(x), Had(y))
      BY <2>1, <3>0 DEF IsPublished, Fed
    <3>2. IsPub(p, Ran(x), Published(x)' \cup Waiting(x)')
      BY <2>1, <3>1 DEF IsPub
    <3>3. FedIn(p, Ran(x), Ran(y), Due(x)', Had(y))
      BY <2>1, <3>1, FedSame
    <3> QED BY <2>1, <3>0, <3>2, <3>3 DEF ViewSame
  <2>2. CASE Publisher(p) = y
    <3>0. Subscriber(p) = x
      BY <1>0, <2>2, Sides
    <3>1. /\ IsPub(p, Ran(y), Published(y) \cup Waiting(y))
          /\ FedIn(p, Ran(y), Ran(x), Due(y), Had(x))
      BY <2>2, <3>0 DEF IsPublished, Fed
    <3>2. FedIn(p, Ran(y), Ran(x), Due(y)', Had(x)')
      BY <2>2, <3>1, FedSame, FedOffered
    <3> QED BY <2>2, <3>0, <3>1, <3>2 DEF ViewSame
  <2> QED BY <1>0, <2>1, <2>2, Sides
<1> QED BY <1>2, SameEvents

\* Nothing moves that the other side could see.
LEMMA SameAgrees ==
    ASSUME Agreement, events' = events,
           \A z \in Persons : InBox(z)' = InBox(z) /\ ViewSame(z)
    PROVE  Agreement'
<1>0. ASSUME NEW z \in Persons PROVE Due(z)' = Due(z)
  BY TwoPersons DEF ViewSame, Due
<1>1. ASSUME NEW p \in Pubs PROVE
        /\ IsPub(p, Ran(Publisher(p))', Published(Publisher(p))' \cup Waiting(Publisher(p))')
        /\ FedIn(p, Ran(Publisher(p))', Ran(Subscriber(p))', Due(Publisher(p))', Had(Subscriber(p))')
  <2> DEFINE x == Publisher(p)
             y == Subscriber(p)
  <2>1. x \in Persons /\ y \in Persons
    BY Sides
  <2>2. IsPub(p, Ran(x), Published(x) \cup Waiting(x)) /\ FedIn(p, Ran(x), Ran(y), Due(x), Had(y))
    BY DEF Agreement, IsPublished, Fed
  <2> HIDE DEF x, y
  <2>3. /\ Ran(x)' = Ran(x) /\ Published(x)' = Published(x) /\ Waiting(x)' = Waiting(x)
        /\ Due(x)' = Due(x) /\ Ran(y)' = Ran(y) /\ Had(y)' = Had(y)
    BY <1>0, <2>1 DEF ViewSame
  <2> QED BY <2>2, <2>3 DEF x, y
<1>2. IsPublished' /\ Fed'
  BY <1>1, SameEvents
<1>3. Exchange'
  BY TwoPersons DEF Agreement, Exchange, ViewSame
<1> QED BY <1>2, <1>3 DEF Agreement

\* The exchange, when both boxes stay and nobody begins or ends a negotiation.
LEMMA SameExchange ==
    ASSUME Exchange, \A z \in Persons : InBox(z)' = InBox(z) /\ (Negotiates(z)' <=> Negotiates(z))
    PROVE  Exchange'
BY TwoPersons DEF Exchange

\* An event has one publication and one kind.
LEMMA OneEvent ==
    ASSUME NEW i, NEW p, NEW q
    PROVE  /\ Begins(i, p) => ~Ends(i, q) /\ (Begins(i, q) => q = p)
           /\ Ends(i, p) => ~Begins(i, q) /\ (Ends(i, q) => q = p)
BY DEF Begins, Ends

\* The publisher starts p.
LEMMA StartPublishingAgrees ==
    ASSUME TypeOK, Bounded, NEW x \in Persons, \A z \in Persons : Structured(z), Agreement,
           Runnable(conn[x]), StartPublishing(x), events' = events
    PROVE  (\A z \in Persons : Structured(z)') /\ Agreement'
<1> DEFINE p == Head(conn[x].queue).pub
           y == Other(x)
           m == Produce(conn[x], p)
           r == Ran(x)
<1>1. /\ \A z \in Persons : Structured(z)'
      /\ p \in Pubs /\ Publisher(p) = x /\ r \in Nat /\ Begins(r + 1, p)
      /\ Ran(x)' = r + 1 /\ Had(x)' = Had(x) /\ Negotiates(x)' /\ ViewSame(y)
      /\ InBox(x)' = InBox(x) /\ m \in Message /\ m.kind = "produce" /\ m.pub = p
      /\ Negotiates(x) =>
           /\ Published(x)' = Published(x) /\ Waiting(x)' = Waiting(x) \cup {p}
           /\ InBox(y)' = InBox(y)
      /\ ~Negotiates(x) =>
           /\ Published(x)' = Published(x) \cup {p} /\ Waiting(x)' = Waiting(x)
           /\ InBox(y)' = Append(InBox(y), m)
  BY StartPublishingMoves
<1>2. y \in Persons /\ y # x /\ Other(y) = x /\ \A z \in Persons : z = x \/ z = y
  BY TwoPersons
<1>3. InBox(x) \in Seq(Message) /\ InBox(y) \in Seq(Message)
  BY <1>2, InBoxIs
<1>4. Ran(y) \in Nat
  BY <1>2, RanIs
<1> HIDE DEF p, y, m, r
<1>5. \A q \in Pubs : Offering(InBox(y), q) \/ (q = p /\ ~Negotiates(x)) => Offering(InBox(y)', q)
  <2>1. m \in Message /\ InBox(y) \in Seq(Message)
    BY <1>1, <1>3
  <2>2. \A q : /\ Offering(InBox(y), q) => Offering(Append(InBox(y), m), q)
               /\ m.kind = "produce" /\ m.pub = q => Offering(Append(InBox(y), m), q)
    BY ONLY <2>1, WithOneMore
  <2> QED BY <1>1, <2>2
<1>6. \A q \in Pubs : q \in Due(x) \/ q = p => q \in Due(x)'
  <2> SUFFICES ASSUME NEW q \in Pubs, q \in Due(x) \/ q = p PROVE q \in Due(x)'
    OBVIOUS
  <2>1. q \in Waiting(x) \/ Offering(InBox(y), q) \/ q = p
    BY DEF Due, y
  <2>2. q \in Waiting(x)' \/ Offering(InBox(y)', q)
    BY <1>1, <1>5, <2>1
  <2> QED BY <2>2 DEF Due, y
<1>7. \A q \in Pubs : q \in Published(x) \cup Waiting(x) \/ q = p =>
                          q \in Published(x)' \cup Waiting(x)'
  BY <1>1
<1>8. IsPublished' /\ Fed'
  <2>1. \A q \in Pubs : ~Ends(r + 1, q) /\ (Begins(r + 1, q) => q = p)
    BY <1>1, OneEvent
  <2>2. r = Ran(x) /\ y = Other(x) /\ IsPublished /\ Fed
    BY DEF r, y, Agreement
  <2> QED BY <1>1, <1>2, <1>4, <1>6, <1>7, <2>1, <2>2, RunAgrees
<1>9. Exchange'
  <2>1. /\ Negotiates(x) => Engaged(InBox(y), InBox(x))
        /\ ~Negotiates(x) => Free(InBox(y), InBox(x))
        /\ Negotiates(y) => Engaged(InBox(x), InBox(y))
        /\ ~Negotiates(y) => Free(InBox(x), InBox(y))
    BY <1>2 DEF Agreement, Exchange, y
  <2>2. Negotiates(y)' <=> Negotiates(y)
    BY <1>1 DEF ViewSame
  <2>3. m.kind \in Offers
    BY <1>1 DEF Offers
  <2>4. /\ Engaged(InBox(y)', InBox(x))
        /\ Negotiates(y) => Engaged(InBox(x), InBox(y)')
        /\ ~Negotiates(y) => Free(InBox(x), InBox(y)')
    <3>1. m \in Message /\ InBox(y) \in Seq(Message) /\ InBox(x) \in Seq(Message)
      BY <1>1, <1>3
    <3>2. CASE ~Negotiates(x)
      <4>1. /\ Engaged(Append(InBox(y), m), InBox(x))
            /\ Negotiates(y) => Engaged(InBox(x), Append(InBox(y), m))
            /\ ~Negotiates(y) => Free(InBox(x), Append(InBox(y), m))
        BY ONLY <2>1, <2>3, <3>1, <3>2, OfferSent
      <4> QED BY <1>1, <3>2, <4>1
    <3>3. CASE Negotiates(x)
      BY <1>1, <2>1, <3>3
    <3> QED BY <3>2, <3>3
  <2>5. \A z \in Persons : /\ Negotiates(z)' => Engaged(InBox(Other(z))', InBox(z)')
                           /\ ~Negotiates(z)' => Free(InBox(Other(z))', InBox(z)')
    <3>1. Other(x) = y
      BY DEF y
    <3> QED BY <1>1, <1>2, <2>2, <2>4, <3>1
  <2> QED BY <2>5 DEF Exchange, Engaged, Free, None, One
<1> QED BY <1>1, <1>8, <1>9 DEF Agreement

\* It stops p while nothing is negotiated: all it had to offer has been taken.
LEMMA StopPublishingAgrees ==
    ASSUME TypeOK, Bounded, NEW x \in Persons, \A z \in Persons : Structured(z), Agreement,
           Runnable(conn[x]), StopPublishing(x), events' = events,
           "closed" \notin causes', "skipped stop" \notin causes'
    PROVE  (\A z \in Persons : Structured(z)') /\ Agreement'
<1> DEFINE p == Head(conn[x].queue).pub
           y == Other(x)
           m == Unproduce(conn[x], p)
           r == Ran(x)
<1>1. /\ \A z \in Persons : Structured(z)'
      /\ p \in Pubs /\ Publisher(p) = x /\ r \in Nat /\ Ends(r + 1, p)
      /\ Ran(x)' = r + 1 /\ Had(x)' = Had(x) /\ ViewSame(y)
      /\ ~Negotiates(x) /\ Negotiates(x)' /\ Waiting(x) = {} /\ Waiting(x)' = {}
      /\ Published(x)' = Published(x) \ {p}
      /\ InBox(x)' = InBox(x) /\ InBox(y)' = Append(InBox(y), m)
      /\ m \in Message /\ m.kind = "unproduce"
  BY StopPublishingMoves
<1>2. y \in Persons /\ y # x /\ Other(y) = x /\ \A z \in Persons : z = x \/ z = y
  BY TwoPersons
<1>3. InBox(x) \in Seq(Message) /\ InBox(y) \in Seq(Message)
  BY <1>2, InBoxIs
<1>4. Ran(y) \in Nat
  BY <1>2, RanIs
<1> HIDE DEF p, y, m, r
<1>5. /\ Free(InBox(y), InBox(x))
      /\ Negotiates(y) => Engaged(InBox(x), InBox(y))
      /\ ~Negotiates(y) => Free(InBox(x), InBox(y))
  BY <1>1, <1>2 DEF Agreement, Exchange, y
<1>6. Due(x) = {}
  BY <1>1, <1>5 DEF Due, Offering, Free, None, Offers, y
<1>7. IsPublished' /\ Fed'
  <2>1. \A q \in Pubs : ~Begins(r + 1, q) /\ (Ends(r + 1, q) => q = p)
    BY <1>1, OneEvent
  <2>2. r = Ran(x) /\ y = Other(x) /\ IsPublished /\ Fed
    BY DEF r, y, Agreement
  <2>3. \A q \in Pubs : q # p /\ q \in Published(x) \cup Waiting(x) => q \in Published(x)' \cup Waiting(x)'
    BY <1>1
  <2> QED BY <1>1, <1>2, <1>4, <1>6, <2>1, <2>2, <2>3, RunAgrees
<1>8. Exchange'
  <2>1. m.kind \in Offers
    BY <1>1 DEF Offers
  <2>2. Negotiates(y)' <=> Negotiates(y)
    BY <1>1 DEF ViewSame
  <2>3. /\ Engaged(InBox(y)', InBox(x))
        /\ Negotiates(y) => Engaged(InBox(x), InBox(y)')
        /\ ~Negotiates(y) => Free(InBox(x), InBox(y)')
    <3>1. m \in Message /\ InBox(y) \in Seq(Message) /\ InBox(x) \in Seq(Message)
      BY <1>1, <1>3
    <3>2. /\ Engaged(Append(InBox(y), m), InBox(x))
          /\ Negotiates(y) => Engaged(InBox(x), Append(InBox(y), m))
          /\ ~Negotiates(y) => Free(InBox(x), Append(InBox(y), m))
      BY ONLY <1>5, <2>1, <3>1, OfferSent
    <3> QED BY <1>1, <3>2
  <2>4. \A z \in Persons : /\ Negotiates(z)' => Engaged(InBox(Other(z))', InBox(z)')
                           /\ ~Negotiates(z)' => Free(InBox(Other(z))', InBox(z)')
    <3>1. Other(x) = y
      BY DEF y
    <3> QED BY <1>1, <1>2, <2>2, <2>3, <3>1
  <2> QED BY <2>4 DEF Exchange, Engaged, Free, None, One
<1> QED BY <1>1, <1>7, <1>8 DEF Agreement

\* The subscriber's startSubscribing ends.
LEMMA SubscribedAgrees ==
    ASSUME TypeOK, Bounded, NEW x \in Persons, \A z \in Persons : Structured(z), Agreement,
           conn[x] # NoConnection, conn[x].queue # <<>>, Head(conn[x].queue).kind = "startSub",
           conn' = [conn EXCEPT ![x] = Subscribed(conn[x])],
           events' = events, seen' = seen, published' = published, Calm
    PROVE  (\A z \in Persons : Structured(z)') /\ Agreement'
<1> DEFINE p == Head(conn[x].queue).pub
           y == Other(x)
           r == Ran(x)
<1>1. /\ \A z \in Persons : Structured(z)' /\ InBox(z)' = InBox(z)
      /\ p \in Pubs /\ Publisher(p) # x /\ r \in Nat /\ Begins(r + 1, p)
      /\ Ran(x)' = r + 1 /\ Had(x)' = Had(x) /\ ViewSame(y)
      /\ (Negotiates(x)' <=> Negotiates(x)) /\ Waiting(x)' = Waiting(x)
      /\ Published(x)' = Published(x)
  BY SubscribedMoves
<1>2. y \in Persons /\ y # x /\ Other(y) = x /\ \A z \in Persons : z = x \/ z = y
  BY TwoPersons
<1>4. Ran(y) \in Nat
  BY <1>2, RanIs
<1> HIDE DEF p, y, r
<1>6. Due(x)' = Due(x)
  BY <1>1, <1>2 DEF Due, y
<1>7. IsPublished' /\ Fed'
  <2>1. \A q \in Pubs : ~Ends(r + 1, q) /\ (Begins(r + 1, q) => q = p)
    BY <1>1, OneEvent
  <2>2. r = Ran(x) /\ y = Other(x) /\ IsPublished /\ Fed
    BY DEF r, y, Agreement
  <2> QED BY <1>1, <1>2, <1>4, <1>6, <2>1, <2>2, RunAgrees
<1>8. Exchange'
  BY <1>1, <1>2, SameExchange DEF Agreement, ViewSame
<1> QED BY <1>1, <1>7, <1>8 DEF Agreement

\* The subscriber stops p.
LEMMA StopSubscribingAgrees ==
    ASSUME TypeOK, Bounded, NEW x \in Persons, \A z \in Persons : Structured(z), Agreement,
           Runnable(conn[x]), StopSubscribing(x), events' = events, "closed" \notin causes'
    PROVE  (\A z \in Persons : Structured(z)') /\ Agreement'
<1> DEFINE p == Head(conn[x].queue).pub
           y == Other(x)
           r == Ran(x)
<1>1. /\ \A z \in Persons : Structured(z)' /\ InBox(z)' = InBox(z)
      /\ p \in Pubs /\ Publisher(p) # x /\ r \in Nat /\ Ends(r + 1, p)
      /\ Ran(x)' = r + 1 /\ ViewSame(y)
      /\ \A q \in Had(x) : q # p => q \in Had(x)'
      /\ (Negotiates(x)' <=> Negotiates(x)) /\ Waiting(x)' = Waiting(x)
      /\ Published(x)' = Published(x)
  BY StopSubscribingMoves
<1>2. y \in Persons /\ y # x /\ Other(y) = x /\ \A z \in Persons : z = x \/ z = y
  BY TwoPersons
<1>4. Ran(y) \in Nat
  BY <1>2, RanIs
<1> HIDE DEF p, y, r
<1>6. Due(x)' = Due(x)
  BY <1>1, <1>2 DEF Due, y
<1>7. IsPublished' /\ Fed'
  <2>1. \A q \in Pubs : ~Begins(r + 1, q) /\ (Ends(r + 1, q) => q = p)
    BY <1>1, OneEvent
  <2>2. r = Ran(x) /\ y = Other(x) /\ IsPublished /\ Fed
    BY DEF r, y, Agreement
  <2> QED BY <1>1, <1>2, <1>4, <1>6, <2>1, <2>2, RunAgrees
<1>8. Exchange'
  BY <1>1, <1>2, SameExchange DEF Agreement, ViewSame
<1> QED BY <1>1, <1>7, <1>8 DEF Agreement

\* The subscriber takes an offer.
LEMMA OfferedAgrees ==
    ASSUME TypeOK, Bounded, Alternate, NEW x \in Persons, \A z \in Persons : Structured(z), Agreement,
           Offered(x), events' = events, "early offer" \notin causes'
    PROVE  (\A z \in Persons : Structured(z)') /\ Agreement'
<1> DEFINE m == Head(InBox(x))
           y == Other(x)
           ans == [kind |-> "answer", from |-> conn[x].id, to |-> m.from]
<1>1. /\ \A z \in Persons : Structured(z)'
      /\ InBox(x) # <<>> /\ m \in Message /\ m.kind \in Offers /\ ans \in Message
      /\ InBox(x)' = Tail(InBox(x)) /\ InBox(y)' = Append(InBox(y), ans)
      /\ ViewSame(y) /\ Ran(x)' = Ran(x) /\ Published(x)' = Published(x)
      /\ Waiting(x)' = Waiting(x) /\ (Negotiates(x)' <=> Negotiates(x))
      /\ Had(x) \subseteq Had(x)'
      /\ m.kind = "produce" => m.pub \notin Had(x) /\ m.pub \in Had(x)'
  BY OfferedMoves
<1>0. ans.kind = "answer"
  OBVIOUS
<1>2. y \in Persons /\ y # x /\ Other(y) = x /\ Other(x) = y /\ \A z \in Persons : z = x \/ z = y
  BY TwoPersons
<1>3. InBox(x) \in Seq(Message) /\ InBox(y) \in Seq(Message)
  BY <1>2, InBoxIs
<1>4. Ran(x) \in Nat /\ Ran(y) \in Nat
  BY <1>2, RanIs
<1> HIDE DEF y, ans
<1>5. \A q : Offering(InBox(y), q) => Offering(InBox(y)', q)
  <2>1. \A q : Offering(InBox(y), q) => Offering(Append(InBox(y), ans), q)
    BY ONLY <1>1, <1>3, WithOneMore
  <2> QED BY <1>1, <2>1
<1>6. \A q : ~(m.kind = "produce" /\ m.pub = q) => (Offering(InBox(x), q) => Offering(InBox(x)', q))
  <2>1. \A q : ~(m.kind = "produce" /\ m.pub = q) /\ ~Offering(Tail(InBox(x)), q) => ~Offering(InBox(x), q)
    BY ONLY <1>1, <1>3, WithoutHead
  <2> QED BY <1>1, <2>1
<1> HIDE DEF m
<1>7. \A q \in Pubs : q \in Due(x) => q \in Due(x)'
  BY <1>1, <1>2, <1>5 DEF Due
<1>8. \A q \in Pubs : ~(m.kind = "produce" /\ m.pub = q) => (q \in Due(y) => q \in Due(y)')
  BY <1>1, <1>2, <1>6 DEF Due, ViewSame
<1>9. IsPublished' /\ Fed'
  <2>1. \A q \in Pubs : \/ (q \in Due(y) => q \in Due(y)') /\ (q \in Had(x) => q \in Had(x)')
                        \/ q \notin Had(x) /\ q \in Had(x)'
    BY <1>1, <1>8
  <2>2. IsPublished /\ Fed
    BY DEF Agreement
  <2>3. \A q \in Pubs : /\ q \in Published(x) \cup Waiting(x) => q \in Published(x)' \cup Waiting(x)'
                        /\ q \in Due(x) => q \in Due(x)'
    BY <1>1, <1>7
  <2> QED BY <1>1, <1>2, <1>4, <2>1, <2>2, <2>3, MoveAgrees
<1>10. Exchange'
  <2>1. /\ Negotiates(x) => Engaged(InBox(y), InBox(x))
        /\ ~Negotiates(x) => Free(InBox(y), InBox(x))
        /\ Negotiates(y) => Engaged(InBox(x), InBox(y))
        /\ ~Negotiates(y) => Free(InBox(x), InBox(y))
    BY <1>2 DEF Agreement, Exchange
  <2>2. /\ Negotiates(y)' <=> Negotiates(y)
        /\ Negotiates(x)' <=> Negotiates(x)
    BY <1>1 DEF ViewSame
  <2>3. ans.kind \in Answers /\ Head(InBox(x)).kind \in Offers
    BY <1>0, <1>1 DEF Answers, m
  <2>4. /\ Engaged(InBox(x), InBox(y)) => Engaged(Tail(InBox(x)), Append(InBox(y), ans))
        /\ ~Free(InBox(x), InBox(y))
        /\ Free(InBox(y), InBox(x)) => Free(Append(InBox(y), ans), Tail(InBox(x)))
        /\ Engaged(InBox(y), InBox(x)) => Engaged(Append(InBox(y), ans), Tail(InBox(x)))
    BY ONLY <1>1, <1>3, <2>3, OfferTaken
  <2>5. /\ Negotiates(y)' /\ Engaged(InBox(x)', InBox(y)')
        /\ Negotiates(x)' => Engaged(InBox(y)', InBox(x)')
        /\ ~Negotiates(x)' => Free(InBox(y)', InBox(x)')
    BY <1>1, <2>1, <2>2, <2>4
  <2>6. \A z \in Persons : /\ Negotiates(z)' => Engaged(InBox(Other(z))', InBox(z)')
                           /\ ~Negotiates(z)' => Free(InBox(Other(z))', InBox(z)')
    BY <1>2, <2>5
  <2> QED BY <2>6 DEF Exchange, Engaged, Free, None, One
<1> QED BY <1>1, <1>9, <1>10 DEF Agreement

\* The publisher takes the answer; what waits first, if anything, is offered next.
LEMMA AnsweredAgrees ==
    ASSUME TypeOK, Bounded, Alternate, NEW x \in Persons, \A z \in Persons : Structured(z), Agreement,
           Answered(x), events' = events
    PROVE  (\A z \in Persons : Structured(z)') /\ Agreement'
<1> DEFINE m == Head(InBox(x))
           y == Other(x)
           p == Head(conn[x].pending).pub
           o == Produce(conn[x], p)
<1>1. /\ \A z \in Persons : Structured(z)'
      /\ InBox(x) # <<>> /\ m \in Message /\ m.kind = "answer" /\ Negotiates(x)
      /\ InBox(x)' = Tail(InBox(x))
      /\ ViewSame(y) /\ Ran(x)' = Ran(x) /\ Had(x)' = Had(x)
  BY AnsweredMoves
<1>0. \/ /\ ~Negotiates(x)' /\ Published(x)' = Published(x)
         /\ Waiting(x) = {} /\ Waiting(x)' = {} /\ InBox(y)' = InBox(y)
      \/ /\ Negotiates(x)' /\ Published(x)' = Published(x) \cup {p}
         /\ Waiting(x) = Waiting(x)' \cup {p} /\ o \in Message
         /\ o.kind = "produce" /\ o.pub = p /\ InBox(y)' = Append(InBox(y), o)
  BY AnsweredMoves
<1>2. y \in Persons /\ y # x /\ Other(y) = x /\ Other(x) = y /\ \A z \in Persons : z = x \/ z = y
  BY TwoPersons
<1>3. InBox(x) \in Seq(Message) /\ InBox(y) \in Seq(Message)
  BY <1>2, InBoxIs
<1>4. Ran(x) \in Nat /\ Ran(y) \in Nat
  BY <1>2, RanIs
<1> HIDE DEF y, p, o
<1>5. \A q : q \in Waiting(x) \/ Offering(InBox(y), q) => q \in Waiting(x)' \/ Offering(InBox(y)', q)
  <2>1. o \in Message => \A q : /\ Offering(InBox(y), q) => Offering(Append(InBox(y), o), q)
                                /\ o.kind = "produce" /\ o.pub = q => Offering(Append(InBox(y), o), q)
    BY ONLY <1>3, WithOneMore
  <2> QED BY <1>0, <2>1
<1>6. \A q : Offering(InBox(x), q) => Offering(InBox(x)', q)
  <2>1. \A q : ~(m.kind = "produce" /\ m.pub = q) /\ ~Offering(Tail(InBox(x)), q) => ~Offering(InBox(x), q)
    BY ONLY <1>1, <1>3, WithoutHead
  <2> QED BY <1>1, <2>1
<1> HIDE DEF m
<1>7. \A q \in Pubs : q \in Due(x) => q \in Due(x)'
  BY <1>2, <1>5 DEF Due
<1>8. \A q \in Pubs : q \in Due(y) => q \in Due(y)'
  BY <1>1, <1>2, <1>6 DEF Due, ViewSame
<1>9. IsPublished' /\ Fed'
  <2>1. \A q \in Pubs : (q \in Due(y) => q \in Due(y)') /\ (q \in Had(x) => q \in Had(x)')
    BY <1>1, <1>8
  <2>2. IsPublished /\ Fed
    BY DEF Agreement
  <2>3. \A q \in Pubs : /\ q \in Published(x) \cup Waiting(x) => q \in Published(x)' \cup Waiting(x)'
                        /\ q \in Due(x) => q \in Due(x)'
    BY <1>0, <1>7
  <2> QED BY <1>1, <1>2, <1>4, <2>1, <2>2, <2>3, MoveAgrees
<1>10. Exchange'
  <2>1. /\ Engaged(InBox(y), InBox(x))
        /\ Negotiates(y) => Engaged(InBox(x), InBox(y))
        /\ ~Negotiates(y) => Free(InBox(x), InBox(y))
    BY <1>1, <1>2 DEF Agreement, Exchange
  <2>2. Negotiates(y)' <=> Negotiates(y)
    BY <1>1 DEF ViewSame
  <2>3. Head(InBox(x)).kind \in Answers
    BY <1>1 DEF Answers, m
  <2>4. /\ Free(InBox(y), InBox(x)')
        /\ Negotiates(y) => Engaged(InBox(x)', InBox(y))
        /\ ~Negotiates(y) => Free(InBox(x)', InBox(y))
    <3>1. /\ Engaged(InBox(y), InBox(x)) => Free(InBox(y), Tail(InBox(x)))
          /\ Free(InBox(x), InBox(y)) => Free(Tail(InBox(x)), InBox(y))
          /\ Engaged(InBox(x), InBox(y)) => Engaged(Tail(InBox(x)), InBox(y))
      BY ONLY <1>1, <1>3, <2>3, AnswerTaken
    <3> QED BY <1>1, <2>1, <3>1
  <2>5. /\ Negotiates(x)' => Engaged(InBox(y)', InBox(x)')
        /\ ~Negotiates(x)' => Free(InBox(y)', InBox(x)')
        /\ Negotiates(y)' => Engaged(InBox(x)', InBox(y)')
        /\ ~Negotiates(y)' => Free(InBox(x)', InBox(y)')
    <3>1. CASE ~Negotiates(x)' /\ InBox(y)' = InBox(y)
      BY <2>2, <2>4, <3>1
    <3>2. CASE /\ Negotiates(x)' /\ o \in Message /\ o.kind = "produce"
               /\ InBox(y)' = Append(InBox(y), o)
      <4>1. o.kind \in Offers
        BY <3>2 DEF Offers
      <4>2. InBox(x)' \in Seq(Message)
        BY <1>1, <1>3
      <4>3. /\ Free(InBox(y), InBox(x)') => Engaged(Append(InBox(y), o), InBox(x)')
            /\ Free(InBox(x)', InBox(y)) => Free(InBox(x)', Append(InBox(y), o))
            /\ Engaged(InBox(x)', InBox(y)) => Engaged(InBox(x)', Append(InBox(y), o))
        BY ONLY <1>3, <3>2, <4>1, <4>2, OfferSent
      <4> QED BY <2>2, <2>4, <3>2, <4>3
    <3> QED BY <1>0, <3>1, <3>2
  <2>6. \A z \in Persons : /\ Negotiates(z)' => Engaged(InBox(Other(z))', InBox(z)')
                           /\ ~Negotiates(z)' => Free(InBox(Other(z))', InBox(z)')
    BY <1>2, <2>5
  <2> QED BY <2>6 DEF Exchange, Engaged, Free, None, One
<1> QED BY <1>1, <1>9, <1>10 DEF Agreement

\* An answer that comes is awaited.
LEMMA NoAnswerRefused ==
    ASSUME TypeOK, Bounded, NEW x \in Persons, \A z \in Persons : Structured(z), Agreement,
           AnswerRefused(x)
    PROVE  FALSE
<1>1. /\ toward[x] # <<>> /\ conn[x] \in Connection /\ Head(toward[x]).kind = "answer"
      /\ ~conn[x].isNegotiating \/ Head(toward[x]).to # conn[x].id
  BY AnswerRefusedDoes
<1>2. conn[x] # NoConnection
  BY <1>1, ConnectionIs
<1>3. conn[x].id = 1 /\ (Negotiates(x) <=> conn[x].isNegotiating) /\ InBox(x) = toward[x]
      /\ OfFirst(InBox(x))
  BY <1>2, LinkedSide
<1>4. InBox(x) \in Seq(Message) /\ InBox(Other(x)) \in Seq(Message)
  BY TwoPersons, InBoxIs
<1>5. Head(InBox(x)).to = 1
  BY ONLY <1>1, <1>3, <1>4, WithoutHead
<1>6. ~Negotiates(x)
  BY <1>1, <1>3, <1>5
<1>7. Free(InBox(Other(x)), InBox(x))
  BY <1>6 DEF Agreement, Exchange
<1>8. Head(InBox(x)).kind \in Answers /\ InBox(x) # <<>>
  BY <1>1, <1>3 DEF Answers
<1>9. ~None(InBox(x), Answers)
  BY ONLY <1>4, <1>8, WithoutHead
<1> QED BY <1>7, <1>9 DEF Free

----------------------------------------------------------------------------
(* The server adds an event.                                               *)

\* What is said of the events up to r is said of them still.
LEMMA Timeline ==
    ASSUME NEW n \in Nat, n = Len(events), Len(events') \in Nat, n <= Len(events'),
           \A i \in 1..n : events'[i] = events[i]
    PROVE  /\ \A q : \A i \in 1..n : (Begins(i, q)' <=> Begins(i, q)) /\ (Ends(i, q)' <=> Ends(i, q))
           /\ \A q : \A a, r \in Nat : r <= n => (Lasts(q, a, r)' <=> Lasts(q, a, r))
<1>1. \A q : \A i \in 1..n : (Begins(i, q)' <=> Begins(i, q)) /\ (Ends(i, q)' <=> Ends(i, q))
  BY DEF Begins, Ends
<1>2. ASSUME NEW q, NEW a \in Nat, NEW r \in Nat, r <= n PROVE Lasts(q, a, r)' <=> Lasts(q, a, r)
  <2>1. ASSUME Lasts(q, a, r), NEW i \in 1..Len(events'), a < i, i <= r PROVE ~Ends(i, q)'
    <3>0. i \in Nat /\ 1 <= i
      OBVIOUS
    <3>1. i \in 1..n
      <4>1. i <= r
        BY <2>1
      <4> QED BY ONLY r \in Nat, n \in Nat, r <= n, <3>0, <4>1
    <3> QED BY <1>1, <2>1, <3>1 DEF Lasts
  <2>2. ASSUME Lasts(q, a, r)', NEW i \in 1..Len(events), a < i, i <= r PROVE ~Ends(i, q)
    <3>1. i \in 1..n /\ i \in 1..Len(events')
      OBVIOUS
    <3>2. ~Ends(i, q)'
      BY <2>2, <3>1 DEF Lasts
    <3> QED BY <1>1, <3>1, <3>2
  <2> QED BY <2>1, <2>2 DEF Lasts
<1> QED BY <1>1, <1>2

\* What the invariant says of the events so far is not changed by a further event.
LEMMA LongerTimeline ==
    ASSUME NEW n \in Nat, n = Len(events), Len(events') \in Nat, n <= Len(events'),
           \A i \in 1..n : events'[i] = events[i],
           NEW p, NEW r \in Nat, r <= n, NEW s \in Nat, s <= n, NEW S, NEW D, NEW H
    PROVE  /\ IsPub(p, r, S) => IsPub(p, r, S)'
           /\ FedIn(p, r, s, D, H) => FedIn(p, r, s, D, H)'
<1>1. /\ \A i \in 1..n : (Begins(i, p)' <=> Begins(i, p)) /\ (Ends(i, p)' <=> Ends(i, p))
      /\ \A a, t \in Nat : t <= n => (Lasts(p, a, t)' <=> Lasts(p, a, t))
  BY Timeline
<1>2. ASSUME IsPub(p, r, S), NEW a \in 1..Len(events'), a <= r, Begins(a, p)', Lasts(p, a, r)'
      PROVE  p \in S
  <2>1. a \in 1..n /\ a \in Nat /\ a \in 1..Len(events)
    BY <1>2
  <2>2. Begins(a, p) /\ Lasts(p, a, r)
    BY <1>1, <1>2, <2>1
  <2> QED BY <1>2, <2>1, <2>2 DEF IsPub, Current
<1>3. ASSUME FedIn(p, r, s, D, H), NEW a \in 1..Len(events'), Begins(a, p)', a <= r,
             ~Lasts(p, a, r)' \/ p \notin D, Lasts(p, a, s)'
      PROVE  p \in H /\ \A i \in 1..Len(events') : i < a /\ Ends(i, p)' => i <= s
  <2>1. a \in 1..n /\ a \in Nat /\ a \in 1..Len(events)
    BY <1>3
  <2>2. Begins(a, p) /\ Lasts(p, a, s) /\ (~Lasts(p, a, r) \/ p \notin D)
    BY <1>1, <1>3, <2>1
  <2>3. p \in H /\ \A i \in 1..Len(events) : i < a /\ Ends(i, p) => i <= s
    BY <1>3, <2>1, <2>2 DEF FedIn
  <2>4. ASSUME NEW i \in 1..Len(events'), i < a, Ends(i, p)' PROVE i <= s
    <3>1. i \in 1..n /\ i \in 1..Len(events)
      BY <2>1, <2>4
    <3> QED BY <1>1, <2>3, <2>4, <3>1
  <2> QED BY <2>3, <2>4
<1> QED BY <1>2, <1>3 DEF IsPub, Current, FedIn

\* A subscription is begun or ended: nobody has run that event yet.
LEMMA SubscribeAgrees ==
    ASSUME TypeOK, Bounded, \A z \in Persons : Structured(z), Agreement,
           NEW p \in Pubs, Subscribe(p)
    PROVE  (\A z \in Persons : Structured(z)') /\ Agreement'
<1>1. /\ Len(events) \in Nat /\ events' \in Seq(Event) /\ Len(events') = Len(events) + 1
      /\ \A i \in 1..Len(events) : events'[i] = events[i]
      /\ UNCHANGED <<seen, handling, published, starting, conn, made, buffer, toward, history>>
  BY SubscribeDoes
<1>2. Len(events') \in Nat /\ Len(events) <= Len(events')
  BY <1>1
<1>3. \A z \in Persons : Structured(z)' /\ InBox(z)' = InBox(z) /\ ViewSame(z)
  BY <1>1, <1>2, EventsMove
<1>4. ASSUME NEW z \in Persons PROVE Due(z)' = Due(z)
  BY <1>3, TwoPersons DEF ViewSame, Due
<1>5. ASSUME NEW q \in Pubs PROVE
        /\ IsPub(q, Ran(Publisher(q)), Published(Publisher(q)) \cup Waiting(Publisher(q)))'
        /\ FedIn(q, Ran(Publisher(q)), Ran(Subscriber(q)), Due(Publisher(q)), Had(Subscriber(q)))'
  <2> DEFINE x == Publisher(q)
             y == Subscriber(q)
  <2>1. x \in Persons /\ y \in Persons
    BY Sides
  <2>2. IsPub(q, Ran(x), Published(x) \cup Waiting(x)) /\ FedIn(q, Ran(x), Ran(y), Due(x), Had(y))
    BY DEF Agreement, IsPublished, Fed
  <2> HIDE DEF x, y
  <2>3. Ran(x) \in Nat /\ Ran(x) <= Len(events) /\ Ran(y) \in Nat /\ Ran(y) <= Len(events)
    BY <2>1, RanIs
  <2>4. PICK n \in Nat, r \in Nat, s \in Nat :
          n = Len(events) /\ r = Ran(x) /\ s = Ran(y) /\ r <= n /\ s <= n
    BY <1>1, <2>3
  <2>5. PICK S, D, H : S = Published(x) \cup Waiting(x) /\ D = Due(x) /\ H = Had(y)
    OBVIOUS
  <2>6. IsPub(q, r, S) /\ FedIn(q, r, s, D, H)
    BY <2>2, <2>4, <2>5
  <2>7. IsPub(q, r, S)' /\ FedIn(q, r, s, D, H)'
    BY <1>1, <1>2, <2>4, <2>6, LongerTimeline
  <2>8. /\ r = Ran(x)' /\ s = Ran(y)' /\ S = Published(x)' \cup Waiting(x)'
        /\ D = Due(x)' /\ H = Had(y)'
    BY <1>3, <1>4, <2>1, <2>4, <2>5 DEF ViewSame
  <2>9. IsPub(q, Ran(x), Published(x) \cup Waiting(x))'
    BY <2>7, <2>8 DEF IsPub, Current
  <2>10. FedIn(q, Ran(x), Ran(y), Due(x), Had(y))'
    BY <2>7, <2>8 DEF FedIn
  <2> QED BY <2>9, <2>10 DEF x, y
<1>6. IsPublished' /\ Fed'
  BY <1>5 DEF IsPublished, Fed
<1>7. Exchange'
  BY <1>3, SameExchange DEF Agreement, ViewSame
<1> QED BY <1>3, <1>6, <1>7 DEF Agreement

\* The server ends only what is active.
LEMMA SubscribeAlternates ==
    ASSUME TypeOK, Bounded, Alternate, NEW p \in Pubs, Subscribe(p)
    PROVE  Alternate'
<1>0. PICK n \in Nat : n = Len(events)
  BY EventsAre
<1>1. /\ Len(events') = n + 1
      /\ \A i \in 1..n : events'[i] = events[i]
      /\ events'[n + 1].pub = p
      /\ events'[n + 1].kind = IF Active(p) THEN "unsubscribed" ELSE "subscribed"
  BY <1>0, SubscribeDoes
<1>2. /\ \A q : \A i \in 1..n : (Begins(i, q)' <=> Begins(i, q)) /\ (Ends(i, q)' <=> Ends(i, q))
      /\ \A q : \A a, r \in Nat : r <= n => (Lasts(q, a, r)' <=> Lasts(q, a, r))
  BY <1>0, <1>1, Timeline
<1> SUFFICES ASSUME NEW q \in Pubs, NEW i \in 1..Len(events'), Ends(i, q)'
             PROVE  \E a \in 1..Len(events') : a < i /\ Begins(a, q)' /\ Lasts(q, a, i - 1)'
  BY DEF Alternate
<1>3. CASE i \in 1..n
  <2>1. Ends(i, q)
    BY <1>2, <1>3
  <2>2. PICK a \in 1..Len(events) : a < i /\ Begins(a, q) /\ Lasts(q, a, i - 1)
    BY <1>0, <1>3, <2>1 DEF Alternate
  <2>3. a \in 1..n /\ a \in Nat /\ i - 1 \in Nat /\ i - 1 <= n /\ a \in 1..Len(events')
    BY <1>0, <1>1, <1>3, <2>2
  <2> QED BY <1>2, <2>2, <2>3
<1>4. CASE i = n + 1
  <2>1. q = p /\ Active(p)
    BY <1>1, <1>4 DEF Ends
  <2>2. PICK a \in 1..Len(events) : Begins(a, p) /\ Lasts(p, a, Len(events))
    BY <2>1, ActiveBegins
  <2>3. a \in 1..n /\ a \in Nat /\ a < i /\ i - 1 = n /\ n <= n /\ a \in 1..Len(events')
    BY <1>0, <1>1, <1>4, <2>2
  <2> QED BY <1>0, <1>2, <2>1, <2>2, <2>3
<1> QED BY <1>1, <1>3, <1>4

----------------------------------------------------------------------------
(* The invariant holds at first, and every step keeps it.                  *)

\* The inductive invariant holds at the beginning.
LEMMA InitIInv == Init => IInv
<1> SUFFICES ASSUME Init PROVE IInv
  OBVIOUS
<1>1. TypeOK /\ Bounded /\ Kept
  BY InitKeeps
<1>2. /\ events = <<>> /\ Len(events) = 0
      /\ \A x \in Persons : /\ seen[x] = 0 /\ handling[x] = {} /\ starting[x] = {}
                            /\ conn[x] = NoConnection /\ made[x] = 0
                            /\ buffer[x] = <<>> /\ toward[x] = <<>>
  BY DEF Init
<1>3. Alternate
  BY <1>2 DEF Alternate
<1>4. ASSUME NEW x \in Persons PROVE Structured(x) /\ Ran(x) = 0 /\ InBox(x) = <<>> /\ ~Negotiates(x)
  <2>1. ~Linked(x)
    BY <1>2 DEF Linked
  <2>2. Done(x) = 0
    <3>1. (CHOOSE e \in 0..0 : (0 + 1)..0 = (e + 1)..0) = 0
      BY ONLY DoneIs
    <3>2. (0 + 1)..0 = {}
      OBVIOUS
    <3>3. (CHOOSE e \in 0..0 : {} = (e + 1)..0) = 0
      BY ONLY <3>1, <3>2
    <3> QED BY <1>2, <3>3 DEF Done
  <2>3. InOrder(x)
    <3>1. 0 \in 0..0 /\ {} = (0 + 1)..0
      OBVIOUS
    <3>2. starting[x] = {} /\ seen[x] = 0 /\ handling[x] = {}
      BY <1>2
    <3> QED BY ONLY <2>2, <3>1, <3>2 DEF InOrder
  <2>4. InBox(x) = <<>>
    BY <1>2 DEF InBox
  <2>5. OnlyConnection(x)
    BY <1>2, <2>1, <2>2, <2>4 DEF OnlyConnection, OfFirst
  <2>6. TasksFit(x) /\ OnlyAdditions(x)
    BY <2>1 DEF TasksFit, OnlyAdditions
  <2> QED BY <2>1, <2>3, <2>4, <2>5, <2>6 DEF Structured, Ran, Negotiates
<1>5. IsPublished
  BY <1>2 DEF IsPublished, IsPub, Current
<1>6. Fed
  BY <1>2 DEF Fed, FedIn
<1>7. Exchange
  BY <1>4, TwoPersons DEF Exchange, Free, None
<1> QED BY <1>1, <1>3, <1>4, <1>5, <1>6, <1>7 DEF IInv, Agreement

\* Only the server adds events, and what has happened has happened.
LEMMA StepsAre ==
    ASSUME TypeOK, Bounded, Next
    PROVE  /\ events' = events \/ \E p \in Pubs : Subscribe(p)
           /\ causes \subseteq causes'
<1>1. ASSUME NEW p \in Pubs, Subscribe(p) \/ Publish(p)
      PROVE  (events' = events \/ Subscribe(p)) /\ causes' = causes
  BY <1>1 DEF Subscribe, Publish, history
<1>2. ASSUME NEW x \in Persons, Run(x)
      PROVE  events' = events /\ causes \subseteq causes'
  <2>1. CASE StartPublishing(x)
    BY <2>1 DEF StartPublishing, channel
  <2>2. CASE StopPublishing(x)
    BY <2>2 DEF StopPublishing, channel
  <2>3. CASE StartSubscribing(x)
    BY <2>3 DEF StartSubscribing, channel, history
  <2>4. CASE StopSubscribing(x)
    BY <2>4 DEF StopSubscribing, channel
  <2> QED BY <1>2, <2>1, <2>2, <2>3, <2>4 DEF Run
<1>3. ASSUME NEW x \in Persons, Sent(x) \/ WaitTimeout(x) \/ Receive(x)
      PROVE  events' = events /\ causes \subseteq causes'
  BY <1>3 DEF Sent, WaitTimeout, Receive, channel, history
<1>4. ASSUME NEW x \in Persons, NEW i \in 1..MaxEvents, Handle(x, i)
      PROVE  events' = events /\ causes \subseteq causes'
  BY <1>4, HandleDoes
<1>5. ASSUME NEW x \in Persons, NEW p \in Pubs, StreamPublished(x, p)
      PROVE  events' = events /\ causes \subseteq causes'
  BY <1>5 DEF StreamPublished, channel, history
<1>6. ASSUME NEW x \in Persons, NoListener(x) \/ AnswerRefused(x)
      PROVE  events' = events /\ causes \subseteq causes'
  BY <1>6 DEF NoListener, AnswerRefused, channel, history
<1>7. ASSUME NEW x \in Persons, Offered(x)
      PROVE  events' = events /\ causes \subseteq causes'
  BY <1>7 DEF Offered, channel
<1>8. ASSUME NEW x \in Persons, Answered(x)
      PROVE  events' = events /\ causes \subseteq causes'
  BY <1>8 DEF Answered, channel
<1> QED BY <1>1, <1>2, <1>3, <1>4, <1>5, <1>6, <1>7, <1>8 DEF Next

\* While nothing disturbs them, the two sides keep agreeing.
LEMMA NextAgrees ==
    ASSUME TypeOK, Bounded, Alternate, \A z \in Persons : Structured(z), Agreement, Next, Undisturbed'
    PROVE  (\A z \in Persons : Structured(z)') /\ Agreement'
<1>0. /\ "closed" \notin causes' /\ "overtaken" \notin causes' /\ "late stream" \notin causes'
      /\ "skipped stop" \notin causes' /\ "early offer" \notin causes'
  BY DEF Undisturbed, Disturbances
<1>1. ASSUME NEW p \in Pubs, Subscribe(p)
      PROVE  (\A z \in Persons : Structured(z)') /\ Agreement'
  BY <1>1, SubscribeAgrees
<1>2. ASSUME NEW p \in Pubs, Publish(p)
      PROVE  (\A z \in Persons : Structured(z)') /\ Agreement'
  <2>1. UNCHANGED <<events, seen, handling, starting, conn, made, buffer, toward>>
    BY <1>2 DEF Publish
  <2>2. Len(events) \in Nat /\ Len(events') \in Nat /\ Len(events) <= Len(events')
    BY <2>1, EventsAre
  <2>3. \A z \in Persons : Structured(z)' /\ InBox(z)' = InBox(z) /\ ViewSame(z)
    BY <2>1, <2>2, EventsMove
  <2> QED BY <2>1, <2>3, SameAgrees
<1>3. ASSUME NEW x \in Persons, Run(x)
      PROVE  (\A z \in Persons : Structured(z)') /\ Agreement'
  <2>0. Runnable(conn[x]) /\ conn[x] # NoConnection /\ conn[x].queue # <<>>
    BY <1>3 DEF Run, Runnable
  <2>1. CASE StartPublishing(x)
    <3>1. events' = events
      BY <2>1 DEF StartPublishing, channel
    <3> QED BY <2>0, <2>1, <3>1, StartPublishingAgrees
  <2>2. CASE StopPublishing(x)
    <3>1. events' = events
      BY <2>2 DEF StopPublishing, channel
    <3> QED BY <1>0, <2>0, <2>2, <3>1, StopPublishingAgrees
  <2>3. CASE StartSubscribing(x)
    <3>1. /\ Head(conn[x].queue).kind = "startSub"
          /\ conn' = [conn EXCEPT ![x] = Subscribed(conn[x])]
          /\ events' = events /\ seen' = seen /\ published' = published /\ Calm
      BY <2>3 DEF StartSubscribing, channel, history, Calm, Unmoved
    <3> QED BY <2>0, <3>1, SubscribedAgrees
  <2>4. CASE StopSubscribing(x)
    <3>1. events' = events
      BY <2>4 DEF StopSubscribing, channel
    <3> QED BY <1>0, <2>0, <2>4, <3>1, StopSubscribingAgrees
  <2> QED BY <1>3, <2>1, <2>2, <2>3, <2>4 DEF Run
<1>4. ASSUME NEW x \in Persons, Sent(x)
      PROVE  (\A z \in Persons : Structured(z)') /\ Agreement'
  <2>1. events' = events
    BY <1>4 DEF Sent, channel
  <2> QED BY <1>4, <2>1, SentMoves, SameAgrees
<1>5. ASSUME NEW x \in Persons, WaitTimeout(x)
      PROVE  (\A z \in Persons : Structured(z)') /\ Agreement'
  <2>1. /\ conn[x] # NoConnection /\ conn[x].queue # <<>>
        /\ Head(conn[x].queue).kind = "startSub"
        /\ conn' = [conn EXCEPT ![x] = Subscribed(conn[x])]
        /\ events' = events /\ seen' = seen /\ published' = published /\ Calm
    BY <1>5 DEF WaitTimeout, channel, Calm, Unmoved
  <2> QED BY <2>1, SubscribedAgrees
<1>6. ASSUME NEW x \in Persons, Receive(x)
      PROVE  (\A z \in Persons : Structured(z)') /\ Agreement'
  <2>1. events' = events
    BY <1>6 DEF Receive
  <2> QED BY <1>6, <2>1, ReceiveMoves, SameAgrees
<1>7. ASSUME NEW x \in Persons, NEW i \in 1..MaxEvents, Handle(x, i)
      PROVE  (\A z \in Persons : Structured(z)') /\ Agreement'
  <2>1. events' = events
    BY <1>7 DEF Handle
  <2> QED BY <1>0, <1>7, <2>1, HandleMoves, SameAgrees
<1>8. ASSUME NEW x \in Persons, NEW p \in Pubs, StreamPublished(x, p)
      PROVE  FALSE
  BY <1>8 DEF StreamPublished, Structured, InOrder
<1>9. ASSUME NEW x \in Persons, NoListener(x)
      PROVE  (\A z \in Persons : Structured(z)') /\ Agreement'
  <2>1. events' = events
    BY <1>9 DEF NoListener, channel
  <2> QED BY <1>9, <2>1, NoListenerMoves, SameAgrees
<1>10. ASSUME NEW x \in Persons, Offered(x)
      PROVE  (\A z \in Persons : Structured(z)') /\ Agreement'
  <2>1. events' = events
    BY <1>10 DEF Offered, channel
  <2> QED BY <1>0, <1>10, <2>1, OfferedAgrees
<1>11. ASSUME NEW x \in Persons, AnswerRefused(x)
      PROVE  FALSE
  BY <1>11, NoAnswerRefused
<1>12. ASSUME NEW x \in Persons, Answered(x)
      PROVE  (\A z \in Persons : Structured(z)') /\ Agreement'
  <2>1. events' = events
    BY <1>12 DEF Answered, channel
  <2> QED BY <1>12, <2>1, AnsweredAgrees
<1> QED BY <1>1, <1>2, <1>3, <1>4, <1>5, <1>6, <1>7, <1>8, <1>9, <1>10, <1>11, <1>12 DEF Next

\* Every step keeps it.
LEMMA NextIInv == IInv /\ [Next]_vars => IInv'
<1> SUFFICES ASSUME IInv, [Next]_vars PROVE IInv'
  OBVIOUS
<1>0. TypeOK /\ Bounded /\ Kept /\ Alternate
      /\ (Undisturbed => (\A x \in Persons : Structured(x)) /\ Agreement)
  BY DEF IInv
<1>1. CASE Next
  <2>1. TypeOK' /\ Bounded' /\ Kept'
    <3>1. ASSUME NEW x \in Persons, NoListener(x) \/ Offered(x) \/ AnswerRefused(x) \/ Answered(x)
          PROVE  TypeOK' /\ Bounded' /\ Kept'
      BY <1>0, <3>1, MessageKeeps
    <3>2. ASSUME NEW x \in Persons, Run(x) \/ Sent(x) \/ WaitTimeout(x) \/ Receive(x)
          PROVE  TypeOK' /\ Bounded' /\ Kept'
      BY <1>0, <3>2, RunKeeps, SentKeeps, ChannelKeeps
    <3>3. ASSUME NEW x \in Persons, NEW i \in 1..MaxEvents, Handle(x, i)
          PROVE  TypeOK' /\ Bounded' /\ Kept'
      BY <1>0, <3>3, HandleKeeps
    <3>4. ASSUME NEW x \in Persons, NEW p \in Pubs, StreamPublished(x, p)
          PROVE  TypeOK' /\ Bounded' /\ Kept'
      BY <1>0, <3>4, StreamPublishedKeeps
    <3>5. ASSUME NEW p \in Pubs, Subscribe(p) \/ Publish(p)
          PROVE  TypeOK' /\ Bounded' /\ Kept'
      BY <1>0, <3>5, ChannelKeeps
    <3> QED BY <1>1, <3>1, <3>2, <3>3, <3>4, <3>5 DEF Next
  <2>2. (events' = events \/ \E p \in Pubs : Subscribe(p)) /\ causes \subseteq causes'
    BY <1>0, <1>1, StepsAre
  <2>3. Alternate'
    <3>1. CASE events' = events
      BY <1>0, <3>1 DEF Alternate, Begins, Ends, Lasts
    <3> QED BY <1>0, <2>2, <3>1, SubscribeAlternates
  <2>4. Undisturbed' => Undisturbed
    BY <2>2 DEF Undisturbed
  <2>5. Undisturbed' => (\A x \in Persons : Structured(x)') /\ Agreement'
    BY <1>0, <1>1, <2>4, NextAgrees
  <2> QED BY <2>1, <2>3, <2>5 DEF IInv
<1>2. CASE UNCHANGED vars
  <2>1. UNCHANGED <<events, seen, handling, published, starting, conn, made, buffer, toward,
                    sent, handled, causes>>
    BY <1>2 DEF vars, channel, history
  <2>2. TypeOK' /\ Bounded' /\ Kept' /\ Alternate'
    <3>1. TypeOK' /\ Bounded'
      BY <1>0, <2>1 DEF TypeOK, Bounded, Numbered
    <3>2. Kept'
      BY <1>0, <2>1 DEF Kept, KeptFor
    <3>3. Alternate'
      BY <1>0, <2>1 DEF Alternate, Begins, Ends, Lasts
    <3> QED BY <3>1, <3>2, <3>3
  <2>3. Undisturbed' => Undisturbed
    BY <2>1 DEF Undisturbed
  <2>4. Undisturbed' => (\A x \in Persons : Structured(x)') /\ Agreement'
    <3> SUFFICES ASSUME Undisturbed' PROVE (\A x \in Persons : Structured(x)') /\ Agreement'
      OBVIOUS
    <3>1. (\A x \in Persons : Structured(x)) /\ Agreement
      BY <1>0, <2>3
    <3>2. Len(events) \in Nat /\ Len(events') \in Nat /\ Len(events) <= Len(events')
      BY <1>0, <2>1, EventsAre
    <3>3. \A z \in Persons : Structured(z)' /\ InBox(z)' = InBox(z) /\ ViewSame(z)
      BY <1>0, <2>1, <3>1, <3>2, EventsMove
    <3> QED BY <2>1, <3>1, <3>3, SameAgrees
  <2> QED BY <2>2, <2>4 DEF IInv
<1> QED BY <1>1, <1>2

\* It holds in every state.
LEMMA SpecIInv == Spec => []IInv
BY InitIInv, NextIInv, PTL DEF Spec

----------------------------------------------------------------------------
(* The theorems.                                                           *)

\* For every number of publications, events and connections: until a person closes a
\* connection, every signaling message sent to a person is given to a connection of his,
\* waits in his MessageBuffer or is on its way, once and in order; and the state is
\* well-formed.
THEOREM NothingIsLost == Spec => []NothingLost
<1>1. IInv => NothingLost
  BY DEF IInv, Kept, KeptFor, NothingLost
<1> QED BY <1>1, SpecIInv, PTL

\* When everything has been received and handled, each person has a connection with
\* nothing to offer, and has run all events unless his queue holds some.
LEMMA AtTheEnd ==
    ASSUME IInv, Undisturbed, Len(events) > 0, NEW x \in Persons,
           \A z \in Persons : toward[z] = <<>> /\ seen[z] = Len(events) /\ handling[z] = {}
    PROVE  /\ conn[x] \in Connection /\ conn[x] # NoConnection /\ Structured(x)
           /\ Waiting(x) = {} /\ Due(x) = {} /\ Ran(x) \in Nat
           /\ conn[x].queue = <<>> => Ran(x) = Len(events)
<1>0. TypeOK /\ Bounded /\ (\A z \in Persons : Structured(z)) /\ Agreement
  BY DEF IInv
<1>1. Len(events) \in Nat
  BY <1>0, EventsAre
<1>2. ASSUME NEW z \in Persons PROVE Done(z) = Len(events) /\ Linked(z)
  <2>1. Done(z) \in 0..Len(events) /\ (Done(z) + 1)..Len(events) = {}
    BY <1>0 DEF Structured, InOrder
  <2> DEFINE d == Done(z)
             n == Len(events)
  <2> HIDE DEF d, n
  <2>2. d = n
    <3>1. n \in Nat /\ d \in 0..n /\ (d + 1)..n = {}
      BY <1>1, <2>1 DEF d, n
    <3> QED BY ONLY <3>1
  <2>3. Done(z) # 0
    BY <1>1, <2>2 DEF d, n
  <2> QED BY <1>0, <2>2, <2>3 DEF d, n, Structured, OnlyConnection
<1>3. ASSUME NEW z \in Persons PROVE InBox(z) = <<>>
  <2>1. conn[z] # NoConnection
    BY <1>2 DEF Linked
  <2> QED BY <1>0, <2>1, LinkedSide
<1>4. ~Negotiates(x)
  BY <1>0, <1>3, TwoPersons DEF Agreement, Exchange, Engaged, One
<1>5. conn[x] # NoConnection /\ conn[x] \in Connection
  <2>1. conn[x] # NoConnection
    BY <1>2 DEF Linked
  <2> QED BY <1>0, <2>1, LinkedSide
<1>6. Waiting(x) = {}
  <2>1. conn[x].pending = <<>> /\ Waiting(x) = PubsIn(conn[x].pending) /\ conn[x].pending \in Seq(Op)
    BY <1>0, <1>4, <1>5, LinkedSide
  <2> QED BY ONLY <2>1, PubsInMoves
<1>7. Due(x) = {}
  BY <1>3, <1>6, TwoPersons DEF Due, Offering
<1>8. Ran(x) \in Nat
  BY <1>0, RanIs
<1>9. ASSUME conn[x].queue = <<>> PROVE Ran(x) = Len(events)
  <2>1. Ran(x) = RanOf(Done(x), conn[x].queue)
    BY <1>0, <1>5, LinkedSide
  <2> QED BY <1>1, <1>2, <1>9, <2>1 DEF RanOf
<1> QED BY <1>0, <1>5, <1>6, <1>7, <1>8, <1>9

\* For every number of publications, events and connections: when everything has been
\* handled and no disturbance came between, the stream of each subscription flows from the
\* connection that publishes it to the one that subscribes to it.
THEOREM MediaFlow == Spec => []MediaFlows
<1>1. IInv => MediaFlows
  <2> SUFFICES ASSUME IInv, AtRest, Undisturbed, NEW p \in Pubs, Active(p)
               PROVE  Flows(p)
    BY DEF MediaFlows
  <2> DEFINE x == Publisher(p)
             y == Subscriber(p)
             n == Len(events)
  <2>0. TypeOK /\ Bounded /\ Agreement
    BY DEF IInv
  <2>1. x \in Persons /\ y \in Persons
    BY Sides
  <2>2. n \in Nat
    BY <2>0, EventsAre
  <2>3. PICK a \in 1..n : Begins(a, p) /\ Lasts(p, a, n)
    BY <2>0, ActiveBegins
  <2>4. n > 0
    BY <2>2, <2>3
  <2>5. \A z \in Persons : toward[z] = <<>> /\ seen[z] = n /\ handling[z] = {}
    BY DEF AtRest
  <2> HIDE DEF x, y
  <2>6. ASSUME NEW z \in Persons
        PROVE  /\ conn[z] \in Connection /\ conn[z] # NoConnection /\ Structured(z)
               /\ Waiting(z) = {} /\ Due(z) = {} /\ Ran(z) = n
    <3>1. /\ conn[z] \in Connection /\ conn[z] # NoConnection /\ Structured(z)
          /\ Waiting(z) = {} /\ Due(z) = {}
          /\ conn[z].queue = <<>> => Ran(z) = n
      BY <2>4, <2>5, AtTheEnd
    <3> QED BY <3>1 DEF AtRest
  <2>7. p \in conn[x].publications
    <3>1. IsPub(p, Ran(x), Published(x) \cup Waiting(x))
      BY <2>0 DEF Agreement, IsPublished, x
    <3>2. Current(p, n)
      BY <2>2, <2>3 DEF Current
    <3>3. Published(x) = conn[x].publications
      BY <2>1, <2>6 DEF Published, Linked
    <3> QED BY <2>1, <2>6, <3>1, <3>2, <3>3 DEF IsPub
  <2>8. p \in Had(y)
    <3>1. FedIn(p, Ran(x), Ran(y), Due(x), Had(y))
      BY <2>0 DEF Agreement, Fed, x, y
    <3>2. FedIn(p, n, n, {}, Had(y))
      BY <2>1, <2>6, <3>1
    <3> QED BY <2>2, <2>3, <3>2 DEF FedIn
  <2>9. <<p, 1>> \in conn[y].streams
    <3>1. Had(y) = Streams(conn[y]) /\ \A s \in conn[y].streams : s[2] = 1
      BY <2>0, <2>1, <2>6, LinkedSide
    <3>2. PICK s \in conn[y].streams : s[1] = p /\ s[2] = 1
      BY <2>8, <3>1 DEF Streams
    <3>3. s \in Pubs \X (1..MaxConnections)
      BY <2>1, <2>6, ConnectionIs
    <3>4. s = <<p, 1>>
      BY <3>2, <3>3
    <3> QED BY <3>4
  <2>10. conn[x].id = 1
    BY <2>0, <2>1, <2>6, LinkedSide
  <2> QED BY <2>1, <2>6, <2>7, <2>9, <2>10 DEF Flows, x, y
<1> QED BY <1>1, SpecIInv, PTL

\* For every number of publications, events and connections: when nothing more is on its
\* way and no disturbance came between, no queue is stuck waiting for a stream.  Of the
\* events at which the two persons could wait, the earlier one is of a subscription whose
\* start the other has already run.
THEOREM NobodyWaits == Spec => []NobodyStaysWaiting
<1>1. IInv => NobodyStaysWaiting
  <2> SUFFICES ASSUME IInv, Quiet, Undisturbed, NEW x \in Persons, Waits(x) PROVE FALSE
    BY DEF NobodyStaysWaiting
  <2> DEFINE y == Other(x)
             n == Len(events)
  <2>0. TypeOK /\ Bounded /\ Agreement /\ \A z \in Persons : Structured(z)
    BY DEF IInv
  <2>1. y \in Persons /\ y # x /\ \A z \in Persons : z = x \/ z = y
    BY TwoPersons
  <2>2. n \in Nat
    BY <2>0, EventsAre
  <2> HIDE DEF y
  <2>3. ASSUME NEW z \in Persons, Waits(z)
        PROVE  \E p \in Pubs : /\ Begins(Ran(z) + 1, p) /\ Publisher(p) # z
                               /\ p \notin Had(z) /\ Ran(z) + 1 \in 1..n
    <3> DEFINE p == Head(conn[z].queue).pub
    <3>1. /\ conn[z] # NoConnection /\ conn[z].queue # <<>>
          /\ Head(conn[z].queue).kind = "startSub" /\ p \notin Streams(conn[z])
      BY <2>3 DEF Waits
    <3>2. /\ p \in Pubs /\ Ran(z) + 1 \in 1..Len(events)
          /\ Begins(Ran(z) + 1, p) /\ Publisher(p) # z
      BY <2>0, <3>1, HeadEvent
    <3>3. p \notin Had(z)
      BY <3>1 DEF Had
    <3> QED BY <3>2, <3>3
  <2>4. n > 0
    <3>1. PICK p \in Pubs : Ran(x) + 1 \in 1..n
      BY <2>3
    <3> QED BY <2>2, <3>1
  <2>5. \A z \in Persons : toward[z] = <<>> /\ seen[z] = n /\ handling[z] = {}
    BY DEF Quiet
  <2>6. ASSUME NEW z \in Persons
        PROVE  Due(z) = {} /\ Ran(z) \in Nat /\ (Waits(z) \/ Ran(z) = n)
    <3>1. /\ conn[z] # NoConnection /\ Due(z) = {} /\ Ran(z) \in Nat
          /\ conn[z].queue = <<>> => Ran(z) = n
      BY <2>4, <2>5, AtTheEnd
    <3> QED BY <3>1 DEF Quiet
  <2>7. ASSUME NEW z \in Persons, NEW w \in Persons, w # z, Waits(z)
        PROVE  Ran(w) < Ran(z) + 1
    <3>1. PICK p \in Pubs : /\ Begins(Ran(z) + 1, p) /\ Publisher(p) # z
                            /\ p \notin Had(z) /\ Ran(z) + 1 \in 1..n
      BY <2>3, <2>7
    <3>2. Publisher(p) = w /\ Subscriber(p) = z
      BY <2>1, <2>7, <3>1, Sides
    <3>3. FedIn(p, Ran(w), Ran(z), {}, Had(z))
      BY <2>0, <2>6, <2>7, <3>2 DEF Agreement, Fed
    <3>4. Lasts(p, Ran(z) + 1, Ran(z))
      BY <2>6, <2>7 DEF Lasts
    <3>5. ~(Ran(z) + 1 <= Ran(w))
      BY <3>1, <3>3, <3>4 DEF FedIn
    <3> QED BY <2>6, <2>7, <3>5
  <2>8. Ran(y) < Ran(x) + 1 /\ Ran(x) + 1 <= n
    <3>1. PICK p \in Pubs : Ran(x) + 1 \in 1..n
      BY <2>3
    <3> QED BY <2>1, <2>2, <2>7, <3>1
  <2>9. Waits(y)
    BY <2>1, <2>2, <2>6, <2>8
  <2>10. Ran(x) < Ran(y) + 1
    BY <2>1, <2>7, <2>9
  <2>11. Ran(x) = Ran(y)
    BY <2>1, <2>6, <2>8, <2>10
  <2>12. PICK p \in Pubs : Begins(Ran(x) + 1, p) /\ Publisher(p) # x
    BY <2>3
  <2>13. PICK q \in Pubs : Begins(Ran(y) + 1, q) /\ Publisher(q) # y
    BY <2>1, <2>3, <2>9
  <2>14. p = q
    BY <2>11, <2>12, <2>13 DEF Begins
  <2> QED BY <2>1, <2>12, <2>13, <2>14, Sides
<1> QED BY <1>1, SpecIInv, PTL
=============================================================================
