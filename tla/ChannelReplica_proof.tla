------------------------ MODULE ChannelReplica_proof ------------------------
(***************************************************************************)
(* Proofs about ChannelReplica, for every channel, snapshot and bound:     *)
(* what ChannelImpl shows is a state that the channel had, what            *)
(* SkyWayChannelImpl shows beside it was overtaken, and no request waits   *)
(* for an event that has been applied.                                     *)
(*                                                                         *)
(* The invariant says how the events on their way lead from the replica to *)
(* the server's state: each is reported once, and can be applied when its  *)
(* turn comes.                                                             *)
(*                                                                         *)
(* The second half is about PublicationState.                              *)
(***************************************************************************)
EXTENDS ChannelReplica, PublicationState, SequenceTheorems, TLAPS

Events == [type : {"added", "removed", "closed"}, obj : Object \cup {All}]

\* An event of this type about o is before the i-th.
Before(i, type, o) == \E j \in 1..(i - 1) : events[j].type = type /\ events[j].obj = o

\* The event is about an object, and nothing else reports it again.
ReportedOnce ==
    \A i, j \in 1..Len(events) :
        events[i].type # "closed" =>
            /\ events[i].obj \in Object
            /\ events[i].type = events[j].type /\ events[i].obj = events[j].obj => i = j

\* When its turn comes, what is removed is there, and what the added object needs is.
InOrder ==
    \A i \in 1..Len(events) :
        LET o == events[i].obj
        IN  /\ events[i].type = "removed" => o \in replica \/ Before(i, "added", o)
            /\ events[i].type = "added" =>
                  \A x \in Needs(o) : (x \in replica \/ Before(i, "added", x)) /\ ~Before(i, "removed", x)

\* The events are what the server did since the replica was its state.
Stream ==
    /\ server \cap gone = {}
    /\ Pending("removed") \subseteq gone
    /\ Pending("added") \subseteq server \cup Pending("removed")
    /\ replica = (server \cup Pending("removed")) \ Pending("added")
    /\ ReportedOnce
    /\ InOrder

\* What is to be put into the channel's lists is in the replica, or was overtaken.
Views ==
    /\ GhostsWereOvertaken
    /\ \A o \in Object : adding[o] = "got" => o \in replica \cup overtaken

\* Each request that was executed has left its trace.
Waits ==
    /\ NoMissedEvent
    /\ \A o \in Object : adding[o] = "executed" => o \in server \cup gone
    /\ closing \in {"executed", "watching"} => ~exists
    /\ ~exists => state = "closed" \/ All \in Pending("closed")

\* Nobody else joins by this client.
OwnJoins == \A m \in Members \ LocalMembers : adding[m] = "none"

IInv == TypeOK /\ OwnJoins /\ Stream /\ Views /\ Waits

-----------------------------------------------------------------------------
(* The queue of events                                                     *)

(***************************************************************************)
(* What is pending, by the positions of the events.                        *)
(***************************************************************************)
LEMMA PendingAt ==
    ASSUME events \in Seq(Events), NEW type, NEW o
    PROVE  o \in Pending(type) <=> \E i \in 1..Len(events) : events[i].type = type /\ events[i].obj = o
BY DEF Pending

LEMMA PendingAtNext ==
    ASSUME events' \in Seq(Events), NEW type, NEW o
    PROVE  o \in Pending(type)' <=> \E i \in 1..Len(events') : events'[i].type = type /\ events'[i].obj = o
BY DEF Pending

(***************************************************************************)
(* A report is added at the end.                                           *)
(***************************************************************************)
LEMMA Reported ==
    ASSUME events \in Seq(Events), NEW type \in {"added", "removed", "closed"},
           NEW o \in Object \cup {All}, Report(type, o)
    PROVE  /\ events' \in Seq(Events)
           /\ Len(events') = Len(events) + 1
           /\ \A i \in 1..Len(events) : events'[i] = events[i]
           /\ events'[Len(events) + 1].type = type /\ events'[Len(events) + 1].obj = o
           /\ \A t : Pending(t)' = IF t = type THEN Pending(t) \cup {o} ELSE Pending(t)
           /\ \A i \in 1..Len(events) : \A t, x : Before(i, t, x)' <=> Before(i, t, x)
           /\ \A i, t, x : i = Len(events) + 1 => (Before(i, t, x)' <=> x \in Pending(t))
<1>1. Event(type, o) \in Events /\ Event(type, o).type = type /\ Event(type, o).obj = o
  BY DEF Event, Events
<1>2. events' = Append(events, Event(type, o))
  BY DEF Report
<1>3. /\ events' \in Seq(Events)
      /\ Len(events') = Len(events) + 1
      /\ \A i \in 1..Len(events) : events'[i] = events[i]
      /\ events'[Len(events) + 1] = Event(type, o)
  BY <1>1, <1>2
<1>4. ASSUME NEW t, NEW x
      PROVE  x \in Pending(t)' <=> x \in Pending(t) \/ (t = type /\ x = o)
  <2>1. x \in Pending(t)' <=> \E i \in 1..(Len(events) + 1) : events'[i].type = t /\ events'[i].obj = x
    BY <1>3, PendingAtNext
  <2>2. x \in Pending(t) <=> \E i \in 1..Len(events) : events[i].type = t /\ events[i].obj = x
    BY PendingAt
  <2>3. 1..(Len(events) + 1) = 1..Len(events) \cup {Len(events) + 1}
    OBVIOUS
  <2> QED BY <1>1, <1>3, <2>1, <2>2, <2>3
<1>5. ASSUME NEW t PROVE Pending(t)' = IF t = type THEN Pending(t) \cup {o} ELSE Pending(t)
  <2> DEFINE next == Pending(t)'
             now  == Pending(t)
  <2>1. \A x : x \in next <=> x \in IF t = type THEN now \cup {o} ELSE now
    BY <1>4
  <2> QED BY <2>1 DEF Pending
<1>6. ASSUME NEW i \in 1..Len(events), NEW t, NEW x PROVE Before(i, t, x)' <=> Before(i, t, x)
  BY <1>3 DEF Before
<1>7. ASSUME NEW i, NEW t, NEW x, i = Len(events) + 1 PROVE Before(i, t, x)' <=> x \in Pending(t)
  <2>1. x \in Pending(t) <=> \E j \in 1..Len(events) : events[j].type = t /\ events[j].obj = x
    BY PendingAt
  <2>2. 1..(i - 1) = 1..Len(events)
    BY <1>7
  <2> QED BY <1>3, <2>1, <2>2 DEF Before
<1> QED BY <1>1, <1>3, <1>5, <1>6, <1>7

(***************************************************************************)
(* The first event is taken; nothing else reports what it reports.         *)
(***************************************************************************)
LEMMA Taken ==
    ASSUME events \in Seq(Events), events # <<>>, events' = Tail(events), ReportedOnce,
           NEW type, NEW o, Head(events).type = type, Head(events).obj = o
    PROVE  /\ events' \in Seq(Events)
           /\ Len(events) \in Nat \ {0}
           /\ type \in {"added", "removed", "closed"} /\ o \in Object \cup {All}
           /\ events[1].type = type /\ events[1].obj = o
           /\ Len(events') = Len(events) - 1
           /\ \A i \in 1..Len(events') : events'[i] = events[i + 1]
           /\ \A t : t # type => Pending(t)' = Pending(t)
           /\ o \in Pending(type)
           /\ type # "closed" => Pending(type)' = Pending(type) \ {o}
           /\ \A i \in 1..Len(events') : \A t, x :
                 Before(i + 1, t, x) <=> Before(i, t, x)' \/ (t = type /\ x = o)
<1>1. /\ events' \in Seq(Events)
      /\ Len(events) \in Nat \ {0}
      /\ Head(events) = events[1] /\ events[1] \in Events
      /\ Len(events') = Len(events) - 1
      /\ \A i \in 1..Len(events') : events'[i] = events[i + 1]
  OBVIOUS
<1>2. /\ type \in {"added", "removed", "closed"} /\ o \in Object \cup {All}
      /\ events[1].type = type /\ events[1].obj = o
  BY <1>1 DEF Events
<1>3. ASSUME NEW t, NEW x
      PROVE  x \in Pending(t) <=> x \in Pending(t)' \/ (t = type /\ x = o)
  <2>1. x \in Pending(t)' <=> \E i \in 1..Len(events') : events'[i].type = t /\ events'[i].obj = x
    BY <1>1, PendingAtNext
  <2>2. x \in Pending(t) <=> \E i \in 1..Len(events) : events[i].type = t /\ events[i].obj = x
    BY PendingAt
  <2>3. ASSUME x \in Pending(t)' PROVE x \in Pending(t)
    BY <1>1, <2>1, <2>2, <2>3
  <2>4. ASSUME NEW i \in 1..Len(events), events[i].type = t, events[i].obj = x, i # 1
        PROVE  x \in Pending(t)'
    <3>1. i - 1 \in 1..Len(events') /\ events'[i - 1] = events[i]
      BY <1>1, <2>4
    <3> QED BY <2>1, <2>4, <3>1
  <2> QED BY <1>1, <1>2, <2>2, <2>3, <2>4
<1>4. ASSUME type # "closed" PROVE o \notin Pending(type)'
  <2>1. \A t, x : x \in Pending(t)' <=> \E i \in 1..Len(events') : events'[i].type = t /\ events'[i].obj = x
    BY <1>1, PendingAtNext
  <2> QED BY <1>1, <1>2, <1>4, <2>1 DEF ReportedOnce
<1>5. ASSUME NEW t, t # type PROVE Pending(t)' = Pending(t)
  <2> DEFINE next == Pending(t)'
             now  == Pending(t)
  <2>1. \A x : x \in next <=> x \in now
    BY <1>3, <1>5
  <2> QED BY <2>1 DEF Pending
<1>6. ASSUME type # "closed" PROVE Pending(type)' = Pending(type) \ {o}
  <2> DEFINE next == Pending(type)'
             now  == Pending(type)
  <2>1. \A x : x \in next <=> x \in now \ {o}
    BY <1>3, <1>4, <1>6
  <2> QED BY <2>1 DEF Pending
<1>7. o \in Pending(type)
  BY <1>3
<1>8. ASSUME NEW i \in 1..Len(events'), NEW t, NEW x
      PROVE  Before(i + 1, t, x) <=> Before(i, t, x)' \/ (t = type /\ x = o)
  <2>1. Before(i, t, x)' <=> \E j \in 1..(i - 1) : events'[j].type = t /\ events'[j].obj = x
    BY DEF Before
  <2>2. Before(i + 1, t, x) <=> \E j \in 1..i : events[j].type = t /\ events[j].obj = x
    BY <1>1 DEF Before
  <2>3. ASSUME NEW j \in 1..(i - 1) PROVE j + 1 \in 1..i /\ events'[j] = events[j + 1]
    BY <1>1
  <2>4. ASSUME NEW j \in 1..i, j # 1 PROVE j - 1 \in 1..(i - 1) /\ events[j] = events'[j - 1]
    BY <1>1, <2>4
  <2>5. 1 \in 1..i
    BY <1>1
  <2> QED BY <1>2, <2>1, <2>2, <2>3, <2>4, <2>5
<1> QED BY <1>1, <1>2, <1>5, <1>6, <1>7, <1>8

-----------------------------------------------------------------------------
(* The stream of events                                                    *)

LEMMA NeedsType == ASSUME NEW o \in Object PROVE Needs(o) \subseteq Object
BY KindsAreDisjoint, OwnersAreMembers DEF Object, Needs

(***************************************************************************)
(* What the server creates is new, and what it needs is there.             *)
(***************************************************************************)
LEMMA CreateKeepsStream ==
    ASSUME TypeOK, Stream, NEW o \in Object, Create(o), replica' = replica
    PROVE  /\ server' \subseteq Object /\ gone' = gone /\ exists' = exists
           /\ events' \in Seq(Events)
           /\ Stream'
           /\ o \in server' /\ server \subseteq server'
           /\ \A t : Pending(t)' = IF t = "added" THEN Pending(t) \cup {o} ELSE Pending(t)
<1>0. events \in Seq(Events)
  BY DEF TypeOK, Events
<1>1. Report("added", o)
  BY DEF Create
<1> DEFINE n == Len(events)
<1>2. /\ events' \in Seq(Events)
      /\ n \in Nat
      /\ Len(events') = n + 1
      /\ \A i \in 1..n : events'[i] = events[i]
      /\ \A i : i = n + 1 => events'[i].type = "added" /\ events'[i].obj = o
      /\ \A t : Pending(t)' = IF t = "added" THEN Pending(t) \cup {o} ELSE Pending(t)
      /\ \A i \in 1..n : \A t, x : Before(i, t, x)' <=> Before(i, t, x)
      /\ \A i, t, x : i = n + 1 => (Before(i, t, x)' <=> x \in Pending(t))
  BY <1>0, <1>1, Reported
<1>3. /\ o \notin server \cup gone
      /\ Needs(o) \subseteq server
      /\ server' = server \cup {o} /\ gone' = gone /\ exists' = exists
  BY DEF Create
<1>4. o \notin Pending("added") /\ o \notin Pending("removed") /\ o \notin replica
  BY <1>3 DEF Stream
<1>5. ReportedOnce'
  <2> SUFFICES ASSUME NEW i \in 1..Len(events'), NEW j \in 1..Len(events'),
                      events'[i].type # "closed"
               PROVE  /\ events'[i].obj \in Object
                      /\ events'[i].type = events'[j].type /\ events'[i].obj = events'[j].obj => i = j
    BY DEF ReportedOnce
  <2>1. ASSUME NEW k \in 1..n PROVE events'[k].type # "added" \/ events'[k].obj # o
    BY <1>0, <1>2, <1>4, PendingAt
  <2>2. CASE i \in 1..n /\ j \in 1..n
    BY <1>2, <2>2 DEF ReportedOnce, Stream
  <2>3. CASE i = n + 1 /\ j \in 1..n
    BY <1>2, <2>1, <2>3
  <2>4. CASE i \in 1..n /\ j = n + 1
    <3>1. events'[i].obj \in Object
      BY <1>2, <2>4 DEF ReportedOnce, Stream
    <3> QED BY <1>2, <2>1, <2>4, <3>1
  <2>5. CASE i = n + 1 /\ j = n + 1
    BY <1>2, <2>5
  <2> QED BY <1>2, <2>2, <2>3, <2>4, <2>5
<1>6. InOrder'
  <2> SUFFICES ASSUME NEW i \in 1..Len(events')
               PROVE  /\ events'[i].type = "removed" => events'[i].obj \in replica \/ Before(i, "added", events[i].obj)'
                      /\ events'[i].type = "added" =>
                            \A x \in Needs(events'[i].obj) : (x \in replica \/ Before(i, "added", x)') /\ ~Before(i, "removed", x)'
    BY DEF InOrder
  <2>1. CASE i \in 1..n
    <3>1. events'[i] = events[i]
      BY <1>2, <2>1
    <3> QED BY <1>2, <2>1, <3>1 DEF Stream, InOrder
  <2>2. CASE i = n + 1
    <3>1. \A x \in server : (x \in replica \/ x \in Pending("added")) /\ x \notin Pending("removed")
      BY DEF Stream
    <3> QED BY <1>2, <1>3, <2>2, <3>1
  <2> QED BY <1>2, <2>1, <2>2
<1>7. Pending("added")' = Pending("added") \cup {o} /\ Pending("removed")' = Pending("removed")
  BY <1>2
<1>8. Stream'
  BY <1>3, <1>4, <1>5, <1>6, <1>7 DEF Stream
<1> QED BY <1>2, <1>3, <1>8 DEF TypeOK

(***************************************************************************)
(* What the server deletes is in the replica, or will be.                  *)
(***************************************************************************)
LEMMA DeleteKeepsStream ==
    ASSUME TypeOK, Stream, NEW o \in Object, Delete(o), replica' = replica
    PROVE  /\ server' \subseteq Object /\ gone' = gone \cup {o} /\ exists' = exists
           /\ events' \in Seq(Events)
           /\ Stream'
           /\ server \subseteq server' \cup gone'
           /\ \A t : Pending(t)' = IF t = "removed" THEN Pending(t) \cup {o} ELSE Pending(t)
<1>0. events \in Seq(Events)
  BY DEF TypeOK, Events
<1>1. Report("removed", o)
  BY DEF Delete
<1> DEFINE n == Len(events)
<1>2. /\ events' \in Seq(Events)
      /\ n \in Nat
      /\ Len(events') = n + 1
      /\ \A i \in 1..n : events'[i] = events[i]
      /\ \A i : i = n + 1 => events'[i].type = "removed" /\ events'[i].obj = o
      /\ \A t : Pending(t)' = IF t = "removed" THEN Pending(t) \cup {o} ELSE Pending(t)
      /\ \A i \in 1..n : \A t, x : Before(i, t, x)' <=> Before(i, t, x)
      /\ \A i, t, x : i = n + 1 => (Before(i, t, x)' <=> x \in Pending(t))
  BY <1>0, <1>1, Reported
<1>3. /\ o \in server
      /\ server' = server \ {o} /\ gone' = gone \cup {o} /\ exists' = exists
  BY DEF Delete
<1>4. o \notin Pending("removed") /\ o \in replica \cup Pending("added")
  BY <1>3 DEF Stream
<1>5. ReportedOnce'
  <2> SUFFICES ASSUME NEW i \in 1..Len(events'), NEW j \in 1..Len(events'),
                      events'[i].type # "closed"
               PROVE  /\ events'[i].obj \in Object
                      /\ events'[i].type = events'[j].type /\ events'[i].obj = events'[j].obj => i = j
    BY DEF ReportedOnce
  <2>1. ASSUME NEW k \in 1..n PROVE events'[k].type # "removed" \/ events'[k].obj # o
    BY <1>0, <1>2, <1>4, PendingAt
  <2>2. CASE i \in 1..n /\ j \in 1..n
    BY <1>2, <2>2 DEF ReportedOnce, Stream
  <2>3. CASE i = n + 1 /\ j \in 1..n
    BY <1>2, <2>1, <2>3
  <2>4. CASE i \in 1..n /\ j = n + 1
    <3>1. events'[i].obj \in Object
      BY <1>2, <2>4 DEF ReportedOnce, Stream
    <3> QED BY <1>2, <2>1, <2>4, <3>1
  <2>5. CASE i = n + 1 /\ j = n + 1
    BY <1>2, <2>5
  <2> QED BY <1>2, <2>2, <2>3, <2>4, <2>5
<1>6. InOrder'
  <2> SUFFICES ASSUME NEW i \in 1..Len(events')
               PROVE  /\ events'[i].type = "removed" => events'[i].obj \in replica \/ Before(i, "added", events[i].obj)'
                      /\ events'[i].type = "added" =>
                            \A x \in Needs(events'[i].obj) : (x \in replica \/ Before(i, "added", x)') /\ ~Before(i, "removed", x)'
    BY DEF InOrder
  <2>1. CASE i \in 1..n
    <3>1. events'[i] = events[i]
      BY <1>2, <2>1
    <3> QED BY <1>2, <2>1, <3>1 DEF Stream, InOrder
  <2>2. CASE i = n + 1
    BY <1>2, <1>4, <2>2
  <2> QED BY <1>2, <2>1, <2>2
<1>7. Pending("added")' = Pending("added") /\ Pending("removed")' = Pending("removed") \cup {o}
  BY <1>2
<1>8. Stream'
  BY <1>3, <1>4, <1>5, <1>6, <1>7 DEF Stream
<1> QED BY <1>2, <1>3, <1>8 DEF TypeOK

(***************************************************************************)
(* The end of the channel says nothing of what was in it.                  *)
(***************************************************************************)
LEMMA DeleteChannelKeepsStream ==
    ASSUME TypeOK, Stream, DeleteChannel, replica' = replica
    PROVE  /\ server' = server /\ gone' = gone /\ exists' = FALSE
           /\ events' \in Seq(Events)
           /\ Stream'
           /\ \A t : Pending(t)' = IF t = "closed" THEN Pending(t) \cup {All} ELSE Pending(t)
<1>0. events \in Seq(Events)
  BY DEF TypeOK, Events
<1>1. Report("closed", All)
  BY DEF DeleteChannel
<1> DEFINE n == Len(events)
<1>2. /\ events' \in Seq(Events)
      /\ n \in Nat
      /\ Len(events') = n + 1
      /\ \A i \in 1..n : events'[i] = events[i]
      /\ \A i : i = n + 1 => events'[i].type = "closed"
      /\ \A t : Pending(t)' = IF t = "closed" THEN Pending(t) \cup {All} ELSE Pending(t)
      /\ \A i \in 1..n : \A t, x : Before(i, t, x)' <=> Before(i, t, x)
  BY <1>0, <1>1, Reported
<1>3. server' = server /\ gone' = gone /\ exists' = FALSE
  BY DEF DeleteChannel
<1>4. ReportedOnce'
  BY <1>2 DEF ReportedOnce, Stream
<1>5. InOrder'
  <2> SUFFICES ASSUME NEW i \in 1..Len(events')
               PROVE  /\ events'[i].type = "removed" => events'[i].obj \in replica \/ Before(i, "added", events[i].obj)'
                      /\ events'[i].type = "added" =>
                            \A x \in Needs(events'[i].obj) : (x \in replica \/ Before(i, "added", x)') /\ ~Before(i, "removed", x)'
    BY DEF InOrder
  <2>1. CASE i \in 1..n
    <3>1. events'[i] = events[i]
      BY <1>2, <2>1
    <3> QED BY <1>2, <2>1, <3>1 DEF Stream, InOrder
  <2>2. CASE i = n + 1
    BY <1>2, <2>2
  <2> QED BY <1>2, <2>1, <2>2
<1>6. Pending("added")' = Pending("added") /\ Pending("removed")' = Pending("removed")
  BY <1>2
<1>7. Stream'
  BY <1>3, <1>4, <1>5, <1>6 DEF Stream
<1> QED BY <1>2, <1>3, <1>7

(***************************************************************************)
(* The next event can always be applied.                                   *)
(***************************************************************************)
LEMMA HeadIsApplicable ==
    ASSUME TypeOK, Stream, events # <<>>
    PROVE  /\ Applicable(Head(events))
           /\ Head(events).type = "removed" => Head(events).obj \in replica
           /\ Head(events).type = "added" => Needs(Head(events).obj) \subseteq replica
<1>1. events \in Seq(Events)
  BY DEF TypeOK, Events
<1>2. Head(events) = events[1] /\ 1 \in 1..Len(events) /\ events[1] \in Events
  BY <1>1
<1>3. ASSUME NEW t, NEW x PROVE ~Before(1, t, x)
  BY DEF Before
<1>4. /\ events[1].type = "removed" => events[1].obj \in replica
      /\ events[1].type = "added" => Needs(events[1].obj) \subseteq replica
  BY <1>2, <1>3 DEF Stream, InOrder
<1>5. CASE events[1].type = "added"
  <2>1. events[1].obj \in Subscriptions => Source[events[1].obj] \in Needs(events[1].obj)
    BY DEF Needs
  <2> QED BY <1>2, <1>4, <1>5, <2>1 DEF Applicable
<1>6. CASE events[1].type # "added"
  BY <1>2, <1>4, <1>6 DEF Applicable, Events
<1> QED BY <1>2, <1>4, <1>5, <1>6

LEMMA HeadIsObject ==
    ASSUME TypeOK, Stream, events # <<>>, Head(events).type # "closed"
    PROVE  Head(events).obj \in Object
<1>1. Head(events) = events[1] /\ 1 \in 1..Len(events)
  BY DEF TypeOK
<1> QED BY <1>1 DEF Stream, ReportedOnce

(***************************************************************************)
(* The replica makes the step that the first event tells of.               *)
(***************************************************************************)
LEMMA ApplyKeepsStream ==
    ASSUME TypeOK, Stream, events # <<>>, events' = Tail(events),
           UNCHANGED <<server, gone>>,
           NEW type, NEW o, Head(events).type = type, Head(events).obj = o,
           replica' = CASE type = "added"   -> replica \cup {o}
                        [] type = "removed" -> replica \ {o}
                        [] type = "closed"  -> replica
    PROVE  Stream'
<1>0. events \in Seq(Events) /\ ReportedOnce
  BY DEF TypeOK, Events, Stream
<1>1. /\ events' \in Seq(Events)
      /\ Len(events) \in Nat \ {0}
      /\ type \in {"added", "removed", "closed"}
      /\ events[1].type = type /\ events[1].obj = o
      /\ Len(events') = Len(events) - 1
      /\ \A i \in 1..Len(events') : events'[i] = events[i + 1]
      /\ \A t : t # type => Pending(t)' = Pending(t)
      /\ o \in Pending(type)
      /\ type # "closed" => Pending(type)' = Pending(type) \ {o}
      /\ \A i \in 1..Len(events') : \A t, x :
            Before(i + 1, t, x) <=> Before(i, t, x)' \/ (t = type /\ x = o)
  BY <1>0, Taken
<1>2. /\ type = "removed" => o \in replica
      /\ type = "added" => Needs(o) \subseteq replica
  BY HeadIsApplicable
<1>3. /\ Pending("added")' = IF type = "added" THEN Pending("added") \ {o} ELSE Pending("added")
      /\ Pending("removed")' = IF type = "removed" THEN Pending("removed") \ {o} ELSE Pending("removed")
  BY <1>1
<1>4. /\ server \cap gone = {}
      /\ Pending("removed")' \subseteq gone
      /\ Pending("added")' \subseteq server \cup Pending("removed")'
      /\ replica' = (server \cup Pending("removed")') \ Pending("added")'
  <2>1. CASE type = "added"
    BY <1>1, <1>3, <2>1 DEF Stream
  <2>2. CASE type = "removed"
    BY <1>1, <1>2, <1>3, <2>2 DEF Stream
  <2>3. CASE type = "closed"
    BY <1>3, <2>3 DEF Stream
  <2> QED BY <1>1, <2>1, <2>2, <2>3
<1>5. ReportedOnce'
  <2> SUFFICES ASSUME NEW i \in 1..Len(events'), NEW j \in 1..Len(events'),
                      events'[i].type # "closed"
               PROVE  /\ events'[i].obj \in Object
                      /\ events'[i].type = events'[j].type /\ events'[i].obj = events'[j].obj => i = j
    BY DEF ReportedOnce
  <2>1. /\ i + 1 \in 1..Len(events) /\ events'[i] = events[i + 1]
        /\ j + 1 \in 1..Len(events) /\ events'[j] = events[j + 1]
    BY <1>1
  <2>2. i + 1 = j + 1 => i = j
    BY <1>1
  <2> QED BY <1>0, <2>1, <2>2 DEF ReportedOnce
<1>6. InOrder'
  <2> SUFFICES ASSUME NEW i \in 1..Len(events'), NEW y, y = events'[i].obj
               PROVE  /\ events'[i].type = "removed" => y \in replica' \/ Before(i, "added", y)'
                      /\ events'[i].type = "added" =>
                            \A x \in Needs(y) : (x \in replica' \/ Before(i, "added", x)') /\ ~Before(i, "removed", x)'
    BY DEF InOrder
  <2>1. i + 1 \in 1..Len(events) /\ i + 1 # 1 /\ 1 \in 1..Len(events) /\ events'[i] = events[i + 1]
    BY <1>1
  <2>2. /\ events[i + 1].type = "removed" => y \in replica \/ Before(i + 1, "added", y)
        /\ events[i + 1].type = "added" =>
              \A x \in Needs(y) : (x \in replica \/ Before(i + 1, "added", x)) /\ ~Before(i + 1, "removed", x)
    BY <2>1 DEF Stream, InOrder
  <2>3. \A t, x : Before(i + 1, t, x) <=> Before(i, t, x)' \/ (t = type /\ x = o)
    BY <1>1
  <2>4. CASE type = "added"
    BY <2>1, <2>2, <2>3, <2>4
  <2>5. CASE type = "removed"
    <3>1. events[i + 1].type = "removed" => y # o
      BY <1>0, <1>1, <2>1, <2>5 DEF ReportedOnce
    <3> QED BY <2>1, <2>2, <2>3, <2>5, <3>1
  <2>6. CASE type = "closed"
    BY <2>1, <2>2, <2>3, <2>6
  <2> QED BY <1>1, <2>4, <2>5, <2>6
<1> QED BY <1>4, <1>5, <1>6 DEF Stream

-----------------------------------------------------------------------------
(* The invariant                                                           *)

LEMMA InitIInv == Init => IInv
<1> SUFFICES ASSUME Init PROVE IInv
  OBVIOUS
<1>1. events = <<>> /\ Len(events) = 0
  BY DEF Init
<1>2. \A t : Pending(t) = {}
  BY <1>1 DEF Pending
<1>3. TypeOK
  BY SnapshotIsClosed DEF Init, TypeOK, Running
<1>4. Stream
  BY <1>1, <1>2 DEF Init, Stream, ReportedOnce, InOrder
<1>5. Views /\ Waits
  BY DEF Init, Views, GhostsWereOvertaken, Waits, NoMissedEvent
<1>6. OwnJoins
  BY DEF Init, OwnJoins, Object
<1> QED BY <1>3, <1>4, <1>5, <1>6 DEF IInv

\* The steps that change the channel at the server, those of the client and of its requests.
ServerStep(o) == \/ OthersCreate(o) \/ OthersRemove(o) \/ ExecuteAdd(o) \/ ExecuteRemove(o)

RequestStep(o) == \/ Answer(o) \/ AnswerRemove(o)
                  \/ JoinFails(o) \/ JoinTimeout(o) \/ AddFails(o) \/ AddTimeout(o)
                  \/ LeaveFails(o) \/ LeaveTimeout(o) \/ RemoveFails(o)
                  \/ GoOn(o) \/ PersonCreated(o) \/ PersonFails(o)

EndStep == close \/ CloseAnswered \/ CloseFails \/ CloseTimeout \/ dispose

CallStep == \/ \E o \in Publications \cup Subscriptions : RequestAdd(o) \/ RequestRemove(o)
            \/ \E m \in LocalMembers : join(m) \/ RunTask(m) \/ NextTask(m)
            \/ \E m \in Members : leave(m)

LEMMA NextCases ==
    Next <=> \/ ApplyEvent \/ EndStep \/ ExecuteClose \/ OthersClose \/ CallStep
             \/ \E o \in Object : ServerStep(o) \/ RequestStep(o)
BY DEF Next, EndStep, CallStep, ServerStep, RequestStep

(***************************************************************************)
(* The tasks of a queue are tasks about publications and subscriptions.    *)
(***************************************************************************)
LEMMA HeadIsTask ==
    ASSUME TypeOK, NEW m \in LocalMembers, queue[m] # <<>>
    PROVE  Head(queue[m]) \in Task /\ Tail(queue[m]) \in Seq(Task)
BY DEF TypeOK

LEMMA PushType ==
    ASSUME TypeOK, NEW m \in LocalMembers, NEW op \in {"add", "remove"},
           NEW o \in Publications \cup Subscriptions, Push(m, op, o)
    PROVE  queue' \in [LocalMembers -> Seq(Task)]
<1> DEFINE task == [op |-> op, obj |-> o]
<1>1. task \in Task /\ queue[m] \in Seq(Task)
  BY DEF Task, TypeOK
<1>2. Append(queue[m], task) \in Seq(Task)
  BY <1>1
<1> HIDE DEF task
<1>3. queue' = [queue EXCEPT ![m] = Append(queue[m], task)]
  BY DEF Push, task
<1> QED BY <1>2, <1>3 DEF TypeOK

LEMMA ObjectType ==
    Members \subseteq Object /\ Publications \cup Subscriptions \subseteq Object
        /\ LocalMembers \subseteq Object
BY OwnersAreMembers DEF Object

(***************************************************************************)
(* Type correctness, one action after the other.                           *)
(***************************************************************************)
LEMMA TypeStep == TypeOK /\ OwnJoins /\ Stream /\ [Next]_vars => TypeOK'
<1> SUFFICES ASSUME TypeOK, OwnJoins, Stream, [Next]_vars PROVE TypeOK'
  OBVIOUS
<1> USE DEF Running
<1>1. CASE ApplyEvent
  <2>1. PICK type, o : type = Head(events).type /\ o = Head(events).obj
    OBVIOUS
  <2>2. events \in Seq(Events) /\ ReportedOnce
    BY DEF TypeOK, Events, Stream
  <2>3. /\ events' \in Seq(Events)
        /\ type \in {"added", "removed", "closed"} /\ o \in Object \cup {All}
        /\ events[1].type = type /\ events[1].obj = o
        /\ Len(events) \in Nat \ {0}
    BY <1>1, <2>1, <2>2, Taken DEF ApplyEvent
  <2>4. type # "closed" => o \in Object
    BY <2>2, <2>3 DEF ReportedOnce
  <2>5. CASE type = "added" /\ Added(o)
    BY <1>1, <2>3, <2>4, <2>5 DEF ApplyEvent, TypeOK, Added, Keep, Events, ending
  <2>6. CASE type = "removed" /\ Removed(o)
    BY <1>1, <2>3, <2>4, <2>6 DEF ApplyEvent, TypeOK, Removed, Events, ending
  <2>7. CASE type = "closed" /\ Closed
    BY <1>1, <2>3, <2>7 DEF ApplyEvent, TypeOK, Closed, Events, client
  <2> QED BY <1>1, <2>1, <2>5, <2>6, <2>7, HeadIsApplicable DEF ApplyEvent, Dispatch
<1>2. ASSUME NEW o \in Object, ServerStep(o) PROVE TypeOK'
  <2>1. CASE OthersCreate(o) \/ ExecuteAdd(o)
    <3>1. Create(o) /\ replica' = replica
      BY <2>1 DEF OthersCreate, ExecuteAdd, client
    <3>2. server' \subseteq Object /\ gone' = gone /\ exists' = exists /\ events' \in Seq(Events)
      BY <3>1, CreateKeepsStream
    <3> QED BY <2>1, <3>2 DEF OthersCreate, ExecuteAdd, TypeOK, Events, client, ending
  <2>2. CASE OthersRemove(o) \/ ExecuteRemove(o)
    <3>1. Delete(o) /\ replica' = replica
      BY <2>2 DEF OthersRemove, ExecuteRemove, client
    <3>2. server' \subseteq Object /\ gone' = gone \cup {o} /\ exists' = exists /\ events' \in Seq(Events)
      BY <3>1, DeleteKeepsStream
    <3> QED BY <2>2, <3>2 DEF OthersRemove, ExecuteRemove, TypeOK, Events, client, ending
  <2> QED BY <1>2, <2>1, <2>2 DEF ServerStep
<1>3. CASE ExecuteClose \/ OthersClose
  <2>1. DeleteChannel /\ replica' = replica
    BY <1>3 DEF ExecuteClose, OthersClose, client
  <2>2. server' = server /\ gone' = gone /\ exists' = FALSE /\ events' \in Seq(Events)
    BY <2>1, DeleteChannelKeepsStream
  <2> QED BY <1>3, <2>2 DEF ExecuteClose, OthersClose, TypeOK, Events, client, ending
<1>4. ASSUME NEW o \in Object, RequestStep(o) PROVE TypeOK'
  <2>1. CASE Answer(o)
    BY <2>1 DEF Answer, Answered, TypeOK, channel, ending
  <2>2. CASE AnswerRemove(o)
    BY <2>2 DEF AnswerRemove, TypeOK, channel, client, ending
  <2>3. CASE JoinFails(o) \/ JoinTimeout(o) \/ AddFails(o) \/ AddTimeout(o)
    BY <2>3 DEF JoinFails, JoinTimeout, AddFails, AddTimeout, AddEnds, TypeOK, channel, client, ending
  <2>4. CASE LeaveFails(o) \/ LeaveTimeout(o) \/ RemoveFails(o)
    BY <2>4 DEF LeaveFails, LeaveTimeout, RemoveFails, RemoveEnds, TypeOK, channel, client, ending
  <2>5. CASE GoOn(o)
    BY <2>5 DEF GoOn, Keep, TypeOK, channel, ending
  <2>6. CASE PersonCreated(o)
    BY <2>6 DEF PersonCreated, OwnJoins, TypeOK, channel, ending
  <2>7. CASE PersonFails(o)
    BY <2>7 DEF PersonFails, TypeOK, channel, client, ending
  <2> QED BY <1>4, <2>1, <2>2, <2>3, <2>4, <2>5, <2>6, <2>7 DEF RequestStep
<1>5. CASE EndStep
  BY <1>5 DEF EndStep, close, CloseAnswered, CloseFails, CloseTimeout, dispose, TypeOK, channel, client
<1>6. CASE CallStep
  <2>1. ASSUME NEW o \in Publications \cup Subscriptions, RequestAdd(o) PROVE TypeOK'
    <3>1. queue' \in [LocalMembers -> Seq(Task)]
      BY <2>1, PushType DEF RequestAdd, TypeOK
    <3> QED BY <2>1, <3>1, ObjectType DEF RequestAdd, TypeOK, channel, client, ending
  <2>2. ASSUME NEW o \in Publications \cup Subscriptions, RequestRemove(o) PROVE TypeOK'
    <3>1. queue' \in [LocalMembers -> Seq(Task)]
      BY <2>2, PushType DEF RequestRemove, TypeOK
    <3> QED BY <2>2, <3>1, ObjectType DEF RequestRemove, TypeOK, channel, client, ending
  <2>3. ASSUME NEW m \in LocalMembers, join(m) PROVE TypeOK'
    BY <2>3, ObjectType DEF join, TypeOK, channel, client, ending
  <2>4. ASSUME NEW m \in LocalMembers, RunTask(m) PROVE TypeOK'
    <3>1. Head(queue[m]).obj \in Object
      BY <2>4, HeadIsTask, ObjectType DEF RunTask, Task
    <3> QED BY <2>4, <3>1 DEF RunTask, TypeOK, channel, client, ending
  <2>5. ASSUME NEW m \in LocalMembers, NextTask(m) PROVE TypeOK'
    BY <2>5, HeadIsTask DEF NextTask, Dequeue, TypeOK, channel, client, ending
  <2>6. ASSUME NEW m \in Members, leave(m) PROVE TypeOK'
    BY <2>6, ObjectType DEF leave, TypeOK, channel, client, ending
  <2> QED BY <1>6, <2>1, <2>2, <2>3, <2>4, <2>5, <2>6 DEF CallStep
<1>7. CASE UNCHANGED vars
  BY <1>7 DEF vars, channel, client, ending, TypeOK
<1> QED BY <1>1, <1>2, <1>3, <1>4, <1>5, <1>6, <1>7, NextCases

LEMMA OwnJoinsStep == TypeOK /\ OwnJoins /\ Stream /\ [Next]_vars => OwnJoins'
<1> SUFFICES ASSUME TypeOK, OwnJoins, Stream, [Next]_vars,
                    NEW x \in Members \ LocalMembers, adding[x] = "none", x \in Object
             PROVE  adding'[x] = "none"
  BY ObjectType DEF OwnJoins
<1> USE DEF Running
<1>1. CASE ApplyEvent
  <2>1. CASE Added(Head(events).obj)
    BY <2>1 DEF Added, TypeOK
  <2>2. CASE UNCHANGED adding
    BY <2>2
  <2> QED BY <1>1, <2>1, <2>2, HeadIsApplicable DEF ApplyEvent, Dispatch, Removed, Closed
<1>2. ASSUME NEW o \in Object, ServerStep(o) PROVE adding'[x] = "none"
  BY <1>2 DEF ServerStep, OthersCreate, OthersRemove, ExecuteAdd, ExecuteRemove, TypeOK
<1>3. CASE ExecuteClose \/ OthersClose
  BY <1>3 DEF ExecuteClose, OthersClose
<1>4. ASSUME NEW o \in Object, RequestStep(o) PROVE adding'[x] = "none"
  BY <1>4 DEF RequestStep, Answer, Answered, AnswerRemove, JoinFails, JoinTimeout, AddFails, AddTimeout,
              AddEnds, LeaveFails, LeaveTimeout, RemoveFails, RemoveEnds, GoOn, PersonCreated, PersonFails,
              Unanswered, TypeOK
<1>5. CASE EndStep
  BY <1>5 DEF EndStep, close, CloseAnswered, CloseFails, CloseTimeout, dispose
<1>6. CASE CallStep
  <2>1. ASSUME NEW o \in Publications \cup Subscriptions, RequestAdd(o) \/ RequestRemove(o)
        PROVE  adding'[x] = "none"
    BY <2>1, KindsAreDisjoint DEF RequestAdd, RequestRemove, TypeOK
  <2>2. ASSUME NEW m \in LocalMembers, join(m) \/ RunTask(m) \/ NextTask(m)
        PROVE  adding'[x] = "none"
    <3>1. CASE RunTask(m)
      <4>1. Head(queue[m]).obj \in Publications \cup Subscriptions
        BY <3>1, HeadIsTask DEF RunTask, Task
      <4> QED BY <3>1, <4>1, KindsAreDisjoint DEF RunTask, TypeOK
    <3>2. CASE join(m)
      BY <3>2 DEF join, TypeOK
    <3>3. CASE NextTask(m)
      BY <3>3 DEF NextTask, Dequeue
    <3> QED BY <2>2, <3>1, <3>2, <3>3
  <2>3. ASSUME NEW m \in Members, leave(m) PROVE adding'[x] = "none"
    BY <2>3 DEF leave
  <2> QED BY <1>6, <2>1, <2>2, <2>3 DEF CallStep
<1>7. CASE UNCHANGED vars
  BY <1>7 DEF vars
<1> QED BY <1>1, <1>2, <1>3, <1>4, <1>5, <1>6, <1>7, NextCases

(***************************************************************************)
(* Only the server adds to the stream, and only ApplyEvent takes from it.  *)
(***************************************************************************)
LEMMA StreamStep == TypeOK /\ Stream /\ [Next]_vars => Stream'
<1> SUFFICES ASSUME TypeOK, Stream, [Next]_vars PROVE Stream'
  OBVIOUS
<1>1. CASE ApplyEvent
  <2>1. PICK type, o : type = Head(events).type /\ o = Head(events).obj
    OBVIOUS
  <2>2. /\ events # <<>> /\ events' = Tail(events) /\ UNCHANGED <<server, gone>>
        /\ Dispatch(Head(events))
    BY <1>1, HeadIsApplicable DEF ApplyEvent
  <2>3. replica' = CASE type = "added"   -> replica \cup {o}
                     [] type = "removed" -> replica \ {o}
                     [] type = "closed"  -> replica
    BY <2>1, <2>2 DEF Dispatch, Added, Removed, Closed, client
  <2> QED BY <2>1, <2>2, <2>3, ApplyKeepsStream
<1>2. ASSUME NEW o \in Object, ServerStep(o) PROVE Stream'
  <2>1. (Create(o) \/ Delete(o)) /\ replica' = replica
    BY <1>2 DEF ServerStep, OthersCreate, OthersRemove, ExecuteAdd, ExecuteRemove, client
  <2> QED BY <2>1, CreateKeepsStream, DeleteKeepsStream
<1>3. CASE ExecuteClose \/ OthersClose
  <2>1. DeleteChannel /\ replica' = replica
    BY <1>3 DEF ExecuteClose, OthersClose, client
  <2> QED BY <2>1, DeleteChannelKeepsStream
<1>4. CASE UNCHANGED <<server, gone, events, replica>>
  <2>1. Pending("added")' = Pending("added") /\ Pending("removed")' = Pending("removed")
    BY <1>4 DEF Pending
  <2>2. \A i, t, x : Before(i, t, x)' <=> Before(i, t, x)
    BY <1>4 DEF Before
  <2>3. ReportedOnce' /\ InOrder'
    BY <1>4, <2>2 DEF Stream, ReportedOnce, InOrder
  <2> QED BY <1>4, <2>1, <2>3 DEF Stream
<1>5. ASSUME NEW o \in Object, RequestStep(o) PROVE UNCHANGED <<server, gone, events, replica>>
  BY <1>5 DEF RequestStep, Answer, Answered, AnswerRemove, JoinFails, JoinTimeout, AddFails, AddTimeout,
              AddEnds, LeaveFails, LeaveTimeout, RemoveFails, RemoveEnds, GoOn, PersonCreated, PersonFails,
              channel, client
<1>6. EndStep \/ CallStep \/ UNCHANGED vars => UNCHANGED <<server, gone, events, replica>>
  BY DEF EndStep, close, CloseAnswered, CloseFails, CloseTimeout, dispose, CallStep, RequestAdd,
         RequestRemove, join, RunTask, NextTask, Dequeue, leave, vars, channel, client
<1> QED BY <1>1, <1>2, <1>3, <1>4, <1>5, <1>6, NextCases

(***************************************************************************)
(* What was got from the stream is in the replica until it is overtaken.   *)
(***************************************************************************)
LEMMA ViewsStep == TypeOK /\ Stream /\ Views /\ [Next]_vars => Views'
<1> SUFFICES ASSUME TypeOK, Stream, Views, [Next]_vars PROVE Views'
  OBVIOUS
<1> USE DEF Running, Views, GhostsWereOvertaken
<1>1. CASE ApplyEvent
  <2>1. PICK o : o = Head(events).obj
    OBVIOUS
  <2>2. CASE Head(events).type = "added" /\ Added(o)
    <3>1. o \in Object /\ Needs(o) \subseteq core
      BY <2>1, <2>2, HeadIsApplicable, HeadIsObject, <1>1 DEF ApplyEvent
    <3>2. Constructible(o)
      <4>1. /\ o \in Publications => Owner[o] \in Needs(o)
            /\ o \in Subscriptions => Source[o] \in Needs(o)
        BY KindsAreDisjoint DEF Needs
      <4> QED BY <3>1, <4>1, KindsAreDisjoint DEF Constructible, Object
    <3>3. core' = core \cup {o}
      BY <2>2, <3>2 DEF Added, Keep
    <3> QED BY <2>2, <3>3 DEF Added, TypeOK
  <2>3. CASE Head(events).type = "removed" /\ Removed(o)
    BY <2>3 DEF Removed, TypeOK
  <2>4. CASE Closed
    BY <2>4 DEF Closed, client
  <2> QED BY <1>1, <2>1, <2>2, <2>3, <2>4, HeadIsApplicable DEF ApplyEvent, Dispatch
<1>2. ASSUME NEW o \in Object, ServerStep(o) PROVE Views'
  BY <1>2 DEF ServerStep, OthersCreate, OthersRemove, ExecuteAdd, ExecuteRemove, client, TypeOK
<1>3. CASE ExecuteClose \/ OthersClose
  BY <1>3 DEF ExecuteClose, OthersClose, client
<1>4. ASSUME NEW o \in Object, RequestStep(o) PROVE Views'
  <2>1. CASE Answer(o)
    BY <2>1 DEF Answer, Answered, TypeOK
  <2>2. CASE AnswerRemove(o)
    BY <2>2 DEF AnswerRemove, client
  <2>3. CASE JoinFails(o) \/ JoinTimeout(o) \/ AddFails(o) \/ AddTimeout(o)
    BY <2>3 DEF JoinFails, JoinTimeout, AddFails, AddTimeout, AddEnds, client, TypeOK
  <2>4. CASE LeaveFails(o) \/ LeaveTimeout(o) \/ RemoveFails(o)
    BY <2>4 DEF LeaveFails, LeaveTimeout, RemoveFails, RemoveEnds, client
  <2>5. CASE GoOn(o)
    BY <2>5 DEF GoOn, Keep, TypeOK
  <2>6. CASE PersonCreated(o)
    BY <2>6 DEF PersonCreated, TypeOK
  <2>7. CASE PersonFails(o)
    BY <2>7 DEF PersonFails, client, TypeOK
  <2> QED BY <1>4, <2>1, <2>2, <2>3, <2>4, <2>5, <2>6, <2>7 DEF RequestStep
<1>5. CASE EndStep
  BY <1>5 DEF EndStep, close, CloseAnswered, CloseFails, CloseTimeout, dispose, client
<1>6. CASE CallStep
  <2>1. ASSUME NEW o \in Publications \cup Subscriptions, RequestAdd(o) \/ RequestRemove(o) PROVE Views'
    BY <2>1 DEF RequestAdd, RequestRemove, client, TypeOK
  <2>2. ASSUME NEW m \in LocalMembers, join(m) PROVE Views'
    BY <2>2 DEF join, client, TypeOK
  <2>3. ASSUME NEW m \in LocalMembers, RunTask(m) PROVE Views'
    BY <2>3 DEF RunTask, client, TypeOK
  <2>4. ASSUME NEW m \in LocalMembers, NextTask(m) PROVE Views'
    BY <2>4 DEF NextTask, Dequeue, client
  <2>5. ASSUME NEW m \in Members, leave(m) PROVE Views'
    BY <2>5 DEF leave, client
  <2> QED BY <1>6, <2>1, <2>2, <2>3, <2>4, <2>5 DEF CallStep
<1>7. CASE UNCHANGED vars
  BY <1>7 DEF vars, client
<1> QED BY <1>1, <1>2, <1>3, <1>4, <1>5, <1>6, <1>7, NextCases

(***************************************************************************)
(* Who waits has something to wait for.  A step that leaves the requests   *)
(* alone must not take it away.                                            *)
(***************************************************************************)
LEMMA WaitsFrame ==
    ASSUME Waits,
           UNCHANGED <<adding, removing, closing, state>>, exists' = exists,
           gone \ Pending("removed") \subseteq gone' \ Pending("removed")',
           server \cup gone \subseteq server' \cup gone',
           \A t \in {"added", "removed", "closed"} : Pending(t) \subseteq Pending(t)'
    PROVE  Waits'
BY DEF Waits, NoMissedEvent

LEMMA WaitsApply == TypeOK /\ Stream /\ Waits /\ ApplyEvent => Waits'
<1> SUFFICES ASSUME TypeOK, Stream, Waits, ApplyEvent PROVE Waits'
  OBVIOUS
<1> USE DEF Running
<1>1. PICK type, o : Head(events).type = type /\ Head(events).obj = o
  OBVIOUS
<1>2. events \in Seq(Events) /\ ReportedOnce
  BY DEF TypeOK, Events, Stream
<1>3. /\ \A t : t # type => Pending(t)' = Pending(t)
      /\ type # "closed" => Pending(type)' = Pending(type) \ {o}
  BY <1>1, <1>2, Taken DEF ApplyEvent
<1>4. state = "opened" /\ UNCHANGED <<exists, server, gone>>
  BY DEF ApplyEvent
<1>5. CASE type = "added" /\ Added(o)
  <2>1. /\ Pending("added")' = Pending("added") \ {o}
        /\ Pending("removed")' = Pending("removed") /\ Pending("closed")' = Pending("closed")
    BY <1>3, <1>5
  <2>2. /\ adding' = [adding EXCEPT ![o] = IF @ = "watching" THEN "got" ELSE @]
        /\ UNCHANGED <<removing, closing, state>>
    BY <1>5 DEF Added, ending
  <2> QED BY <1>4, <2>1, <2>2 DEF Waits, NoMissedEvent, TypeOK
<1>6. CASE type = "removed" /\ Removed(o)
  <2>1. /\ Pending("removed")' = Pending("removed") \ {o}
        /\ Pending("added")' = Pending("added") /\ Pending("closed")' = Pending("closed")
    BY <1>3, <1>6
  <2>2. /\ removing' = [removing EXCEPT ![o] = IF @ \in Running THEN "ended" ELSE @]
        /\ UNCHANGED <<adding, closing, state>>
    BY <1>6 DEF Removed, ending
  <2> QED BY <1>4, <2>1, <2>2 DEF Waits, NoMissedEvent, TypeOK
<1>7. CASE type = "closed" /\ Closed
  <2>1. Pending("removed")' = Pending("removed") /\ Pending("added")' = Pending("added")
    BY <1>3, <1>7
  <2>2. /\ state' = "closed"
        /\ closing' = IF closing = "watching" THEN "ended" ELSE closing
        /\ UNCHANGED <<adding, removing>>
    BY <1>7 DEF Closed
  <2> QED BY <1>4, <2>1, <2>2 DEF Waits, NoMissedEvent, TypeOK
<1> QED BY <1>1, <1>5, <1>6, <1>7, HeadIsApplicable DEF ApplyEvent, Dispatch

(***************************************************************************)
(* At the server: what is executed is reported.                            *)
(***************************************************************************)
LEMMA WaitsServer ==
    ASSUME TypeOK, Stream, Waits, NEW o \in Object, ServerStep(o)
    PROVE  Waits'
<1> USE DEF Running
<1>1. CASE OthersCreate(o) \/ ExecuteAdd(o)
  <2>1. Create(o) /\ replica' = replica
    BY <1>1 DEF OthersCreate, ExecuteAdd, client
  <2>2. /\ gone' = gone /\ exists' = exists /\ o \in server' /\ server \subseteq server'
        /\ \A t : Pending(t)' = IF t = "added" THEN Pending(t) \cup {o} ELSE Pending(t)
    BY <2>1, CreateKeepsStream
  <2>3. /\ Pending("added")' = Pending("added") \cup {o}
        /\ Pending("removed")' = Pending("removed") /\ Pending("closed")' = Pending("closed")
    BY <2>2
  <2>4. CASE OthersCreate(o)
    BY <2>2, <2>3, <2>4, WaitsFrame DEF OthersCreate, ending
  <2>5. CASE ExecuteAdd(o)
    BY <2>2, <2>3, <2>5 DEF ExecuteAdd, ending, Waits, NoMissedEvent, TypeOK
  <2> QED BY <1>1, <2>4, <2>5
<1>2. CASE OthersRemove(o) \/ ExecuteRemove(o)
  <2>1. Delete(o) /\ replica' = replica
    BY <1>2 DEF OthersRemove, ExecuteRemove, client
  <2>2. /\ gone' = gone \cup {o} /\ exists' = exists /\ server \subseteq server' \cup gone'
        /\ o \notin gone
        /\ \A t : Pending(t)' = IF t = "removed" THEN Pending(t) \cup {o} ELSE Pending(t)
    BY <2>1, DeleteKeepsStream DEF Delete, Stream
  <2>3. /\ Pending("removed")' = Pending("removed") \cup {o}
        /\ Pending("added")' = Pending("added") /\ Pending("closed")' = Pending("closed")
    BY <2>2
  <2>4. CASE OthersRemove(o)
    BY <2>2, <2>3, <2>4, WaitsFrame DEF OthersRemove, ending
  <2>5. CASE ExecuteRemove(o)
    BY <2>2, <2>3, <2>5 DEF ExecuteRemove, ending, Waits, NoMissedEvent, TypeOK
  <2> QED BY <1>2, <2>4, <2>5
<1> QED BY <1>1, <1>2 DEF ServerStep

(***************************************************************************)
(* An answer finds the object in the replica, or its event is to come.     *)
(***************************************************************************)
LEMMA WaitsRequest ==
    ASSUME TypeOK, Stream, Waits, NEW o \in Object, RequestStep(o)
    PROVE  Waits'
<1> USE DEF Running
<1>1. UNCHANGED <<exists, server, gone, events, closing, state>>
  BY DEF RequestStep, Answer, Answered, AnswerRemove, JoinFails, JoinTimeout, AddFails, AddTimeout,
         AddEnds, LeaveFails, LeaveTimeout, RemoveFails, RemoveEnds, GoOn, PersonCreated, PersonFails,
         channel, client, ending
<1>2. \A t \in {"added", "removed", "closed"} : Pending(t)' = Pending(t)
  BY <1>1 DEF Pending
<1>3. CASE Answer(o)
  <2>1. o \notin replica => o \in Pending("added") \cup (gone \ Pending("removed"))
    BY <1>3 DEF Answer, Answered, Waits, Stream
  <2> QED BY <1>1, <1>2, <1>3, <2>1 DEF Answer, Answered, Waits, NoMissedEvent, TypeOK
<1>4. CASE AnswerRemove(o)
  BY <1>1, <1>2, <1>4 DEF AnswerRemove, Waits, NoMissedEvent, TypeOK
<1>5. CASE UNCHANGED removing /\ adding' = [adding EXCEPT ![o] = "ended"]
  BY <1>1, <1>2, <1>5 DEF Waits, NoMissedEvent, TypeOK
<1>6. CASE UNCHANGED adding /\ removing' = [removing EXCEPT ![o] = "ended"]
  BY <1>1, <1>2, <1>6 DEF Waits, NoMissedEvent, TypeOK
<1> QED BY <1>3, <1>4, <1>5, <1>6
        DEF RequestStep, JoinFails, JoinTimeout, AddFails, AddTimeout, AddEnds, LeaveFails, LeaveTimeout,
            RemoveFails, RemoveEnds, GoOn, PersonCreated, PersonFails

LEMMA WaitsStep == TypeOK /\ Stream /\ Waits /\ [Next]_vars => Waits'
<1> SUFFICES ASSUME TypeOK, Stream, Waits, [Next]_vars PROVE Waits'
  OBVIOUS
<1> USE DEF Running
<1>1. CASE ExecuteClose \/ OthersClose
  <2>1. DeleteChannel /\ replica' = replica
    BY <1>1 DEF ExecuteClose, OthersClose, client
  <2>2. /\ server' = server /\ gone' = gone
        /\ \A t : Pending(t)' = IF t = "closed" THEN Pending(t) \cup {All} ELSE Pending(t)
    BY <2>1, DeleteChannelKeepsStream
  <2>3. /\ Pending("closed")' = Pending("closed") \cup {All}
        /\ Pending("added")' = Pending("added") /\ Pending("removed")' = Pending("removed")
    BY <2>2
  <2>4. /\ UNCHANGED <<adding, removing, state>> /\ exists' = FALSE
        /\ closing' = "executed" \/ closing' = closing
    BY <1>1 DEF ExecuteClose, OthersClose, DeleteChannel, ending
  <2> QED BY <2>2, <2>3, <2>4 DEF Waits, NoMissedEvent
<1>2. CASE EndStep
  <2>1. UNCHANGED <<exists, server, gone, events, adding, removing>>
    BY <1>2 DEF EndStep, close, CloseAnswered, CloseFails, CloseTimeout, dispose, channel
  <2>2. \A t \in {"added", "removed", "closed"} : Pending(t)' = Pending(t)
    BY <2>1 DEF Pending
  <2> QED BY <1>2, <2>1, <2>2
          DEF EndStep, close, CloseAnswered, CloseFails, CloseTimeout, dispose, Waits, NoMissedEvent, TypeOK
<1>3. CASE CallStep
  <2>1. UNCHANGED <<exists, server, gone, events, closing, state>>
    BY <1>3 DEF CallStep, RequestAdd, RequestRemove, join, RunTask, NextTask, Dequeue, leave, channel, ending
  <2>2. \A t \in {"added", "removed", "closed"} : Pending(t)' = Pending(t)
    BY <2>1 DEF Pending
  <2>3. ASSUME NEW o, NEW to \in {"queued", "requested", "ended"},
               \/ UNCHANGED removing /\ adding' = [adding EXCEPT ![o] = to]
               \/ UNCHANGED adding /\ removing' = [removing EXCEPT ![o] = to]
               \/ UNCHANGED <<adding, removing>>
        PROVE  Waits'
    BY <2>1, <2>2, <2>3 DEF Waits, NoMissedEvent, TypeOK
  <2>4. CASE \E o \in Publications \cup Subscriptions : RequestAdd(o) \/ RequestRemove(o)
    BY <2>3, <2>4 DEF RequestAdd, RequestRemove
  <2>5. CASE \E m \in LocalMembers : join(m)
    BY <2>3, <2>5 DEF join
  <2>6. CASE \E m \in LocalMembers : RunTask(m)
    BY <2>3, <2>6 DEF RunTask
  <2>7. CASE \E m \in LocalMembers : NextTask(m)
    BY <2>3, <2>7 DEF NextTask, Dequeue
  <2>8. CASE \E m \in Members : leave(m)
    BY <2>3, <2>8 DEF leave
  <2> QED BY <1>3, <2>4, <2>5, <2>6, <2>7, <2>8 DEF CallStep
<1>4. CASE UNCHANGED vars
  <2>1. \A t \in {"added", "removed", "closed"} : Pending(t)' = Pending(t)
    BY <1>4 DEF Pending, vars, channel
  <2> QED BY <1>4, <2>1 DEF vars, channel, ending, Waits, NoMissedEvent
<1> QED BY <1>1, <1>2, <1>3, <1>4, WaitsApply, WaitsServer, WaitsRequest, NextCases

-----------------------------------------------------------------------------
(* The theorems                                                            *)

(***************************************************************************)
(* The invariant holds in every state, however far behind the client is    *)
(* and whatever the members do.                                            *)
(***************************************************************************)
THEOREM Invariance == Spec => []IInv
<1>1. IInv /\ [Next]_vars => IInv'
  BY TypeStep, OwnJoinsStep, StreamStep, ViewsStep, WaitsStep DEF IInv
<1> QED BY <1>1, InitIInv, PTL DEF Spec

(***************************************************************************)
(* ChannelImpl always shows a state that the channel really had: that      *)
(* before the events to come.  It is type correct too.                     *)
(***************************************************************************)
THEOREM ReplicaShowsState == Spec => []ReplicaIsState
<1>1. IInv => ReplicaIsState
  BY DEF IInv, Stream, ReplicaIsState
<1> QED BY <1>1, Invariance, PTL

(***************************************************************************)
(* SkyWayChannelImpl shows what ChannelImpl shows.  The only objects that  *)
(* it shows beside them are those whose removal was applied before their   *)
(* join, publish or subscribe went on.                                     *)
(***************************************************************************)
THEOREM OnlyOvertakenGhosts == Spec => []GhostsWereOvertaken
<1>1. IInv => GhostsWereOvertaken
  BY DEF IInv, Views
<1> QED BY <1>1, Invariance, PTL

(***************************************************************************)
(* No join, leave, publish, unpublish, subscribe, unsubscribe or close     *)
(* waits for an event that was applied before it began to wait.            *)
(***************************************************************************)
THEOREM NobodyMissesEvent == Spec => []NoMissedEvent
<1>1. IInv => NoMissedEvent
  BY DEF IInv, Waits
<1> QED BY <1>1, Invariance, PTL

-----------------------------------------------------------------------------
(***************************************************************************)
(* PublicationState, for every number of calls, streams and troubles.  The *)
(* last switch on its way tells the server's state, and who shows another  *)
(* when none is on its way has asked for it or is about to follow.  The    *)
(* last task of a stream's queue is the state the publication wants.       *)
(***************************************************************************)
Together == publication.there /\ causes \cap Apart = {}

\* An event that switches the publication, and what it switches it to.
Switching(e) == e \in {"enabled", "disabled"}
Word(on) == IF on THEN "enabled" ELSE "disabled"
NoneComing(x) == \A i \in 1..Len(coming[x]) : ~Switching(coming[x][i])

\* A disable of the client has switched the state, and the server does not know yet.
Asking(x) ==
    \E c \in Calls : /\ calls[c].op = "disable" /\ calls[c].by = x
                     /\ calls[c].stage = "switching" \/ calls[c].request = "sent"

\* The enables that an event is for.
Executed == {c \in Waiting("publisher", "enable") : calls[c].request = "executed"}

\* What a stream will be when its queue has run.
Wanted(s) == IF s.queue = <<>> THEN s.on ELSE s.queue[Len(s.queue)].on

\* A stream is live as it is on; the head of its queue has been run.
Consistent(s, given) ==
    /\ s.acquiring => s.on /\ s.queue # <<>>
    /\ ~s.on => ~s.live
    /\ s.on /\ ~s.acquiring /\ given => s.live
    /\ s.queue # <<>> => s.queue[1].on = s.on

StreamsInv ==
    /\ impl["subscriber"].stream = NoStream
    /\ \A n \in Streams : Consistent(streams[n], "not acquired" \notin causes)

\* The stream is to become what the publication shows.
WantedInv ==
    LET n == impl["publisher"].stream
    IN  n # NoStream /\ "replaced" \notin causes =>
            /\ impl["publisher"].state = "disabled" => ~Wanted(streams[n])
            /\ impl["publisher"].state = "enabled" => Wanted(streams[n])

\* Whose task is in a queue has begun, an enable after it has seen its event.
QueuedInv ==
    \A n \in Streams : \A c \in Calls :
        InQueue(streams[n], c) => /\ calls[c].stage \notin {"none", "called"}
                                  /\ calls[c].op = "enable" => calls[c].stage \in {"switching", "over"}

\* A call asks after it has been called, and every "enabled" that comes has an enable of
\* its own that waits for it.
EnablesInv ==
    /\ \A c \in Calls :
          /\ calls[c].op = "enable" => calls[c].by = "publisher"
          /\ calls[c].stage = "seen" => calls[c].op = "enable"
          /\ calls[c].stage \in {"none", "called"} => calls[c].request = "none"
    /\ causes \cap Apart = {} =>
          /\ \A c \in Calls : calls[c].op = "enable" /\ calls[c].request = "sent" => calls[c].stage = "waiting"
          /\ \A i \in 1..Len(coming["publisher"]) : coming["publisher"][i] = "enabled" => Executed # {}
          /\ \A i, j \in 1..Len(coming["publisher"]) :
                i # j /\ coming["publisher"][i] = "enabled" /\ coming["publisher"][j] = "enabled" =>
                    \E c, d \in Executed : c # d

\* The last switch that comes is the server's state.
LastTells ==
    Together => \A x \in Clients :
        /\ impl[x].state # "canceled"
        /\ \A i \in 1..Len(coming[x]) :
              /\ coming[x][i] # "canceled"
              /\ Switching(coming[x][i]) /\ (\A j \in 1..Len(coming[x]) : j > i => ~Switching(coming[x][j]))
                    => coming[x][i] = Word(publication.on)

\* When none comes, each client shows the server's state, or it is about to change.
ShownInv ==
    Together =>
        /\ NoneComing("publisher") =>
              /\ impl["publisher"].state = "enabled" => publication.on
              /\ impl["publisher"].state = "disabled" => ~publication.on \/ Asking("publisher") \/ Seen # {}
              /\ Seen # {} => publication.on
        /\ NoneComing("subscriber") =>
              /\ impl["subscriber"].state = "enabled" => publication.on
              /\ impl["subscriber"].state = "disabled" => ~publication.on \/ Asking("subscriber")
              /\ impl["subscriber"].announcing => ~publication.on
              /\ track = "on" => publication.on \/ impl["subscriber"].announcing
              /\ track = "off" => ~publication.on \/ Asking("subscriber")

PublicationIInv ==
    /\ PublicationTypeOK
    /\ StreamsInv
    /\ WantedInv
    /\ QueuedInv
    /\ NoCallForgotten
    /\ EnablesInv
    /\ LastTells
    /\ ShownInv

-----------------------------------------------------------------------------
(* The parts of the state.                                                 *)

\* The bounds of a publication are numbers.
LEMMA PublicationBounds ==
    /\ MaxCalls \in Nat /\ MaxStreams \in Nat \ {0} /\ MaxTroubles \in Nat
    /\ Nothing \in Nothing..Announce /\ Announce \in Nothing..Announce
    /\ Calls \subseteq Nothing..Announce /\ NoStream \notin Streams
    /\ Announce \notin Calls /\ Nothing \notin Calls
    /\ NoStream..MaxStreams = Streams \cup {NoStream} /\ 1 \in Streams
BY PublicationAssumption DEF Nothing, Announce, Calls, NoStream, Streams

\* What follows a switch.
LEMMA NextIs ==
    ASSUME NEW next \in Nothing..Announce
    PROVE  next = Nothing \/ next = Announce \/ next \in Calls
BY PublicationAssumption DEF Nothing, Announce, Calls

\* The publisher's stream, if there is one.
LEMMA PublisherStream ==
    ASSUME PublicationTypeOK, NEW x \in Clients, impl[x].stream # NoStream
    PROVE  impl[x].stream \in Streams
BY PublicationBounds DEF PublicationTypeOK, Impl

\* What is counted stays within its bound.
LEMMA TroubleCounted ==
    ASSUME troubles \in 0..MaxTroubles, Trouble \/ UNCHANGED troubles
    PROVE  troubles' \in 0..MaxTroubles
BY PublicationBounds DEF Trouble

\* A sequence with one more element.
LEMMA Appended ==
    ASSUME NEW T, NEW q \in Seq(T), NEW e \in T
    PROVE  /\ Append(q, e) \in Seq(T) /\ Append(q, e) # <<>>
           /\ Len(q) \in Nat /\ Len(Append(q, e)) = Len(q) + 1
           /\ \A i \in 1..Len(q) : Append(q, e)[i] = q[i]
           /\ Append(q, e)[Len(q) + 1] = e
OBVIOUS

\* A sequence without its head.
LEMMA Shortened ==
    ASSUME NEW T, NEW q \in Seq(T), q # <<>>
    PROVE  /\ Tail(q) \in Seq(T) /\ Len(q) \in Nat \ {0} /\ Len(Tail(q)) = Len(q) - 1
           /\ \A i \in 1..Len(Tail(q)) : Tail(q)[i] = q[i + 1]
           /\ Head(q) = q[1] /\ Head(q) \in T
OBVIOUS

\* An empty sequence has no element.
LEMMA EmptyOrNot ==
    ASSUME NEW T, NEW q \in Seq(T)
    PROVE  /\ Len(q) \in Nat /\ (q = <<>> <=> Len(q) = 0)
           /\ \A i \in 1..Len(q) : q[i] \in T
OBVIOUS

\* A task that runs, at the head of a queue.
LEMMA RunConsistent ==
    ASSUME NEW s \in LocalStream, NEW given \in BOOLEAN,
           ~s.acquiring, ~s.on => ~s.live, s.on /\ given => s.live,
           s.queue # <<>>, NEW on \in BOOLEAN, s.queue[1].on = on
    PROVE  /\ Run(s, on) \in LocalStream
           /\ Run(s, on).queue = s.queue
           /\ Consistent(Run(s, on), given)
<1>1. CASE on = s.on
  BY <1>1 DEF Run, Consistent
<1>2. CASE ~on /\ s.on
  <2> DEFINE t == [s EXCEPT !.on = FALSE, !.live = FALSE]
  <2>1. Run(s, on) = t
    BY <1>2 DEF Run
  <2>2. t \in LocalStream /\ t.queue = s.queue /\ t.on = FALSE /\ t.live = FALSE /\ t.acquiring = FALSE
    BY DEF LocalStream
  <2> HIDE DEF t
  <2> QED BY <1>2, <2>1, <2>2 DEF Consistent
<1>3. CASE on /\ ~s.on
  <2> DEFINE t == [s EXCEPT !.on = TRUE, !.acquiring = TRUE]
  <2>1. Run(s, on) = t
    BY <1>3 DEF Run
  <2>2. t \in LocalStream /\ t.queue = s.queue /\ t.on = TRUE /\ t.live = s.live /\ t.acquiring = TRUE
    BY DEF LocalStream
  <2> HIDE DEF t
  <2> QED BY <1>3, <2>1, <2>2 DEF Consistent
<1> QED BY <1>1, <1>2, <1>3 DEF LocalStream

\* What push makes of a stream.
Pushed(s, on, next) ==
    LET t == [s EXCEPT !.queue = Append(@, [on |-> on, next |-> next])]
    IN  IF s.queue = <<>> THEN Run(t, on) ELSE t

LEMMA PushedConsistent ==
    ASSUME NEW s \in LocalStream, NEW given \in BOOLEAN, Consistent(s, given),
           NEW on \in BOOLEAN, NEW next \in Nothing..Announce
    PROVE  /\ Pushed(s, on, next) \in LocalStream
           /\ Pushed(s, on, next).queue = Append(s.queue, [on |-> on, next |-> next])
           /\ Consistent(Pushed(s, on, next), given)
           /\ Wanted(Pushed(s, on, next)) = on
<1> DEFINE task == [on |-> on, next |-> next]
           t == [s EXCEPT !.queue = Append(@, task)]
<1>1. task \in Switch /\ task.on = on
  BY DEF Switch
<1>2. s.queue \in Seq(Switch)
  BY DEF LocalStream
<1> HIDE DEF task
<1>3. /\ Append(s.queue, task) \in Seq(Switch) /\ Append(s.queue, task) # <<>>
      /\ Len(s.queue) \in Nat /\ Len(Append(s.queue, task)) = Len(s.queue) + 1
      /\ \A i \in 1..Len(s.queue) : Append(s.queue, task)[i] = s.queue[i]
      /\ Append(s.queue, task)[Len(s.queue) + 1] = task
  BY <1>1, <1>2, Appended
<1>4. /\ t \in LocalStream /\ t.queue = Append(s.queue, task)
      /\ t.on = s.on /\ t.live = s.live /\ t.acquiring = s.acquiring
  BY <1>3 DEF LocalStream
<1>5. Pushed(s, on, next) = IF s.queue = <<>> THEN Run(t, on) ELSE t
  BY DEF Pushed, task
<1> HIDE DEF t
<1>6. CASE s.queue = <<>>
  <2>1. t.queue[1] = task
    BY <1>2, <1>3, <1>4, <1>6, EmptyOrNot
  <2>2. Run(t, on) \in LocalStream /\ Run(t, on).queue = t.queue /\ Consistent(Run(t, on), given)
    BY <1>1, <1>3, <1>4, <1>6, <2>1, RunConsistent DEF Consistent, LocalStream
  <2>3. t.queue[Len(t.queue)] = task
    BY <1>3, <1>4
  <2> QED BY <1>1, <1>3, <1>4, <1>5, <1>6, <2>2, <2>3 DEF Wanted, task
<1>7. CASE s.queue # <<>>
  <2>1. Len(s.queue) > 0
    BY <1>2, <1>3, <1>7, EmptyOrNot
  <2>2. t.queue[1] = s.queue[1]
    BY <1>3, <1>4, <2>1
  <2>3. Consistent(t, given)
    BY <1>3, <1>4, <1>7, <2>2 DEF Consistent
  <2> QED BY <1>1, <1>3, <1>4, <1>5, <1>7, <2>3 DEF Wanted, task
<1> QED BY <1>6, <1>7

\* What the end of a task makes of a stream.
Popped(s) ==
    LET t == [s EXCEPT !.queue = Tail(s.queue)]
    IN  IF Tail(s.queue) = <<>> THEN t ELSE Run(t, Head(Tail(s.queue)).on)

LEMMA PoppedConsistent ==
    ASSUME NEW s \in LocalStream, NEW given \in BOOLEAN, Consistent(s, given),
           s.queue # <<>>, ~s.acquiring
    PROVE  /\ Popped(s) \in LocalStream
           /\ Popped(s).queue = Tail(s.queue)
           /\ Consistent(Popped(s), given)
           /\ Wanted(Popped(s)) = Wanted(s)
<1> DEFINE rest == Tail(s.queue)
           t == [s EXCEPT !.queue = Tail(s.queue)]
<1>1. s.queue \in Seq(Switch)
  BY DEF LocalStream
<1>2. /\ rest \in Seq(Switch) /\ Len(s.queue) \in Nat \ {0} /\ Len(rest) = Len(s.queue) - 1
      /\ \A i \in 1..Len(rest) : rest[i] = s.queue[i + 1]
  BY <1>1, Shortened
<1>3. /\ t \in LocalStream /\ t.queue = rest
      /\ t.on = s.on /\ t.live = s.live /\ t.acquiring = s.acquiring
  BY <1>2 DEF LocalStream
<1>4. Popped(s) = IF rest = <<>> THEN t ELSE Run(t, Head(rest).on)
  BY DEF Popped
<1>5. rest = <<>> <=> Len(rest) = 0
  BY <1>2, EmptyOrNot
<1>6. rest # <<>> => Head(rest) = rest[1]
  BY <1>2, Shortened
<1> HIDE DEF t, rest
<1>7. CASE rest = <<>>
  <2>1. Len(s.queue) = 1
    BY <1>2, <1>5, <1>7
  <2> QED BY <1>3, <1>4, <1>7, <2>1 DEF Consistent, Wanted, rest
<1>8. CASE rest # <<>>
  <2>1. rest[1].on \in BOOLEAN
    <3>1. rest[1] \in Switch
      BY <1>2, <1>5, <1>8
    <3> QED BY <3>1 DEF Switch
  <2>2. /\ Run(t, Head(rest).on) \in LocalStream /\ Run(t, Head(rest).on).queue = rest
        /\ Consistent(Run(t, Head(rest).on), given)
    BY <1>3, <1>6, <1>8, <2>1, RunConsistent DEF Consistent, LocalStream
  <2>3. rest[Len(rest)] = s.queue[Len(s.queue)]
    BY <1>2, <1>5, <1>8
  <2> QED BY <1>3, <1>4, <1>8, <2>2, <2>3 DEF Wanted, rest
<1> QED BY <1>7, <1>8

\* Who is in a queue after a push, and after the end of a task.
LEMMA PushedQueue ==
    ASSUME NEW s \in LocalStream, NEW given \in BOOLEAN, Consistent(s, given),
           NEW on \in BOOLEAN, NEW next \in Nothing..Announce, NEW c
    PROVE  InQueue(Pushed(s, on, next), c) <=> InQueue(s, c) \/ c = next
<1> DEFINE task == [on |-> on, next |-> next]
           q == Append(s.queue, task)
<1>1. task \in Switch /\ task.next = next /\ s.queue \in Seq(Switch)
  BY DEF Switch, LocalStream
<1>2. Pushed(s, on, next).queue = q
  BY PushedConsistent
<1> HIDE DEF task
<1>3. /\ Len(s.queue) \in Nat /\ Len(q) = Len(s.queue) + 1
      /\ \A i \in 1..Len(s.queue) : q[i] = s.queue[i]
      /\ q[Len(s.queue) + 1] = task
  BY <1>1, Appended
<1> HIDE DEF q
<1>4. 1..Len(q) = 1..Len(s.queue) \cup {Len(s.queue) + 1}
  BY <1>3
<1> QED BY <1>1, <1>2, <1>3, <1>4 DEF InQueue

LEMMA PoppedQueue ==
    ASSUME NEW s \in LocalStream, NEW given \in BOOLEAN, Consistent(s, given),
           s.queue # <<>>, ~s.acquiring, NEW c
    PROVE  InQueue(s, c) <=> InQueue(Popped(s), c) \/ c = Head(s.queue).next
<1> DEFINE q == Tail(s.queue)
<1>1. s.queue \in Seq(Switch)
  BY DEF LocalStream
<1>2. /\ Len(s.queue) \in Nat \ {0} /\ Len(q) = Len(s.queue) - 1
      /\ \A i \in 1..Len(q) : q[i] = s.queue[i + 1]
      /\ Head(s.queue) = s.queue[1]
  BY <1>1, Shortened
<1>3. Popped(s).queue = q
  BY PoppedConsistent
<1> HIDE DEF q
<1>4. \A i \in 1..Len(s.queue) : i = 1 \/ (i - 1 \in 1..Len(q) /\ q[i - 1] = s.queue[i])
  BY <1>2
<1>5. \A i \in 1..Len(q) : i + 1 \in 1..Len(s.queue)
  BY <1>2
<1>6. 1 \in 1..Len(s.queue)
  BY <1>2
<1> QED BY <1>2, <1>3, <1>4, <1>5, <1>6 DEF InQueue

\* What was consistent stays so when less is given.
LEMMA LessGiven ==
    ASSUME NEW s, NEW given, NEW less, Consistent(s, given), less => given
    PROVE  Consistent(s, less)
BY DEF Consistent

\* setEnabled pushes onto one stream.
LEMMA SetEnabledIs ==
    ASSUME PublicationTypeOK, NEW n \in Streams, NEW on, NEW next
    PROVE  setEnabled(n, on, next) = [streams EXCEPT ![n] = Pushed(streams[n], on, next)]
BY DEF setEnabled, Pushed, PublicationTypeOK

\* The streams after a push.
LEMMA PushKeeps ==
    ASSUME PublicationTypeOK, StreamsInv, causes \subseteq causes',
           NEW n \in Streams, NEW on \in BOOLEAN, NEW next \in Nothing..Announce,
           streams' = setEnabled(n, on, next)
    PROVE  /\ streams' \in [Streams -> LocalStream]
           /\ \A m \in Streams : m # n => streams'[m] = streams[m]
           /\ \A m \in Streams : Consistent(streams'[m], "not acquired" \notin causes')
           /\ Wanted(streams'[n]) = on
           /\ \A c : InQueue(streams'[n], c) <=> InQueue(streams[n], c) \/ c = next
           /\ \A m \in Streams : \A c : InQueue(streams[m], c) => InQueue(streams'[m], c)
           /\ \A m \in Streams : \A c : InQueue(streams'[m], c) => InQueue(streams[m], c) \/ c = next
<1> DEFINE given == "not acquired" \notin causes
           less == "not acquired" \notin causes'
<1>1. streams \in [Streams -> LocalStream] /\ streams[n] \in LocalStream
  BY DEF PublicationTypeOK
<1>2. streams' = [streams EXCEPT ![n] = Pushed(streams[n], on, next)]
  BY SetEnabledIs
<1>3. given \in BOOLEAN /\ (less => given) /\ \A m \in Streams : Consistent(streams[m], given)
  BY DEF StreamsInv
<1> HIDE DEF given, less
<1>4. /\ Pushed(streams[n], on, next) \in LocalStream
      /\ Consistent(Pushed(streams[n], on, next), given)
      /\ Wanted(Pushed(streams[n], on, next)) = on
  BY <1>1, <1>3, PushedConsistent
<1>5. \A c : InQueue(Pushed(streams[n], on, next), c) <=> InQueue(streams[n], c) \/ c = next
  BY <1>1, <1>3, PushedQueue
<1>6. streams' \in [Streams -> LocalStream] /\ streams'[n] = Pushed(streams[n], on, next)
      /\ \A m \in Streams : m # n => streams'[m] = streams[m]
  BY <1>1, <1>2, <1>4
<1>7. \A m \in Streams : Consistent(streams'[m], given)
  BY <1>3, <1>4, <1>6
<1>8. \A m \in Streams : Consistent(streams'[m], less)
  BY <1>3, <1>7, LessGiven
<1> QED BY <1>4, <1>5, <1>6, <1>8 DEF less

\* The streams when a task of one has ended.
LEMMA PopKeeps ==
    ASSUME PublicationTypeOK, StreamsInv, UNCHANGED causes,
           NEW n \in Streams, TaskEnds(n)
    PROVE  /\ streams' \in [Streams -> LocalStream]
           /\ \A m \in Streams : Consistent(streams'[m], "not acquired" \notin causes')
           /\ \A m \in Streams : Wanted(streams'[m]) = Wanted(streams[m])
           /\ Head(streams[n].queue).next \in Nothing..Announce
           /\ \A c : InQueue(streams[n], c) <=> InQueue(streams'[n], c) \/ c = Head(streams[n].queue).next
           /\ \A m \in Streams : m # n => streams'[m] = streams[m]
<1> DEFINE given == "not acquired" \notin causes
<1>1. /\ streams \in [Streams -> LocalStream] /\ streams[n] \in LocalStream
      /\ streams[n].queue # <<>> /\ ~streams[n].acquiring
  BY DEF PublicationTypeOK, TaskEnds
<1>2. streams' = [streams EXCEPT ![n] = Popped(streams[n])]
  BY DEF TaskEnds, Popped
<1>3. given \in BOOLEAN /\ \A m \in Streams : Consistent(streams[m], given)
  BY DEF StreamsInv
<1>4. given' = given
  OBVIOUS
<1> HIDE DEF given
<1>5. /\ Popped(streams[n]) \in LocalStream
      /\ Consistent(Popped(streams[n]), given)
      /\ Wanted(Popped(streams[n])) = Wanted(streams[n])
  BY <1>1, <1>3, PoppedConsistent
<1>6. \A c : InQueue(streams[n], c) <=> InQueue(Popped(streams[n]), c) \/ c = Head(streams[n].queue).next
  BY <1>1, <1>3, PoppedQueue
<1>7. streams' \in [Streams -> LocalStream] /\ streams'[n] = Popped(streams[n])
      /\ \A m \in Streams : m # n => streams'[m] = streams[m]
  BY <1>1, <1>2, <1>5
<1>8. \A m \in Streams : Consistent(streams'[m], given) /\ Wanted(streams'[m]) = Wanted(streams[m])
  BY <1>3, <1>5, <1>7
<1>9. Head(streams[n].queue).next \in Nothing..Announce
  <2>1. Head(streams[n].queue) \in Switch
    BY <1>1, Shortened DEF LocalStream
  <2> QED BY <2>1 DEF Switch
<1> QED BY <1>4, <1>6, <1>7, <1>8, <1>9 DEF given

\* What is resolved is over, and nothing else changes.
LEMMA ResolvedIs ==
    ASSUME PublicationTypeOK, NEW cs
    PROVE  /\ Resolved(cs) \in [Calls -> Call]
           /\ \A c \in Calls : /\ Resolved(cs)[c].op = calls[c].op /\ Resolved(cs)[c].by = calls[c].by
                               /\ Resolved(cs)[c].request = calls[c].request
                               /\ c \in cs => Resolved(cs)[c].stage = "over" /\ Resolved(cs)[c].result # "pending"
                               /\ c \notin cs => Resolved(cs)[c] = calls[c]
<1>1. \A c \in Calls : calls[c] \in Call
  BY DEF PublicationTypeOK
<1> QED BY <1>1 DEF Resolved, Call

LEMMA AskedIs ==
    ASSUME PublicationTypeOK, NEW c \in Calls
    PROVE  /\ Asked(c) \in [Calls -> Call]
           /\ Asked(c)[c].op = calls[c].op /\ Asked(c)[c].by = calls[c].by
           /\ Asked(c)[c].stage = "waiting" /\ Asked(c)[c].request = "sent"
           /\ \A d \in Calls : d # c => Asked(c)[d] = calls[d]
<1>1. calls \in [Calls -> Call] /\ calls[c] \in Call
  BY DEF PublicationTypeOK
<1> QED BY <1>1 DEF Asked, Call

\* Calls that waited and are resolved, none an enable.
LEMMA ResolveKeeps ==
    ASSUME PublicationTypeOK, NEW cs, calls' = Resolved(cs),
           \A c \in Calls : c \in cs => calls[c].op # "enable" /\ calls[c].stage = "waiting"
    PROVE  /\ Seen' = Seen /\ Executed' = Executed
           /\ \A x \in Clients : Asking(x)' <=> Asking(x)
<1>1. \A c \in Calls : /\ calls'[c].op = calls[c].op /\ calls'[c].by = calls[c].by
                       /\ calls'[c].request = calls[c].request
                       /\ c \in cs => calls'[c].stage = "over"
                       /\ c \notin cs => calls'[c] = calls[c]
  BY ResolvedIs
<1>2. Seen' = Seen
  BY <1>1 DEF Seen
<1>3. Executed' = Executed
  BY <1>1 DEF Executed, Waiting
<1>4. \A x \in Clients : Asking(x)' <=> Asking(x)
  BY <1>1 DEF Asking
<1> QED BY <1>2, <1>3, <1>4

\* A call that asks, an enable not before it has been called.
LEMMA AskKeeps ==
    ASSUME PublicationTypeOK, NEW c \in Calls, calls' = Asked(c),
           (calls[c].op # "enable" /\ calls[c].stage # "seen") \/ calls[c].stage = "called"
    PROVE  /\ Seen' = Seen /\ Executed' = Executed
           /\ \A x \in Clients : Asking(x) => Asking(x)'
           /\ \A x \in Clients : calls[c].op = "disable" /\ calls[c].by = x => Asking(x)'
<1>1. /\ calls'[c].op = calls[c].op /\ calls'[c].by = calls[c].by
      /\ calls'[c].stage = "waiting" /\ calls'[c].request = "sent"
      /\ \A d \in Calls : d # c => calls'[d] = calls[d]
  BY AskedIs
<1>2. Seen' = Seen
  BY <1>1 DEF Seen
<1>3. Executed' = Executed
  BY <1>1 DEF Executed, Waiting
<1>4. \A x \in Clients : Asking(x) => Asking(x)'
  BY <1>1 DEF Asking
<1>5. \A x \in Clients : calls[c].op = "disable" /\ calls[c].by = x => Asking(x)'
  BY <1>1 DEF Asking
<1> QED BY <1>2, <1>3, <1>4, <1>5

\* The queues say what they said of calls that go on beside them.
LEMMA QueuesKeep ==
    ASSUME QueuedInv, NoCallForgotten, UNCHANGED streams,
           \A c \in Calls :
               \/ calls'[c] = calls[c]
               \/ /\ calls'[c].stage \notin {"none", "called", "switching"}
                  /\ \/ calls[c].stage \in {"none", "called"}
                     \/ calls[c].op = "enable" /\ calls[c].stage \in {"waiting", "seen"}
                     \/ calls'[c].op = "enable" => calls'[c].stage = "over"
                  /\ calls'[c].stage = "over" /\ calls'[c].op # "updateMetadata" => calls'[c].result # "pending"
               \/ calls[c].stage = "none" /\ calls'[c].stage = "called"
    PROVE  QueuedInv' /\ NoCallForgotten'
<1>1. QueuedInv'
  BY DEF QueuedInv
<1>2. NoCallForgotten'
  BY DEF NoCallForgotten
<1> QED BY <1>1, <1>2

\* The streams and what is wanted of them, when neither changes.
LEMMA StreamsKeep ==
    ASSUME StreamsInv, WantedInv, UNCHANGED streams, causes \subseteq causes',
           impl'["subscriber"].stream = impl["subscriber"].stream,
           impl'["publisher"].stream \in {impl["publisher"].stream, NoStream},
           impl'["publisher"].state \in {impl["publisher"].state, "canceled"} \/ impl["publisher"].stream = NoStream
    PROVE  StreamsInv' /\ WantedInv'
<1>1. StreamsInv'
  <2>1. \A n \in Streams : Consistent(streams'[n], "not acquired" \notin causes')
    BY LessGiven DEF StreamsInv
  <2> QED BY <2>1 DEF StreamsInv
<1>2. WantedInv'
  BY DEF WantedInv, Wanted
<1> QED BY <1>1, <1>2

\* The state of one client changes.
LEMMA StateSet ==
    ASSUME PublicationTypeOK, NEW x \in Clients, NEW shows \in {"enabled", "disabled", "canceled"},
           impl' = [impl EXCEPT ![x].state = shows]
    PROVE  /\ impl' \in [Clients -> Impl]
           /\ impl'[x].state = shows
           /\ \A y \in Clients : /\ impl'[y].stream = impl[y].stream
                                 /\ impl'[y].announcing = impl[y].announcing
                                 /\ y # x => impl'[y] = impl[y]
<1>1. impl \in [Clients -> Impl] /\ impl[x] \in Impl
  BY DEF PublicationTypeOK
<1> DEFINE t == [impl[x] EXCEPT !.state = shows]
<1>2. t \in Impl /\ t.state = shows /\ t.stream = impl[x].stream /\ t.announcing = impl[x].announcing
  BY <1>1 DEF Impl
<1>3. impl' = [impl EXCEPT ![x] = t]
  BY <1>1
<1> HIDE DEF t
<1> QED BY <1>1, <1>2, <1>3

\* The server emits an event.
LEMMA Emitted ==
    ASSUME PublicationTypeOK, NEW e \in {"enabled", "disabled", "metadata", "canceled"}, Emit(e)
    PROVE  /\ coming' \in [Clients -> Seq({"enabled", "disabled", "metadata", "canceled"})]
           /\ \A x \in Clients : /\ Len(coming[x]) \in Nat /\ Len(coming'[x]) = Len(coming[x]) + 1
                                 /\ \A i \in 1..Len(coming[x]) : coming'[x][i] = coming[x][i]
                                 /\ coming'[x][Len(coming'[x])] = e
                                 /\ NoneComing(x)' <=> NoneComing(x) /\ ~Switching(e)
<1> DEFINE T == {"enabled", "disabled", "metadata", "canceled"}
<1>1. coming \in [Clients -> Seq(T)] /\ e \in T
  BY DEF PublicationTypeOK
<1> HIDE DEF T
<1>2. \A x \in Clients : coming'[x] = Append(coming[x], e)
  BY DEF Emit
<1>3. \A x \in Clients : /\ coming'[x] \in Seq(T)
                         /\ Len(coming[x]) \in Nat /\ Len(coming'[x]) = Len(coming[x]) + 1
                         /\ \A i \in 1..Len(coming[x]) : coming'[x][i] = coming[x][i]
                         /\ coming'[x][Len(coming[x]) + 1] = e
  <2> TAKE x \in Clients
  <2>1. coming[x] \in Seq(T) /\ coming'[x] = Append(coming[x], e)
    BY <1>1, <1>2
  <2> QED BY <1>1, <2>1, Appended
<1>4. coming' \in [Clients -> Seq(T)]
  BY <1>3 DEF Emit
<1>5. ASSUME NEW x \in Clients
      PROVE  NoneComing(x)' <=> NoneComing(x) /\ ~Switching(e)
  <2>1. 1..Len(coming'[x]) = 1..Len(coming[x]) \cup {Len(coming[x]) + 1}
    BY <1>3
  <2> QED BY <1>3, <2>1 DEF NoneComing, Switching
<1> QED BY <1>3, <1>4, <1>5 DEF T

\* A client takes the first event.
LEMMA EventTaken ==
    ASSUME PublicationTypeOK, NEW x \in Clients, coming[x] # <<>>,
           coming' = [coming EXCEPT ![x] = Tail(@)]
    PROVE  /\ coming' \in [Clients -> Seq({"enabled", "disabled", "metadata", "canceled"})]
           /\ Head(coming[x]) \in {"enabled", "disabled", "metadata", "canceled"}
           /\ Head(coming[x]) = coming[x][1] /\ Len(coming[x]) \in Nat \ {0}
           /\ Len(coming'[x]) = Len(coming[x]) - 1
           /\ \A i \in 1..Len(coming'[x]) : coming'[x][i] = coming[x][i + 1]
           /\ \A y \in Clients : y # x => coming'[y] = coming[y]
           /\ NoneComing(x) <=> NoneComing(x)' /\ ~Switching(Head(coming[x]))
           /\ \A y \in Clients : y # x => (NoneComing(y)' <=> NoneComing(y))
<1> DEFINE T == {"enabled", "disabled", "metadata", "canceled"}
<1>1. coming \in [Clients -> Seq(T)] /\ coming[x] \in Seq(T)
  BY DEF PublicationTypeOK
<1> HIDE DEF T
<1>2. /\ Tail(coming[x]) \in Seq(T) /\ Len(coming[x]) \in Nat \ {0} /\ Len(Tail(coming[x])) = Len(coming[x]) - 1
      /\ \A i \in 1..Len(Tail(coming[x])) : Tail(coming[x])[i] = coming[x][i + 1]
      /\ Head(coming[x]) = coming[x][1] /\ Head(coming[x]) \in T
  BY <1>1, Shortened
<1>3. coming'[x] = Tail(coming[x]) /\ \A y \in Clients : y # x => coming'[y] = coming[y]
  BY <1>1
<1>4. coming' \in [Clients -> Seq(T)]
  BY <1>1, <1>2
<1>5. NoneComing(x) <=> NoneComing(x)' /\ ~Switching(Head(coming[x]))
  <2> DEFINE q == coming[x]
             r == coming'[x]
  <2>0. Len(q) \in Nat \ {0} /\ Len(r) = Len(q) - 1 /\ \A i \in 1..Len(r) : r[i] = q[i + 1]
    BY <1>2, <1>3
  <2> HIDE DEF q, r
  <2>1. \A i \in 1..Len(q) : i = 1 \/ (i - 1 \in 1..Len(r) /\ r[i - 1] = q[i])
    BY <2>0
  <2>2. 1 \in 1..Len(q) /\ \A i \in 1..Len(r) : i + 1 \in 1..Len(q)
    BY <2>0
  <2> USE DEF q, r
  <2> QED BY <1>2, <1>3, <2>1, <2>2 DEF NoneComing, Switching
<1>6. \A y \in Clients : y # x => (NoneComing(y)' <=> NoneComing(y))
  BY <1>3 DEF NoneComing
<1> QED BY <1>2, <1>3, <1>4, <1>5, <1>6 DEF T

-----------------------------------------------------------------------------
(* The streams and their queues.                                           *)

\* A task has ended.
LEMMA TaskEndsKeeps ==
    ASSUME PublicationIInv, NEW n \in Streams, TaskEnds(n)
    PROVE  PublicationIInv'
<1> DEFINE next == Head(streams[n].queue).next
<1>1. /\ PublicationTypeOK /\ StreamsInv /\ WantedInv /\ QueuedInv /\ NoCallForgotten
      /\ EnablesInv /\ LastTells /\ ShownInv
  BY DEF PublicationIInv
<1>2. calls' = Continued(next) /\ UNCHANGED <<publication, coming, impl, track, troubles, causes>>
  BY DEF TaskEnds
<1>3. /\ streams' \in [Streams -> LocalStream]
      /\ \A m \in Streams : Consistent(streams'[m], "not acquired" \notin causes')
      /\ \A m \in Streams : Wanted(streams'[m]) = Wanted(streams[m])
      /\ next \in Nothing..Announce
      /\ \A c : InQueue(streams[n], c) <=> InQueue(streams'[n], c) \/ c = next
      /\ \A m \in Streams : m # n => streams'[m] = streams[m]
  BY <1>1, <1>2, PopKeeps
<1> HIDE DEF next
<1>4. next = Nothing \/ next = Announce \/ next \in Calls
  BY <1>3, NextIs
<1>5. next \in Calls => /\ calls[next].stage \notin {"none", "called"}
                        /\ calls[next].op = "enable" => calls[next].stage \in {"switching", "over"}
  BY <1>1, <1>3 DEF QueuedInv
<1>6. \/ calls' = calls
      \/ calls' = Resolved(Waiting("publisher", "disable"))
      \/ next \in Calls /\ calls[next].op = "enable" /\ calls' = Resolved({next})
      \/ next \in Calls /\ calls[next].op # "enable" /\ calls' = Asked(next)
  BY <1>2, <1>4, PublicationBounds DEF Continued, onDisabled
<1>7. /\ calls' \in [Calls -> Call]
      /\ \A c \in Calls :
            \/ calls'[c] = calls[c] /\ c # next
            \/ calls'[c] = calls[c] /\ next \notin Calls
            \/ /\ c = next /\ calls[c].op = "enable" /\ calls[c].stage \in {"switching", "over"}
               /\ calls'[c].op = "enable" /\ calls'[c].stage = "over" /\ calls'[c].result # "pending"
               /\ calls'[c].by = calls[c].by /\ calls'[c].request = calls[c].request
            \/ /\ c = next /\ calls[c].op # "enable" /\ calls[c].stage \notin {"none", "called"}
               /\ calls'[c].op = calls[c].op /\ calls'[c].by = calls[c].by
               /\ calls'[c].stage = "waiting" /\ calls'[c].request = "sent"
            \/ /\ next \notin Calls /\ calls[c].op = "disable" /\ calls[c].stage = "waiting"
               /\ calls'[c].op = "disable" /\ calls'[c].stage = "over" /\ calls'[c].result # "pending"
               /\ calls'[c].by = calls[c].by /\ calls'[c].request = calls[c].request
  <2>1. CASE calls' = calls /\ next \notin Calls
    BY <1>1, <2>1 DEF PublicationTypeOK
  <2>2. CASE calls' = Resolved(Waiting("publisher", "disable")) /\ next \notin Calls
    BY <1>1, <2>2, ResolvedIs DEF Waiting
  <2>3. CASE next \in Calls /\ calls[next].op = "enable" /\ calls' = Resolved({next})
    BY <1>1, <1>5, <2>3, ResolvedIs
  <2>4. CASE next \in Calls /\ calls[next].op # "enable" /\ calls' = Asked(next)
    BY <1>1, <1>5, <2>4, AskedIs
  <2>5. next \in Calls =>
          \/ calls[next].op = "enable" /\ calls' = Resolved({next})
          \/ calls[next].op # "enable" /\ calls' = Asked(next)
    BY <1>2, PublicationBounds DEF Continued
  <2> QED BY <1>6, <2>1, <2>2, <2>3, <2>4, <2>5
<1>8. \A c \in Calls : calls[c] \in Call /\ calls'[c] \in Call
  BY <1>1, <1>7 DEF PublicationTypeOK
<1>a. PublicationTypeOK'
  BY <1>1, <1>2, <1>3, <1>7 DEF PublicationTypeOK
<1>b. StreamsInv' /\ WantedInv'
  <2>1. impl["publisher"].stream # NoStream => impl["publisher"].stream \in Streams
    BY <1>1, PublisherStream DEF Clients
  <2> QED BY <1>1, <1>2, <1>3, <2>1 DEF StreamsInv, WantedInv
<1>c. QueuedInv'
  <2> SUFFICES ASSUME NEW m \in Streams, NEW c \in Calls, InQueue(streams'[m], c)
               PROVE  /\ calls'[c].stage \notin {"none", "called"}
                      /\ calls'[c].op = "enable" => calls'[c].stage \in {"switching", "over"}
    BY DEF QueuedInv
  <2>1. InQueue(streams[m], c)
    BY <1>3
  <2> QED BY <1>1, <1>7, <2>1 DEF QueuedInv
<1>d. NoCallForgotten'
  <2>1. ASSUME NEW c \in Calls, calls'[c].stage = "switching"
        PROVE  \E m \in Streams : InQueue(streams'[m], c)
    <3>1. calls[c].stage = "switching" /\ c # next
      BY <1>7, <2>1
    <3>2. PICK m \in Streams : InQueue(streams[m], c)
      BY <1>1, <3>1 DEF NoCallForgotten
    <3> QED BY <1>3, <3>1, <3>2
  <2>2. ASSUME NEW c \in Calls, calls'[c].stage = "over", calls'[c].op # "updateMetadata"
        PROVE  calls'[c].result # "pending"
    BY <1>1, <1>7, <2>2 DEF NoCallForgotten
  <2> QED BY <2>1, <2>2 DEF NoCallForgotten
<1>e. Seen' = Seen /\ Executed' = Executed
  <2>1. \A c \in Calls : calls'[c].stage = "seen" <=> calls[c].stage = "seen"
    BY <1>1, <1>5, <1>7 DEF EnablesInv
  <2>2. \A c \in Calls : /\ calls'[c].op = calls[c].op /\ calls'[c].by = calls[c].by
                         /\ calls[c].op = "enable" => (calls'[c].stage = "waiting" <=> calls[c].stage = "waiting")
                         /\ calls[c].op = "enable" => calls'[c].request = calls[c].request
    BY <1>7
  <2> QED BY <2>1, <2>2 DEF Seen, Executed, Waiting
<1>f. \A x \in Clients : Asking(x) => Asking(x)'
  BY <1>7 DEF Asking
<1>g. EnablesInv'
  BY <1>1, <1>2, <1>7, <1>e DEF EnablesInv
<1>h. LastTells'
  BY <1>1, <1>2 DEF LastTells, Together, Switching, Word
<1>i. ShownInv'
  BY <1>1, <1>2, <1>e, <1>f DEF ShownInv, Together, NoneComing, Switching, Clients
<1> QED BY <1>a, <1>b, <1>c, <1>d, <1>g, <1>h, <1>i DEF PublicationIInv

\* The device is given or not.
LEMMA AcquiredKeeps ==
    ASSUME PublicationIInv, NEW n \in Streams, Acquired(n) \/ AcquireFails(n)
    PROVE  PublicationIInv'
<1>1. /\ PublicationTypeOK /\ StreamsInv /\ WantedInv /\ QueuedInv /\ NoCallForgotten
      /\ EnablesInv /\ LastTells /\ ShownInv
  BY DEF PublicationIInv
<1>2. /\ UNCHANGED <<publication, coming, impl, track, calls>>
      /\ streams[n].acquiring
      /\ causes' \in {causes, causes \cup {"not acquired"}}
      /\ Trouble \/ UNCHANGED troubles
  BY DEF Acquired, AcquireFails
<1>3. \E live \in BOOLEAN :
         /\ live \/ "not acquired" \in causes'
         /\ \/ live /\ streams' = [streams EXCEPT ![n].acquiring = FALSE, ![n].live = TRUE]
            \/ ~live /\ streams' = [streams EXCEPT ![n].acquiring = FALSE]
  BY DEF Acquired, AcquireFails
<1>4. /\ streams' \in [Streams -> LocalStream]
      /\ \A m \in Streams : /\ streams'[m].on = streams[m].on /\ streams'[m].queue = streams[m].queue
                            /\ m # n => streams'[m] = streams[m]
      /\ ~streams'[n].acquiring /\ (streams'[n].live \/ "not acquired" \in causes')
  <2>1. streams \in [Streams -> LocalStream] /\ streams[n] \in LocalStream
    BY <1>1 DEF PublicationTypeOK
  <2>2. PICK live \in BOOLEAN :
         /\ live \/ "not acquired" \in causes'
         /\ \/ live /\ streams' = [streams EXCEPT ![n].acquiring = FALSE, ![n].live = TRUE]
            \/ ~live /\ streams' = [streams EXCEPT ![n].acquiring = FALSE]
    BY <1>3
  <2> DEFINE t == IF live THEN [streams[n] EXCEPT !.acquiring = FALSE, !.live = TRUE]
                          ELSE [streams[n] EXCEPT !.acquiring = FALSE]
  <2>3. /\ t \in LocalStream /\ t.on = streams[n].on /\ t.queue = streams[n].queue
        /\ ~t.acquiring /\ (live => t.live)
    BY <2>1 DEF LocalStream
  <2>4. streams' = [streams EXCEPT ![n] = t]
    BY <2>1, <2>2
  <2> HIDE DEF t
  <2> QED BY <2>1, <2>2, <2>3, <2>4
<1>5. StreamsInv'
  <2>1. ASSUME NEW m \in Streams
        PROVE  Consistent(streams'[m], "not acquired" \notin causes')
    <3>1. CASE m = n
      BY <1>1, <1>2, <1>4, <3>1 DEF StreamsInv, Consistent
    <3>2. CASE m # n
      BY <1>1, <1>2, <1>4, <3>2 DEF StreamsInv, Consistent
    <3> QED BY <3>1, <3>2
  <2> QED BY <1>1, <1>2, <2>1 DEF StreamsInv
<1>6. WantedInv'
  <2>1. \A m \in Streams : Wanted(streams'[m]) = Wanted(streams[m])
    BY <1>4 DEF Wanted
  <2>2. impl["publisher"].stream # NoStream => impl["publisher"].stream \in Streams
    BY <1>1, PublicationBounds DEF PublicationTypeOK, Impl, Clients
  <2> QED BY <1>1, <1>2, <2>1, <2>2 DEF WantedInv
<1>7. PublicationTypeOK'
  BY <1>1, <1>2, <1>4, TroubleCounted DEF PublicationTypeOK
<1>8. QueuedInv' /\ NoCallForgotten'
  <2>1. \A m \in Streams : \A c \in Calls : InQueue(streams'[m], c) <=> InQueue(streams[m], c)
    BY <1>4 DEF InQueue
  <2> QED BY <1>1, <2>1, <1>2, <1>4 DEF QueuedInv, NoCallForgotten
<1>9. causes' \cap Apart = causes \cap Apart
  BY <1>2 DEF Apart
<1>10. Seen' = Seen /\ Executed' = Executed /\ \A x \in Clients : Asking(x)' <=> Asking(x)
  BY <1>2 DEF Seen, Executed, Waiting, Asking
<1>11. EnablesInv' /\ LastTells'
  <2>1. EnablesInv'
    <3>1. /\ calls' = calls /\ coming' = coming /\ Executed' = Executed
          /\ causes' \cap Apart = {} => causes \cap Apart = {}
      BY <1>2, <1>9, <1>10
    <3> QED BY <1>1, <3>1 DEF EnablesInv
  <2>2. LastTells'
    BY <1>1, <1>2, <1>9 DEF LastTells, Together, Switching, Word
  <2> QED BY <2>1, <2>2
<1>12. ShownInv'
  BY <1>1, <1>2, <1>9, <1>10 DEF ShownInv, Together, NoneComing, Switching, Clients
<1> QED BY <1>5, <1>6, <1>7, <1>8, <1>11, <1>12 DEF PublicationIInv

\* The publication gets another stream.
LEMMA ReplaceKeeps ==
    ASSUME PublicationIInv, NEW n \in Streams, Calm("publisher"), replaceStream(n)
    PROVE  PublicationIInv'
<1> DEFINE old == impl["publisher"].stream
<1>1. /\ PublicationTypeOK /\ StreamsInv /\ WantedInv /\ QueuedInv /\ NoCallForgotten
      /\ EnablesInv /\ LastTells /\ ShownInv
  BY DEF PublicationIInv
<1>2. /\ UNCHANGED <<publication, coming, track, calls, troubles>>
      /\ old # NoStream
      /\ streams' = setEnabled(n, streams[old].on, Nothing)
      /\ impl' = [impl EXCEPT !["publisher"].stream = n]
      /\ causes' = IF streams[old].acquiring THEN causes \cup {"replaced"} ELSE causes
  BY DEF replaceStream
<1>3. old \in Streams
  BY <1>1, <1>2, PublisherStream DEF Clients
<1> HIDE DEF old
<1>4. streams[old] \in LocalStream /\ streams[old].on \in BOOLEAN
  BY <1>1, <1>3 DEF PublicationTypeOK, LocalStream
<1>5. /\ streams' \in [Streams -> LocalStream]
      /\ \A m \in Streams : Consistent(streams'[m], "not acquired" \notin causes')
      /\ Wanted(streams'[n]) = streams[old].on
      /\ \A m \in Streams : \A c : InQueue(streams[m], c) => InQueue(streams'[m], c)
      /\ \A m \in Streams : \A c : InQueue(streams'[m], c) => InQueue(streams[m], c) \/ c = Nothing
  BY <1>1, <1>2, <1>4, PushKeeps, PublicationBounds
<1>6. /\ impl' \in [Clients -> Impl]
      /\ impl'["publisher"].stream = n
      /\ impl'["publisher"].state = impl["publisher"].state
      /\ impl'["subscriber"] = impl["subscriber"]
      /\ \A x \in Clients : impl'[x].state = impl[x].state /\ impl'[x].announcing = impl[x].announcing
  BY <1>1, <1>2, PublicationBounds DEF PublicationTypeOK, Impl, Clients
<1>7. PublicationTypeOK'
  BY <1>1, <1>2, <1>5, <1>6 DEF PublicationTypeOK
<1>8. StreamsInv'
  BY <1>1, <1>5, <1>6 DEF StreamsInv
<1>9. WantedInv'
  <2> SUFFICES ASSUME "replaced" \notin causes'
               PROVE  /\ impl["publisher"].state = "disabled" => ~streams[old].on
                      /\ impl["publisher"].state = "enabled" => streams[old].on
    BY <1>5, <1>6 DEF WantedInv
  <2>1. ~streams[old].acquiring /\ "replaced" \notin causes
    BY <1>2
  <2>2. streams[old].queue = <<>>
    BY <1>3, <2>1 DEF Calm
  <2> QED BY <1>1, <1>2, <2>1, <2>2 DEF WantedInv, Wanted, old
<1>10. QueuedInv' /\ NoCallForgotten'
  <2>1. Nothing \notin Calls
    BY PublicationBounds
  <2> QED BY <1>1, <1>2, <1>5, <2>1 DEF QueuedInv, NoCallForgotten
<1>11. causes' \cap Apart = causes \cap Apart
  BY <1>2 DEF Apart
<1>12. Seen' = Seen /\ Executed' = Executed /\ \A x \in Clients : Asking(x)' <=> Asking(x)
  BY <1>2 DEF Seen, Executed, Waiting, Asking
<1>13. EnablesInv'
  BY <1>1, <1>2, <1>11, <1>12 DEF EnablesInv
<1>14. LastTells'
  BY <1>1, <1>2, <1>6, <1>11 DEF LastTells, Together, Switching, Word
<1>15. ShownInv'
  BY <1>1, <1>2, <1>6, <1>11, <1>12 DEF ShownInv, Together, NoneComing, Switching, Clients
<1> QED BY <1>7, <1>8, <1>9, <1>10, <1>13, <1>14, <1>15 DEF PublicationIInv

-----------------------------------------------------------------------------
(* The calls of the application.                                           *)

\* A call begins.
LEMMA StartKeeps ==
    ASSUME PublicationIInv, NEW c \in Calls, NEW op \in Operations, NEW x \in Clients,
           op = "enable" => x = "publisher", Start(c, op, x)
    PROVE  PublicationIInv'
<1>1. /\ PublicationTypeOK /\ StreamsInv /\ WantedInv /\ QueuedInv /\ NoCallForgotten
      /\ EnablesInv /\ LastTells /\ ShownInv
  BY DEF PublicationIInv
<1>2. /\ UNCHANGED <<publication, coming, impl, streams, track, troubles, causes>>
      /\ calls[c].stage = "none"
      /\ calls' = [calls EXCEPT ![c] = [@ EXCEPT !.op = op, !.by = x, !.stage = "called"]]
  BY DEF Start
<1>3. /\ calls' \in [Calls -> Call]
      /\ calls'[c].op = op /\ calls'[c].by = x /\ calls'[c].stage = "called"
      /\ calls'[c].request = calls[c].request
      /\ \A d \in Calls : d # c => calls'[d] = calls[d]
  <2>1. calls \in [Calls -> Call] /\ calls[c] \in Call
    BY <1>1 DEF PublicationTypeOK
  <2> QED BY <1>2, <2>1 DEF Call, Operations, Clients
<1>4. PublicationTypeOK'
  BY <1>1, <1>2, <1>3 DEF PublicationTypeOK
<1>5. StreamsInv' /\ WantedInv'
  BY <1>1, <1>2, StreamsKeep
<1>6. QueuedInv' /\ NoCallForgotten'
  BY <1>1, <1>2, <1>3, QueuesKeep
<1>7. Seen' = Seen /\ Executed' = Executed
  BY <1>2, <1>3 DEF Seen, Executed, Waiting
<1>8. calls[c].request = "none"
  BY <1>1, <1>2 DEF EnablesInv
<1>9. \A y \in Clients : Asking(y) => Asking(y)'
  BY <1>2, <1>3, <1>8 DEF Asking
<1>10. EnablesInv'
  BY <1>1, <1>2, <1>3, <1>7, <1>8 DEF EnablesInv
<1>11. LastTells'
  BY <1>1, <1>2 DEF LastTells, Together, Switching, Word
<1>12. ShownInv'
  BY <1>1, <1>2, <1>7, <1>9 DEF ShownInv, Together, NoneComing, Switching, Clients
<1> QED BY <1>4, <1>5, <1>6, <1>10, <1>11, <1>12 DEF PublicationIInv

\* cancel.
LEMMA CancelKeeps ==
    ASSUME PublicationIInv, NEW c \in Calls, cancel(c)
    PROVE  PublicationIInv'
<1>1. /\ PublicationTypeOK /\ StreamsInv /\ WantedInv /\ QueuedInv /\ NoCallForgotten
      /\ EnablesInv /\ LastTells /\ ShownInv
  BY DEF PublicationIInv
<1>2. /\ UNCHANGED <<publication, coming, streams, track, troubles, causes>>
      /\ calls[c].stage = "none"
      /\ calls' = [calls EXCEPT ![c] = [@ EXCEPT !.op = "cancel", !.by = "publisher",
                                                 !.stage = "waiting", !.request = "sent"]]
      /\ impl' = [impl EXCEPT !["publisher"].stream = NoStream]
  BY DEF cancel
<1>3. /\ calls' \in [Calls -> Call]
      /\ calls'[c].op = "cancel" /\ calls'[c].by = "publisher" /\ calls'[c].stage = "waiting"
      /\ calls'[c].request = "sent"
      /\ \A d \in Calls : d # c => calls'[d] = calls[d]
  <2>1. calls \in [Calls -> Call] /\ calls[c] \in Call
    BY <1>1 DEF PublicationTypeOK
  <2> QED BY <1>2, <2>1 DEF Call, Operations, Clients
<1>4. /\ impl' \in [Clients -> Impl]
      /\ impl'["publisher"].stream = NoStream
      /\ impl'["subscriber"] = impl["subscriber"]
      /\ \A x \in Clients : impl'[x].state = impl[x].state /\ impl'[x].announcing = impl[x].announcing
  BY <1>1, <1>2, PublicationBounds DEF PublicationTypeOK, Impl, Clients
<1>5. PublicationTypeOK'
  BY <1>1, <1>2, <1>3, <1>4 DEF PublicationTypeOK
<1>6. StreamsInv' /\ WantedInv'
  BY <1>1, <1>2, <1>4, StreamsKeep DEF Clients
<1>7. QueuedInv' /\ NoCallForgotten'
  BY <1>1, <1>2, <1>3, QueuesKeep
<1>8. calls[c].request = "none"
  BY <1>1, <1>2 DEF EnablesInv
<1>9. Seen' = Seen /\ Executed' = Executed
  BY <1>2, <1>3 DEF Seen, Executed, Waiting
<1>10. \A y \in Clients : Asking(y) => Asking(y)'
  BY <1>2, <1>3, <1>8 DEF Asking
<1>11. EnablesInv'
  BY <1>1, <1>2, <1>3, <1>9 DEF EnablesInv
<1>12. LastTells'
  BY <1>1, <1>2, <1>4 DEF LastTells, Together, Switching, Word
<1>13. ShownInv'
  BY <1>1, <1>2, <1>4, <1>9, <1>10 DEF ShownInv, Together, NoneComing, Switching, Clients
<1> QED BY <1>5, <1>6, <1>7, <1>11, <1>12, <1>13 DEF PublicationIInv

\* A call that is not a disable with a stream to switch asks at once.
LEMMA AskAtOnceKeeps ==
    ASSUME PublicationIInv, NEW c \in Calls, calls[c].stage = "called",
           calls' = Asked(c), UNCHANGED streams,
           IF calls[c].op = "disable"
           THEN impl' = [impl EXCEPT ![calls[c].by].state = "disabled"] /\ ~Switches(calls[c].by)
           ELSE UNCHANGED impl,
           UNCHANGED <<publication, coming, track, troubles, causes>>
    PROVE  PublicationIInv'
<1>1. /\ PublicationTypeOK /\ StreamsInv /\ WantedInv /\ QueuedInv /\ NoCallForgotten
      /\ EnablesInv /\ LastTells /\ ShownInv
  BY DEF PublicationIInv
<1>4. PICK x \in Clients : x = calls[c].by
  BY <1>1 DEF PublicationTypeOK, Call
<1>2. /\ calls' \in [Calls -> Call]
      /\ calls'[c].op = calls[c].op /\ calls'[c].by = x
      /\ calls'[c].stage = "waiting" /\ calls'[c].request = "sent"
      /\ \A d \in Calls : d # c => calls'[d] = calls[d]
  BY <1>1, <1>4, AskedIs
<1>3. /\ Seen' = Seen /\ Executed' = Executed
      /\ \A y \in Clients : Asking(y) => Asking(y)'
      /\ calls[c].op = "disable" => Asking(x)'
  BY <1>1, <1>4, AskKeeps
<1>5. /\ impl' \in [Clients -> Impl]
      /\ \A y \in Clients : /\ impl'[y].stream = impl[y].stream /\ impl'[y].announcing = impl[y].announcing
                            /\ calls[c].op # "disable" \/ y # x => impl'[y].state = impl[y].state
                            /\ calls[c].op = "disable" /\ y = x => impl'[y].state = "disabled"
  <2>1. CASE calls[c].op = "disable"
    <3>1. impl' = [impl EXCEPT ![x].state = "disabled"]
      BY <1>4, <2>1
    <3> QED BY <1>1, <1>4, <2>1, <3>1, StateSet
  <2>2. CASE calls[c].op # "disable"
    BY <1>1, <2>2 DEF PublicationTypeOK
  <2> QED BY <2>1, <2>2
<1>6. PublicationTypeOK'
  BY <1>1, <1>2, <1>5 DEF PublicationTypeOK
<1>7. StreamsInv' /\ WantedInv'
  <2>1. impl'["publisher"].state = impl["publisher"].state \/ impl["publisher"].stream = NoStream
    BY <1>1, <1>4, <1>5 DEF Switches, Clients
  <2>2. impl'["publisher"].stream = impl["publisher"].stream /\ impl'["subscriber"].stream = impl["subscriber"].stream
    BY <1>5 DEF Clients
  <2> QED BY <1>1, <2>1, <2>2, StreamsKeep
<1>8. QueuedInv' /\ NoCallForgotten'
  BY <1>1, <1>2, QueuesKeep
<1>9. EnablesInv'
  BY <1>1, <1>2, <1>3, <1>4 DEF EnablesInv
<1>10. LastTells'
  BY <1>1, <1>5 DEF LastTells, Together, Switching, Word
<1>11. ShownInv'
  <2>1. \A y \in Clients : NoneComing(y)' <=> NoneComing(y)
    BY DEF NoneComing
  <2>2. Together' <=> Together
    BY DEF Together
  <2>3. CASE calls[c].op = "disable" /\ x = "publisher"
    BY <1>1, <1>3, <1>5, <2>1, <2>2, <2>3 DEF ShownInv, Clients
  <2>4. CASE calls[c].op = "disable" /\ x = "subscriber"
    BY <1>1, <1>3, <1>5, <2>1, <2>2, <2>4 DEF ShownInv, Clients
  <2>5. CASE calls[c].op # "disable"
    BY <1>1, <1>3, <1>5, <2>1, <2>2, <2>5 DEF ShownInv, Clients
  <2> QED BY <1>4, <2>3, <2>4, <2>5 DEF Clients
<1> QED BY <1>6, <1>7, <1>8, <1>9, <1>10, <1>11 DEF PublicationIInv

\* A disable switches the stream off.
LEMMA SwitchOffKeeps ==
    ASSUME PublicationIInv, NEW c \in Calls, calls[c].stage = "called", calls[c].op = "disable",
           Switches(calls[c].by),
           impl' = [impl EXCEPT ![calls[c].by].state = "disabled"],
           streams' = setEnabled(impl[calls[c].by].stream, FALSE, c),
           calls' = [calls EXCEPT ![c].stage = "switching"],
           UNCHANGED <<publication, coming, track, troubles, causes>>
    PROVE  PublicationIInv'
<1> DEFINE n == impl["publisher"].stream
<1>1. /\ PublicationTypeOK /\ StreamsInv /\ WantedInv /\ QueuedInv /\ NoCallForgotten
      /\ EnablesInv /\ LastTells /\ ShownInv
  BY DEF PublicationIInv
<1>2. calls[c].by = "publisher"
  BY <1>1 DEF PublicationTypeOK, Call, Clients, StreamsInv, Switches
<1>3. n \in Streams
  BY <1>1, <1>2, PublisherStream DEF Clients, Switches
<1>4. streams' = setEnabled(n, FALSE, c)
  BY <1>2
<1> HIDE DEF n
<1>5. /\ streams' \in [Streams -> LocalStream]
      /\ \A m \in Streams : Consistent(streams'[m], "not acquired" \notin causes')
      /\ Wanted(streams'[n]) = FALSE
      /\ InQueue(streams'[n], c)
      /\ \A m \in Streams : \A d : InQueue(streams[m], d) => InQueue(streams'[m], d)
      /\ \A m \in Streams : \A d : InQueue(streams'[m], d) => InQueue(streams[m], d) \/ d = c
  BY <1>1, <1>3, <1>4, PushKeeps, PublicationBounds
<1>6. /\ calls' \in [Calls -> Call]
      /\ calls'[c].op = "disable" /\ calls'[c].by = "publisher" /\ calls'[c].stage = "switching"
      /\ calls'[c].request = calls[c].request
      /\ \A d \in Calls : d # c => calls'[d] = calls[d]
  <2>1. calls \in [Calls -> Call] /\ calls[c] \in Call
    BY <1>1 DEF PublicationTypeOK
  <2> QED BY <1>2, <2>1 DEF Call
<1>7. /\ impl' \in [Clients -> Impl]
      /\ impl'["publisher"].stream = n /\ impl'["publisher"].state = "disabled"
      /\ impl'["subscriber"] = impl["subscriber"]
  BY <1>1, <1>2 DEF PublicationTypeOK, Impl, Clients, n
<1>8. PublicationTypeOK'
  BY <1>1, <1>5, <1>6, <1>7 DEF PublicationTypeOK
<1>9. StreamsInv' /\ WantedInv'
  BY <1>1, <1>5, <1>7 DEF StreamsInv, WantedInv
<1>10. QueuedInv' /\ NoCallForgotten'
  <2>1. QueuedInv'
    BY <1>1, <1>5, <1>6 DEF QueuedInv
  <2>2. NoCallForgotten'
    <3>1. ASSUME NEW d \in Calls, calls'[d].stage = "switching"
          PROVE  \E m \in Streams : InQueue(streams'[m], d)
      <4>1. CASE d = c
        BY <1>3, <1>5, <4>1
      <4>2. CASE d # c
        <5>1. calls[d].stage = "switching"
          BY <1>6, <3>1, <4>2
        <5>2. PICK m \in Streams : InQueue(streams[m], d)
          BY <1>1, <5>1 DEF NoCallForgotten
        <5> QED BY <1>5, <5>2
      <4> QED BY <4>1, <4>2
    <3>2. ASSUME NEW d \in Calls, calls'[d].stage = "over", calls'[d].op # "updateMetadata"
          PROVE  calls'[d].result # "pending"
      BY <1>1, <1>6, <3>2 DEF NoCallForgotten
    <3> QED BY <3>1, <3>2 DEF NoCallForgotten
  <2> QED BY <2>1, <2>2
<1>11. Seen' = Seen /\ Executed' = Executed
  BY <1>6 DEF Seen, Executed, Waiting
<1>12. Asking("publisher")' /\ (Asking("subscriber") => Asking("subscriber")')
  BY <1>2, <1>6 DEF Asking
<1>13. EnablesInv'
  BY <1>1, <1>6, <1>11 DEF EnablesInv
<1>14. LastTells'
  BY <1>1, <1>7 DEF LastTells, Together, Switching, Word, Clients
<1>15. ShownInv'
  BY <1>1, <1>7, <1>11, <1>12 DEF ShownInv, Together, NoneComing, Switching
<1> QED BY <1>8, <1>9, <1>10, <1>13, <1>14, <1>15 DEF PublicationIInv

LEMMA ProceedKeeps ==
    ASSUME PublicationIInv, NEW c \in Calls, Proceed(c)
    PROVE  PublicationIInv'
<1>1. CASE calls[c].op = "disable" /\ Switches(calls[c].by)
  BY <1>1, SwitchOffKeeps DEF Proceed
<1>2. CASE ~(calls[c].op = "disable" /\ Switches(calls[c].by))
  BY <1>2, AskAtOnceKeeps DEF Proceed
<1> QED BY <1>1, <1>2

\* An enable that has seen its event goes on.
LEMMA EnableStreamKeeps ==
    ASSUME PublicationIInv, NEW c \in Calls, enableStream(c)
    PROVE  PublicationIInv'
<1> DEFINE n == impl["publisher"].stream
           idle == impl["publisher"].state = "enabled" \/ n = NoStream
<1>1. /\ PublicationTypeOK /\ StreamsInv /\ WantedInv /\ QueuedInv /\ NoCallForgotten
      /\ EnablesInv /\ LastTells /\ ShownInv
  BY DEF PublicationIInv
<1>2. /\ UNCHANGED <<publication, coming, track, troubles, causes>>
      /\ calls[c].stage = "seen"
      /\ impl' = [impl EXCEPT !["publisher"].state = "enabled"]
      /\ idle => calls' = Resolved({c}) /\ UNCHANGED streams
      /\ ~idle => streams' = setEnabled(n, TRUE, c) /\ calls' = [calls EXCEPT ![c].stage = "switching"]
  BY DEF enableStream
<1>3. /\ impl' \in [Clients -> Impl]
      /\ impl'["publisher"].stream = n /\ impl'["publisher"].state = "enabled"
      /\ impl'["subscriber"] = impl["subscriber"]
  BY <1>1, <1>2 DEF PublicationTypeOK, Impl, Clients
<1>4. /\ calls' \in [Calls -> Call]
      /\ calls'[c].op = calls[c].op /\ calls'[c].by = calls[c].by /\ calls'[c].request = calls[c].request
      /\ \A d \in Calls : d # c => calls'[d] = calls[d]
      /\ calls'[c].stage = (IF idle THEN "over" ELSE "switching")
      /\ idle => calls'[c].result # "pending"
  <2>1. calls \in [Calls -> Call] /\ calls[c] \in Call
    BY <1>1 DEF PublicationTypeOK
  <2>2. CASE idle
    <3>1. calls' = Resolved({c})
      BY <1>2, <2>2
    <3> QED BY <1>1, <2>2, <3>1, ResolvedIs
  <2>3. CASE ~idle
    <3>1. calls' = [calls EXCEPT ![c].stage = "switching"]
      BY <1>2, <2>3
    <3> QED BY <2>1, <2>3, <3>1 DEF Call
  <2> QED BY <2>2, <2>3
<1>5. n # NoStream => n \in Streams
  BY <1>1, PublisherStream DEF Clients
<1> HIDE DEF n
<1>6. ~idle =>
      /\ streams' \in [Streams -> LocalStream]
      /\ \A m \in Streams : Consistent(streams'[m], "not acquired" \notin causes')
      /\ Wanted(streams'[n]) = TRUE
      /\ InQueue(streams'[n], c)
      /\ \A m \in Streams : \A d : InQueue(streams[m], d) => InQueue(streams'[m], d)
      /\ \A m \in Streams : \A d : InQueue(streams'[m], d) => InQueue(streams[m], d) \/ d = c
  <2> SUFFICES ASSUME ~idle
               PROVE  /\ streams' \in [Streams -> LocalStream]
                      /\ \A m \in Streams : Consistent(streams'[m], "not acquired" \notin causes')
                      /\ Wanted(streams'[n]) = TRUE
                      /\ InQueue(streams'[n], c)
                      /\ \A m \in Streams : \A d : InQueue(streams[m], d) => InQueue(streams'[m], d)
                      /\ \A m \in Streams : \A d : InQueue(streams'[m], d) => InQueue(streams[m], d) \/ d = c
    OBVIOUS
  <2>1. n \in Streams /\ streams' = setEnabled(n, TRUE, c) /\ causes \subseteq causes'
    BY <1>2, <1>5
  <2>2. c \in Nothing..Announce
    BY PublicationBounds
  <2> HIDE DEF idle
  <2> QED BY <1>1, <2>1, <2>2, PushKeeps
<1> HIDE DEF idle
<1>7. PublicationTypeOK'
  BY <1>1, <1>2, <1>3, <1>4, <1>6 DEF PublicationTypeOK
<1>8. StreamsInv' /\ WantedInv'
  <2>1. CASE idle
    BY <1>1, <1>2, <1>3, <2>1 DEF StreamsInv, WantedInv, idle, n
  <2>2. CASE ~idle
    BY <1>1, <1>2, <1>3, <1>6, <2>2 DEF StreamsInv, WantedInv
  <2> QED BY <2>1, <2>2
<1>9. calls[c].op = "enable" /\ calls[c].by = "publisher"
  BY <1>1, <1>2 DEF EnablesInv
<1>10. QueuedInv' /\ NoCallForgotten'
  <2>1. CASE idle
    BY <1>1, <1>2, <1>4, <1>9, <2>1, QueuesKeep
  <2>2. CASE ~idle
    <3>1. n \in Streams
      BY <1>5, <2>2 DEF idle
    <3>2. QueuedInv'
      BY <1>1, <1>4, <1>6, <1>9, <2>2 DEF QueuedInv
    <3>3. NoCallForgotten'
      BY <1>1, <1>4, <1>6, <2>2, <3>1 DEF NoCallForgotten
    <3> QED BY <3>2, <3>3
  <2> QED BY <2>1, <2>2
<1>11. Seen' \subseteq Seen /\ Seen # {} /\ Executed' = Executed
  BY <1>2, <1>4 DEF Seen, Executed, Waiting
<1>12. \A y \in Clients : Asking(y) => Asking(y)'
  BY <1>4, <1>9 DEF Asking
<1>13. EnablesInv'
  BY <1>1, <1>2, <1>4, <1>9, <1>11 DEF EnablesInv
<1>14. LastTells'
  BY <1>1, <1>2, <1>3 DEF LastTells, Together, Switching, Word, Clients
<1>15. ShownInv'
  BY <1>1, <1>2, <1>3, <1>11, <1>12 DEF ShownInv, Together, NoneComing, Switching, Clients
<1> QED BY <1>7, <1>8, <1>10, <1>13, <1>14, <1>15 DEF PublicationIInv

-----------------------------------------------------------------------------
(* The server and its answers.                                             *)

\* The server executes a request.
LEMMA ExecuteKeeps ==
    ASSUME PublicationIInv, NEW c \in Calls, Execute(c)
    PROVE  PublicationIInv'
<1>1. /\ PublicationTypeOK /\ StreamsInv /\ WantedInv /\ QueuedInv /\ NoCallForgotten
      /\ EnablesInv /\ LastTells /\ ShownInv
  BY DEF PublicationIInv
<1>2. /\ UNCHANGED <<impl, streams, track, troubles, causes>>
      /\ calls[c].request = "sent" /\ publication.there
      /\ calls' = [calls EXCEPT ![c].request = "executed"]
  BY DEF Execute
<1>3. /\ calls' \in [Calls -> Call]
      /\ calls'[c].op = calls[c].op /\ calls'[c].by = calls[c].by /\ calls'[c].stage = calls[c].stage
      /\ calls'[c].result = calls[c].result /\ calls'[c].request = "executed"
      /\ \A d \in Calls : d # c => calls'[d] = calls[d]
  <2>1. calls \in [Calls -> Call] /\ calls[c] \in Call
    BY <1>1 DEF PublicationTypeOK
  <2> QED BY <1>2, <2>1 DEF Call
<1>4. calls[c].op \in {"updateMetadata", "cancel", "enable", "disable"} /\ calls[c].stage \notin {"none", "called"}
  <2>1. calls[c] \in Call
    BY <1>1 DEF PublicationTypeOK
  <2> QED BY <1>1, <1>2, <2>1 DEF EnablesInv, Call, Operations
<1>5. publication \in [there : BOOLEAN, on : BOOLEAN] /\ publication.on \in BOOLEAN
  BY <1>1 DEF PublicationTypeOK
<1>6. \/ /\ calls[c].op = "updateMetadata" /\ publication' = publication /\ Emit("metadata")
      \/ /\ calls[c].op = "cancel" /\ publication' = [publication EXCEPT !.there = FALSE] /\ Emit("canceled")
      \/ /\ calls[c].op = "enable" /\ publication' = [publication EXCEPT !.on = TRUE] /\ Emit("enabled")
      \/ /\ calls[c].op = "disable" /\ publication' = [publication EXCEPT !.on = FALSE] /\ Emit("disabled")
      \/ /\ calls[c].op = "enable" /\ publication.on = TRUE /\ publication' = [publication EXCEPT !.on = TRUE]
         /\ coming' = coming
      \/ /\ calls[c].op = "disable" /\ publication.on = FALSE /\ publication' = [publication EXCEPT !.on = FALSE]
         /\ coming' = coming
  BY <1>4 DEF Execute
<1>7. publication' \in [there : BOOLEAN, on : BOOLEAN]
  BY <1>5, <1>6
<1>8. coming' \in [Clients -> Seq({"enabled", "disabled", "metadata", "canceled"})]
  BY <1>1, <1>6, Emitted DEF PublicationTypeOK
<1>9. PublicationTypeOK'
  BY <1>1, <1>2, <1>3, <1>7, <1>8 DEF PublicationTypeOK
<1>10. StreamsInv' /\ WantedInv'
  BY <1>1, <1>2, StreamsKeep
<1>11. QueuedInv'
  BY <1>1, <1>2, <1>3 DEF QueuedInv
<1>12. NoCallForgotten'
  BY <1>1, <1>2, <1>3 DEF NoCallForgotten
<1>13. Seen' = Seen
  BY <1>3 DEF Seen
<1>14. Executed \subseteq Executed' /\ c \notin Executed
  BY <1>2, <1>3 DEF Executed, Waiting
<1>15. causes \cap Apart = {} /\ calls[c].op = "enable" => c \in Executed'
  BY <1>1, <1>2, <1>3 DEF EnablesInv, Executed, Waiting
<1>16. \A x \in Clients : calls[c].op # "disable" => (Asking(x)' <=> Asking(x))
  BY <1>3 DEF Asking
<1>17. EnablesInv'
  <2>1. \A d \in Calls :
          /\ calls'[d].op = "enable" => calls'[d].by = "publisher"
          /\ calls'[d].stage = "seen" => calls'[d].op = "enable"
          /\ calls'[d].stage \in {"none", "called"} => calls'[d].request = "none"
    BY <1>1, <1>3, <1>4 DEF EnablesInv
  <2>2. ASSUME causes \cap Apart = {}
        PROVE  \A d \in Calls : calls'[d].op = "enable" /\ calls'[d].request = "sent" => calls'[d].stage = "waiting"
    BY <1>1, <1>3, <2>2 DEF EnablesInv
  <2>3. ASSUME causes \cap Apart = {},
               NEW i \in 1..Len(coming'["publisher"]), coming'["publisher"][i] = "enabled"
        PROVE  \/ c \in Executed' /\ i = Len(coming'["publisher"]) /\ calls[c].op = "enable"
                  /\ Len(coming'["publisher"]) = Len(coming["publisher"]) + 1
               \/ i \in 1..Len(coming["publisher"]) /\ coming["publisher"][i] = "enabled"
    <3>1. CASE coming' = coming
      BY <2>3, <3>1
    <3>2. ASSUME NEW e \in {"enabled", "disabled", "metadata", "canceled"}, Emit(e),
                 e = "enabled" => calls[c].op = "enable"
          PROVE  \/ c \in Executed' /\ i = Len(coming'["publisher"]) /\ calls[c].op = "enable"
                    /\ Len(coming'["publisher"]) = Len(coming["publisher"]) + 1
                 \/ i \in 1..Len(coming["publisher"]) /\ coming["publisher"][i] = "enabled"
      <4>1. /\ Len(coming["publisher"]) \in Nat
            /\ Len(coming'["publisher"]) = Len(coming["publisher"]) + 1
            /\ \A j \in 1..Len(coming["publisher"]) : coming'["publisher"][j] = coming["publisher"][j]
            /\ coming'["publisher"][Len(coming'["publisher"])] = e
        BY <1>1, <3>2, Emitted DEF Clients
      <4>2. i = Len(coming'["publisher"]) \/ i \in 1..Len(coming["publisher"])
        BY <4>1
      <4> QED BY <1>15, <2>3, <3>2, <4>1, <4>2
    <3> QED BY <1>6, <3>1, <3>2
  <2>4. ASSUME causes \cap Apart = {},
               NEW i \in 1..Len(coming'["publisher"]), coming'["publisher"][i] = "enabled"
        PROVE  Executed' # {}
    BY <1>1, <1>14, <2>3, <2>4 DEF EnablesInv
  <2>5. ASSUME causes \cap Apart = {},
               NEW i \in 1..Len(coming'["publisher"]), NEW j \in 1..Len(coming'["publisher"]), i # j,
               coming'["publisher"][i] = "enabled", coming'["publisher"][j] = "enabled"
        PROVE  \E d, e \in Executed' : d # e
    <3>1. CASE i \in 1..Len(coming["publisher"]) /\ coming["publisher"][i] = "enabled"
               /\ j \in 1..Len(coming["publisher"]) /\ coming["publisher"][j] = "enabled"
      <4>1. PICK d, e \in Executed : d # e
        BY <1>1, <2>5, <3>1 DEF EnablesInv
      <4> QED BY <1>14, <4>1
    <3>2. CASE c \in Executed'
               /\ \E k \in 1..Len(coming["publisher"]) : coming["publisher"][k] = "enabled"
      <4>1. PICK d : d \in Executed
        BY <1>1, <2>5, <3>2 DEF EnablesInv
      <4> QED BY <1>14, <3>2, <4>1
    <3> QED BY <2>3, <2>5, <3>1, <3>2
  <2> QED BY <1>2, <2>1, <2>2, <2>4, <2>5 DEF EnablesInv
<1>18. LastTells'
  <2> SUFFICES ASSUME Together'
               PROVE  \A x \in Clients :
                        /\ impl'[x].state # "canceled"
                        /\ \A i \in 1..Len(coming'[x]) :
                              /\ coming'[x][i] # "canceled"
                              /\ Switching(coming'[x][i])
                                 /\ (\A j \in 1..Len(coming'[x]) : j > i => ~Switching(coming'[x][j]))
                                    => coming'[x][i] = Word(publication'.on)
    BY DEF LastTells, Switching, Word
  <2>1. Together /\ calls[c].op # "cancel"
    BY <1>2, <1>4, <1>5, <1>6 DEF Together
  <2>2. \A x \in Clients :
           /\ impl'[x].state # "canceled"
           /\ \A i \in 1..Len(coming[x]) :
                 /\ coming[x][i] # "canceled"
                 /\ Switching(coming[x][i])
                    /\ (\A j \in 1..Len(coming[x]) : j > i => ~Switching(coming[x][j]))
                       => coming[x][i] = Word(publication.on)
    BY <1>1, <1>2, <2>1 DEF LastTells
  <2>3. CASE coming' = coming /\ publication'.on = publication.on
    BY <2>2, <2>3
  <2>4. ASSUME NEW e \in {"enabled", "disabled", "metadata"}, Emit(e),
               IF e = "metadata" THEN publication'.on = publication.on ELSE e = Word(publication'.on)
        PROVE  \A x \in Clients : \A i \in 1..Len(coming'[x]) :
                  /\ coming'[x][i] # "canceled"
                  /\ Switching(coming'[x][i])
                     /\ (\A j \in 1..Len(coming'[x]) : j > i => ~Switching(coming'[x][j]))
                        => coming'[x][i] = Word(publication'.on)
    <3> TAKE x \in Clients
    <3> TAKE i \in 1..Len(coming'[x])
    <3>1. /\ Len(coming[x]) \in Nat /\ Len(coming'[x]) = Len(coming[x]) + 1
          /\ \A j \in 1..Len(coming[x]) : coming'[x][j] = coming[x][j]
          /\ coming'[x][Len(coming'[x])] = e
      BY <1>1, <2>4, Emitted
    <3>2. CASE i = Len(coming'[x])
      BY <2>4, <3>1, <3>2 DEF Switching
    <3>3. CASE i \in 1..Len(coming[x]) /\ e = "metadata"
      <4>1. \A j \in 1..Len(coming[x]) : j \in 1..Len(coming'[x])
        BY <3>1
      <4> QED BY <2>2, <2>4, <3>1, <3>3, <4>1
    <3>4. CASE i \in 1..Len(coming[x]) /\ e # "metadata"
      <4>1. Len(coming'[x]) \in 1..Len(coming'[x]) /\ Len(coming'[x]) > i
        BY <3>1, <3>4
      <4>2. Switching(coming'[x][Len(coming'[x])])
        BY <3>1, <3>4 DEF Switching
      <4> QED BY <2>2, <3>1, <3>4, <4>1, <4>2
    <3> QED BY <3>1, <3>2, <3>3, <3>4
  <2>5. \/ coming' = coming /\ publication'.on = publication.on
        \/ \E e \in {"enabled", "disabled", "metadata"} :
              /\ Emit(e)
              /\ IF e = "metadata" THEN publication'.on = publication.on ELSE e = Word(publication'.on)
    BY <1>5, <1>6, <2>1 DEF Word
  <2> QED BY <2>2, <2>3, <2>4, <2>5
<1>19. ShownInv'
  <2>1. CASE calls[c].op = "updateMetadata" /\ publication' = publication /\ Emit("metadata")
    <3>1. \A x \in Clients : (NoneComing(x)' <=> NoneComing(x)) /\ (Asking(x)' <=> Asking(x))
      BY <1>1, <1>16, <2>1, Emitted DEF Switching
    <3> QED BY <1>1, <1>2, <1>13, <2>1, <3>1 DEF ShownInv, Together, Clients
  <2>2. CASE calls[c].op = "cancel" /\ publication' = [publication EXCEPT !.there = FALSE]
    BY <1>5, <2>2 DEF ShownInv, Together
  <2>3. CASE Emit("enabled") \/ Emit("disabled")
    <3>1. \A x \in Clients : ~NoneComing(x)'
      BY <1>1, <2>3, Emitted DEF Switching
    <3> QED BY <3>1 DEF ShownInv, Clients
  <2>4. CASE calls[c].op = "enable" /\ publication.on = TRUE /\ publication' = [publication EXCEPT !.on = TRUE]
             /\ coming' = coming
    <3>1. publication'.on = TRUE /\ publication'.there = publication.there
      BY <1>5, <2>4
    <3>2. \A x \in Clients : (NoneComing(x)' <=> NoneComing(x)) /\ (Asking(x)' <=> Asking(x))
      BY <1>16, <2>4 DEF NoneComing
    <3> QED BY <1>1, <1>2, <1>13, <2>4, <3>1, <3>2 DEF ShownInv, Together, Clients
  <2>5. CASE calls[c].op = "disable" /\ publication.on = FALSE /\ publication' = [publication EXCEPT !.on = FALSE]
             /\ coming' = coming
    <3>1. publication'.on = FALSE /\ publication'.there = publication.there
      BY <1>5, <2>5
    <3>2. \A x \in Clients : NoneComing(x)' <=> NoneComing(x)
      BY <2>5 DEF NoneComing
    <3> QED BY <1>1, <1>2, <1>13, <2>5, <3>1, <3>2 DEF ShownInv, Together, Clients
  <2> QED BY <1>6, <2>1, <2>2, <2>3, <2>4, <2>5
<1> QED BY <1>9, <1>10, <1>11, <1>12, <1>17, <1>18, <1>19 DEF PublicationIInv

\* A request is refused.
LEMMA RefuseKeeps ==
    ASSUME PublicationIInv, NEW c \in Calls, Refuse(c)
    PROVE  PublicationIInv'
<1>1. /\ PublicationTypeOK /\ StreamsInv /\ WantedInv /\ QueuedInv /\ NoCallForgotten
      /\ EnablesInv /\ LastTells /\ ShownInv
  BY DEF PublicationIInv
<1>2. /\ UNCHANGED <<publication, coming, impl, streams, track>>
      /\ calls[c].request = "sent"
      /\ calls' = [calls EXCEPT ![c].request = "refused", ![c].result = "rejected"]
      /\ causes' = IF calls[c].op = "disable" THEN causes \cup {"refused"} ELSE causes
      /\ Trouble \/ UNCHANGED troubles
  BY DEF Refuse
<1>3. /\ calls' \in [Calls -> Call]
      /\ calls'[c].op = calls[c].op /\ calls'[c].by = calls[c].by /\ calls'[c].stage = calls[c].stage
      /\ calls'[c].result = "rejected" /\ calls'[c].request = "refused"
      /\ \A d \in Calls : d # c => calls'[d] = calls[d]
  <2>1. calls \in [Calls -> Call] /\ calls[c] \in Call
    BY <1>1 DEF PublicationTypeOK
  <2> QED BY <1>2, <2>1 DEF Call
<1>4. calls[c].stage \notin {"none", "called"}
  BY <1>1, <1>2 DEF EnablesInv
<1>5. PublicationTypeOK'
  BY <1>1, <1>2, <1>3, TroubleCounted DEF PublicationTypeOK
<1>6. causes \subseteq causes' /\ ("refused" \in causes' \/ (calls[c].op # "disable" /\ causes' = causes))
  BY <1>2
<1>7. StreamsInv' /\ WantedInv'
  BY <1>1, <1>2, <1>6, StreamsKeep
<1>8. QueuedInv'
  BY <1>1, <1>2, <1>3 DEF QueuedInv
<1>9. NoCallForgotten'
  BY <1>1, <1>2, <1>3 DEF NoCallForgotten
<1>10. Seen' = Seen /\ Executed' = Executed
  BY <1>2, <1>3 DEF Seen, Executed, Waiting
<1>11. causes' \cap Apart = {} => causes \cap Apart = {} /\ calls[c].op # "disable"
  BY <1>6 DEF Apart
<1>12. calls[c].op # "disable" => \A x \in Clients : Asking(x)' <=> Asking(x)
  BY <1>3 DEF Asking
<1>13. EnablesInv'
  BY <1>1, <1>2, <1>3, <1>4, <1>10, <1>11 DEF EnablesInv
<1>14. LastTells'
  BY <1>1, <1>2, <1>11 DEF LastTells, Together, Switching, Word
<1>15. ShownInv'
  BY <1>1, <1>2, <1>10, <1>11, <1>12 DEF ShownInv, Together, NoneComing, Switching, Clients
<1> QED BY <1>5, <1>7, <1>8, <1>9, <1>13, <1>14, <1>15 DEF PublicationIInv

\* The answer of a request that was executed is lost.
LEMMA AnswerLostKeeps ==
    ASSUME PublicationIInv, NEW c \in Calls, AnswerLost(c)
    PROVE  PublicationIInv'
<1>1. /\ PublicationTypeOK /\ StreamsInv /\ WantedInv /\ QueuedInv /\ NoCallForgotten
      /\ EnablesInv /\ LastTells /\ ShownInv
  BY DEF PublicationIInv
<1>2. /\ UNCHANGED <<publication, coming, impl, streams, track, causes>>
      /\ calls' = [calls EXCEPT ![c].result = "rejected"]
      /\ Trouble
  BY DEF AnswerLost
<1>3. /\ calls' \in [Calls -> Call]
      /\ calls'[c].result = "rejected"
      /\ \A d \in Calls : /\ calls'[d].op = calls[d].op /\ calls'[d].by = calls[d].by
                          /\ calls'[d].stage = calls[d].stage /\ calls'[d].request = calls[d].request
                          /\ d # c => calls'[d].result = calls[d].result
  <2>1. calls \in [Calls -> Call] /\ calls[c] \in Call
    BY <1>1 DEF PublicationTypeOK
  <2> QED BY <1>2, <2>1 DEF Call
<1>4. PublicationTypeOK'
  BY <1>1, <1>2, <1>3, TroubleCounted DEF PublicationTypeOK
<1>5. StreamsInv' /\ WantedInv'
  BY <1>1, <1>2, StreamsKeep
<1>6. QueuedInv' /\ NoCallForgotten'
  BY <1>1, <1>2, <1>3 DEF QueuedInv, NoCallForgotten
<1>7. Seen' = Seen /\ Executed' = Executed /\ \A x \in Clients : Asking(x)' <=> Asking(x)
  BY <1>3 DEF Seen, Executed, Waiting, Asking
<1>8. EnablesInv'
  BY <1>1, <1>2, <1>3, <1>7 DEF EnablesInv
<1>9. LastTells'
  BY <1>1, <1>2 DEF LastTells, Together, Switching, Word
<1>10. ShownInv'
  BY <1>1, <1>2, <1>7 DEF ShownInv, Together, NoneComing, Switching, Clients
<1> QED BY <1>4, <1>5, <1>6, <1>8, <1>9, <1>10 DEF PublicationIInv

\* A call gives up.
LEMMA TimeoutKeeps ==
    ASSUME PublicationIInv, NEW c \in Calls, WaitTimeout(c)
    PROVE  PublicationIInv'
<1>1. /\ PublicationTypeOK /\ StreamsInv /\ WantedInv /\ QueuedInv /\ NoCallForgotten
      /\ EnablesInv /\ LastTells /\ ShownInv
  BY DEF PublicationIInv
<1> DEFINE late == calls[c].op # "updateMetadata" /\ calls[c].result = "pending"
<1>2. /\ UNCHANGED <<publication, coming, impl, streams, track>>
      /\ calls[c].stage = "waiting"
      /\ calls' = [calls EXCEPT ![c].stage = "over", ![c].result = IF late THEN "rejected" ELSE @]
      /\ causes' = IF calls[c].op = "enable" /\ calls[c].request # "refused" THEN causes \cup {"timed out"} ELSE causes
      /\ Trouble \/ UNCHANGED troubles
  BY DEF WaitTimeout
<1>3. /\ calls' \in [Calls -> Call]
      /\ calls'[c].op = calls[c].op /\ calls'[c].by = calls[c].by /\ calls'[c].stage = "over"
      /\ calls'[c].op # "updateMetadata" => calls'[c].result # "pending"
      /\ calls'[c].request = calls[c].request
      /\ \A d \in Calls : d # c => calls'[d] = calls[d]
  <2>1. calls \in [Calls -> Call] /\ calls[c] \in Call
    BY <1>1 DEF PublicationTypeOK
  <2> QED BY <1>2, <2>1 DEF Call
<1>5. PublicationTypeOK'
  BY <1>1, <1>2, <1>3, TroubleCounted DEF PublicationTypeOK
<1>6. causes \subseteq causes'
  BY <1>2
<1>7. StreamsInv' /\ WantedInv'
  BY <1>1, <1>2, <1>6, StreamsKeep
<1>8. QueuedInv' /\ NoCallForgotten'
  BY <1>1, <1>2, <1>3, QueuesKeep
<1>9. Seen' = Seen
  BY <1>2, <1>3 DEF Seen
<1>10. causes' \cap Apart = {} => causes \cap Apart = {} /\ ~(calls[c].op = "enable" /\ calls[c].request # "refused")
  BY <1>2 DEF Apart
<1>11. causes' \cap Apart = {} => Executed' = Executed
  BY <1>3, <1>10 DEF Executed, Waiting
<1>12. \A x \in Clients : Asking(x)' <=> Asking(x)
  <2>1. \A d \in Calls : /\ calls'[d].op = calls[d].op /\ calls'[d].by = calls[d].by
                         /\ calls'[d].request = calls[d].request
                         /\ calls'[d].stage = "switching" <=> calls[d].stage = "switching"
    BY <1>2, <1>3
  <2> QED BY <2>1 DEF Asking
<1>13. EnablesInv'
  <2>1. \A d \in Calls :
          /\ calls'[d].op = "enable" => calls'[d].by = "publisher"
          /\ calls'[d].stage = "seen" => calls'[d].op = "enable"
          /\ calls'[d].stage \in {"none", "called"} => calls'[d].request = "none"
    BY <1>1, <1>3 DEF EnablesInv
  <2>2. ASSUME causes' \cap Apart = {}
        PROVE  \A d \in Calls : calls'[d].op = "enable" /\ calls'[d].request = "sent" => calls'[d].stage = "waiting"
    BY <1>1, <1>2, <1>3, <1>10, <2>2 DEF EnablesInv
  <2>3. ASSUME causes' \cap Apart = {}
        PROVE  /\ \A i \in 1..Len(coming'["publisher"]) : coming'["publisher"][i] = "enabled" => Executed' # {}
               /\ \A i, j \in 1..Len(coming'["publisher"]) :
                     i # j /\ coming'["publisher"][i] = "enabled" /\ coming'["publisher"][j] = "enabled" =>
                         \E d, e \in Executed' : d # e
    <3>1. Executed' = Executed /\ causes \cap Apart = {} /\ coming' = coming
      BY <1>2, <1>10, <1>11, <2>3
    <3> QED BY <1>1, <3>1 DEF EnablesInv
  <2> QED BY <2>1, <2>2, <2>3 DEF EnablesInv
<1>14. LastTells'
  BY <1>1, <1>2, <1>10 DEF LastTells, Together, Switching, Word
<1>15. ShownInv'
  BY <1>1, <1>2, <1>9, <1>10, <1>12 DEF ShownInv, Together, NoneComing, Switching, Clients
<1> QED BY <1>5, <1>7, <1>8, <1>13, <1>14, <1>15 DEF PublicationIInv

-----------------------------------------------------------------------------
(* The events.                                                             *)

\* What comes after the first event is taken.
LEMMA TakenTells ==
    ASSUME PublicationTypeOK, LastTells, NEW x \in Clients, coming[x] # <<>>,
           coming' = [coming EXCEPT ![x] = Tail(@)], publication' = publication, causes \subseteq causes',
           Head(coming[x]) # "canceled" =>
               \A y \in Clients : impl'[y].state # "canceled" \/ impl'[y].state = impl[y].state
    PROVE  /\ LastTells'
           /\ Together' => Together /\ Head(coming[x]) # "canceled"
           /\ Together' /\ NoneComing(x)' /\ Switching(Head(coming[x])) => Head(coming[x]) = Word(publication'.on)
<1>1. /\ Head(coming[x]) = coming[x][1] /\ Len(coming[x]) \in Nat \ {0}
      /\ Len(coming'[x]) = Len(coming[x]) - 1
      /\ \A i \in 1..Len(coming'[x]) : coming'[x][i] = coming[x][i + 1]
      /\ \A y \in Clients : y # x => coming'[y] = coming[y]
  BY EventTaken
<1>2. 1 \in 1..Len(coming[x])
  BY <1>1
<1>3. Together' => Together
  BY DEF Together
<1>4. Together => Head(coming[x]) # "canceled"
  BY <1>1, <1>2 DEF LastTells
<1>5. \A i \in 1..Len(coming'[x]) : i + 1 \in 1..Len(coming[x])
  BY <1>1
<1>6. \A j \in 1..Len(coming[x]) : \A i \in 1..Len(coming'[x]) :
         j > i + 1 => j - 1 \in 1..Len(coming'[x]) /\ j - 1 > i /\ coming'[x][j - 1] = coming[x][j]
  BY <1>1
<1>7. ASSUME Together', NEW i \in 1..Len(coming'[x]),
             Switching(coming'[x][i]), \A j \in 1..Len(coming'[x]) : j > i => ~Switching(coming'[x][j])
      PROVE  coming'[x][i] = Word(publication'.on)
  <2>1. \A j \in 1..Len(coming[x]) : j > i + 1 => ~Switching(coming[x][j])
    BY <1>6, <1>7
  <2>2. Switching(coming[x][i + 1]) /\ i + 1 \in 1..Len(coming[x])
    BY <1>1, <1>5, <1>7
  <2>3. coming[x][i + 1] = Word(publication.on)
    BY <1>3, <1>7, <2>1, <2>2 DEF LastTells
  <2> QED BY <1>1, <2>3
<1>8. LastTells'
  <2> SUFFICES ASSUME Together', NEW y \in Clients
               PROVE  /\ impl'[y].state # "canceled"
                      /\ \A i \in 1..Len(coming'[y]) :
                            /\ coming'[y][i] # "canceled"
                            /\ Switching(coming'[y][i])
                               /\ (\A j \in 1..Len(coming'[y]) : j > i => ~Switching(coming'[y][j]))
                                  => coming'[y][i] = Word(publication'.on)
    BY DEF LastTells, Switching, Word
  <2>1. impl'[y].state # "canceled"
    BY <1>3, <1>4 DEF LastTells
  <2>2. CASE y = x
    <3>1. \A i \in 1..Len(coming'[x]) : coming'[x][i] # "canceled"
      BY <1>1, <1>3, <1>5 DEF LastTells
    <3> QED BY <1>7, <2>1, <2>2, <3>1
  <2>3. CASE y # x
    <3>1. coming'[y] = coming[y]
      BY <1>1, <2>3
    <3> QED BY <1>3, <2>1, <3>1 DEF LastTells
  <2> QED BY <2>2, <2>3
<1>9. ASSUME Together', NoneComing(x)', Switching(Head(coming[x]))
      PROVE  Head(coming[x]) = Word(publication'.on)
  <2>1. \A j \in 1..Len(coming[x]) : j > 1 => j - 1 \in 1..Len(coming'[x]) /\ coming'[x][j - 1] = coming[x][j]
    BY <1>1
  <2>2. \A j \in 1..Len(coming[x]) : j > 1 => ~Switching(coming[x][j])
    BY <1>9, <2>1 DEF NoneComing, Switching
  <2> QED BY <1>1, <1>2, <1>3, <1>9, <2>2 DEF LastTells
<1> QED BY <1>3, <1>4, <1>8, <1>9

\* The enables that have an event of their own have it when the first event is taken.
LEMMA TakenEnables ==
    ASSUME PublicationTypeOK, EnablesInv, NEW x \in Clients, coming[x] # <<>>,
           coming' = [coming EXCEPT ![x] = Tail(@)], causes \cap Apart = {}
    PROVE  /\ \A i \in 1..Len(coming'["publisher"]) : coming'["publisher"][i] = "enabled" => Executed # {}
           /\ \A i, j \in 1..Len(coming'["publisher"]) :
                 i # j /\ coming'["publisher"][i] = "enabled" /\ coming'["publisher"][j] = "enabled" =>
                     \E c, d \in Executed : c # d
           /\ x = "publisher" /\ Head(coming[x]) = "enabled" =>
                 /\ Executed # {}
                 /\ \A i \in 1..Len(coming'["publisher"]) : coming'["publisher"][i] = "enabled" =>
                       \E c, d \in Executed : c # d
<1>1. /\ Head(coming[x]) = coming[x][1] /\ Len(coming[x]) \in Nat \ {0}
      /\ Len(coming'[x]) = Len(coming[x]) - 1
      /\ \A i \in 1..Len(coming'[x]) : coming'[x][i] = coming[x][i + 1]
      /\ \A y \in Clients : y # x => coming'[y] = coming[y]
  BY EventTaken
<1>2. CASE x = "publisher"
  <2>1. 1 \in 1..Len(coming[x]) /\ \A i \in 1..Len(coming'[x]) : i + 1 \in 1..Len(coming[x]) /\ i + 1 # 1
    BY <1>1
  <2>2. \A i, j \in 1..Len(coming'[x]) : i # j => i + 1 # j + 1
    BY <1>1
  <2>3. \A i \in 1..Len(coming'["publisher"]) : coming'["publisher"][i] = "enabled" => Executed # {}
    BY <1>1, <1>2, <2>1 DEF EnablesInv
  <2>4. ASSUME NEW i \in 1..Len(coming'["publisher"]), NEW j \in 1..Len(coming'["publisher"]), i # j,
               coming'["publisher"][i] = "enabled", coming'["publisher"][j] = "enabled"
        PROVE  \E c, d \in Executed : c # d
    <3>1. /\ i + 1 \in 1..Len(coming["publisher"]) /\ j + 1 \in 1..Len(coming["publisher"]) /\ i + 1 # j + 1
          /\ coming["publisher"][i + 1] = "enabled" /\ coming["publisher"][j + 1] = "enabled"
      BY <1>1, <1>2, <2>1, <2>2, <2>4
    <3> QED BY <3>1 DEF EnablesInv
  <2>5. ASSUME Head(coming[x]) = "enabled"
        PROVE  Executed # {}
    BY <1>1, <1>2, <2>1, <2>5 DEF EnablesInv
  <2>6. ASSUME Head(coming[x]) = "enabled",
               NEW i \in 1..Len(coming'["publisher"]), coming'["publisher"][i] = "enabled"
        PROVE  \E c, d \in Executed : c # d
    <3>1. /\ 1 \in 1..Len(coming["publisher"]) /\ i + 1 \in 1..Len(coming["publisher"]) /\ i + 1 # 1
          /\ coming["publisher"][1] = "enabled" /\ coming["publisher"][i + 1] = "enabled"
      BY <1>1, <1>2, <2>1, <2>6
    <3> QED BY <3>1 DEF EnablesInv
  <2> QED BY <2>3, <2>4, <2>5, <2>6
<1>3. CASE x # "publisher"
  <2>1. coming'["publisher"] = coming["publisher"]
    BY <1>1, <1>3 DEF Clients
  <2> QED BY <1>3, <2>1 DEF EnablesInv
<1> QED BY <1>2, <1>3

\* The event "enabled", when the client has a stream.
LEMMA EnabledWithStreamKeeps ==
    ASSUME PublicationIInv, NEW x \in Clients, coming[x] # <<>>, Head(coming[x]) = "enabled",
           coming' = [coming EXCEPT ![x] = Tail(@)], UNCHANGED <<publication, troubles>>,
           impl[x].stream # NoStream, Enabled(x)
    PROVE  PublicationIInv'
<1>1. /\ PublicationTypeOK /\ StreamsInv /\ WantedInv /\ QueuedInv /\ NoCallForgotten
      /\ EnablesInv /\ LastTells /\ ShownInv
  BY DEF PublicationIInv
<1>2. x = "publisher"
  BY <1>1 DEF StreamsInv, Clients
<1>3. /\ UNCHANGED <<impl, track, streams>>
      /\ calls' = [c \in Calls |-> IF c \in Waiting(x, "enable") THEN [calls[c] EXCEPT !.stage = "seen"] ELSE calls[c]]
      /\ causes' = causes \cup (IF \E c, d \in Waiting(x, "enable") \cup Seen : c # d THEN {"enabled twice"} ELSE {})
                          \cup (IF impl[x].announcing THEN {"back to back"} ELSE {})
  BY DEF Enabled
<1>4. causes \subseteq causes' /\ causes' \subseteq causes \cup {"enabled twice", "back to back"}
  BY <1>3
<1>5. causes' \cap Apart = {} =>
         causes \cap Apart = {} /\ \A c, d \in Waiting("publisher", "enable") \cup Seen : c = d
  BY <1>2, <1>3 DEF Apart
<1>6. /\ calls' \in [Calls -> Call]
      /\ \A c \in Calls : /\ calls'[c].op = calls[c].op /\ calls'[c].by = calls[c].by
                          /\ calls'[c].request = calls[c].request /\ calls'[c].result = calls[c].result
                          /\ c \in Waiting("publisher", "enable") =>
                                calls'[c].stage = "seen" /\ calls[c].op = "enable" /\ calls[c].stage = "waiting"
                          /\ c \notin Waiting("publisher", "enable") => calls'[c] = calls[c]
  <2>1. \A c \in Calls : calls[c] \in Call
    BY <1>1 DEF PublicationTypeOK
  <2> QED BY <1>2, <1>3, <2>1 DEF Call, Waiting
<1>7. coming' \in [Clients -> Seq({"enabled", "disabled", "metadata", "canceled"})]
  BY <1>1, EventTaken
<1>8. PublicationTypeOK'
  BY <1>1, <1>3, <1>4, <1>6, <1>7 DEF PublicationTypeOK
<1>9. StreamsInv' /\ WantedInv'
  BY <1>1, <1>3, <1>4, StreamsKeep
<1>10. QueuedInv' /\ NoCallForgotten'
  <2>1. \A c \in Calls :
           \/ calls'[c] = calls[c]
           \/ calls[c].op = "enable" /\ calls[c].stage = "waiting" /\ calls'[c].stage = "seen"
    BY <1>6
  <2> QED BY <1>1, <1>3, <2>1, QueuesKeep
<1>11. Seen' = Seen \cup Waiting("publisher", "enable") /\ Executed \subseteq Waiting("publisher", "enable")
  BY <1>6 DEF Seen, Executed, Waiting
<1>12. \A y \in Clients : Asking(y)' <=> Asking(y)
  BY <1>6 DEF Asking
<1>13. causes' \cap Apart = {} =>
          /\ Executed # {}
          /\ \A i \in 1..Len(coming'["publisher"]) : coming'["publisher"][i] # "enabled"
  BY <1>1, <1>2, <1>5, <1>11, TakenEnables
<1>14. EnablesInv'
  <2>1. \A c \in Calls :
          /\ calls'[c].op = "enable" => calls'[c].by = "publisher"
          /\ calls'[c].stage = "seen" => calls'[c].op = "enable"
          /\ calls'[c].stage \in {"none", "called"} => calls'[c].request = "none"
    BY <1>1, <1>6 DEF EnablesInv
  <2>2. ASSUME causes' \cap Apart = {}, NEW c \in Calls, calls'[c].op = "enable", calls'[c].request = "sent"
        PROVE  calls'[c].stage = "waiting"
    <3>1. c \in Waiting("publisher", "enable")
      BY <1>1, <1>5, <1>6, <2>2 DEF EnablesInv, Waiting
    <3>2. PICK d : d \in Executed
      BY <1>13, <2>2
    <3>3. c = d
      BY <1>5, <1>11, <2>2, <3>1, <3>2
    <3>4. calls[c].request = "executed" /\ calls[c].request = "sent"
      BY <1>6, <2>2, <3>2, <3>3 DEF Executed
    <3> QED BY <3>4
  <2> QED BY <1>13, <2>1, <2>2 DEF EnablesInv
<1>15. LastTells' /\ (Together' => Together)
       /\ (Together' /\ NoneComing("publisher")' => publication'.on)
  BY <1>1, <1>2, <1>3, <1>4, TakenTells DEF Switching, Word
<1>16. ShownInv'
  <2>1. Together' => Seen' # {} /\ impl'["publisher"].state # "canceled"
    <3>1. Together' => causes' \cap Apart = {} /\ Together
      BY <1>15 DEF Together
    <3>2. Together => impl["publisher"].state # "canceled"
      BY <1>1 DEF LastTells, Clients
    <3> QED BY <1>3, <1>11, <1>13, <3>1, <3>2
  <2>2. NoneComing("subscriber")' <=> NoneComing("subscriber")
    BY <1>1, <1>2, EventTaken DEF Clients
  <2> QED BY <1>1, <1>3, <1>12, <1>15, <2>1, <2>2 DEF ShownInv, Clients
<1> QED BY <1>8, <1>9, <1>10, <1>14, <1>15, <1>16 DEF PublicationIInv

\* The event "enabled" without a stream.
LEMMA EnabledKeeps ==
    ASSUME PublicationIInv, NEW x \in Clients, coming[x] # <<>>, Head(coming[x]) = "enabled",
           coming' = [coming EXCEPT ![x] = Tail(@)], UNCHANGED <<publication, troubles>>,
           impl[x].stream = NoStream, Enabled(x)
    PROVE  PublicationIInv'
<1>1. /\ PublicationTypeOK /\ StreamsInv /\ WantedInv /\ QueuedInv /\ NoCallForgotten
      /\ EnablesInv /\ LastTells /\ ShownInv
  BY DEF PublicationIInv
<1>2. /\ UNCHANGED <<calls, streams>>
      /\ impl' = [impl EXCEPT ![x].state = "enabled"]
      /\ track' = IF x = "subscriber" /\ track # "none" THEN "on" ELSE track
      /\ causes' = causes \cup (IF impl[x].announcing THEN {"back to back"} ELSE {})
  BY DEF Enabled
<1>3. causes \subseteq causes' /\ causes' \subseteq causes \cup {"back to back"}
  BY <1>2
<1>4. causes' \cap Apart = {} => causes \cap Apart = {} /\ ~impl[x].announcing
  BY <1>2 DEF Apart
<1>5. /\ impl' \in [Clients -> Impl]
      /\ impl'[x].state = "enabled"
      /\ \A y \in Clients : /\ impl'[y].stream = impl[y].stream
                            /\ impl'[y].announcing = impl[y].announcing
                            /\ y # x => impl'[y] = impl[y]
  BY <1>1, <1>2, StateSet
<1>6. coming' \in [Clients -> Seq({"enabled", "disabled", "metadata", "canceled"})]
  BY <1>1, EventTaken
<1>7. PublicationTypeOK'
  BY <1>1, <1>2, <1>3, <1>5, <1>6 DEF PublicationTypeOK
<1>8. StreamsInv' /\ WantedInv'
  BY <1>1, <1>2, <1>3, <1>5, StreamsKeep DEF Clients
<1>9. QueuedInv' /\ NoCallForgotten'
  BY <1>1, <1>2, QueuesKeep
<1>10. Seen' = Seen /\ Executed' = Executed /\ \A y \in Clients : Asking(y)' <=> Asking(y)
  BY <1>2 DEF Seen, Executed, Waiting, Asking
<1>11. EnablesInv'
  <2>1. causes' \cap Apart = {} =>
           /\ \A i \in 1..Len(coming'["publisher"]) : coming'["publisher"][i] = "enabled" => Executed # {}
           /\ \A i, j \in 1..Len(coming'["publisher"]) :
                 i # j /\ coming'["publisher"][i] = "enabled" /\ coming'["publisher"][j] = "enabled" =>
                     \E c, d \in Executed : c # d
    BY <1>1, <1>4, TakenEnables
  <2> QED BY <1>1, <1>2, <1>4, <1>10, <2>1 DEF EnablesInv
<1>12. LastTells' /\ (Together' => Together)
       /\ (Together' /\ NoneComing(x)' => publication'.on)
  <2>1. \A y \in Clients : impl'[y].state # "canceled" \/ impl'[y].state = impl[y].state
    BY <1>5
  <2> QED BY <1>1, <1>3, <2>1, TakenTells DEF Switching, Word
<1>13. ShownInv'
  <2>1. \A y \in Clients : y # x => (NoneComing(y)' <=> NoneComing(y))
    BY <1>1, EventTaken
  <2>2. Together' => ~impl'[x].announcing
    BY <1>4, <1>5 DEF Together
  <2>3. CASE x = "publisher"
    BY <1>1, <1>2, <1>5, <1>10, <1>12, <2>1, <2>3 DEF ShownInv, Clients
  <2>4. CASE x = "subscriber"
    <3>1. track' # "off"
      BY <1>1, <1>2, <2>4 DEF PublicationTypeOK
    <3>2. impl'["publisher"] = impl["publisher"] /\ (NoneComing("publisher")' <=> NoneComing("publisher"))
      BY <1>5, <2>1, <2>4 DEF Clients
    <3> QED BY <1>1, <1>5, <1>10, <1>12, <2>2, <2>4, <3>1, <3>2 DEF ShownInv, Clients
  <2> QED BY <2>3, <2>4 DEF Clients
<1> QED BY <1>7, <1>8, <1>9, <1>11, <1>12, <1>13 DEF PublicationIInv

\* The event "disabled".
LEMMA DisabledKeeps ==
    ASSUME PublicationIInv, NEW x \in Clients, coming[x] # <<>>, Head(coming[x]) = "disabled",
           coming' = [coming EXCEPT ![x] = Tail(@)], UNCHANGED <<publication, troubles>>,
           Disabled(x)
    PROVE  PublicationIInv'
<1>1. /\ PublicationTypeOK /\ StreamsInv /\ WantedInv /\ QueuedInv /\ NoCallForgotten
      /\ EnablesInv /\ LastTells /\ ShownInv
  BY DEF PublicationIInv
<1>2. /\ UNCHANGED <<track, calls>>
      /\ impl' = [impl EXCEPT ![x].state = "disabled", ![x].announcing = @ \/ ~Switches(x)]
      /\ Switches(x) => streams' = setEnabled(impl[x].stream, FALSE, Announce)
      /\ ~Switches(x) => streams' = streams
      /\ causes' = causes \cup (IF x = "publisher" /\ Seen # {} THEN {"back to back"} ELSE {})
  BY DEF Disabled
<1>3. causes \subseteq causes' /\ causes' \subseteq causes \cup {"back to back"}
  BY <1>2
<1>4. causes' \cap Apart = {} => causes \cap Apart = {} /\ (x = "publisher" => Seen = {})
  BY <1>2 DEF Apart
<1>5. /\ impl' \in [Clients -> Impl]
      /\ impl'[x].state = "disabled"
      /\ impl'[x].announcing <=> impl[x].announcing \/ ~Switches(x)
      /\ \A y \in Clients : impl'[y].stream = impl[y].stream /\ (y # x => impl'[y] = impl[y])
  <2>1. impl \in [Clients -> Impl] /\ impl[x] \in Impl
    BY <1>1 DEF PublicationTypeOK
  <2>2. PICK a \in BOOLEAN : a = (impl[x].announcing \/ ~Switches(x))
    OBVIOUS
  <2>3. impl' = [impl EXCEPT ![x] = [impl[x] EXCEPT !.state = "disabled", !.announcing = a]]
    BY <1>2, <2>1, <2>2
  <2> QED BY <2>1, <2>2, <2>3 DEF Impl
<1>6. coming' \in [Clients -> Seq({"enabled", "disabled", "metadata", "canceled"})]
  BY <1>1, EventTaken
<1>7. Switches(x) => x = "publisher" /\ impl["publisher"].stream \in Streams
  BY <1>1, PublisherStream DEF Switches, StreamsInv, Clients
<1>8. Switches(x) =>
         /\ streams' \in [Streams -> LocalStream]
         /\ \A m \in Streams : Consistent(streams'[m], "not acquired" \notin causes')
         /\ Wanted(streams'[impl["publisher"].stream]) = FALSE
         /\ \A m \in Streams : \A c : InQueue(streams[m], c) => InQueue(streams'[m], c)
         /\ \A m \in Streams : \A c : InQueue(streams'[m], c) => InQueue(streams[m], c) \/ c = Announce
  <2> SUFFICES ASSUME Switches(x)
               PROVE  /\ streams' \in [Streams -> LocalStream]
                      /\ \A m \in Streams : Consistent(streams'[m], "not acquired" \notin causes')
                      /\ Wanted(streams'[impl["publisher"].stream]) = FALSE
                      /\ \A m \in Streams : \A c : InQueue(streams[m], c) => InQueue(streams'[m], c)
                      /\ \A m \in Streams : \A c : InQueue(streams'[m], c) => InQueue(streams[m], c) \/ c = Announce
    OBVIOUS
  <2>1. PICK n \in Streams : n = impl["publisher"].stream
    BY <1>7
  <2>2. streams' = setEnabled(n, FALSE, Announce)
    BY <1>2, <1>7, <2>1
  <2> QED BY <1>1, <1>3, <2>1, <2>2, PushKeeps, PublicationBounds
<1>9. PublicationTypeOK'
  BY <1>1, <1>2, <1>3, <1>5, <1>6, <1>8 DEF PublicationTypeOK
<1>10. StreamsInv' /\ WantedInv'
  <2>1. CASE Switches(x)
    <3>1. impl'["publisher"].stream = impl["publisher"].stream /\ impl'["publisher"].state = "disabled"
          /\ impl'["subscriber"].stream = NoStream
      BY <1>1, <1>5, <1>7, <2>1 DEF Clients, StreamsInv
    <3> QED BY <1>8, <2>1, <3>1 DEF StreamsInv, WantedInv
  <2>2. CASE ~Switches(x)
    <3>1. impl'["publisher"].state = impl["publisher"].state \/ impl["publisher"].stream = NoStream
      BY <1>5, <2>2 DEF Switches, Clients
    <3>2. impl'["publisher"].stream = impl["publisher"].stream /\ impl'["subscriber"].stream = impl["subscriber"].stream
      BY <1>5 DEF Clients
    <3> QED BY <1>1, <1>2, <1>3, <2>2, <3>1, <3>2, StreamsKeep
  <2> QED BY <2>1, <2>2
<1>11. QueuedInv' /\ NoCallForgotten'
  <2>1. \A m \in Streams : \A c \in Calls : InQueue(streams'[m], c) <=> InQueue(streams[m], c)
    BY <1>2, <1>8, PublicationBounds
  <2> QED BY <1>1, <1>2, <2>1 DEF QueuedInv, NoCallForgotten
<1>12. Seen' = Seen /\ Executed' = Executed /\ \A y \in Clients : Asking(y)' <=> Asking(y)
  BY <1>2 DEF Seen, Executed, Waiting, Asking
<1>13. EnablesInv'
  <2>1. causes' \cap Apart = {} =>
           /\ \A i \in 1..Len(coming'["publisher"]) : coming'["publisher"][i] = "enabled" => Executed # {}
           /\ \A i, j \in 1..Len(coming'["publisher"]) :
                 i # j /\ coming'["publisher"][i] = "enabled" /\ coming'["publisher"][j] = "enabled" =>
                     \E c, d \in Executed : c # d
    BY <1>1, <1>4, TakenEnables
  <2> QED BY <1>1, <1>2, <1>4, <1>12, <2>1 DEF EnablesInv
<1>14. LastTells' /\ (Together' => Together)
       /\ (Together' /\ NoneComing(x)' => ~publication'.on)
  <2>1. \A y \in Clients : impl'[y].state # "canceled" \/ impl'[y].state = impl[y].state
    BY <1>5
  <2> QED BY <1>1, <1>3, <2>1, TakenTells DEF Switching, Word
<1>15. ShownInv'
  <2>1. \A y \in Clients : y # x => (NoneComing(y)' <=> NoneComing(y))
    BY <1>1, EventTaken
  <2>2. Together' => (x = "publisher" => Seen = {})
    BY <1>4 DEF Together
  <2>3. CASE x = "publisher"
    BY <1>1, <1>2, <1>5, <1>12, <1>14, <2>1, <2>2, <2>3 DEF ShownInv, Clients
  <2>4. CASE x = "subscriber"
    <3>1. impl'["subscriber"].announcing
      BY <1>5, <1>7, <2>4
    <3>2. impl'["publisher"] = impl["publisher"] /\ (NoneComing("publisher")' <=> NoneComing("publisher"))
      BY <1>5, <2>1, <2>4 DEF Clients
    <3> QED BY <1>1, <1>5, <1>12, <1>14, <2>4, <3>1, <3>2 DEF ShownInv, Clients
  <2> QED BY <2>3, <2>4 DEF Clients
<1> QED BY <1>9, <1>10, <1>11, <1>13, <1>14, <1>15 DEF PublicationIInv

\* An event that does not switch the publication.
LEMMA OtherEventKeeps ==
    ASSUME PublicationIInv, NEW x \in Clients, coming[x] # <<>>,
           coming' = [coming EXCEPT ![x] = Tail(@)], UNCHANGED <<publication, troubles>>,
           \/ Head(coming[x]) = "metadata" /\ MetadataUpdated(x)
           \/ Head(coming[x]) = "canceled" /\ Canceled(x)
    PROVE  PublicationIInv'
<1>1. /\ PublicationTypeOK /\ StreamsInv /\ WantedInv /\ QueuedInv /\ NoCallForgotten
      /\ EnablesInv /\ LastTells /\ ShownInv
  BY DEF PublicationIInv
<1>2. /\ UNCHANGED <<streams, track, causes>>
      /\ \/ Head(coming[x]) = "metadata" /\ UNCHANGED impl
         \/ Head(coming[x]) = "canceled" /\ impl' = [impl EXCEPT ![x].state = "canceled"]
      /\ \E op \in {"updateMetadata", "cancel"} : calls' = Resolved(Waiting(x, op))
  BY DEF MetadataUpdated, Canceled
<1>3. PICK op \in {"updateMetadata", "cancel"} : calls' = Resolved(Waiting(x, op))
  BY <1>2
<1>4. \A c \in Waiting(x, op) : c \in Calls /\ calls[c].op = op /\ calls[c].stage = "waiting"
  BY DEF Waiting
<1>5. /\ calls' \in [Calls -> Call]
      /\ \A c \in Calls : /\ calls'[c].op = calls[c].op /\ calls'[c].by = calls[c].by
                          /\ calls'[c].request = calls[c].request
                          /\ c \in Waiting(x, op) => calls'[c].stage = "over" /\ calls'[c].result # "pending"
                          /\ c \notin Waiting(x, op) => calls'[c] = calls[c]
  BY <1>1, <1>3, ResolvedIs
<1>6. Seen' = Seen /\ Executed' = Executed /\ \A y \in Clients : Asking(y)' <=> Asking(y)
  BY <1>1, <1>3, <1>4, ResolveKeeps
<1>7. /\ impl' \in [Clients -> Impl]
      /\ \A y \in Clients : /\ impl'[y].stream = impl[y].stream
                            /\ impl'[y].state \in {impl[y].state, "canceled"}
                            /\ Head(coming[x]) # "canceled" => impl'[y] = impl[y]
  <2>1. CASE Head(coming[x]) = "metadata" /\ UNCHANGED impl
    BY <1>1, <2>1 DEF PublicationTypeOK
  <2>2. CASE Head(coming[x]) = "canceled" /\ impl' = [impl EXCEPT ![x].state = "canceled"]
    BY <1>1, <2>2, StateSet
  <2> QED BY <1>2, <2>1, <2>2
<1>8. coming' \in [Clients -> Seq({"enabled", "disabled", "metadata", "canceled"})]
  BY <1>1, EventTaken
<1>9. PublicationTypeOK'
  BY <1>1, <1>2, <1>5, <1>7, <1>8 DEF PublicationTypeOK
<1>10. StreamsInv' /\ WantedInv'
  BY <1>1, <1>2, <1>7, StreamsKeep DEF Clients
<1>11. QueuedInv' /\ NoCallForgotten'
  BY <1>1, <1>2, <1>4, <1>5, QueuesKeep
<1>12. EnablesInv'
  <2>1. causes \cap Apart = {} =>
           /\ \A i \in 1..Len(coming'["publisher"]) : coming'["publisher"][i] = "enabled" => Executed # {}
           /\ \A i, j \in 1..Len(coming'["publisher"]) :
                 i # j /\ coming'["publisher"][i] = "enabled" /\ coming'["publisher"][j] = "enabled" =>
                     \E c, d \in Executed : c # d
    BY <1>1, TakenEnables
  <2>2. \A c \in Calls :
          /\ calls'[c].op = "enable" => calls'[c].by = "publisher"
          /\ calls'[c].stage = "seen" => calls'[c].op = "enable"
          /\ calls'[c].stage \in {"none", "called"} => calls'[c].request = "none"
    BY <1>1, <1>5 DEF EnablesInv
  <2>3. \A c \in Calls : calls[c].op = "enable" => calls'[c] = calls[c]
    BY <1>4, <1>5
  <2> QED BY <1>1, <1>2, <1>5, <1>6, <2>1, <2>2, <2>3 DEF EnablesInv
<1>13. LastTells' /\ (Together' => Together /\ Head(coming[x]) # "canceled")
  BY <1>1, <1>2, <1>7, TakenTells
<1>14. ShownInv'
  <2>1. \A y \in Clients : NoneComing(y)' <=> NoneComing(y)
    BY <1>1, <1>2, EventTaken DEF Switching
  <2> QED BY <1>1, <1>2, <1>6, <1>7, <1>13, <2>1 DEF ShownInv, Clients
<1> QED BY <1>9, <1>10, <1>11, <1>12, <1>13, <1>14 DEF PublicationIInv

LEMMA ApplyEventKeeps ==
    ASSUME PublicationIInv, NEW x \in Clients, EventApplied(x)
    PROVE  PublicationIInv'
<1>1. /\ coming[x] # <<>> /\ coming' = [coming EXCEPT ![x] = Tail(@)]
      /\ Applied(x, Head(coming[x])) /\ UNCHANGED <<publication, troubles>>
  BY DEF EventApplied
<1>2. Head(coming[x]) \in {"enabled", "disabled", "metadata", "canceled"}
  BY <1>1, EventTaken DEF PublicationIInv
<1>3. CASE Head(coming[x]) = "enabled"
  BY <1>1, <1>3, EnabledKeeps, EnabledWithStreamKeeps DEF Applied
<1>4. CASE Head(coming[x]) = "disabled"
  BY <1>1, <1>4, DisabledKeeps DEF Applied
<1>5. CASE Head(coming[x]) \in {"metadata", "canceled"}
  BY <1>1, <1>5, OtherEventKeeps DEF Applied
<1> QED BY <1>2, <1>3, <1>4, <1>5

\* _disable goes on.
LEMMA AnnouncedKeeps ==
    ASSUME PublicationIInv, NEW x \in Clients, Announced(x)
    PROVE  PublicationIInv'
<1>1. /\ PublicationTypeOK /\ StreamsInv /\ WantedInv /\ QueuedInv /\ NoCallForgotten
      /\ EnablesInv /\ LastTells /\ ShownInv
  BY DEF PublicationIInv
<1>2. /\ UNCHANGED <<publication, coming, streams, troubles, causes>>
      /\ impl[x].announcing
      /\ impl' = [impl EXCEPT ![x].announcing = FALSE]
      /\ calls' = onDisabled(x)
      /\ track' = IF x = "subscriber" /\ impl[x].state # "canceled" /\ track # "none" THEN "off" ELSE track
  BY DEF Announced
<1>3. PICK cs : calls' = Resolved(cs) /\ cs \in {{}, Waiting(x, "disable")}
  <2>1. calls = Resolved({})
    BY <1>1 DEF Resolved, PublicationTypeOK
  <2> QED BY <1>2, <2>1 DEF onDisabled
<1>4. \A c \in cs : c \in Calls /\ calls[c].op = "disable" /\ calls[c].stage = "waiting"
  BY <1>3 DEF Waiting
<1>5. /\ calls' \in [Calls -> Call]
      /\ \A c \in Calls : /\ calls'[c].op = calls[c].op /\ calls'[c].by = calls[c].by
                          /\ calls'[c].request = calls[c].request
                          /\ c \in cs => calls'[c].stage = "over" /\ calls'[c].result # "pending"
                          /\ c \notin cs => calls'[c] = calls[c]
  BY <1>1, <1>3, ResolvedIs
<1>6. Seen' = Seen /\ Executed' = Executed /\ \A y \in Clients : Asking(y)' <=> Asking(y)
  BY <1>1, <1>3, <1>4, ResolveKeeps
<1>7. /\ impl' \in [Clients -> Impl]
      /\ \A y \in Clients : /\ impl'[y].stream = impl[y].stream /\ impl'[y].state = impl[y].state
                            /\ y # x => impl'[y] = impl[y]
      /\ ~impl'[x].announcing
  <2>1. impl \in [Clients -> Impl] /\ impl[x] \in Impl
    BY <1>1 DEF PublicationTypeOK
  <2>2. impl' = [impl EXCEPT ![x] = [impl[x] EXCEPT !.announcing = FALSE]]
    BY <1>2, <2>1
  <2> QED BY <2>1, <2>2 DEF Impl
<1>8. PublicationTypeOK'
  BY <1>1, <1>2, <1>5, <1>7 DEF PublicationTypeOK
<1>9. StreamsInv' /\ WantedInv'
  BY <1>1, <1>2, <1>7, StreamsKeep DEF Clients
<1>10. QueuedInv' /\ NoCallForgotten'
  BY <1>1, <1>2, <1>4, <1>5, QueuesKeep
<1>11. EnablesInv'
  BY <1>1, <1>2, <1>4, <1>5, <1>6 DEF EnablesInv
<1>12. LastTells'
  BY <1>1, <1>2, <1>7 DEF LastTells, Together, Switching, Word
<1>13. ShownInv'
  <2>1. (Together' <=> Together) /\ \A y \in Clients : NoneComing(y)' <=> NoneComing(y)
    BY <1>2 DEF Together, NoneComing
  <2>2. Together => impl[x].state # "canceled"
    BY <1>1 DEF LastTells
  <2>3. CASE x = "publisher"
    BY <1>1, <1>2, <1>6, <1>7, <2>1, <2>3 DEF ShownInv, Clients
  <2>4. CASE x = "subscriber"
    <3>1. Together => track' # "on"
      BY <1>1, <1>2, <2>2, <2>4 DEF PublicationTypeOK
    <3> QED BY <1>1, <1>2, <1>6, <1>7, <2>1, <2>4, <3>1 DEF ShownInv, Clients
  <2> QED BY <2>3, <2>4 DEF Clients
<1> QED BY <1>8, <1>9, <1>10, <1>11, <1>12, <1>13 DEF PublicationIInv

\* The stream is attached.
LEMMA AttachKeeps ==
    ASSUME PublicationIInv, Calm("subscriber"), Attach
    PROVE  PublicationIInv'
<1>1. /\ PublicationTypeOK /\ StreamsInv /\ WantedInv /\ QueuedInv /\ NoCallForgotten
      /\ EnablesInv /\ LastTells /\ ShownInv
  BY DEF PublicationIInv
<1>2. /\ UNCHANGED <<publication, coming, impl, streams, calls, troubles, causes>>
      /\ track' = IF impl["subscriber"].state = "enabled" THEN "on" ELSE "off"
  BY DEF Attach
<1>3. PublicationTypeOK'
  BY <1>1, <1>2 DEF PublicationTypeOK
<1>4. StreamsInv' /\ WantedInv'
  BY <1>1, <1>2, StreamsKeep
<1>5. QueuedInv' /\ NoCallForgotten'
  BY <1>1, <1>2, QueuesKeep
<1>6. Seen' = Seen /\ Executed' = Executed /\ \A y \in Clients : Asking(y)' <=> Asking(y)
  BY <1>2 DEF Seen, Executed, Waiting, Asking
<1>7. EnablesInv' /\ LastTells'
  <2>1. EnablesInv'
    BY <1>1, <1>2, <1>6 DEF EnablesInv
  <2>2. LastTells'
    BY <1>1, <1>2 DEF LastTells, Together, Switching, Word
  <2> QED BY <2>1, <2>2
<1>8. ShownInv'
  <2>1. (Together' <=> Together) /\ \A y \in Clients : NoneComing(y)' <=> NoneComing(y)
    BY <1>2 DEF Together, NoneComing
  <2>2. Together => impl["subscriber"].state \in {"enabled", "disabled"}
    BY <1>1 DEF LastTells, PublicationTypeOK, Impl, Clients
  <2> QED BY <1>1, <1>2, <1>6, <2>1, <2>2 DEF ShownInv, Clients
<1> QED BY <1>3, <1>4, <1>5, <1>7, <1>8 DEF PublicationIInv

-----------------------------------------------------------------------------
(* The theorems.                                                           *)

LEMMA PublicationInitOK == PublicationInit => PublicationIInv
<1> SUFFICES ASSUME PublicationInit
             PROVE  PublicationIInv
  OBVIOUS
<1>1. PICK on \in BOOLEAN :
        /\ publication = [there |-> TRUE, on |-> on]
        /\ impl = [x \in Clients |-> [state |-> IF on THEN "enabled" ELSE "disabled",
                                      stream |-> IF x = "publisher" THEN 1 ELSE NoStream,
                                      announcing |-> FALSE]]
        /\ streams = [n \in Streams |-> [on |-> n # 1 \/ on, live |-> n # 1 \/ on,
                                         acquiring |-> FALSE, queue |-> <<>>]]
  BY DEF PublicationInit
<1>2. /\ coming = [x \in Clients |-> <<>>] /\ track = "none" /\ troubles = 0 /\ causes = {}
      /\ calls = [c \in Calls |-> [op |-> "enable", by |-> "publisher", stage |-> "none",
                                   request |-> "none", result |-> "pending"]]
  BY DEF PublicationInit
<1>3. \A n \in Streams : /\ streams[n] \in LocalStream
                         /\ streams[n].on = (n # 1 \/ on) /\ streams[n].live = (n # 1 \/ on)
                         /\ streams[n].acquiring = FALSE /\ streams[n].queue = <<>>
  BY <1>1 DEF LocalStream
<1>4. \A x \in Clients : /\ impl[x] \in Impl /\ impl[x].state = (IF on THEN "enabled" ELSE "disabled")
                         /\ impl[x].stream = (IF x = "publisher" THEN 1 ELSE NoStream)
                         /\ impl[x].announcing = FALSE
  BY <1>1, PublicationBounds DEF Impl
<1>5. \A c \in Calls : /\ calls[c] \in Call /\ calls[c].op = "enable" /\ calls[c].by = "publisher"
                       /\ calls[c].stage = "none" /\ calls[c].request = "none"
  BY <1>2 DEF Call, Operations, Clients
<1>6. \A x \in Clients : coming[x] = <<>> /\ Len(coming[x]) = 0
  BY <1>2
<1>7. PublicationTypeOK
  <2>1. streams \in [Streams -> LocalStream]
    BY <1>1, <1>3
  <2>2. impl \in [Clients -> Impl]
    BY <1>1, <1>4
  <2>3. calls \in [Calls -> Call]
    BY <1>2, <1>5
  <2>4. publication \in [there : BOOLEAN, on : BOOLEAN]
    BY <1>1
  <2>5. coming \in [Clients -> Seq({"enabled", "disabled", "metadata", "canceled"})]
    BY <1>2
  <2>6. troubles \in 0..MaxTroubles
    BY <1>2, PublicationBounds
  <2> QED BY <1>2, <2>1, <2>2, <2>3, <2>4, <2>5, <2>6 DEF PublicationTypeOK
<1>8. StreamsInv
  BY <1>3, <1>4 DEF StreamsInv, Consistent, Clients
<1>9. WantedInv
  BY <1>3, <1>4, PublicationBounds DEF WantedInv, Wanted, Clients
<1>10. QueuedInv
  BY <1>3 DEF QueuedInv, InQueue
<1>11. NoCallForgotten
  BY <1>5 DEF NoCallForgotten
<1>12. EnablesInv
  BY <1>5, <1>6 DEF EnablesInv, Clients
<1>13. LastTells
  BY <1>4, <1>6 DEF LastTells
<1>14. ShownInv
  <2>1. publication.on = on
    BY <1>1
  <2>2. Seen = {}
    BY <1>5 DEF Seen
  <2>3. "publisher" \in Clients /\ "subscriber" \in Clients
    BY DEF Clients
  <2> QED BY <1>2, <1>4, <2>1, <2>2, <2>3 DEF ShownInv
<1> QED BY <1>7, <1>8, <1>9, <1>10, <1>11, <1>12, <1>13, <1>14 DEF PublicationIInv

LEMMA PublicationStutter ==
    ASSUME PublicationIInv, UNCHANGED publicationVars
    PROVE  PublicationIInv'
<1> USE DEF publicationVars, clientside
<1>1. PublicationTypeOK' /\ StreamsInv' /\ WantedInv'
  BY DEF PublicationIInv, PublicationTypeOK, StreamsInv, WantedInv
<1>2. QueuedInv' /\ NoCallForgotten'
  BY DEF PublicationIInv, QueuedInv, NoCallForgotten
<1>3. Seen' = Seen /\ Executed' = Executed /\ \A x \in Clients : Asking(x)' <=> Asking(x)
  BY DEF Seen, Executed, Waiting, Asking
<1>4. EnablesInv'
  BY <1>3 DEF PublicationIInv, EnablesInv
<1>5. LastTells'
  BY DEF PublicationIInv, LastTells, Together, Switching, Word
<1>6. ShownInv'
  BY <1>3 DEF PublicationIInv, ShownInv, Together, NoneComing, Switching, Clients
<1> QED BY <1>1, <1>2, <1>4, <1>5, <1>6 DEF PublicationIInv

LEMMA PublicationStep == PublicationIInv /\ [PublicationNext]_publicationVars => PublicationIInv'
<1> SUFFICES ASSUME PublicationIInv, [PublicationNext]_publicationVars
             PROVE  PublicationIInv'
  OBVIOUS
<1>1. ASSUME NEW c \in Calls, Execute(c) \/ enableStream(c)
      PROVE  PublicationIInv'
  BY <1>1, ExecuteKeeps, EnableStreamKeeps
<1>2. ASSUME NEW c \in Calls, enable(c) \/ updateMetadata(c) \/ cancel(c)
      PROVE  PublicationIInv'
  BY <1>2, StartKeeps, CancelKeeps DEF enable, updateMetadata, Operations, Clients
<1>3. ASSUME NEW c \in Calls, NEW x \in Clients, disable(c, x)
      PROVE  PublicationIInv'
  BY <1>3, StartKeeps DEF disable, Operations
<1>4. ASSUME NEW c \in Calls, Proceed(c) \/ Refuse(c) \/ AnswerLost(c) \/ WaitTimeout(c)
      PROVE  PublicationIInv'
  BY <1>4, ProceedKeeps, RefuseKeeps, AnswerLostKeeps, TimeoutKeeps
<1>5. ASSUME NEW n \in Streams, TaskEnds(n)
      PROVE  PublicationIInv'
  BY <1>5, TaskEndsKeeps
<1>6. ASSUME NEW n \in Streams, Calm("publisher"), Acquired(n) \/ AcquireFails(n) \/ replaceStream(n)
      PROVE  PublicationIInv'
  BY <1>6, AcquiredKeeps, ReplaceKeeps
<1>7. ASSUME NEW x \in Clients, EventApplied(x) \/ Announced(x)
      PROVE  PublicationIInv'
  BY <1>7, ApplyEventKeeps, AnnouncedKeeps
<1>8. CASE Calm("subscriber") /\ Attach
  BY <1>8, AttachKeeps
<1>9. CASE UNCHANGED publicationVars
  BY <1>9, PublicationStutter
<1> QED BY <1>1, <1>2, <1>3, <1>4, <1>5, <1>6, <1>7, <1>8, <1>9 DEF PublicationNext

\* Every step keeps the invariant, for all numbers of calls, streams and troubles.
THEOREM PublicationInvariance == PublicationSpec => []PublicationIInv
<1>1. PublicationInit => PublicationIInv
  BY PublicationInitOK
<1>2. PublicationIInv /\ [PublicationNext]_publicationVars => PublicationIInv'
  BY PublicationStep
<1> QED BY <1>1, <1>2, PTL DEF PublicationSpec

\* No call of enable, disable, updateMetadata or cancel is lost in a stream's queue or
\* ends without an answer, but for an updateMetadata that came too late.
THEOREM NoCallIsForgotten == PublicationSpec => []NoCallForgotten
<1>1. PublicationIInv => NoCallForgotten
  BY DEF PublicationIInv
<1> QED BY <1>1, PublicationInvariance, PTL

\* The published stream is muted when its publication is disabled and sends its track
\* when it is enabled, whatever the calls, the events and the devices do.
THEOREM StreamFollowsItsState == PublicationSpec => []StreamFollowsState
<1>1. ASSUME PublicationIInv
      PROVE  StreamFollowsState
  <2> SUFFICES ASSUME NEW n, n = impl["publisher"].stream,
                      n # NoStream, streams[n].queue = <<>>, "replaced" \notin causes
               PROVE  /\ impl["publisher"].state = "disabled" => ~streams[n].live
                      /\ impl["publisher"].state = "enabled" /\ "not acquired" \notin causes => streams[n].live
    BY DEF StreamFollowsState
  <2>1. n \in Streams
    BY <1>1, PublisherStream DEF PublicationIInv, Clients
  <2>2. Consistent(streams[n], "not acquired" \notin causes)
    BY <1>1, <2>1 DEF PublicationIInv, StreamsInv
  <2>3. /\ impl["publisher"].state = "disabled" => ~streams[n].on
        /\ impl["publisher"].state = "enabled" => streams[n].on
    BY <1>1 DEF PublicationIInv, WantedInv, Wanted
  <2> QED BY <2>2, <2>3 DEF Consistent
<1> QED BY <1>1, PublicationInvariance, PTL

\* When everything has been said, publisher and subscriber show what the server has,
\* unless one of the four causes has set them apart.
THEOREM ClientsAgreeWithServer == PublicationSpec => []StatesAgree
<1>1. ASSUME PublicationIInv
      PROVE  StatesAgree
  <2> SUFFICES ASSUME Quiet, Together
               PROVE  /\ \A x \in Clients : impl[x].state = (IF publication.on THEN "enabled" ELSE "disabled")
                      /\ track # "none" => track = (IF publication.on THEN "on" ELSE "off")
    BY <1>1 DEF StatesAgree, Together, PublicationIInv
  <2>1. \A x \in Clients : NoneComing(x) /\ ~impl[x].announcing
    BY DEF Quiet, NoneComing, Calm
  <2>2. Seen = {} /\ \A x \in Clients : ~Asking(x)
    BY DEF Quiet, Seen, Asking
  <2>3. \A x \in Clients : impl[x].state \in {"enabled", "disabled"}
    BY <1>1 DEF PublicationIInv, PublicationTypeOK, Impl, LastTells
  <2>4. track \in {"none", "on", "off"}
    BY <1>1 DEF PublicationIInv, PublicationTypeOK
  <2> QED BY <1>1, <2>1, <2>2, <2>3, <2>4 DEF PublicationIInv, ShownInv, Clients
<1> QED BY <1>1, PublicationInvariance, PTL
=============================================================================
