-------------------------- MODULE OrderedDelivery --------------------------
(***************************************************************************)
(* What an event observer promises to the channel that listens to it: the  *)
(* events of the channel, numbered by the channel version they produce,    *)
(* reach the listener in order, each once, with no gap.  Nothing is said   *)
(* about how they travel.                                                  *)
(***************************************************************************)
EXTENDS Integers, Sequences

CONSTANT InitVersion   \* version of the channel snapshot the observer starts from

VARIABLES
    published,   \* latest version the RTC API server has produced
    emitted      \* versions handed to the listener, in the order of the calls

vars == <<published, emitted>>

\* The versions after from, up to and including to, in increasing order.
VersionsBetween(from, to) == [i \in 1..(to - from) |-> from + i]

Init == /\ published = InitVersion
        /\ emitted = <<>>

\* The server produces the next event of the channel.
Publish == /\ published' = published + 1
           /\ UNCHANGED emitted

\* The listener is called for the next events, as many as are resolved at once.
Deliver == \E n \in (InitVersion + Len(emitted) + 1)..published :
              /\ emitted' = VersionsBetween(InitVersion, n)
              /\ UNCHANGED published

Next == Publish \/ Deliver

Spec == Init /\ [][Next]_vars
=============================================================================
