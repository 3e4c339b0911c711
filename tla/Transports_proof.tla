------------------------- MODULE Transports_proof -------------------------
(***************************************************************************)
(* Proofs about P2PTransport and SfuTransport, for every number of         *)
(* restarts, breaks, offers and lost messages: first candidates reach a    *)
(* description that can use them, and when nothing is under way each       *)
(* transport shows the state of its connection.  And about SfuForwarding:  *)
(* what is sent and received through the transports of the SFU.            *)
(*                                                                         *)
(* The calls of restartIce overlap, so the invariants say what must hold   *)
(* when the last of them has returned, and that none of them returns       *)
(* before it does.                                                         *)
(***************************************************************************)
EXTENDS MCTransports, SfuForwarding, FiniteSetTheorems, TLAPS

\* Every handler of a loss, and every call of restartIce, comes from a break of its own.
BreaksAreCounted == /\ IsFiniteSet(restarts.loops)
                    /\ Cardinality(restarts.loops) + restarts.watching <= breaks

\* A connection that comes back ends all handlers of a loss.
WatchingMeansBroken == restarts.watching > 0 => sender.pc # "connected"

\* When no call of restartIce is under way: it is shown as connected, or as disconnected when
\* nobody waits for it, and the attempts are all there or used up.
RestartsAtRest ==
    restarts.loops = {} /\ endpoint = "joined" /\ sender.pc # "closed" =>
        /\ sender.state # "reconnecting"
        /\ restarts.count \in {0, MaxRestarts}
        /\ sender.pc = "connected" =>
              (sender.state = "connected" /\ restarts.count = 0) \/ restarts.count = MaxRestarts
        /\ sender.pc \in {"disconnected", "failed"} /\ restarts.watching = 0 => sender.state = "disconnected"

\* Only the handler of the offer of a restart may leave the receiver's state behind.
ReceiverCatchesUp ==
    receiver.pc = "connected" /\ receiver.state # "connected" => receiver.busy /\ receiver.remote > 1

\* Candidates wait only for a description, or for the end of the handler that has set it.
CandidatesWait ==
    /\ \A side \in Peers : /\ peers[side].busy => peers[side].remote > 0
                           /\ ~peers[side].early
    /\ sender.remote > 0 => ~sender.pending
    /\ receiver.remote > 0 /\ ~receiver.busy => ~receiver.pending

IInv == /\ TypeOK
        /\ BreaksAreCounted
        /\ WatchingMeansBroken
        /\ RestartsAtRest
        /\ ReceiverCatchesUp
        /\ CandidatesWait

-----------------------------------------------------------------------------
(* Types                                                                   *)

ShownStates == {"new", "connecting", "connected", "reconnecting", "disconnected"}
Phases == {"backoff", "params", "offer", "send", "wait"}

LEMMA Bounds == MaxRestarts \in Nat /\ MaxBreaks \in Nat /\ MaxOffers \in Nat /\ MaxLost \in Nat
BY P2PTransportAssumption

LEMMA PeerTypes == ASSUME TypeOK PROVE sender \in PeerType /\ receiver \in PeerType
BY DEF TypeOK, sender, receiver, Peers

PcStates == {"new", "connecting", "connected", "disconnected", "failed", "closed"}

(***************************************************************************)
(* Changes of one field after the other.                                   *)
(***************************************************************************)
LEMMA PeerUpdate ==
    ASSUME NEW p \in PeerType
    PROVE  /\ \A pc \in PcStates : [p EXCEPT !.pc = pc] \in PeerType
           /\ \A shown \in ShownStates : [p EXCEPT !.state = shown] \in PeerType
           /\ \A g \in Nat : /\ [p EXCEPT !.local = g] \in PeerType
                             /\ [p EXCEPT !.remote = g] \in PeerType
                             /\ [p EXCEPT !.ice = g] \in PeerType
           /\ \A waiting \in Seq(Generation) : [p EXCEPT !.queue = waiting] \in PeerType
           /\ \A b \in BOOLEAN : /\ [p EXCEPT !.stable = b] \in PeerType
                                 /\ [p EXCEPT !.busy = b] \in PeerType
                                 /\ [p EXCEPT !.pending = b] \in PeerType
                                 /\ [p EXCEPT !.early = b] \in PeerType
BY DEF PeerType, PcStates, ShownStates

(***************************************************************************)
(* What is sent are messages, in the net of the other side.                *)
(***************************************************************************)
LEMMA SendType ==
    ASSUME TypeOK, NEW side \in Peers, NEW g \in Generation, Send(side, g)
    PROVE  net' \in [Peers -> Seq(Messages)] /\ lost' \in 0..MaxLost
<1>1. Description(g) \in Messages /\ Candidate \in Messages
  BY DEF Description, Candidate, Messages, Generation
<1>2. /\ \A out \in Outgoing(g) : out \in Seq(Messages)
      /\ (IF g = 1 THEN <<Candidate>> ELSE <<>>) \in Seq(Messages)
  <2>1. \A a, b \in Messages : <<a, b>> \in Seq(Messages) /\ <<a>> \in Seq(Messages)
    OBVIOUS
  <2>2. << >> \in Seq(Messages)
    OBVIOUS
  <2> QED BY <1>1, <2>1, <2>2 DEF Outgoing
<1>3. Other(side) \in Peers
  BY DEF Other, Peers
<1>4. ASSUME NEW out \in Seq(Messages)
      PROVE  [net EXCEPT ![Other(side)] = @ \o out] \in [Peers -> Seq(Messages)]
  BY <1>3, <1>4 DEF TypeOK
<1>5. /\ lost' \in 0..MaxLost
      /\ \/ net' = net
         \/ \E out \in Seq(Messages) : net' = [net EXCEPT ![Other(side)] = @ \o out]
  <2>1. CASE UNCHANGED lost
    BY <1>2, <2>1 DEF Send, TypeOK
  <2>2. CASE lost < MaxLost /\ lost' = lost + 1
    <3>1. lost' \in 0..MaxLost
      BY <2>2, Bounds DEF TypeOK
    <3> QED BY <1>2, <2>2, <3>1 DEF Send
  <2> QED BY <2>1, <2>2 DEF Send
<1> QED BY <1>4, <1>5 DEF TypeOK

LEMMA CandidateTypes ==
    ASSUME NEW p \in PeerType
    PROVE  resolveCandidates(p) \in PeerType /\ handleCandidate(p) \in PeerType
BY DEF resolveCandidates, handleCandidate, PeerType

-----------------------------------------------------------------------------
(* The calls of restartIce                                                 *)

RestartState == [state : ShownStates, count : 0..MaxRestarts, loops : SUBSET Loop]

\* Why a call of restartIce may return when no other one is under way.
Settled(t) == \/ t.state = "disconnected" /\ t.count = MaxRestarts
              \/ sender.pc = "connected" /\ t.state = "connected" /\ t.count = 0
              \/ endpoint = "left"
              \/ sender.pc = "closed"

\* What a step of the call l may make of the sender: l goes on, or returns for a reason.
After(l) == {t \in RestartState :
                \/ t.loops = restarts.loops \ {l} /\ Settled(t)
                \/ \E phase \in Phases : t.loops = (restarts.loops \ {l}) \cup {[l EXCEPT !.phase = phase]}}

\* Changes of one field after the other.
LEMMA CountType ==
    ASSUME NEW t \in RestartState, NEW tries \in 0..MaxRestarts
    PROVE  [t EXCEPT !.count = tries] \in RestartState
BY DEF RestartState

LEMMA WithoutType ==
    ASSUME TypeOK, NEW l
    PROVE  Without(l) \in RestartState
BY PeerTypes DEF TypeOK, Without, RestartState, PeerType, ShownStates

LEMMA GoesOn ==
    ASSUME TypeOK, NEW l \in Loop, NEW phase \in Phases, NEW t \in RestartState, t.loops = restarts.loops \ {l}
    PROVE  goesOn(t, l, phase) \in After(l)
<1>1. [l EXCEPT !.phase = phase] \in Loop
  BY DEF Loop, Phases
<1>2. /\ goesOn(t, l, phase) \in RestartState
      /\ goesOn(t, l, phase).loops = (restarts.loops \ {l}) \cup {[l EXCEPT !.phase = phase]}
  BY <1>1 DEF goesOn, RestartState
<1> QED BY <1>2 DEF After

LEMMA RestartIce ==
    ASSUME TypeOK, NEW l \in Loop
    PROVE  restartIce(Without(l), l) \in After(l)
<1> DEFINE t == Without(l)
<1>1. t \in RestartState /\ t.loops = restarts.loops \ {l}
  BY WithoutType DEF Without
<1> HIDE DEF t
<1>2. CASE t.count >= MaxRestarts
  <2>1. /\ [t EXCEPT !.state = "disconnected"] \in RestartState
        /\ [t EXCEPT !.state = "disconnected"].loops = restarts.loops \ {l}
        /\ [t EXCEPT !.state = "disconnected"].state = "disconnected"
        /\ [t EXCEPT !.state = "disconnected"].count = MaxRestarts
    BY <1>1, <1>2, Bounds DEF RestartState, ShownStates
  <2> QED BY <1>2, <2>1 DEF restartIce, After, Settled, t
<1>3. CASE ~(t.count >= MaxRestarts)
  <2> DEFINE u == [t EXCEPT !.state = "reconnecting", !.count = @ + 1]
  <2>1. u \in RestartState /\ u.loops = restarts.loops \ {l}
    <3>1. [t EXCEPT !.state = "reconnecting"] \in RestartState
      BY <1>1 DEF RestartState, ShownStates
    <3>2. t.count + 1 \in 0..MaxRestarts
      BY <1>1, <1>3, Bounds DEF RestartState
    <3>3. [[t EXCEPT !.state = "reconnecting"] EXCEPT !.count = t.count + 1] \in RestartState
      BY <3>1, <3>2, CountType
    <3> QED BY <1>1, <3>3 DEF RestartState
  <2>2. goesOn(u, l, "backoff") \in After(l)
    BY <2>1, GoesOn DEF Phases
  <2> QED BY <1>3, <2>2 DEF restartIce, t
<1> QED BY <1>2, <1>3

LEMMA Ended ==
    ASSUME TypeOK, NEW l, NeedEnd
    PROVE  ended(Without(l)) \in After(l)
<1> DEFINE t == Without(l)
<1>1. t \in RestartState /\ t.loops = restarts.loops \ {l}
  BY WithoutType DEF Without
<1> HIDE DEF t
<1>2. CASE endpoint = "left"
  <2>1. /\ [t EXCEPT !.state = "disconnected"] \in RestartState
        /\ [t EXCEPT !.state = "disconnected"].loops = restarts.loops \ {l}
    BY <1>1 DEF RestartState, ShownStates
  <2> QED BY <1>2, <2>1 DEF ended, After, Settled, t
<1>3. CASE endpoint # "left"
  <2> DEFINE u == [t EXCEPT !.state = "connected", !.count = 0]
  <2>1. u \in RestartState /\ u.loops = restarts.loops \ {l} /\ u.state = "connected" /\ u.count = 0
    <3>1. [t EXCEPT !.state = "connected"] \in RestartState /\ 0 \in 0..MaxRestarts
      BY <1>1, Bounds DEF RestartState, ShownStates
    <3>2. [[t EXCEPT !.state = "connected"] EXCEPT !.count = 0] \in RestartState
      BY <3>1, CountType
    <3> QED BY <1>1, <3>2 DEF RestartState
  <2>2. sender.pc = "connected"
    BY <1>3 DEF NeedEnd
  <2> HIDE DEF u
  <2>3. u \in After(l)
    BY <2>1, <2>2 DEF After, Settled
  <2> QED BY <1>3, <2>3 DEF ended, t, u
<1> QED BY <1>2, <1>3

LEMMA ThrowsWhenClosed ==
    ASSUME TypeOK, NEW l, sender.pc = "closed"
    PROVE  Without(l) \in After(l)
<1>1. Without(l) \in RestartState /\ Without(l).loops = restarts.loops \ {l}
  BY WithoutType DEF Without
<1> QED BY <1>1 DEF After, Settled

(***************************************************************************)
(* Each step of a call takes it on, or lets it return for a reason.  An    *)
(* offer changes what the sender has offered, and nothing else of it.      *)
(***************************************************************************)
LEMMA Advances ==
    ASSUME TypeOK, NEW i \in Loops, Advance(i)
    PROVE  \E l \in restarts.loops : \E t \in After(l) : \E p \in PeerType :
               /\ BecomesWith(p, t)
               /\ \/ p = sender
                  \/ p = [sender EXCEPT !.local = @ + 1, !.stable = FALSE]
               /\ net' \in [Peers -> Seq(Messages)] /\ lost' \in 0..MaxLost
               /\ UNCHANGED <<endpoint, breaks>>
<1>1. PICK l \in restarts.loops :
          \/ BackoffOver(l) \/ ParamsFail(l) \/ ParamsUpdated(l) \/ SignalingOver(l)
          \/ Offer(l) \/ SendFails(l) \/ Sent(l) \/ WaitExpires(l)
  BY DEF Advance
<1>2. l \in Loop /\ sender \in PeerType /\ UNCHANGED <<endpoint, breaks>>
  BY PeerTypes DEF TypeOK, Advance
<1>3. Without(l) \in RestartState /\ Without(l).loops = restarts.loops \ {l}
  BY WithoutType DEF Without
<1>4. ASSUME NEW t \in After(l), Becomes(t)
      PROVE  /\ BecomesWith(sender, t)
             /\ net' \in [Peers -> Seq(Messages)] /\ lost' \in 0..MaxLost
  BY <1>4 DEF Becomes, TypeOK
<1>5. SUFFICES ASSUME \A t \in After(l) : ~Becomes(t)
               PROVE  /\ Offer(l)
                      /\ \E t \in After(l) : \E p \in PeerType :
                            /\ BecomesWith(p, t)
                            /\ p = [sender EXCEPT !.local = @ + 1, !.stable = FALSE]
                            /\ net' \in [Peers -> Seq(Messages)] /\ lost' \in 0..MaxLost
  BY <1>2, <1>4
<1>6. \A phase \in Phases : goesOn(Without(l), l, phase) \in After(l)
  BY <1>2, <1>3, GoesOn
<1>7. restartIce(Without(l), l) \in After(l)
  BY <1>2, RestartIce
<1>8. /\ NeedEnd => ended(Without(l)) \in After(l)
      /\ sender.pc = "closed" => Without(l) \in After(l)
  BY Ended, ThrowsWhenClosed
<1>9. Offer(l)
  BY <1>1, <1>5, <1>6, <1>7, <1>8
     DEF BackoffOver, ParamsFail, ParamsUpdated, SignalingOver, SendFails, Sent, WaitExpires, NeedEnd, Phases
<1>10. /\ BecomesWith([sender EXCEPT !.local = @ + 1, !.stable = FALSE], goesOn(Without(l), l, "send"))
       /\ Send("sender", sender.local + 1)
  BY <1>5, <1>8, <1>9 DEF Offer
<1>11. sender.local + 1 \in Generation /\ [sender EXCEPT !.local = @ + 1, !.stable = FALSE] \in PeerType
  <2>1. sender.local \in Nat
    BY <1>2 DEF PeerType
  <2>2. sender.local + 1 \in Generation
    BY <2>1 DEF Generation
  <2>3. [sender EXCEPT !.local = sender.local + 1] \in PeerType
    <3>1. sender.local + 1 \in Nat
      BY <2>1
    <3> QED BY <1>2, <3>1, PeerUpdate
  <2>4. [[sender EXCEPT !.local = sender.local + 1] EXCEPT !.stable = FALSE] \in PeerType
    BY <2>3, PeerUpdate
  <2> QED BY <2>2, <2>4
<1>12. net' \in [Peers -> Seq(Messages)] /\ lost' \in 0..MaxLost
  BY <1>10, <1>11, SendType DEF Peers
<1> QED BY <1>6, <1>9, <1>10, <1>11, <1>12 DEF Phases

-----------------------------------------------------------------------------
(* What a step of one peer has to keep                                     *)

\* What the invariant says of the sender's candidates, and of the receiver.
SenderKeeps(q) == /\ q.busy => q.remote > 0
                  /\ ~q.early
                  /\ q.remote > 0 => ~q.pending

ReceiverKeeps(q) == /\ q.pc = "connected" /\ q.state # "connected" => q.busy /\ q.remote > 1
                    /\ q.busy => q.remote > 0
                    /\ ~q.early
                    /\ q.remote > 0 /\ ~q.busy => ~q.pending

LEMMA PeersKeep ==
    IInv => /\ sender \in PeerType /\ receiver \in PeerType
            /\ SenderKeeps(sender) /\ ReceiverKeeps(receiver)
BY PeerTypes DEF IInv, SenderKeeps, ReceiverKeeps, ReceiverCatchesUp, CandidatesWait, Peers, sender, receiver

LEMMA OnePeer ==
    ASSUME TypeOK, NEW side \in Peers, NEW q \in PeerType, peers' = [peers EXCEPT ![side] = q]
    PROVE  /\ peers' \in [Peers -> PeerType]
           /\ side = "sender" => sender' = q /\ receiver' = receiver
           /\ side = "receiver" => receiver' = q /\ sender' = sender
BY DEF TypeOK, Peers, sender, receiver

(***************************************************************************)
(* A step of the receiver, which no restart waits for.                     *)
(***************************************************************************)
LEMMA ReceiverMoves ==
    ASSUME IInv, NEW q \in PeerType, ReceiverKeeps(q), peers' = [peers EXCEPT !["receiver"] = q],
           UNCHANGED <<restarts, endpoint>>, breaks' \in breaks..MaxBreaks,
           net' \in [Peers -> Seq(Messages)], lost' \in 0..MaxLost
    PROVE  IInv'
<1>1. /\ peers' \in [Peers -> PeerType]
      /\ receiver' = q /\ sender' = sender
  BY OnePeer DEF IInv, Peers
<1>2. breaks \in 0..MaxBreaks /\ breaks' \in 0..MaxBreaks /\ breaks <= breaks'
  BY Bounds DEF IInv, TypeOK
<1>3. TypeOK'
  BY <1>1, <1>2 DEF IInv, TypeOK
<1>4. BreaksAreCounted'
  <2>1. /\ IsFiniteSet(restarts.loops) /\ Cardinality(restarts.loops) \in Nat
        /\ restarts.watching \in Nat
        /\ Cardinality(restarts.loops) + restarts.watching <= breaks
    BY FS_CardinalityType DEF IInv, TypeOK, BreaksAreCounted
  <2> QED BY <1>2, <2>1 DEF BreaksAreCounted
<1>5. WatchingMeansBroken' /\ RestartsAtRest'
  BY <1>1 DEF IInv, WatchingMeansBroken, RestartsAtRest
<1>6. ReceiverCatchesUp'
  BY <1>1 DEF ReceiverKeeps, ReceiverCatchesUp
<1>7. CandidatesWait'
  BY <1>1, PeersKeep DEF SenderKeeps, ReceiverKeeps, CandidatesWait, Peers, sender, receiver
<1> QED BY <1>3, <1>4, <1>5, <1>6, <1>7 DEF IInv

(***************************************************************************)
(* A step of the sender.                                                   *)
(***************************************************************************)
LEMMA SenderMoves ==
    ASSUME IInv, NEW q \in PeerType, SenderKeeps(q), peers' = [peers EXCEPT !["sender"] = q],
           restarts' \in [count : 0..MaxRestarts, watching : 0..MaxBreaks, loops : SUBSET Loop],
           \A l, k \in restarts'.loops : l.id = k.id => l = k,
           UNCHANGED endpoint, breaks' \in 0..MaxBreaks,
           net' \in [Peers -> Seq(Messages)], lost' \in 0..MaxLost,
           BreaksAreCounted', WatchingMeansBroken', RestartsAtRest'
    PROVE  IInv'
<1>1. /\ peers' \in [Peers -> PeerType]
      /\ sender' = q /\ receiver' = receiver
  BY OnePeer DEF IInv, Peers
<1>2. TypeOK'
  BY <1>1 DEF IInv, TypeOK
<1>3. ReceiverCatchesUp'
  BY <1>1 DEF IInv, ReceiverCatchesUp
<1>4. CandidatesWait'
  BY <1>1, PeersKeep DEF SenderKeeps, ReceiverKeeps, CandidatesWait, Peers, sender, receiver
<1> QED BY <1>2, <1>3, <1>4 DEF IInv

(***************************************************************************)
(* A step of the sender that shows nothing new.                            *)
(***************************************************************************)
LEMMA SenderWorks ==
    ASSUME IInv, NEW q \in PeerType, SenderKeeps(q), peers' = [peers EXCEPT !["sender"] = q],
           q.pc = sender.pc, q.state = sender.state,
           UNCHANGED <<restarts, endpoint, breaks>>,
           net' \in [Peers -> Seq(Messages)], lost' \in 0..MaxLost
    PROVE  IInv'
<1>1. sender' = q
  BY OnePeer DEF IInv, Peers
<1>2. BreaksAreCounted' /\ WatchingMeansBroken' /\ RestartsAtRest'
  BY <1>1 DEF IInv, BreaksAreCounted, WatchingMeansBroken, RestartsAtRest
<1> QED BY <1>2, SenderMoves DEF IInv, TypeOK

-----------------------------------------------------------------------------
(* Messages and descriptions                                               *)

(***************************************************************************)
(* Candidates are given to the remote description, if there is one.        *)
(***************************************************************************)
LEMMA Resolved ==
    ASSUME NEW p \in PeerType, p.remote > 0
    PROVE  /\ resolveCandidates(p) \in PeerType
           /\ ~resolveCandidates(p).pending
           /\ resolveCandidates(p).early = p.early
           /\ \A q \in {resolveCandidates(p)} :
                 q.pc = p.pc /\ q.state = p.state /\ q.remote = p.remote /\ q.busy = p.busy
<1>1. resolveCandidates(p) \in PeerType
  BY CandidateTypes
<1> QED BY <1>1 DEF resolveCandidates, PeerType

LEMMA CandidateHandled ==
    ASSUME NEW p \in PeerType, ~p.early
    PROVE  LET q == handleCandidate(p)
           IN  /\ q \in PeerType
               /\ q.pc = p.pc /\ q.state = p.state /\ q.remote = p.remote /\ q.busy = p.busy
               /\ ~q.early
               /\ p.remote > 0 => ~q.pending
<1>1. p.remote \in Nat
  BY DEF PeerType
<1>2. CASE p.remote = 0
  <2> DEFINE u == [p EXCEPT !.pending = TRUE]
  <2>1. u \in PeerType
    BY PeerUpdate
  <2>2. /\ u.remote = p.remote /\ u.early = p.early
        /\ u.pc = p.pc /\ u.state = p.state /\ u.busy = p.busy
    BY DEF PeerType
  <2>3. handleCandidate(p) = u
    BY <1>2 DEF handleCandidate
  <2> HIDE DEF u
  <2> QED BY <1>2, <2>1, <2>2, <2>3
<1>3. CASE p.remote > 0
  <2> DEFINE u == [p EXCEPT !.pending = TRUE]
  <2>1. /\ u \in PeerType /\ u.remote = p.remote /\ u.early = p.early
        /\ u.pc = p.pc /\ u.state = p.state /\ u.busy = p.busy
    BY DEF PeerType
  <2>2. handleCandidate(p) = resolveCandidates(u)
    BY <1>1, <1>3 DEF handleCandidate
  <2> HIDE DEF u
  <2> QED BY <1>3, <2>1, <2>2, Resolved
<1> QED BY <1>1, <1>2, <1>3

LEMMA MessageKeeps ==
    ASSUME IInv, NEW side \in Peers, onMessage(side)
    PROVE  IInv'
<1> DEFINE p == peers[side]
           msg == Head(net[side])
           q == IF msg[1] = "candidate" THEN handleCandidate(p) ELSE Queued(p, msg[2])
<1>1. p \in PeerType /\ ~p.early /\ net[side] \in Seq(Messages)
  BY DEF IInv, TypeOK, CandidatesWait
<1>2. msg \in Messages /\ net' \in [Peers -> Seq(Messages)] /\ lost' \in 0..MaxLost
  BY <1>1 DEF onMessage, IInv, TypeOK
<1>3. /\ q \in PeerType
      /\ q.pc = p.pc /\ q.state = p.state /\ q.remote = p.remote /\ q.busy = p.busy
      /\ ~q.early
      /\ p.remote > 0 /\ ~p.pending => ~q.pending
  <2>1. CASE msg[1] = "candidate"
    BY <1>1, <2>1, CandidateHandled
  <2>2. CASE msg[1] # "candidate"
    <3>1. p.queue \in Seq(Generation) /\ msg[2] \in Generation
      BY <1>1, <1>2 DEF PeerType, Messages
    <3>2. Append(p.queue, msg[2]) \in Seq(Generation)
      BY <3>1
    <3>3. [p EXCEPT !.queue = Append(p.queue, msg[2])] \in PeerType
      BY <1>1, <3>2, PeerUpdate
    <3> QED BY <1>1, <2>2, <3>3 DEF Queued, PeerType
  <2> QED BY <2>1, <2>2
<1>4. peers' = [peers EXCEPT ![side] = q]
  BY DEF onMessage
<1>5. UNCHANGED <<restarts, endpoint, breaks>>
  BY DEF onMessage
<1> HIDE DEF q
<1>6. CASE side = "sender"
  <2>1. SenderKeeps(q)
    BY <1>3, <1>6, PeersKeep DEF SenderKeeps, sender
  <2>2. q.pc = sender.pc /\ q.state = sender.state
    BY <1>3, <1>6 DEF sender
  <2> QED BY <1>2, <1>3, <1>4, <1>5, <1>6, <2>1, <2>2, SenderWorks
<1>7. CASE side = "receiver"
  <2>1. ReceiverKeeps(q)
    BY <1>3, <1>7, PeersKeep DEF ReceiverKeeps, receiver
  <2>2. breaks' \in breaks..MaxBreaks
    BY <1>5, Bounds DEF IInv, TypeOK
  <2> QED BY <1>2, <1>3, <1>4, <1>5, <1>7, <2>1, <2>2, ReceiverMoves
<1> QED BY <1>6, <1>7 DEF Peers

LEMMA TakenType ==
    ASSUME NEW p \in PeerType, p.queue # <<>>
    PROVE  /\ Taken(p) \in PeerType
           /\ Head(p.queue) \in Generation /\ Head(p.queue) \in Nat /\ Head(p.queue) > 0
           /\ \A q \in {Taken(p)} :
                 /\ q.pc = p.pc /\ q.state = p.state /\ q.remote = p.remote
                 /\ q.busy = p.busy /\ q.pending = p.pending /\ q.early = p.early
<1>1. p.queue \in Seq(Generation)
  BY DEF PeerType
<1>2. Tail(p.queue) \in Seq(Generation) /\ Head(p.queue) \in Generation
  BY <1>1
<1>3. Taken(p) \in PeerType
  BY <1>2, PeerUpdate DEF Taken
<1> QED BY <1>2, <1>3 DEF Taken, PeerType, Generation

LEMMA AddKeeps == IInv /\ add => IInv'
<1> SUFFICES ASSUME IInv, add PROVE IInv'
  OBVIOUS
<1> DEFINE u == [sender EXCEPT !.local = 1]
           q == [u EXCEPT !.stable = FALSE]
<1>1. sender \in PeerType /\ SenderKeeps(sender)
  BY PeersKeep
<1>2. q \in PeerType
  <2>1. u \in PeerType
    BY <1>1, PeerUpdate
  <2> HIDE DEF u
  <2> QED BY <2>1, PeerUpdate
<1>3. q.pc = sender.pc /\ q.state = sender.state /\ SenderKeeps(q)
  BY <1>1 DEF PeerType, SenderKeeps
<1>4. peers' = [peers EXCEPT !["sender"] = q]
  BY DEF add, sender, IInv, TypeOK, Peers
<1>5. net' \in [Peers -> Seq(Messages)] /\ lost' \in 0..MaxLost
  <2>1. Send("sender", 1) /\ "sender" \in Peers /\ 1 \in Generation
    BY DEF add, Peers, Generation
  <2> QED BY <2>1, SendType DEF IInv
<1>6. UNCHANGED <<restarts, endpoint, breaks>>
  BY DEF add
<1> HIDE DEF q
<1> QED BY <1>2, <1>3, <1>4, <1>5, <1>6, SenderWorks

LEMMA AnswerKeeps == IInv /\ (_handleReceiverAnswer \/ AnswerHandled) => IInv'
<1> SUFFICES ASSUME IInv, _handleReceiverAnswer \/ AnswerHandled PROVE IInv'
  OBVIOUS
<1>1. sender \in PeerType /\ SenderKeeps(sender)
  BY PeersKeep
<1>2. /\ UNCHANGED <<restarts, endpoint, breaks>>
      /\ net' \in [Peers -> Seq(Messages)] /\ lost' \in 0..MaxLost
  BY DEF _handleReceiverAnswer, AnswerHandled, IInv, TypeOK
<1>3. CASE AnswerHandled
  <2> DEFINE q == [sender EXCEPT !.busy = FALSE]
  <2>1. q \in PeerType
    BY <1>1, PeerUpdate
  <2>2. q.pc = sender.pc /\ q.state = sender.state /\ SenderKeeps(q)
    BY <1>1 DEF PeerType, SenderKeeps
  <2>3. peers' = [peers EXCEPT !["sender"] = q]
    BY <1>3 DEF AnswerHandled, sender, IInv, TypeOK, Peers
  <2> HIDE DEF q
  <2> QED BY <1>2, <2>1, <2>2, <2>3, SenderWorks
<1>4. CASE _handleReceiverAnswer
  <2> DEFINE g == Head(sender.queue)
             t == Taken(sender)
             u == [t EXCEPT !.remote = g]
             v == [u EXCEPT !.stable = TRUE]
             w == [v EXCEPT !.busy = TRUE]
             q == IF sender.stable THEN t ELSE resolveCandidates(w)
  <2>1. sender.queue # <<>>
    BY <1>4 DEF _handleReceiverAnswer, Starts, sender
  <2>2. /\ t \in PeerType
        /\ g \in Nat /\ g > 0
        /\ t.pc = sender.pc /\ t.state = sender.state /\ t.remote = sender.remote
        /\ t.busy = sender.busy /\ t.pending = sender.pending /\ t.early = sender.early
    BY <1>1, <2>1, TakenType
  <2>3. peers' = [peers EXCEPT !["sender"] = q]
    BY <1>4 DEF _handleReceiverAnswer, sender
  <2> HIDE DEF t, g
  <2>4. w \in PeerType
    <3>1. u \in PeerType
      BY <2>2, PeerUpdate
    <3> HIDE DEF u
    <3>2. v \in PeerType
      BY <3>1, PeerUpdate
    <3> HIDE DEF v
    <3> QED BY <3>2, PeerUpdate
  <2>5. w.pc = t.pc /\ w.state = t.state /\ w.remote = g /\ w.early = t.early
    BY <2>2 DEF PeerType
  <2> HIDE DEF w
  <2>6. q \in PeerType /\ q.pc = sender.pc /\ q.state = sender.state /\ SenderKeeps(q)
    <3>1. CASE sender.stable
      BY <1>1, <2>2, <3>1 DEF SenderKeeps
    <3>2. CASE ~sender.stable
      <4>1. /\ q \in PeerType /\ ~q.pending /\ q.early = w.early
            /\ q.pc = w.pc /\ q.state = w.state /\ q.remote = w.remote
        BY <2>2, <2>4, <2>5, <3>2, Resolved
      <4> QED BY <1>1, <2>2, <2>5, <4>1 DEF SenderKeeps
    <3> QED BY <3>1, <3>2
  <2> HIDE DEF q
  <2> QED BY <1>2, <2>3, <2>6, SenderWorks
<1> QED BY <1>3, <1>4

LEMMA OfferKeeps == IInv /\ (handleOffer \/ OfferHandled) => IInv'
<1> SUFFICES ASSUME IInv, handleOffer \/ OfferHandled PROVE IInv'
  OBVIOUS
<1>1. receiver \in PeerType /\ ReceiverKeeps(receiver)
  BY PeersKeep
<1>2. UNCHANGED <<restarts, endpoint>> /\ breaks' \in breaks..MaxBreaks
  BY Bounds DEF handleOffer, OfferHandled, IInv, TypeOK
<1>3. CASE handleOffer
  <2> DEFINE g == Head(receiver.queue)
             shown == IF g = 1 THEN receiver.state ELSE "reconnecting"
             t == Taken(receiver)
             u == [t EXCEPT !.remote = g]
             v == [u EXCEPT !.local = g]
             w == [v EXCEPT !.busy = TRUE]
             q == [w EXCEPT !.state = shown]
  <2>1. receiver.queue # <<>> /\ ~receiver.busy
    BY <1>3 DEF handleOffer, Starts, receiver
  <2>2. /\ t \in PeerType
        /\ g \in Generation /\ g \in Nat /\ g > 0
        /\ t.pc = receiver.pc /\ t.state = receiver.state /\ t.early = receiver.early
    BY <1>1, <2>1, TakenType
  <2>3. peers' = [peers EXCEPT !["receiver"] = q]
    BY <1>3 DEF handleOffer, receiver
  <2>4. net' \in [Peers -> Seq(Messages)] /\ lost' \in 0..MaxLost
    <3>1. Send("receiver", g) /\ "receiver" \in Peers
      BY <1>3 DEF handleOffer, Peers
    <3> QED BY <2>2, <3>1, SendType DEF IInv
  <2>5. shown \in ShownStates
    BY <1>1 DEF PeerType, ShownStates
  <2> HIDE DEF t, g
  <2>6. q \in PeerType
    <3>1. u \in PeerType
      BY <2>2, PeerUpdate
    <3> HIDE DEF u
    <3>2. v \in PeerType
      BY <2>2, <3>1, PeerUpdate
    <3> HIDE DEF v
    <3>3. w \in PeerType
      BY <3>2, PeerUpdate
    <3> HIDE DEF w, shown
    <3> QED BY <2>5, <3>3, PeerUpdate
  <2>7. q.pc = t.pc /\ q.remote = g /\ q.busy /\ q.early = t.early /\ q.state = shown
    BY <2>2 DEF PeerType
  <2> HIDE DEF q
  <2>8. ReceiverKeeps(q)
    BY <1>1, <2>1, <2>2, <2>7 DEF ReceiverKeeps
  <2> QED BY <1>2, <2>3, <2>4, <2>6, <2>8, ReceiverMoves
<1>4. CASE OfferHandled
  <2> DEFINE shown == IF receiver.pc = "connected" /\ receiver.remote > 1 THEN "connected" ELSE receiver.state
             t == resolveCandidates(receiver)
             u == [t EXCEPT !.busy = FALSE]
             q == [u EXCEPT !.state = shown]
  <2>1. receiver.busy /\ receiver.remote > 0
    BY <1>1, <1>4 DEF OfferHandled, ReceiverKeeps
  <2>2. /\ t \in PeerType /\ ~t.pending /\ t.early = receiver.early
        /\ t.pc = receiver.pc /\ t.state = receiver.state /\ t.remote = receiver.remote
    BY <1>1, <2>1, Resolved
  <2>3. peers' = [peers EXCEPT !["receiver"] = q]
    BY <1>4 DEF OfferHandled, receiver
  <2>4. net' \in [Peers -> Seq(Messages)] /\ lost' \in 0..MaxLost
    BY <1>4 DEF OfferHandled, IInv, TypeOK
  <2>5. shown \in ShownStates
    BY <1>1 DEF PeerType, ShownStates
  <2> HIDE DEF t
  <2>6. q \in PeerType
    <3>1. u \in PeerType
      BY <2>2, PeerUpdate
    <3> HIDE DEF u, shown
    <3> QED BY <2>5, <3>1, PeerUpdate
  <2>7. /\ q.pc = t.pc /\ q.remote = t.remote /\ ~q.busy /\ q.early = t.early /\ q.pending = t.pending
        /\ q.state = shown
    BY <2>2 DEF PeerType
  <2> HIDE DEF q
  <2>8. ReceiverKeeps(q)
    BY <1>1, <2>1, <2>2, <2>7 DEF ReceiverKeeps
  <2> QED BY <1>2, <2>3, <2>4, <2>6, <2>8, ReceiverMoves
<1> QED BY <1>3, <1>4

-----------------------------------------------------------------------------
(* Restarts and losses                                                     *)

LEMMA RestartTypes ==
    ASSUME TypeOK
    PROVE  /\ restarts.count \in 0..MaxRestarts /\ restarts.watching \in 0..MaxBreaks
           /\ restarts.loops \subseteq Loop
           /\ \A l, k \in restarts.loops : l.id = k.id => l = k
BY DEF TypeOK

LEMMA RestartUpdate ==
    ASSUME TypeOK, NEW tries \in 0..MaxRestarts, NEW calls \in SUBSET Loop,
           restarts' = [restarts EXCEPT !.count = tries, !.loops = calls]
    PROVE  /\ restarts' \in [count : 0..MaxRestarts, watching : 0..MaxBreaks, loops : SUBSET Loop]
           /\ restarts'.count = tries /\ restarts'.loops = calls
           /\ restarts'.watching = restarts.watching
<1> DEFINE u == [restarts EXCEPT !.count = tries]
           v == [u EXCEPT !.loops = calls]
           R == [count : 0..MaxRestarts, watching : 0..MaxBreaks, loops : SUBSET Loop]
<1>1. restarts \in R
  BY DEF TypeOK
<1>2. u \in R
  BY <1>1
<1>3. u.count = tries /\ u.watching = restarts.watching
  BY <1>1
<1>4. restarts' = v
  OBVIOUS
<1> HIDE DEF u
<1>5. v \in R /\ v.count = u.count /\ v.watching = u.watching /\ v.loops = calls
  BY <1>2
<1> QED BY <1>3, <1>4, <1>5

(***************************************************************************)
(* A call that goes on takes the place of its former self.                 *)
(***************************************************************************)
LEMMA AfterCounts ==
    ASSUME TypeOK, BreaksAreCounted, NEW l \in restarts.loops, NEW t \in After(l)
    PROVE  /\ \A x, y \in t.loops : x.id = y.id => x = y
           /\ IsFiniteSet(t.loops) /\ Cardinality(t.loops) \in Nat
           /\ Cardinality(t.loops) <= Cardinality(restarts.loops)
           /\ t.loops = {} => Settled(t)
<1> DEFINE rest == restarts.loops \ {l}
<1>1. /\ l \in Loop
      /\ \A x, y \in restarts.loops : x.id = y.id => x = y
      /\ IsFiniteSet(restarts.loops) /\ Cardinality(restarts.loops) \in Nat
  BY RestartTypes, FS_CardinalityType DEF BreaksAreCounted
<1>2. /\ IsFiniteSet(rest) /\ Cardinality(rest) = Cardinality(restarts.loops) - 1
      /\ Cardinality(rest) \in Nat
  BY <1>1, FS_RemoveElement, FS_CardinalityType
<1>3. CASE t.loops = rest /\ Settled(t)
  BY <1>1, <1>2, <1>3
<1>4. ASSUME NEW phase \in Phases, t.loops = rest \cup {[l EXCEPT !.phase = phase]}
      PROVE  /\ \A x, y \in t.loops : x.id = y.id => x = y
             /\ IsFiniteSet(t.loops) /\ Cardinality(t.loops) \in Nat
             /\ Cardinality(t.loops) <= Cardinality(restarts.loops)
             /\ t.loops # {}
  <2>1. [l EXCEPT !.phase = phase].id = l.id
    BY <1>1 DEF Loop
  <2>2. PICK k : k = [l EXCEPT !.phase = phase]
    OBVIOUS
  <2>3. /\ IsFiniteSet(rest \cup {k})
        /\ Cardinality(rest \cup {k}) \in Nat
        /\ Cardinality(rest \cup {k}) <= Cardinality(rest) + 1
    <3> HIDE DEF rest
    <3>1. /\ IsFiniteSet(rest \cup {k})
          /\ Cardinality(rest \cup {k}) = IF k \in rest THEN Cardinality(rest) ELSE Cardinality(rest) + 1
      BY <1>2, FS_AddElement
    <3> QED BY <1>2, <3>1
  <2>4. \A x, y \in rest \cup {k} : x.id = y.id => x = y
    BY <1>1, <2>1, <2>2
  <2> QED BY <1>1, <1>2, <1>4, <2>2, <2>3, <2>4
<1> QED BY <1>3, <1>4 DEF After

LEMMA AdvanceKeeps ==
    ASSUME IInv, NEW i \in Loops, Advance(i)
    PROVE  IInv'
<1>0. PICK l \in restarts.loops : \E t \in After(l) : \E p \in PeerType :
          /\ BecomesWith(p, t)
          /\ p = sender \/ p = [sender EXCEPT !.local = @ + 1, !.stable = FALSE]
          /\ net' \in [Peers -> Seq(Messages)] /\ lost' \in 0..MaxLost
          /\ UNCHANGED <<endpoint, breaks>>
  BY Advances DEF IInv
<1>1. PICK t \in After(l), p \in PeerType :
          /\ BecomesWith(p, t)
          /\ p = sender \/ p = [sender EXCEPT !.local = @ + 1, !.stable = FALSE]
          /\ net' \in [Peers -> Seq(Messages)] /\ lost' \in 0..MaxLost
          /\ UNCHANGED <<endpoint, breaks>>
  BY <1>0
<1>2. sender \in PeerType /\ SenderKeeps(sender)
  BY PeersKeep
<1>3. /\ p.pc = sender.pc /\ p.remote = sender.remote
      /\ p.busy = sender.busy /\ p.early = sender.early /\ p.pending = sender.pending
  BY <1>1, <1>2 DEF PeerType
<1>4. t.state \in ShownStates /\ t.count \in 0..MaxRestarts /\ t.loops \in SUBSET Loop
  BY DEF After, RestartState
<1> DEFINE q == [p EXCEPT !.state = t.state]
<1>5. q \in PeerType /\ q.state = t.state /\ q.pc = sender.pc /\ SenderKeeps(q)
  <2>1. q \in PeerType
    BY <1>4, PeerUpdate
  <2> QED BY <1>2, <1>3, <2>1 DEF PeerType, SenderKeeps
<1>6. peers' = [peers EXCEPT !["sender"] = q]
  BY <1>1 DEF BecomesWith
<1>7. sender' = q
  BY <1>5, <1>6, OnePeer DEF IInv, Peers
<1> HIDE DEF q
<1>8. /\ restarts' \in [count : 0..MaxRestarts, watching : 0..MaxBreaks, loops : SUBSET Loop]
      /\ restarts'.count = t.count /\ restarts'.loops = t.loops
      /\ restarts'.watching = restarts.watching
  BY <1>1, <1>4, RestartUpdate DEF BecomesWith, IInv
<1>9. /\ \A x, y \in t.loops : x.id = y.id => x = y
      /\ IsFiniteSet(t.loops) /\ Cardinality(t.loops) \in Nat
      /\ Cardinality(t.loops) <= Cardinality(restarts.loops)
      /\ t.loops = {} => Settled(t)
  BY AfterCounts DEF IInv
<1>10. BreaksAreCounted'
  <2>1. Cardinality(restarts.loops) \in Nat /\ restarts.watching \in Nat /\ breaks \in Nat
    BY FS_CardinalityType DEF IInv, TypeOK, BreaksAreCounted
  <2> QED BY <1>1, <1>8, <1>9, <2>1 DEF IInv, BreaksAreCounted
<1>11. WatchingMeansBroken'
  BY <1>5, <1>7, <1>8 DEF IInv, WatchingMeansBroken
<1>12. RestartsAtRest'
  BY <1>1, <1>5, <1>7, <1>8, <1>9, Bounds DEF RestartsAtRest, Settled
<1>13. breaks' \in 0..MaxBreaks
  BY <1>1 DEF IInv, TypeOK
<1> QED BY <1>1, <1>5, <1>6, <1>8, <1>9, <1>10, <1>11, <1>12, <1>13, SenderMoves

(***************************************************************************)
(* There is a free identity for every call that a break may cause.         *)
(***************************************************************************)
LEMMA FreeIdentity ==
    ASSUME TypeOK, BreaksAreCounted, restarts.watching > 0
    PROVE  \E i \in Loops : i \notin {k.id : k \in restarts.loops}
<1>1. SUFFICES ASSUME \A i \in Loops : \E k \in restarts.loops : k.id = i
               PROVE  FALSE
  OBVIOUS
<1>2. IsFiniteSet(Loops) /\ Cardinality(Loops) = MaxBreaks
  BY Bounds, FS_Interval DEF Loops
<1>3. /\ IsFiniteSet(restarts.loops) /\ Cardinality(restarts.loops) \in Nat
      /\ Cardinality(restarts.loops) + restarts.watching <= breaks
      /\ restarts.watching \in Nat /\ breaks \in 0..MaxBreaks
  BY FS_CardinalityType DEF TypeOK, BreaksAreCounted
<1>4. Cardinality(restarts.loops) < Cardinality(Loops)
  BY <1>2, <1>3, Bounds
<1> DEFINE f == [i \in Loops |-> CHOOSE k \in restarts.loops : k.id = i]
<1>5. f \in [Loops -> restarts.loops] /\ \A i \in Loops : f[i].id = i
  BY <1>1
<1> HIDE DEF f
<1>6. \E i, j \in Loops : i # j /\ f[i] = f[j]
  BY <1>2, <1>3, <1>4, <1>5, FS_PigeonHole
<1> QED BY <1>5, <1>6

(***************************************************************************)
(* A confirmed loss begins a call with an identity of its own; a restart   *)
(* that is shown already is under way, for it was not shown at rest.       *)
(***************************************************************************)
LEMMA LossKeeps == IInv /\ LossConfirmed => IInv'
<1> SUFFICES ASSUME IInv, LossConfirmed PROVE IInv'
  OBVIOUS
<1> DEFINE i == CHOOSE x \in Loops : x \notin {k.id : k \in restarts.loops}
           l == [id |-> i, phase |-> "backoff"]
           t == IF sender.state = "reconnecting" THEN Without(l) ELSE restartIce(Without(l), l)
           q == [sender EXCEPT !.state = t.state]
<1>1. sender \in PeerType /\ SenderKeeps(sender)
  BY PeersKeep
<1>2. restarts.watching > 0
  BY DEF LossConfirmed
<1>3. i \in Loops /\ \A k \in restarts.loops : k.id # i
  BY <1>2, FreeIdentity DEF IInv
<1> HIDE DEF i
<1>4. /\ l \in Loop /\ l \notin restarts.loops /\ l.id = i
      /\ restarts.loops \ {l} = restarts.loops
  BY <1>3 DEF Loop
<1>5. /\ restarts' = [count |-> t.count, watching |-> restarts.watching - 1, loops |-> t.loops]
      /\ peers' = [peers EXCEPT !["sender"].state = t.state]
      /\ UNCHANGED <<net, endpoint, breaks, lost>>
  BY DEF LossConfirmed, i
<1>6. /\ Without(l) \in RestartState /\ Without(l).loops = restarts.loops
      /\ Without(l).state = sender.state /\ Without(l).count = restarts.count
      /\ restartIce(Without(l), l) \in After(l)
  BY <1>4, WithoutType, RestartIce DEF Without, IInv
<1> HIDE DEF l
<1>7. /\ t \in RestartState
      /\ \/ t.loops = restarts.loops /\ (Settled(t) \/ sender.state = "reconnecting")
         \/ \E phase \in Phases : t.loops = restarts.loops \cup {[l EXCEPT !.phase = phase]}
  <2>1. CASE sender.state = "reconnecting"
    BY <1>6, <2>1
  <2>2. CASE sender.state # "reconnecting"
    BY <1>4, <1>6, <2>2 DEF After
  <2> QED BY <2>1, <2>2
<1> HIDE DEF t
<1>8. \A phase \in Phases : [l EXCEPT !.phase = phase].id = i
  BY <1>4 DEF Loop
<1>9. /\ restarts.loops \subseteq Loop
      /\ \A x, y \in restarts.loops : x.id = y.id => x = y
      /\ IsFiniteSet(restarts.loops) /\ Cardinality(restarts.loops) \in Nat
      /\ restarts.watching \in 0..MaxBreaks /\ restarts.watching \in Nat /\ breaks \in Nat
      /\ Cardinality(restarts.loops) + restarts.watching <= breaks
  BY FS_CardinalityType, Bounds DEF IInv, TypeOK, BreaksAreCounted
<1>10. /\ \A x, y \in t.loops : x.id = y.id => x = y
       /\ IsFiniteSet(t.loops) /\ Cardinality(t.loops) \in Nat
       /\ Cardinality(t.loops) <= Cardinality(restarts.loops) + 1
  <2>1. CASE t.loops = restarts.loops
    BY <1>9, <2>1
  <2>2. ASSUME NEW k, k.id = i, t.loops = restarts.loops \cup {k}
        PROVE  /\ \A x, y \in t.loops : x.id = y.id => x = y
               /\ IsFiniteSet(t.loops) /\ Cardinality(t.loops) \in Nat
               /\ Cardinality(t.loops) <= Cardinality(restarts.loops) + 1
    <3>1. /\ IsFiniteSet(restarts.loops \cup {k})
          /\ Cardinality(restarts.loops \cup {k}) =
                IF k \in restarts.loops THEN Cardinality(restarts.loops) ELSE Cardinality(restarts.loops) + 1
      BY <1>9, FS_AddElement
    <3>2. \A x, y \in restarts.loops \cup {k} : x.id = y.id => x = y
      BY <1>3, <1>9, <2>2
    <3> QED BY <1>9, <2>2, <3>1, <3>2
  <2> QED BY <1>7, <1>8, <2>1, <2>2
<1>11. t.count \in 0..MaxRestarts /\ t.loops \in SUBSET Loop /\ t.state \in ShownStates
  BY <1>7 DEF RestartState
<1>12. /\ restarts' \in [count : 0..MaxRestarts, watching : 0..MaxBreaks, loops : SUBSET Loop]
       /\ restarts'.count = t.count /\ restarts'.loops = t.loops
       /\ restarts'.watching = restarts.watching - 1
  <2>1. restarts.watching - 1 \in 0..MaxBreaks
    BY <1>2, <1>9, Bounds
  <2> QED BY <1>5, <1>11, <2>1
<1>13. q \in PeerType /\ q.state = t.state /\ q.pc = sender.pc /\ SenderKeeps(q)
  <2>1. q \in PeerType
    BY <1>1, <1>11, PeerUpdate
  <2> QED BY <1>1, <2>1 DEF PeerType, SenderKeeps
<1>14. peers' = [peers EXCEPT !["sender"] = q]
  BY <1>5 DEF sender, IInv, TypeOK, Peers
<1> HIDE DEF q
<1>15. sender' = q
  BY <1>13, <1>14, OnePeer DEF IInv, Peers
<1>16. BreaksAreCounted'
  BY <1>2, <1>5, <1>9, <1>10, <1>12 DEF BreaksAreCounted
<1>17. WatchingMeansBroken' /\ sender.pc # "connected"
  BY <1>2, <1>12, <1>13, <1>15 DEF IInv, WatchingMeansBroken
<1>18. RestartsAtRest'
  <2>1. t.loops = {} => Settled(t) \/ (sender.state = "reconnecting" /\ restarts.loops = {})
    BY <1>7
  <2>2. t.loops = {} => Settled(t) \/ endpoint = "left" \/ sender.pc = "closed"
    <3>1. endpoint \in {"joined", "left"}
      BY DEF IInv, TypeOK
    <3> QED BY <2>1, <3>1 DEF IInv, RestartsAtRest
  <2> QED BY <1>5, <1>12, <1>13, <1>15, <1>17, <2>2, Bounds DEF RestartsAtRest, Settled
<1> QED BY <1>5, <1>10, <1>12, <1>13, <1>14, <1>16, <1>17, <1>18, SenderMoves DEF IInv, TypeOK

-----------------------------------------------------------------------------
(* The events of the connections                                           *)

\* Three fields of a peer, one after the other.
LEMMA ConnectedType ==
    ASSUME NEW p \in PeerType, NEW pc \in PcStates, NEW shown \in ShownStates
    PROVE  LET q == [p EXCEPT !.pc = pc, !.pending = FALSE, !.state = shown]
           IN  /\ q \in PeerType /\ q.pc = pc /\ q.state = shown
               /\ q.remote = p.remote /\ q.busy = p.busy /\ q.early = p.early /\ ~q.pending
<1> DEFINE u == [p EXCEPT !.pc = pc]
           v == [u EXCEPT !.pending = FALSE]
           w == [v EXCEPT !.state = shown]
<1>1. u \in PeerType
  BY PeerUpdate
<1>2. u.pc = pc /\ u.remote = p.remote /\ u.busy = p.busy /\ u.early = p.early
  BY DEF PeerType
<1>3. [p EXCEPT !.pc = pc, !.pending = FALSE, !.state = shown] = w
  OBVIOUS
<1> HIDE DEF u
<1>4. v \in PeerType
  BY <1>1, PeerUpdate
<1>5. v.pc = u.pc /\ v.remote = u.remote /\ v.busy = u.busy /\ v.early = u.early /\ ~v.pending
  BY <1>1 DEF PeerType
<1> HIDE DEF v
<1>6. w \in PeerType
  BY <1>4, PeerUpdate
<1>7. /\ w.pc = v.pc /\ w.state = shown
      /\ w.remote = v.remote /\ w.busy = v.busy /\ w.early = v.early /\ w.pending = v.pending
  BY <1>4 DEF PeerType
<1> HIDE DEF w
<1> QED BY <1>2, <1>3, <1>5, <1>6, <1>7

LEMMA ConnectingKeeps ==
    ASSUME IInv, NEW side \in Peers, PcConnecting(side)
    PROVE  IInv'
<1> DEFINE p == peers[side]
           u == [p EXCEPT !.pc = "connecting"]
           v == [u EXCEPT !.state = "connecting"]
           q == [v EXCEPT !.ice = p.remote]
<1>1. /\ p \in PeerType /\ p.remote \in Nat
      /\ "connecting" \in PcStates /\ "connecting" \in ShownStates
  BY DEF IInv, TypeOK, PeerType, PcStates, ShownStates
<1>2. peers' = [peers EXCEPT ![side] = q]
  BY DEF PcConnecting, IInv, TypeOK
<1>3. /\ q \in PeerType /\ q.pc = "connecting" /\ q.state = "connecting"
      /\ q.remote = p.remote /\ q.busy = p.busy /\ q.early = p.early /\ q.pending = p.pending
  <2>1. u \in PeerType
    BY <1>1, PeerUpdate
  <2>2. /\ u.pc = "connecting"
        /\ u.remote = p.remote /\ u.busy = p.busy /\ u.early = p.early /\ u.pending = p.pending
    BY <1>1 DEF PeerType
  <2> HIDE DEF u
  <2>3. v \in PeerType
    BY <1>1, <2>1, PeerUpdate
  <2>4. /\ v.pc = u.pc /\ v.state = "connecting"
        /\ v.remote = u.remote /\ v.busy = u.busy /\ v.early = u.early /\ v.pending = u.pending
    BY <2>1 DEF PeerType
  <2> HIDE DEF v
  <2>5. q \in PeerType
    BY <1>1, <2>3, PeerUpdate
  <2>6. /\ q.pc = v.pc /\ q.state = v.state
        /\ q.remote = v.remote /\ q.busy = v.busy /\ q.early = v.early /\ q.pending = v.pending
    BY <2>3 DEF PeerType
  <2> HIDE DEF q
  <2> QED BY <2>2, <2>4, <2>5, <2>6
<1>4. /\ UNCHANGED <<restarts, endpoint, breaks>>
      /\ net' \in [Peers -> Seq(Messages)] /\ lost' \in 0..MaxLost
      /\ breaks' \in breaks..MaxBreaks /\ breaks' \in 0..MaxBreaks
  BY Bounds DEF PcConnecting, IInv, TypeOK
<1>5. sender.pc # "closed" \/ side = "receiver"
  BY DEF PcConnecting, sender, Peers
<1> HIDE DEF q
<1>6. CASE side = "sender"
  <2>1. SenderKeeps(q) /\ sender' = q
    BY <1>2, <1>3, <1>6, PeersKeep, OnePeer DEF SenderKeeps, sender, IInv
  <2>2. BreaksAreCounted' /\ WatchingMeansBroken'
    BY <1>3, <1>4, <2>1 DEF IInv, BreaksAreCounted, WatchingMeansBroken
  <2>3. RestartsAtRest'
    BY <1>3, <1>4, <1>5, <1>6, <2>1 DEF IInv, RestartsAtRest
  <2> QED BY <1>2, <1>3, <1>4, <1>6, <2>1, <2>2, <2>3, SenderMoves DEF IInv, TypeOK
<1>7. CASE side = "receiver"
  <2>1. ReceiverKeeps(q)
    BY <1>3, <1>7, PeersKeep DEF ReceiverKeeps, receiver
  <2> QED BY <1>2, <1>3, <1>4, <1>7, <2>1, ReceiverMoves
<1> QED BY <1>6, <1>7 DEF Peers

(***************************************************************************)
(* The connection comes back: the restarts that wait for it end, and all   *)
(* the handlers of a loss.                                                 *)
(***************************************************************************)
LEMMA ConnectedKeeps ==
    ASSUME IInv, NEW side \in Peers, PcConnected(side)
    PROVE  IInv'
<1> DEFINE p == peers[side]
           waiting == {l \in restarts.loops : l.phase = "wait"}
           shown == IF side = "sender" /\ waiting # {} /\ endpoint = "left" THEN "disconnected" ELSE "connected"
           q == [p EXCEPT !.pc = "connected", !.pending = FALSE, !.state = shown]
<1>1. p \in PeerType /\ shown \in ShownStates
  BY DEF IInv, TypeOK, ShownStates
<1>2. /\ q \in PeerType /\ q.pc = "connected" /\ q.state = shown
      /\ q.remote = p.remote /\ q.busy = p.busy /\ q.early = p.early /\ ~q.pending
  <2> HIDE DEF shown
  <2> QED BY <1>1, ConnectedType DEF PcStates
<1>3. peers' = [peers EXCEPT ![side] = q]
  BY DEF PcConnected, IInv, TypeOK, Peers
<1>4. /\ UNCHANGED <<endpoint, breaks>>
      /\ net' \in [Peers -> Seq(Messages)] /\ lost' \in 0..MaxLost
      /\ breaks' \in breaks..MaxBreaks /\ breaks' \in 0..MaxBreaks
  BY Bounds DEF PcConnected, IInv, TypeOK
<1> HIDE DEF q
<1>5. CASE side = "sender"
  <2>1. SenderKeeps(q) /\ sender' = q
    BY <1>2, <1>3, <1>5, PeersKeep, OnePeer DEF SenderKeeps, sender, IInv
  <2>2. restarts' = [count |-> IF waiting # {} /\ endpoint # "left" THEN 0 ELSE restarts.count,
                     watching |-> 0, loops |-> restarts.loops \ waiting]
    BY <1>5 DEF PcConnected
  <2>3. /\ restarts.count \in 0..MaxRestarts /\ restarts.loops \subseteq Loop
        /\ \A x, y \in restarts.loops : x.id = y.id => x = y
        /\ IsFiniteSet(restarts.loops) /\ Cardinality(restarts.loops) \in Nat
        /\ restarts.watching \in Nat /\ breaks \in Nat
        /\ Cardinality(restarts.loops) + restarts.watching <= breaks
    BY FS_CardinalityType, RestartTypes, Bounds DEF IInv, TypeOK, BreaksAreCounted
  <2>4. /\ restarts' \in [count : 0..MaxRestarts, watching : 0..MaxBreaks, loops : SUBSET Loop]
        /\ restarts'.watching = 0 /\ restarts'.loops = restarts.loops \ waiting
        /\ restarts'.count = IF waiting # {} /\ endpoint # "left" THEN 0 ELSE restarts.count
    <3>1. 0 \in 0..MaxRestarts /\ 0 \in 0..MaxBreaks /\ restarts.loops \ waiting \in SUBSET Loop
      BY <2>3, Bounds
    <3> QED BY <2>2, <2>3, <3>1
  <2>5. \A x, y \in restarts'.loops : x.id = y.id => x = y
    BY <2>3, <2>4
  <2>6. BreaksAreCounted'
    <3>1. restarts.loops \ waiting \in SUBSET restarts.loops
      OBVIOUS
    <3>2. /\ IsFiniteSet(restarts.loops \ waiting)
          /\ Cardinality(restarts.loops \ waiting) <= Cardinality(restarts.loops)
          /\ Cardinality(restarts.loops \ waiting) \in Nat
      BY <2>3, <3>1, FS_Subset, FS_CardinalityType
    <3> QED BY <1>4, <2>3, <2>4, <3>2 DEF BreaksAreCounted
  <2>7. WatchingMeansBroken'
    BY <2>4 DEF WatchingMeansBroken
  <2>8. RestartsAtRest'
    <3>1. sender.pc \in {"connecting", "disconnected"}
      BY <1>5 DEF PcConnected, sender
    <3>2. waiting = {} /\ restarts'.loops = {} => restarts.loops = {}
      BY <2>4
    <3>3. endpoint = "joined" /\ restarts'.loops = {} => restarts'.count \in {0, MaxRestarts} /\ (waiting # {} => restarts'.count = 0)
      BY <2>4, <3>1, <3>2 DEF IInv, RestartsAtRest
    <3>4. endpoint = "joined" => shown = "connected"
      OBVIOUS
    <3> HIDE DEF waiting, shown
    <3> QED BY <1>2, <1>4, <2>1, <3>3, <3>4 DEF RestartsAtRest
  <2> QED BY <1>2, <1>3, <1>4, <1>5, <2>1, <2>4, <2>5, <2>6, <2>7, <2>8, SenderMoves
<1>6. CASE side = "receiver"
  <2>1. ReceiverKeeps(q)
    BY <1>2, <1>6, PeersKeep DEF ReceiverKeeps, receiver
  <2>2. UNCHANGED restarts
    BY <1>6 DEF PcConnected
  <2> QED BY <1>2, <1>3, <1>4, <1>6, <2>1, <2>2, ReceiverMoves
<1> QED BY <1>5, <1>6 DEF Peers

(***************************************************************************)
(* A break of the sender is watched until it is over or confirmed.         *)
(***************************************************************************)
LEMMA BreakKeeps ==
    ASSUME IInv, NEW side \in Peers, PcBreaks(side)
    PROVE  IInv'
<1>1. PICK pc \in {"disconnected", "failed"} :
          /\ peers[side].pc \in {"connecting", "connected"} \/ (peers[side].pc = "disconnected" /\ pc = "failed")
          /\ IF side = "sender"
             THEN /\ peers' = [peers EXCEPT ![side].pc = pc]
                  /\ restarts' = [restarts EXCEPT !.watching = @ + 1]
             ELSE /\ peers' = [peers EXCEPT ![side].pc = pc, ![side].state = IF pc = "failed" THEN "disconnected" ELSE @]
                  /\ UNCHANGED restarts
  BY DEF PcBreaks
<1> DEFINE p == peers[side]
<1>2. p \in PeerType /\ pc \in PcStates
  BY DEF IInv, TypeOK, PcStates
<1>3. /\ UNCHANGED endpoint /\ breaks' = breaks + 1 /\ breaks' \in 0..MaxBreaks
      /\ net' \in [Peers -> Seq(Messages)] /\ lost' \in 0..MaxLost
  BY Bounds DEF PcBreaks, IInv, TypeOK
<1>4. CASE side = "sender"
  <2> DEFINE q == [p EXCEPT !.pc = pc]
  <2>1. q \in PeerType
    BY <1>2, PeerUpdate
  <2>2. q.pc = pc /\ q.state = sender.state /\ SenderKeeps(q)
    BY <1>2, <1>4, PeersKeep DEF PeerType, SenderKeeps, sender
  <2>3. peers' = [peers EXCEPT !["sender"] = q]
    BY <1>1, <1>4 DEF IInv, TypeOK
  <2> HIDE DEF q
  <2>4. sender' = q
    BY <2>1, <2>3, OnePeer DEF IInv, Peers
  <2>5. /\ restarts.watching \in Nat /\ breaks \in Nat /\ Cardinality(restarts.loops) \in Nat
        /\ Cardinality(restarts.loops) + restarts.watching <= breaks
    BY FS_CardinalityType, Bounds DEF IInv, TypeOK, BreaksAreCounted
  <2>6. /\ restarts' \in [count : 0..MaxRestarts, watching : 0..MaxBreaks, loops : SUBSET Loop]
        /\ restarts'.watching = restarts.watching + 1
        /\ restarts'.loops = restarts.loops /\ restarts'.count = restarts.count
    <3>1. restarts.watching + 1 \in 0..MaxBreaks
      BY <1>3, <2>5, Bounds
    <3>2. restarts' = [restarts EXCEPT !.watching = restarts.watching + 1]
      BY <1>1, <1>4
    <3> QED BY <3>1, <3>2 DEF IInv, TypeOK
  <2>7. BreaksAreCounted'
    BY <1>3, <2>5, <2>6 DEF IInv, BreaksAreCounted
  <2>8. WatchingMeansBroken'
    BY <2>2, <2>4 DEF WatchingMeansBroken
  <2>9. RestartsAtRest'
    <3>1. sender.pc # "closed"
      BY <1>1, <1>4 DEF sender
    <3> QED BY <1>3, <2>2, <2>4, <2>5, <2>6, <3>1 DEF IInv, RestartsAtRest
  <2> QED BY <1>3, <2>1, <2>2, <2>3, <2>6, <2>7, <2>8, <2>9, SenderMoves DEF IInv, TypeOK
<1>5. CASE side = "receiver"
  <2> DEFINE u == [p EXCEPT !.pc = pc]
             shown == IF pc = "failed" THEN "disconnected" ELSE p.state
             q == [u EXCEPT !.state = shown]
  <2>1. u \in PeerType /\ shown \in ShownStates
    <3>1. u \in PeerType
      BY <1>2, PeerUpdate
    <3>2. p.state \in ShownStates
      BY <1>2 DEF PeerType, ShownStates
    <3> QED BY <3>1, <3>2 DEF ShownStates
  <2>2. u.pc = pc /\ u.remote = p.remote /\ u.busy = p.busy /\ u.early = p.early /\ u.pending = p.pending
    BY <1>2 DEF PeerType
  <2>3. peers' = [peers EXCEPT !["receiver"] = q]
    BY <1>1, <1>5 DEF IInv, TypeOK
  <2> HIDE DEF u, shown
  <2>4. q \in PeerType
    BY <2>1, PeerUpdate
  <2>5. q.pc = u.pc /\ q.remote = u.remote /\ q.busy = u.busy /\ q.early = u.early /\ q.pending = u.pending
    BY <2>1 DEF PeerType
  <2> HIDE DEF q
  <2>6. ReceiverKeeps(q)
    BY <1>5, <2>2, <2>5, PeersKeep DEF ReceiverKeeps, receiver
  <2>7. breaks' \in breaks..MaxBreaks /\ UNCHANGED restarts
    BY <1>1, <1>3, <1>5, Bounds DEF IInv, TypeOK
  <2> QED BY <1>3, <2>3, <2>4, <2>6, <2>7, ReceiverMoves
<1> QED BY <1>4, <1>5 DEF Peers

LEMMA CloseKeeps ==
    ASSUME IInv, NEW side \in Peers, close(side)
    PROVE  IInv'
<1> DEFINE p == peers[side]
           u1 == [p EXCEPT !.pc = "closed"]
           u2 == [u1 EXCEPT !.state = "disconnected"]
           u3 == [u2 EXCEPT !.queue = <<>>]
           u4 == [u3 EXCEPT !.pending = FALSE]
           q  == [u4 EXCEPT !.busy = FALSE]
<1>1. p \in PeerType /\ "closed" \in PcStates /\ "disconnected" \in ShownStates /\ <<>> \in Seq(Generation)
  BY DEF IInv, TypeOK, PcStates, ShownStates
<1>2. peers' = [peers EXCEPT ![side] = q]
  BY DEF close
<1>3. u1 \in PeerType
  BY <1>1, PeerUpdate
<1>4. u1.pc = "closed" /\ u1.early = p.early
  BY <1>1 DEF PeerType
<1> HIDE DEF u1
<1>5. u2 \in PeerType
  BY <1>1, <1>3, PeerUpdate
<1>6. u2.pc = u1.pc /\ u2.early = u1.early
  BY <1>3 DEF PeerType
<1> HIDE DEF u2
<1>7. u3 \in PeerType
  BY <1>1, <1>5, PeerUpdate
<1>8. u3.pc = u2.pc /\ u3.early = u2.early
  BY <1>5 DEF PeerType
<1> HIDE DEF u3
<1>9. u4 \in PeerType
  BY <1>7, PeerUpdate
<1>10. u4.pc = u3.pc /\ u4.early = u3.early /\ ~u4.pending
  BY <1>7 DEF PeerType
<1> HIDE DEF u4
<1>11. q \in PeerType
  BY <1>9, PeerUpdate
<1>12. q.pc = u4.pc /\ q.early = u4.early /\ q.pending = u4.pending /\ ~q.busy
  BY <1>9 DEF PeerType
<1> HIDE DEF q
<1>13. q.pc = "closed" /\ ~q.early /\ ~q.pending /\ ~q.busy
  BY <1>4, <1>6, <1>8, <1>10, <1>12 DEF IInv, CandidatesWait
<1>14. /\ UNCHANGED <<restarts, endpoint, breaks>>
       /\ net' \in [Peers -> Seq(Messages)] /\ lost' \in 0..MaxLost
       /\ breaks' \in breaks..MaxBreaks /\ breaks' \in 0..MaxBreaks
  <2>1. net' = [net EXCEPT ![side] = <<>>] /\ <<>> \in Seq(Messages)
    BY DEF close
  <2>2. net' \in [Peers -> Seq(Messages)]
    BY <2>1 DEF IInv, TypeOK
  <2> QED BY <2>2, Bounds DEF close, IInv, TypeOK
<1>15. CASE side = "sender"
  <2>1. SenderKeeps(q) /\ sender' = q
    BY <1>2, <1>11, <1>13, <1>15, OnePeer DEF SenderKeeps, IInv
  <2>2. BreaksAreCounted' /\ WatchingMeansBroken' /\ RestartsAtRest'
    BY <1>13, <1>14, <2>1 DEF IInv, BreaksAreCounted, WatchingMeansBroken, RestartsAtRest
  <2> QED BY <1>2, <1>11, <1>14, <1>15, <2>1, <2>2, SenderMoves DEF IInv, TypeOK
<1>16. CASE side = "receiver"
  <2>1. ReceiverKeeps(q)
    BY <1>13 DEF ReceiverKeeps
  <2> QED BY <1>2, <1>11, <1>14, <1>16, <2>1, ReceiverMoves
<1> QED BY <1>15, <1>16 DEF Peers

-----------------------------------------------------------------------------
(* The theorems                                                            *)

LEMMA InitIInv == Init => IInv
<1> SUFFICES ASSUME Init PROVE IInv
  OBVIOUS
<1>1. TypeOK
  BY Bounds DEF Init, TypeOK, PeerType, Peers, Loop
<1>2. BreaksAreCounted
  BY FS_EmptySet DEF Init, BreaksAreCounted
<1>3. WatchingMeansBroken /\ RestartsAtRest /\ ReceiverCatchesUp /\ CandidatesWait
  BY DEF Init, WatchingMeansBroken, RestartsAtRest, ReceiverCatchesUp, CandidatesWait, Peers, sender, receiver
<1> QED BY <1>1, <1>2, <1>3 DEF IInv

LEMMA EndpointKeeps ==
    ASSUME IInv, UNCHANGED <<peers, restarts, net, breaks, lost>>, endpoint' \in {endpoint, "left"}
    PROVE  IInv'
<1>1. TypeOK'
  BY DEF IInv, TypeOK
<1>2. BreaksAreCounted' /\ WatchingMeansBroken' /\ RestartsAtRest'
  BY DEF IInv, BreaksAreCounted, WatchingMeansBroken, RestartsAtRest, sender
<1>3. ReceiverCatchesUp' /\ CandidatesWait'
  BY DEF IInv, ReceiverCatchesUp, CandidatesWait, sender, receiver
<1> QED BY <1>1, <1>2, <1>3 DEF IInv

LEMMA P2PStep == IInv /\ [Next]_vars => IInv'
<1> SUFFICES ASSUME IInv, [Next]_vars PROVE IInv'
  OBVIOUS
<1>1. CASE EndpointLeaves \/ UNCHANGED vars
  BY <1>1, EndpointKeeps DEF EndpointLeaves, vars
<1> QED BY <1>1, MessageKeeps, AddKeeps, AnswerKeeps, OfferKeeps, AdvanceKeeps, LossKeeps,
           ConnectingKeeps, ConnectedKeeps, BreakKeeps, CloseKeeps DEF Next

(***************************************************************************)
(* The invariant holds in every state, whatever the network does to the    *)
(* connection and to the messages.                                         *)
(***************************************************************************)
THEOREM P2PInvariance == Spec => []IInv
BY InitIInv, P2PStep, PTL DEF Spec

LEMMA P2PAgrees == IInv => CandidatesReachDescription /\ StatesAgree
<1>1. IInv => CandidatesReachDescription
  BY DEF IInv, CandidatesWait, CandidatesReachDescription, Peers, sender, receiver
<1>2. IInv => StatesAgree
  BY DEF IInv, RestartsAtRest, ReceiverCatchesUp, StatesAgree
<1> QED BY <1>1, <1>2

(***************************************************************************)
(* When no description is being handled, no candidate waits that a         *)
(* description could take, and no first candidate was given to a           *)
(* description that cannot use it (resolveCandidates).                     *)
(***************************************************************************)
THEOREM CandidatesAlwaysReach == Spec => []CandidatesReachDescription
BY P2PAgrees, P2PInvariance, PTL

(***************************************************************************)
(* However the calls of restartIce overlap: when the last one has returned *)
(* and no loss is waited for, the sender shows the state of its            *)
(* connection and has its attempts back, unless they were used up; and the *)
(* receiver shows that it is connected when it has handled its offers.     *)
(***************************************************************************)
THEOREM StatesAlwaysAgree == Spec => []StatesAgree
BY P2PAgrees, P2PInvariance, PTL

-----------------------------------------------------------------------------
(***************************************************************************)
(* SfuTransport.  Its calls of restartIce also nest: one that returns in   *)
(* the middle of an outer one leaves a call under way.  How deep they nest *)
(* is bounded by the attempts that were counted, and a reset of the count  *)
(* costs a call.                                                           *)
(***************************************************************************)

SfuShownStates == {"new", "connecting", "connected", "reconnecting", "disconnected"}
SfuPhases == {"backoff", "params", "restart", "wait"}
SfuCall == [id : Sfu!Loops, phase : SfuPhases, outer : Nat]

\* TypeOK, but for the bound on the outer calls.
SfuTypes == /\ ms \in {"new", "connecting", "connected", "disconnected", "failed", "closed"}
            /\ state \in SfuShownStates
            /\ count \in 0..SfuRestarts
            /\ watching \in Nat
            /\ loops \subseteq SfuCall
            /\ \A l, k \in loops : l.id = k.id => l = k
            /\ bot \in [state : {"joined", "left"}, disableRestartIce : BOOLEAN]
            /\ sfuBreaks \in 0..SfuBreaks

\* The breaks whose handlers and calls are over.
SfuOver == sfuBreaks - watching - Cardinality(loops)

\* Every handler of a loss, and every chain of calls, comes from a break of its own, and each
\* outer call from an attempt that was counted since the last one that is over.
SfuBreaksAreCounted == /\ IsFiniteSet(loops)
                       /\ 0 <= SfuOver
                       /\ \A l \in loops : l.outer <= SfuRestarts * SfuOver + count

\* A connection that comes back ends all handlers of a loss.
SfuWatchingMeansBroken == watching > 0 => ms # "connected"

\* When no call is under way: it is shown as connected, or as disconnected when nobody waits
\* for it, and the attempts are all there or used up.
SfuRestartsAtRest ==
    loops = {} /\ bot.state = "joined" /\ ms # "closed" =>
        /\ state # "reconnecting"
        /\ count \in {0, SfuRestarts}
        /\ ms = "connected" => (state = "connected" /\ count = 0) \/ count = SfuRestarts
        /\ ms \in {"disconnected", "failed"} /\ watching = 0 => state = "disconnected" \/ bot.disableRestartIce

SfuIInv == SfuTypes /\ SfuBreaksAreCounted /\ SfuWatchingMeansBroken /\ SfuRestartsAtRest

-----------------------------------------------------------------------------
(* The calls of restartIce                                                 *)

SfuRestartState == [state : SfuShownStates, count : 0..SfuRestarts, loops : SUBSET SfuCall]

\* Why a call may return when no other one is under way.
SfuSettled(t) == \/ t.state = "disconnected" /\ t.count = SfuRestarts
                 \/ ms = "connected" /\ t.state = "connected" /\ t.count = 0
                 \/ bot.state = "left"
                 \/ ms = "closed"

\* What a step of the chain l may make of the transport: the chain is over, for a reason, or
\* one of its calls goes on.
SfuReturns(l, t) == t.loops = loops \ {l} /\ SfuSettled(t) /\ t.count \in {0, count}

SfuContinues(l, t) == \E k \in SfuCall : /\ k.id = l.id
                                         /\ t.loops = (loops \ {l}) \cup {k}
                                         /\ count <= t.count
                                         /\ k.outer <= l.outer + (t.count - count)

SfuAfter(l) == {t \in SfuRestartState : SfuReturns(l, t) \/ SfuContinues(l, t)}

LEMMA SfuWithoutType ==
    ASSUME SfuTypes, NEW l
    PROVE  /\ Sfu!Without(l) \in SfuRestartState
           /\ Sfu!Without(l).state = state /\ Sfu!Without(l).count = count /\ Sfu!Without(l).loops = loops \ {l}
BY DEF SfuTypes, Sfu!Without, SfuRestartState

LEMMA SfuStateUpdate ==
    ASSUME NEW t \in SfuRestartState
    PROVE  /\ \A x \in SfuShownStates : [t EXCEPT !.state = x] \in SfuRestartState
           /\ \A c \in 0..SfuRestarts : [t EXCEPT !.count = c] \in SfuRestartState
BY DEF SfuRestartState

(***************************************************************************)
(* The call l, or an outer or inner one of its chain, goes on.             *)
(***************************************************************************)
LEMMA SfuGoesOn ==
    ASSUME SfuTypes, NEW l \in SfuCall, NEW k \in SfuCall, k.id = l.id, NEW phase \in SfuPhases,
           NEW t \in SfuRestartState, t.loops = loops \ {l},
           count <= t.count, k.outer <= l.outer + (t.count - count)
    PROVE  Sfu!goesOn(t, k, phase) \in SfuAfter(l)
<1> DEFINE x == [k EXCEPT !.phase = phase]
<1>1. x \in SfuCall /\ x.id = l.id /\ x.outer = k.outer
  BY DEF SfuCall
<1>2. /\ Sfu!goesOn(t, k, phase) \in SfuRestartState
      /\ Sfu!goesOn(t, k, phase).loops = (loops \ {l}) \cup {x}
      /\ Sfu!goesOn(t, k, phase).count = t.count
  BY <1>1 DEF Sfu!goesOn, SfuRestartState
<1> HIDE DEF x
<1> QED BY <1>1, <1>2 DEF SfuAfter, SfuContinues

(***************************************************************************)
(* A call that gives up or needs no restart returns to its outer call.     *)
(***************************************************************************)
LEMMA SfuReturned ==
    ASSUME SfuTypes, NEW l \in SfuCall, NEW k \in SfuCall, k.id = l.id,
           NEW t \in SfuRestartState, t.loops = loops \ {l}, t.count = count, SfuSettled(t),
           k.outer <= l.outer + 1
    PROVE  Sfu!returned(t, k) \in SfuAfter(l)
<1>1. k.outer \in Nat /\ l.outer \in Nat /\ count \in Int
  BY SfuAssumption DEF SfuCall, SfuTypes
<1>2. CASE k.outer = 0
  BY <1>2 DEF Sfu!returned, SfuAfter, SfuReturns
<1>3. CASE k.outer # 0
  <2> DEFINE x == [k EXCEPT !.outer = k.outer - 1]
  <2>1. k.outer - 1 \in Nat
    BY <1>1, <1>3
  <2>2. x \in SfuCall /\ x.id = l.id /\ x.outer = k.outer - 1
    BY <2>1 DEF SfuCall
  <2>3. Sfu!returned(t, k) = Sfu!goesOn(t, x, "wait")
    BY <1>3 DEF Sfu!returned
  <2> HIDE DEF x
  <2>4. Sfu!goesOn(t, x, "wait") \in SfuAfter(l)
    BY <1>1, <2>2, SfuGoesOn DEF SfuPhases
  <2> QED BY <2>3, <2>4
<1> QED BY <1>2, <1>3

(***************************************************************************)
(* restartIce counts an attempt and goes on, or gives up.  The call may be *)
(* one more inside l.                                                      *)
(***************************************************************************)
LEMMA SfuRestartIce ==
    ASSUME SfuTypes, NEW l \in SfuCall, NEW k \in SfuCall, k.id = l.id, k.outer <= l.outer + 1
    PROVE  Sfu!restartIce(Sfu!Without(l), k) \in SfuAfter(l)
<1> DEFINE t == Sfu!Without(l)
<1>1. /\ t \in SfuRestartState /\ t.count = count /\ t.loops = loops \ {l}
      /\ count \in 0..SfuRestarts /\ k.outer \in Nat /\ l.outer \in Nat
  BY SfuWithoutType DEF SfuTypes, SfuCall
<1> HIDE DEF t
<1>2. CASE t.count >= SfuRestarts
  <2> DEFINE u == [t EXCEPT !.state = "disconnected"]
  <2>1. u \in SfuRestartState
    BY <1>1, SfuStateUpdate DEF SfuShownStates
  <2>2. u.loops = loops \ {l} /\ u.count = count /\ SfuSettled(u)
    BY <1>1, <1>2, SfuAssumption DEF SfuRestartState, SfuSettled
  <2> HIDE DEF u
  <2>3. Sfu!returned(u, k) \in SfuAfter(l)
    BY <2>1, <2>2, SfuReturned
  <2> QED BY <1>2, <2>3 DEF Sfu!restartIce, t, u
<1>3. CASE ~(t.count >= SfuRestarts)
  <2> DEFINE u == [t EXCEPT !.state = "reconnecting"]
             v == [u EXCEPT !.count = t.count + 1]
  <2>1. u \in SfuRestartState
    BY <1>1, SfuStateUpdate DEF SfuShownStates
  <2>2. u.loops = loops \ {l}
    BY <1>1 DEF SfuRestartState
  <2>3. Sfu!restartIce(t, k) = Sfu!goesOn(v, k, "backoff")
    BY <1>3 DEF Sfu!restartIce
  <2> HIDE DEF u
  <2>4. t.count + 1 \in 0..SfuRestarts
    BY <1>1, <1>3, SfuAssumption
  <2>5. v \in SfuRestartState /\ v.loops = loops \ {l} /\ v.count = count + 1
    BY <1>1, <2>1, <2>2, <2>4, SfuStateUpdate DEF SfuRestartState
  <2> HIDE DEF v
  <2>6. Sfu!goesOn(v, k, "backoff") \in SfuAfter(l)
    <3>1. count <= v.count /\ k.outer <= l.outer + (v.count - count)
      BY <1>1, <2>5, SfuAssumption
    <3> QED BY <2>5, <3>1, SfuGoesOn DEF SfuPhases
  <2> QED BY <2>3, <2>6 DEF t
<1> QED BY <1>2, <1>3

(***************************************************************************)
(* checkNeedEnd ends the call, or lets it go on.                           *)
(***************************************************************************)
LEMMA SfuCheckNeedEnd ==
    ASSUME SfuTypes, NEW l \in SfuCall, NEW phase \in SfuPhases
    PROVE  Sfu!checkNeedEnd(Sfu!Without(l), l, phase) \in SfuAfter(l)
<1> DEFINE t == Sfu!Without(l)
<1>1. /\ t \in SfuRestartState /\ t.count = count /\ t.loops = loops \ {l}
      /\ count \in 0..SfuRestarts /\ l.outer \in Nat
  BY SfuWithoutType DEF SfuTypes, SfuCall
<1> HIDE DEF t
<1>2. CASE bot.state = "left"
  <2> DEFINE u == [t EXCEPT !.state = "disconnected"]
  <2>1. u \in SfuRestartState
    BY <1>1, SfuStateUpdate DEF SfuShownStates
  <2>2. u.loops = loops \ {l} /\ u.count = count /\ SfuSettled(u)
    BY <1>1, <1>2 DEF SfuRestartState, SfuSettled
  <2> HIDE DEF u
  <2>3. u \in SfuAfter(l)
    BY <2>1, <2>2 DEF SfuAfter, SfuReturns
  <2>4. Sfu!returned(u, l) \in SfuAfter(l)
    BY <1>1, <2>1, <2>2, SfuReturned
  <2> QED BY <1>2, <2>3, <2>4 DEF Sfu!checkNeedEnd, t, u
<1>3. CASE bot.state # "left" /\ ms = "connected"
  <2> DEFINE u == [t EXCEPT !.state = "connected"]
             v == [u EXCEPT !.count = 0]
  <2>1. u \in SfuRestartState
    BY <1>1, SfuStateUpdate DEF SfuShownStates
  <2>2. u.loops = loops \ {l} /\ u.state = "connected"
    BY <1>1 DEF SfuRestartState
  <2>3. Sfu!checkNeedEnd(t, l, phase) = v
    BY <1>3 DEF Sfu!checkNeedEnd
  <2> HIDE DEF u
  <2>4. v \in SfuRestartState /\ v.loops = loops \ {l} /\ v.state = "connected" /\ v.count = 0
    <3>1. 0 \in 0..SfuRestarts
      BY SfuAssumption
    <3> QED BY <2>1, <2>2, <3>1, SfuStateUpdate DEF SfuRestartState
  <2> HIDE DEF v
  <2>5. v \in SfuAfter(l)
    BY <1>3, <2>4 DEF SfuAfter, SfuReturns, SfuSettled
  <2> QED BY <2>3, <2>5 DEF t
<1>4. CASE bot.state # "left" /\ ms # "connected"
  <2>1. Sfu!goesOn(t, l, phase) \in SfuAfter(l)
    <3>1. count <= t.count /\ l.outer <= l.outer + (t.count - count)
      BY <1>1, SfuAssumption
    <3> QED BY <1>1, <3>1, SfuGoesOn
  <2> QED BY <1>4, <2>1 DEF Sfu!checkNeedEnd, t
<1> QED BY <1>2, <1>3, <1>4

(***************************************************************************)
(* Each step of a call keeps to that.                                      *)
(***************************************************************************)
LEMMA SfuAdvances ==
    ASSUME SfuTypes, NEW i \in Sfu!Loops, Sfu!Advance(i)
    PROVE  /\ \E l \in loops : \E t \in SfuAfter(l) : Sfu!Becomes(t)
           /\ UNCHANGED <<ms, watching, bot, sfuBreaks>>
<1>1. PICK l \in loops : \/ Sfu!BackoffOver(l) \/ Sfu!ParamsFail(l) \/ Sfu!ParamsUpdated(l)
                         \/ Sfu!RestartFails(l) \/ Sfu!Restarted(l) \/ Sfu!WaitExpires(l)
  BY DEF Sfu!Advance
<1>2. l \in SfuCall /\ l.outer \in Nat
  BY DEF SfuTypes, SfuCall
<1>3. \A phase \in SfuPhases : Sfu!checkNeedEnd(Sfu!Without(l), l, phase) \in SfuAfter(l)
  BY <1>2, SfuCheckNeedEnd
<1>4. Sfu!restartIce(Sfu!Without(l), l) \in SfuAfter(l)
  BY <1>2, SfuRestartIce
<1>5. Sfu!restartIce(Sfu!Without(l), [l EXCEPT !.outer = @ + 1]) \in SfuAfter(l)
  <2> DEFINE k == [l EXCEPT !.outer = l.outer + 1]
  <2>1. l.outer + 1 \in Nat
    BY <1>2
  <2>2. k \in SfuCall /\ k.id = l.id /\ k.outer = l.outer + 1
    BY <1>2, <2>1 DEF SfuCall
  <2> HIDE DEF k
  <2>3. Sfu!restartIce(Sfu!Without(l), k) \in SfuAfter(l)
    BY <1>2, <2>2, SfuRestartIce
  <2> QED BY <2>3 DEF k
<1>6. ms = "closed" => Sfu!Without(l) \in SfuAfter(l)
  BY SfuWithoutType DEF SfuAfter, SfuReturns, SfuSettled
<1>7. Sfu!goesOn(Sfu!Without(l), l, "wait") \in SfuAfter(l)
  <2>1. /\ Sfu!Without(l) \in SfuRestartState /\ Sfu!Without(l).count = count /\ Sfu!Without(l).loops = loops \ {l}
        /\ count \in Int
    BY SfuWithoutType, SfuAssumption DEF SfuTypes
  <2>2. count <= Sfu!Without(l).count /\ l.outer <= l.outer + (Sfu!Without(l).count - count)
    BY <1>2, <2>1
  <2> QED BY <1>2, <2>1, <2>2, SfuGoesOn DEF SfuPhases
<1>8. \E t \in SfuAfter(l) : Sfu!Becomes(t)
  <2>1. CASE Sfu!BackoffOver(l)
    BY <1>3, <2>1 DEF Sfu!BackoffOver, SfuPhases
  <2>2. CASE Sfu!ParamsFail(l) \/ Sfu!WaitExpires(l)
    BY <1>4, <2>2 DEF Sfu!ParamsFail, Sfu!WaitExpires
  <2>3. CASE Sfu!ParamsUpdated(l)
    BY <1>3, <1>6, <2>3 DEF Sfu!ParamsUpdated, SfuPhases
  <2>4. CASE Sfu!RestartFails(l)
    BY <1>5, <2>4 DEF Sfu!RestartFails
  <2>5. CASE Sfu!Restarted(l)
    BY <1>3, <1>6, <1>7, <2>5 DEF Sfu!Restarted, SfuPhases
  <2> QED BY <1>1, <2>1, <2>2, <2>3, <2>4, <2>5
<1> QED BY <1>8 DEF Sfu!Advance

-----------------------------------------------------------------------------
(* Counting                                                                *)

(***************************************************************************)
(* A bound by the breaks that are over and by the count stays one while    *)
(* both grow, and when the count falls as another break is over.           *)
(***************************************************************************)
LEMMA SfuBudget ==
    ASSUME NEW a \in Nat, NEW b \in Nat, NEW c \in 0..SfuRestarts, NEW d \in 0..SfuRestarts,
           NEW n \in Nat, n <= SfuRestarts * a + c,
           (a <= b /\ c <= d) \/ a + 1 <= b
    PROVE  n <= SfuRestarts * b + d
<1>1. \A x, y \in Nat : x <= y => SfuRestarts * x <= SfuRestarts * y
  BY SfuAssumption
<1>2. /\ SfuRestarts * a \in Nat /\ SfuRestarts * b \in Nat
      /\ SfuRestarts * (a + 1) = SfuRestarts * a + SfuRestarts
  BY SfuAssumption
<1>3. CASE a <= b /\ c <= d
  BY <1>1, <1>2, <1>3, SfuAssumption
<1>4. CASE a + 1 <= b
  <2>1. SfuRestarts * (a + 1) <= SfuRestarts * b
    BY <1>1, <1>4
  <2> QED BY <1>2, <2>1, SfuAssumption
<1> QED BY <1>3, <1>4

LEMMA SfuCounts ==
    ASSUME SfuTypes, SfuBreaksAreCounted
    PROVE  /\ IsFiniteSet(loops) /\ Cardinality(loops) \in Nat
           /\ watching \in Nat /\ sfuBreaks \in Nat /\ SfuOver \in Nat
           /\ watching + Cardinality(loops) <= sfuBreaks
           /\ \A l \in loops : l.outer \in Nat
BY FS_CardinalityType, SfuAssumption DEF SfuTypes, SfuCall, SfuBreaksAreCounted, SfuOver

(***************************************************************************)
(* What a step of the chain l keeps, when the chain is one of the calls    *)
(* under way, or begins because a loss is confirmed.                       *)
(***************************************************************************)
LEMMA SfuChainKeeps ==
    ASSUME SfuIInv, NEW l \in SfuCall, NEW t \in SfuAfter(l), Sfu!Becomes(t),
           UNCHANGED <<ms, bot, sfuBreaks>>,
           \/ l \in loops /\ watching' = watching
           \/ /\ l.outer = 0 /\ \A k \in loops : k.id # l.id
              /\ watching > 0 /\ watching' = watching - 1
    PROVE  SfuIInv'
<1> DEFINE rest == loops \ {l}
<1>1. /\ t \in SfuRestartState /\ (SfuReturns(l, t) \/ SfuContinues(l, t))
      /\ state' = t.state /\ count' = t.count /\ loops' = t.loops
  BY DEF SfuAfter, Sfu!Becomes
<1>2. /\ state' \in SfuShownStates /\ count' \in 0..SfuRestarts /\ loops' \subseteq SfuCall
      /\ count \in 0..SfuRestarts
  BY <1>1 DEF SfuRestartState, SfuIInv, SfuTypes
<1>3. /\ IsFiniteSet(loops) /\ Cardinality(loops) \in Nat
      /\ watching \in Nat /\ sfuBreaks \in Nat /\ SfuOver \in Nat
      /\ watching + Cardinality(loops) <= sfuBreaks
      /\ \A x \in loops : x.outer \in Nat
  BY SfuCounts DEF SfuIInv
<1>4. /\ IsFiniteSet(rest) /\ Cardinality(rest) \in Nat
      /\ Cardinality(rest) = IF l \in loops THEN Cardinality(loops) - 1 ELSE Cardinality(loops)
  BY <1>3, FS_RemoveElement, FS_CardinalityType
<1>5. /\ watching' \in Nat
      /\ watching' + Cardinality(rest) + 1 = watching + Cardinality(loops)
  BY <1>3, <1>4
<1>6. \A x, y \in loops : x.id = y.id => x = y
  BY DEF SfuIInv, SfuTypes
<1>7. \A x \in rest : x.outer \in Nat /\ x.outer <= SfuRestarts * SfuOver + count /\ x.id # l.id
  BY <1>3, <1>6 DEF SfuIInv, SfuBreaksAreCounted
<1>8. l.outer \in Nat /\ l.outer <= SfuRestarts * SfuOver + count
  <2>1. SfuRestarts * SfuOver \in Nat
    BY <1>3, SfuAssumption
  <2> QED BY <1>2, <1>3, <2>1, SfuAssumption DEF SfuIInv, SfuBreaksAreCounted
<1>9. CASE SfuReturns(l, t)
  <2>1. loops' = rest /\ SfuSettled(t)
    BY <1>1, <1>9 DEF SfuReturns
  <2>2. SfuOver' = SfuOver + 1
    BY <1>3, <1>4, <1>5, <2>1 DEF SfuOver
  <2>3. \A x \in loops' : x.outer <= SfuRestarts * SfuOver' + count'
    BY <1>2, <1>3, <1>7, <2>1, <2>2, SfuBudget
  <2>4. SfuTypes'
    BY <1>2, <1>5, <1>6, <2>1 DEF SfuIInv, SfuTypes
  <2>5. SfuBreaksAreCounted'
    BY <1>3, <1>4, <2>1, <2>2, <2>3 DEF SfuBreaksAreCounted
  <2>6. SfuWatchingMeansBroken'
    BY <1>3 DEF SfuIInv, SfuWatchingMeansBroken
  <2>7. SfuRestartsAtRest'
    BY <1>1, <1>3, <2>1, SfuAssumption DEF SfuIInv, SfuWatchingMeansBroken, SfuRestartsAtRest, SfuSettled
  <2> QED BY <2>4, <2>5, <2>6, <2>7 DEF SfuIInv
<1>10. CASE SfuContinues(l, t)
  <2>1. PICK k \in SfuCall : /\ k.id = l.id /\ loops' = rest \cup {k}
                             /\ count <= count' /\ k.outer <= l.outer + (count' - count)
    BY <1>1, <1>10 DEF SfuContinues
  <2> HIDE DEF rest
  <2>2. /\ IsFiniteSet(rest \cup {k})
        /\ Cardinality(rest \cup {k}) = IF k \in rest THEN Cardinality(rest) ELSE Cardinality(rest) + 1
    BY <1>4, FS_AddElement
  <2>3. SfuOver' = SfuOver
    <3>1. k \notin rest
      BY <1>7, <2>1
    <3> QED BY <1>3, <1>4, <1>5, <2>1, <2>2, <3>1 DEF SfuOver
  <2>4. \A x \in loops' : x.outer <= SfuRestarts * SfuOver' + count'
    <3>1. SfuRestarts * SfuOver \in Nat
      BY <1>3, SfuAssumption
    <3>2. k.outer <= SfuRestarts * SfuOver + count'
      BY <1>2, <1>8, <2>1, <3>1, SfuAssumption DEF SfuCall
    <3>3. \A x \in rest : x.outer <= SfuRestarts * SfuOver + count'
      BY <1>2, <1>3, <1>7, <2>1, SfuBudget
    <3> QED BY <2>1, <2>3, <3>2, <3>3
  <2>5. SfuTypes'
    <3>1. \A x, y \in rest \cup {k} : x.id = y.id => x = y
      BY <1>6, <1>7, <2>1 DEF rest
    <3> QED BY <1>2, <1>5, <2>1, <3>1 DEF SfuIInv, SfuTypes
  <2>6. SfuBreaksAreCounted'
    BY <1>3, <2>1, <2>2, <2>3, <2>4 DEF SfuBreaksAreCounted
  <2>7. SfuWatchingMeansBroken'
    BY <1>3 DEF SfuIInv, SfuWatchingMeansBroken
  <2>8. SfuRestartsAtRest'
    BY <2>1 DEF SfuRestartsAtRest
  <2> QED BY <2>5, <2>6, <2>7, <2>8 DEF SfuIInv
<1> QED BY <1>1, <1>9, <1>10

LEMMA SfuAdvanceKeeps ==
    ASSUME SfuIInv, NEW i \in Sfu!Loops, Sfu!Advance(i)
    PROVE  SfuIInv'
<1>1. PICK l \in loops : \E t \in SfuAfter(l) : Sfu!Becomes(t)
  BY SfuAdvances DEF SfuIInv
<1>2. UNCHANGED <<ms, watching, bot, sfuBreaks>>
  BY DEF Sfu!Advance
<1>3. l \in SfuCall
  BY DEF SfuIInv, SfuTypes
<1> QED BY <1>1, <1>2, <1>3, SfuChainKeeps

-----------------------------------------------------------------------------
(* The other steps                                                         *)

(***************************************************************************)
(* There are at most as many calls as losses: a new one finds an identity. *)
(***************************************************************************)
LEMMA SfuFreeIdentity ==
    ASSUME SfuTypes, SfuBreaksAreCounted, watching > 0
    PROVE  \E i \in Sfu!Loops : i \notin {k.id : k \in loops}
<1>1. SUFFICES ASSUME \A i \in Sfu!Loops : \E k \in loops : k.id = i
               PROVE  FALSE
  OBVIOUS
<1>2. IsFiniteSet(Sfu!Loops) /\ Cardinality(Sfu!Loops) = SfuBreaks
  BY FS_Interval, SfuAssumption DEF Sfu!Loops
<1>3. /\ IsFiniteSet(loops) /\ Cardinality(loops) \in Nat
      /\ watching \in Nat /\ watching + Cardinality(loops) <= sfuBreaks /\ sfuBreaks \in 0..SfuBreaks
  BY SfuCounts DEF SfuTypes
<1>4. Cardinality(loops) < Cardinality(Sfu!Loops)
  BY <1>2, <1>3, SfuAssumption
<1> DEFINE f == [i \in Sfu!Loops |-> CHOOSE k \in loops : k.id = i]
<1>5. f \in [Sfu!Loops -> loops] /\ \A i \in Sfu!Loops : f[i].id = i
  BY <1>1
<1> HIDE DEF f
<1>6. \E i, j \in Sfu!Loops : i # j /\ f[i] = f[j]
  BY <1>2, <1>3, <1>4, <1>5, FS_PigeonHole
<1> QED BY <1>5, <1>6

(***************************************************************************)
(* The bounds on the outer calls hold on while breaks are over and the     *)
(* count does not fall, or falls because a call is over.                   *)
(***************************************************************************)
LEMMA SfuOuterKeeps ==
    ASSUME SfuTypes, SfuBreaksAreCounted, loops' \subseteq loops, count' \in 0..SfuRestarts,
           SfuOver' \in Nat, (SfuOver <= SfuOver' /\ count <= count') \/ SfuOver + 1 <= SfuOver'
    PROVE  \A l \in loops' : l.outer <= SfuRestarts * SfuOver' + count'
<1>1. /\ SfuOver \in Nat /\ count \in 0..SfuRestarts
      /\ \A l \in loops : l.outer \in Nat /\ l.outer <= SfuRestarts * SfuOver + count
  BY SfuCounts DEF SfuTypes, SfuBreaksAreCounted
<1> DEFINE over == SfuOver'
           attempts == count'
<1>2. over \in Nat /\ attempts \in 0..SfuRestarts /\ ((SfuOver <= over /\ count <= attempts) \/ SfuOver + 1 <= over)
  OBVIOUS
<1> HIDE DEF over, attempts
<1>3. \A l \in loops : l.outer <= SfuRestarts * over + attempts
  BY <1>1, <1>2, SfuBudget
<1> QED BY <1>3 DEF over, attempts

(***************************************************************************)
(* A loss that is confirmed begins a chain of calls, unless one is shown.  *)
(***************************************************************************)
LEMMA SfuLossKeeps == SfuIInv /\ Sfu!LossConfirmed => SfuIInv'
<1> SUFFICES ASSUME SfuIInv, Sfu!LossConfirmed PROVE SfuIInv'
  OBVIOUS
<1> DEFINE i == CHOOSE i \in Sfu!Loops : i \notin {k.id : k \in loops}
           l == [id |-> i, phase |-> "backoff", outer |-> 0]
<1>1. /\ watching > 0 /\ watching' = watching - 1
      /\ UNCHANGED <<ms, bot, sfuBreaks>>
      /\ IF state = "reconnecting" \/ bot.disableRestartIce THEN UNCHANGED <<state, count, loops>>
         ELSE Sfu!Becomes(Sfu!restartIce([state |-> state, count |-> count, loops |-> loops], l))
  BY DEF Sfu!LossConfirmed
<1>2. i \in Sfu!Loops /\ \A k \in loops : k.id # i
  BY <1>1, SfuFreeIdentity DEF SfuIInv
<1> HIDE DEF i
<1>3. l \in SfuCall /\ l.id = i /\ l.outer = 0
  BY <1>2 DEF SfuCall, SfuPhases
<1> HIDE DEF l
<1>4. /\ IsFiniteSet(loops) /\ Cardinality(loops) \in Nat
      /\ watching \in Nat /\ sfuBreaks \in Nat /\ SfuOver \in Nat
      /\ watching + Cardinality(loops) <= sfuBreaks
  BY SfuCounts DEF SfuIInv
<1>5. CASE state = "reconnecting" \/ bot.disableRestartIce
  <2>1. UNCHANGED <<state, count, loops>>
    BY <1>1, <1>5
  <2>2. watching' \in Nat /\ SfuOver' = SfuOver + 1
    BY <1>1, <1>4, <2>1 DEF SfuOver
  <2>3. SfuTypes'
    BY <1>1, <2>1, <2>2 DEF SfuIInv, SfuTypes
  <2>4. SfuBreaksAreCounted'
    <3>1. SfuOver' \in Nat /\ SfuOver + 1 <= SfuOver' /\ count' \in 0..SfuRestarts
      BY <1>4, <2>1, <2>2 DEF SfuIInv, SfuTypes
    <3>2. \A k \in loops' : k.outer <= SfuRestarts * SfuOver' + count'
      BY <2>1, <3>1, SfuOuterKeeps DEF SfuIInv
    <3> QED BY <1>4, <2>1, <3>1, <3>2 DEF SfuBreaksAreCounted
  <2>5. SfuWatchingMeansBroken' /\ SfuRestartsAtRest'
    BY <1>1, <1>4, <1>5, <2>1 DEF SfuIInv, SfuWatchingMeansBroken, SfuRestartsAtRest
  <2> QED BY <2>3, <2>4, <2>5 DEF SfuIInv
<1>6. CASE state # "reconnecting" /\ ~bot.disableRestartIce
  <2>1. Sfu!Without(l) = [state |-> state, count |-> count, loops |-> loops]
    <3>1. loops \ {l} = loops
      BY <1>2, <1>3
    <3> QED BY <3>1 DEF Sfu!Without
  <2>2. Sfu!Becomes(Sfu!restartIce(Sfu!Without(l), l))
    BY <1>1, <1>6, <2>1
  <2>3. Sfu!restartIce(Sfu!Without(l), l) \in SfuAfter(l)
    BY <1>3, SfuRestartIce DEF SfuIInv
  <2> QED BY <1>1, <1>2, <1>3, <2>2, <2>3, SfuChainKeeps
<1> QED BY <1>5, <1>6

LEMMA SfuConnectingKeeps == SfuIInv /\ Sfu!MsConnecting => SfuIInv'
<1> SUFFICES ASSUME SfuIInv, Sfu!MsConnecting PROVE SfuIInv'
  OBVIOUS
<1>1. /\ UNCHANGED <<count, watching, loops, bot, sfuBreaks>>
      /\ ms' = "connecting" /\ state' = "connecting"
      /\ ms = "new" \/ loops # {}
  BY DEF Sfu!MsConnecting
<1>2. SfuTypes'
  BY <1>1 DEF SfuIInv, SfuTypes, SfuShownStates
<1>3. SfuBreaksAreCounted'
  BY <1>1 DEF SfuIInv, SfuBreaksAreCounted, SfuOver
<1>4. SfuWatchingMeansBroken' /\ SfuRestartsAtRest'
  BY <1>1 DEF SfuWatchingMeansBroken, SfuIInv, SfuRestartsAtRest
<1> QED BY <1>2, <1>3, <1>4 DEF SfuIInv

(***************************************************************************)
(* The calls that waited for the connection are over, and with them the    *)
(* handlers of a loss.                                                     *)
(***************************************************************************)
LEMMA SfuConnectedKeeps == SfuIInv /\ Sfu!MsConnected => SfuIInv'
<1> SUFFICES ASSUME SfuIInv, Sfu!MsConnected PROVE SfuIInv'
  OBVIOUS
<1> DEFINE over == {l \in loops : l.phase = "wait"}
<1>1. /\ ms \in {"connecting", "disconnected"} /\ ms' = "connected"
      /\ watching' = 0 /\ loops' = loops \ over
      /\ state' = IF over # {} /\ bot.state = "left" THEN "disconnected" ELSE "connected"
      /\ count' = IF over # {} /\ bot.state # "left" THEN 0 ELSE count
      /\ UNCHANGED <<bot, sfuBreaks>>
  BY DEF Sfu!MsConnected
<1>2. /\ IsFiniteSet(loops) /\ Cardinality(loops) \in Nat
      /\ watching \in Nat /\ sfuBreaks \in Nat /\ SfuOver \in Nat
      /\ watching + Cardinality(loops) <= sfuBreaks
  BY SfuCounts DEF SfuIInv
<1>3. over \subseteq loops
  OBVIOUS
<1> HIDE DEF over
<1>4. /\ IsFiniteSet(loops') /\ Cardinality(loops') \in Nat
      /\ Cardinality(loops') <= Cardinality(loops)
      /\ over # {} => Cardinality(loops') < Cardinality(loops)
  <2>1. /\ loops' \subseteq loops
        /\ over # {} => loops' # loops
    BY <1>1, <1>3
  <2>2. \A rest \in SUBSET loops : /\ IsFiniteSet(rest) /\ Cardinality(rest) \in Nat
                                   /\ Cardinality(rest) <= Cardinality(loops)
                                   /\ rest # loops => Cardinality(rest) < Cardinality(loops)
    BY <1>2, FS_Subset, FS_CardinalityType
  <2> QED BY <2>1, <2>2
<1>5. /\ count' \in 0..SfuRestarts
      /\ SfuOver' \in Nat /\ ((SfuOver <= SfuOver' /\ count <= count') \/ SfuOver + 1 <= SfuOver')
  <2>1. count \in 0..SfuRestarts
    BY DEF SfuIInv, SfuTypes
  <2>2. SfuOver' = sfuBreaks - Cardinality(loops')
    BY <1>1, <1>2, <1>4 DEF SfuOver
  <2>3. CASE over = {}
    BY <1>1, <1>2, <1>4, <2>1, <2>2, <2>3, SfuAssumption DEF SfuOver
  <2>4. CASE over # {}
    BY <1>1, <1>2, <1>4, <2>1, <2>2, <2>4, SfuAssumption DEF SfuOver
  <2> QED BY <2>3, <2>4
<1>6. SfuTypes'
  BY <1>1, <1>5 DEF SfuIInv, SfuTypes, SfuShownStates
<1>7. SfuBreaksAreCounted'
  <2>1. loops' \subseteq loops
    BY <1>1
  <2>2. \A l \in loops' : l.outer <= SfuRestarts * SfuOver' + count'
    BY <1>5, <2>1, SfuOuterKeeps DEF SfuIInv
  <2> QED BY <1>4, <1>5, <2>2 DEF SfuBreaksAreCounted
<1>8. SfuWatchingMeansBroken'
  BY <1>1 DEF SfuWatchingMeansBroken
<1>9. SfuRestartsAtRest'
  <2>1. CASE over = {}
    BY <1>1, <2>1 DEF SfuIInv, SfuRestartsAtRest
  <2>2. CASE over # {}
    BY <1>1, <2>2 DEF SfuRestartsAtRest
  <2> QED BY <2>1, <2>2
<1> QED BY <1>6, <1>7, <1>8, <1>9 DEF SfuIInv

LEMMA SfuBreakKeeps == SfuIInv /\ Sfu!MsBreaks => SfuIInv'
<1> SUFFICES ASSUME SfuIInv, Sfu!MsBreaks PROVE SfuIInv'
  OBVIOUS
<1>1. /\ sfuBreaks < SfuBreaks /\ sfuBreaks' = sfuBreaks + 1
      /\ ms # "closed" /\ ms' \in {"disconnected", "failed"}
      /\ watching' = IF state = "reconnecting" THEN watching ELSE watching + 1
      /\ UNCHANGED <<state, count, loops, bot>>
  BY DEF Sfu!MsBreaks
<1>2. /\ IsFiniteSet(loops) /\ Cardinality(loops) \in Nat
      /\ watching \in Nat /\ sfuBreaks \in Nat /\ SfuOver \in Nat
      /\ watching + Cardinality(loops) <= sfuBreaks
  BY SfuCounts DEF SfuIInv
<1>3. watching' \in Nat /\ sfuBreaks' \in 0..SfuBreaks
  BY <1>1, <1>2, SfuAssumption
<1>4. SfuOver' \in Nat /\ SfuOver <= SfuOver'
  BY <1>1, <1>2 DEF SfuOver
<1>5. SfuTypes'
  BY <1>1, <1>3 DEF SfuIInv, SfuTypes
<1>6. SfuBreaksAreCounted'
  <2>1. count \in 0..SfuRestarts /\ count <= count' /\ count' \in 0..SfuRestarts /\ loops' \subseteq loops
    BY <1>1, SfuAssumption DEF SfuIInv, SfuTypes
  <2>2. \A l \in loops' : l.outer <= SfuRestarts * SfuOver' + count'
    BY <1>4, <2>1, SfuOuterKeeps DEF SfuIInv
  <2> QED BY <1>1, <1>2, <1>4, <2>2 DEF SfuBreaksAreCounted
<1>7. SfuWatchingMeansBroken'
  BY <1>1 DEF SfuWatchingMeansBroken
<1>8. SfuRestartsAtRest'
  <2>1. CASE loops = {} /\ bot.state = "joined"
    <3>1. state # "reconnecting" /\ count \in {0, SfuRestarts}
      BY <1>1, <2>1 DEF SfuIInv, SfuRestartsAtRest
    <3>2. watching' # 0
      BY <1>1, <1>2, <3>1
    <3> QED BY <1>1, <3>1, <3>2 DEF SfuRestartsAtRest
  <2>2. CASE ~(loops = {} /\ bot.state = "joined")
    BY <1>1, <2>2 DEF SfuRestartsAtRest
  <2> QED BY <2>1, <2>2
<1> QED BY <1>5, <1>6, <1>7, <1>8 DEF SfuIInv

LEMMA SfuEndKeeps == SfuIInv /\ (Sfu!close \/ Sfu!BotLeaves \/ UNCHANGED Sfu!vars) => SfuIInv'
<1>1. SfuIInv /\ Sfu!close => SfuIInv'
  BY DEF Sfu!close, SfuIInv, SfuTypes, SfuShownStates, SfuBreaksAreCounted, SfuOver, SfuWatchingMeansBroken, SfuRestartsAtRest
<1>2. SfuIInv /\ Sfu!BotLeaves => SfuIInv'
  BY DEF Sfu!BotLeaves, SfuIInv, SfuTypes, SfuShownStates, SfuBreaksAreCounted, SfuOver, SfuWatchingMeansBroken, SfuRestartsAtRest
<1>3. SfuIInv /\ UNCHANGED Sfu!vars => SfuIInv'
  BY DEF Sfu!vars, SfuIInv, SfuTypes, SfuShownStates, SfuBreaksAreCounted, SfuOver, SfuWatchingMeansBroken, SfuRestartsAtRest
<1> QED BY <1>1, <1>2, <1>3

LEMMA SfuInitIInv == Sfu!Init => SfuIInv
<1> SUFFICES ASSUME Sfu!Init PROVE SfuIInv
  OBVIOUS
<1>1. IsFiniteSet(loops) /\ Cardinality(loops) = 0
  BY FS_EmptySet DEF Sfu!Init
<1>2. SfuTypes
  BY SfuAssumption DEF Sfu!Init, SfuTypes, SfuShownStates
<1>3. SfuBreaksAreCounted
  BY <1>1 DEF Sfu!Init, SfuBreaksAreCounted, SfuOver
<1>4. SfuWatchingMeansBroken /\ SfuRestartsAtRest
  BY DEF Sfu!Init, SfuWatchingMeansBroken, SfuRestartsAtRest
<1> QED BY <1>2, <1>3, <1>4 DEF SfuIInv

LEMMA SfuStep == SfuIInv /\ [Sfu!Next]_(Sfu!vars) => SfuIInv'
BY SfuAdvanceKeeps, SfuLossKeeps, SfuConnectingKeeps, SfuConnectedKeeps, SfuBreakKeeps, SfuEndKeeps DEF Sfu!Next

(***************************************************************************)
(* The invariant holds in every state, however many restarts run beside    *)
(* each other and whatever they meet.                                      *)
(***************************************************************************)
THEOREM SfuInvariance == Sfu!Spec => []SfuIInv
BY SfuInitIInv, SfuStep, PTL DEF Sfu!Spec

(***************************************************************************)
(* The calls that nest in one another are no more than the attempts, since *)
(* the count is reset only when a call is over.                            *)
(***************************************************************************)
LEMMA SfuTypesBounded == SfuIInv => Sfu!TypeOK
<1> SUFFICES ASSUME SfuIInv PROVE Sfu!TypeOK
  OBVIOUS
<1>1. /\ Cardinality(loops) \in Nat /\ watching \in Nat /\ sfuBreaks \in 0..SfuBreaks /\ SfuOver \in Nat
      /\ watching + Cardinality(loops) <= sfuBreaks
      /\ \A l \in loops : l.outer \in Nat
  BY SfuCounts DEF SfuIInv, SfuTypes
<1>2. watching \in 0..SfuBreaks
  BY <1>1, SfuAssumption
<1>3. SfuRestarts * SfuOver + count <= SfuRestarts * (SfuBreaks + 1)
  <2>1. count \in 0..SfuRestarts /\ SfuOver <= SfuBreaks
    BY <1>1, SfuAssumption DEF SfuIInv, SfuTypes, SfuOver
  <2>2. SfuRestarts * SfuOver + count \in Nat /\ SfuRestarts * (SfuBreaks + 1) = SfuRestarts * (SfuBreaks + 1) + 0
    BY <1>1, <2>1, SfuAssumption
  <2> QED BY <1>1, <2>1, <2>2, SfuBudget, SfuAssumption
<1>4. \A l \in loops : l.outer \in 0..(SfuRestarts * (SfuBreaks + 1))
  <2>1. SfuRestarts * (SfuBreaks + 1) \in Nat /\ SfuRestarts * SfuOver + count \in Nat
    BY <1>1, SfuAssumption DEF SfuIInv, SfuTypes
  <2>2. \A l \in loops : l.outer <= SfuRestarts * SfuOver + count
    BY DEF SfuIInv, SfuBreaksAreCounted
  <2> QED BY <1>1, <1>3, <2>1, <2>2
<1>5. loops \subseteq Sfu!Loop
  <2>1. loops \subseteq SfuCall
    BY DEF SfuIInv, SfuTypes
  <2> QED BY <1>4, <2>1 DEF SfuCall, Sfu!Loop, SfuPhases
<1> QED BY <1>2, <1>5 DEF SfuIInv, SfuTypes, Sfu!TypeOK, SfuShownStates

LEMMA SfuAgrees == SfuIInv => Sfu!SfuAgreesAtRest
BY SfuTypesBounded DEF SfuIInv, SfuRestartsAtRest, Sfu!SfuAgreesAtRest, Sfu!Closed

(***************************************************************************)
(* However the restarts overlap and nest: when the last one has returned   *)
(* and no loss is waited for, the state that is shown is the one the       *)
(* transport is in, and the next loss has all its attempts, unless they    *)
(* were used up (restartIce, checkNeedEnd and the callback of              *)
(* connectionstatechange of SfuTransport).                                 *)
(***************************************************************************)
THEOREM SfuAlwaysAgrees == Sfu!Spec => []SfuAgreesAtRest
BY SfuAgrees, SfuInvariance, PTL DEF SfuAgreesAtRest

-----------------------------------------------------------------------------
(***************************************************************************)
(* Both transports together, as the run checks them: what holds of either  *)
(* holds of the composition, since no step of one touches the other.       *)
(***************************************************************************)
THEOREM TransportsAgree == MCSpec => [](CandidatesReachDescription /\ StatesAgree /\ SfuAgreesAtRest)
<1>1. MCInit => IInv /\ SfuIInv
  BY InitIInv, SfuInitIInv DEF MCInit
<1>2. IInv /\ SfuIInv /\ [MCNext]_<<vars, sfuVars>> => IInv' /\ SfuIInv'
  <2> SUFFICES ASSUME IInv, SfuIInv, [MCNext]_<<vars, sfuVars>> PROVE IInv' /\ SfuIInv'
    OBVIOUS
  <2>1. [Next]_vars
    BY DEF MCNext, vars
  <2>2. [Sfu!Next]_(Sfu!vars)
    BY DEF MCNext, Sfu!vars, sfuVars
  <2> QED BY <2>1, <2>2, P2PStep, SfuStep
<1>3. IInv /\ SfuIInv => CandidatesReachDescription /\ StatesAgree /\ SfuAgreesAtRest
  BY P2PAgrees, SfuAgrees DEF SfuAgreesAtRest
<1> QED BY <1>1, <1>2, <1>3, PTL DEF MCSpec

-----------------------------------------------------------------------------
(***************************************************************************)
(* SfuForwarding, for every number of publications, subscriptions, starts  *)
(* and troubles.  The queue runs one start at a time, so whoever makes the *)
(* SFU make a transport brings its options before the next one asks; and   *)
(* what the SFU ends is told by events, or by a stop that they bring.      *)
(***************************************************************************)
Busy == {"request", "answered", "produce", "watch", "found", "stuck"}
Past == {"answered", "produce", "watch", "found", "started", "failed", "stuck"}

\* One start at a time: the head of the queue; who waits or runs is in the queue once.
OneStart ==
    /\ \A n \in StartIds : starts[n].stage \in Busy => Runs(n)
    /\ \A i \in 1..Len(queue) : starts[queue[i]].stage \in Busy \cup {"queued"}
    /\ \A i, j \in 1..Len(queue) : queue[i] = queue[j] => i = j

\* Whoever made the SFU make a transport has brought its options, or is about to.
TransportsCome ==
    /\ \A s \in Subs : receivers[s].stage = "answered" => server.recv
    /\ "answer lost" \notin causes /\ ~client.disposed =>
        /\ server.send => client.send \/ \E n \in StartIds : starts[n].stage = "answered" /\ starts[n].options
        /\ server.recv => client.recv \/ \E s \in Subs : receivers[s].stage = "answered" /\ receivers[s].options
        /\ \A n \in StartIds : starts[n].stage = "answered" /\ ~starts[n].options => client.send
        /\ \A s \in Subs : receivers[s].stage = "wait" =>
               \E r \in Subs : receivers[r].stage = "answered" /\ receivers[r].options

\* Only who is subscribed is on the way to a consumer, or has one.
ReceiversWanted ==
    "unsubscribe overtook" \notin causes =>
        \A s \in Subs : /\ receivers[s].stage \notin {"idle", "consumed", "failed"} => receivers[s].wanted
                        /\ receivers[s].consumer = "open" => receivers[s].wanted

\* What a start, its producer and what the SFU runs for it have to do with one another.
StartsMatch ==
    /\ \A n \in server.running : starts[n].stage \in Past
    /\ \A n \in StartIds :
          /\ starts[n].producer # "none" => starts[n].stage \in {"watch", "found", "started", "failed"}
          /\ starts[n].stage \in {"watch", "found", "started"} => starts[n].producer # "none"
    /\ \A p \in Pubs : senders[p] # 0 =>
          starts[senders[p]].pub = p /\ starts[senders[p]].stage \notin {"none", "queued"}
    /\ "started again" \notin causes =>
          \A k, n \in StartIds : ~Idle(k) /\ ~Idle(n) /\ starts[k].pub = starts[n].pub => k = n

\* The end of a forwarding is told when the SFU has ended it.
EndsAreTold ==
    /\ \A i \in 1..Len(events) : events[i].kind \in {"unsubscribed", "unrelayed"} =>
          events[i].of \notin server.running /\ starts[events[i].of].stage \in Past
    /\ \A p \in stopping : \E n \in StartIds :
          starts[n].pub = p /\ starts[n].stage \in Past /\ n \notin server.running
    /\ "started again" \notin causes /\ ~client.disposed =>
          \A n \in StartIds : starts[n].producer = "closed" => n \notin server.running

\* Who sends, or is about to.
Sends(n) == starts[n].producer = "open" \/ starts[n].stage \in {"answered", "produce"}

\* It will hear of the end.
EndIsHeard ==
    causes \cap {"stop overtook start", "started again", "bot left"} = {} =>
        \A n \in StartIds :
            /\ Sends(n) \/ starts[n].stage = "request" => senders[starts[n].pub] = n
            /\ Sends(n) => \/ n \in server.running
                           \/ Coming([kind |-> "unsubscribed", of |-> n])
                           \/ starts[n].pub \in stopping
                           \/ Coming([kind |-> "left"])

ForwardingIInv ==
    /\ ForwardingTypeOK
    /\ OneStart
    /\ TransportsCome
    /\ ReceiversWanted
    /\ StartsMatch
    /\ EndsAreTold
    /\ EndIsHeard

-----------------------------------------------------------------------------
\* The bounds of the forwardings are numbers.
LEMMA ForwardingBounds == MaxStarts \in Nat /\ MaxCalls \in Nat /\ MaxTroubles \in Nat
BY ForwardingAssumption

\* Starts are numbered from one; zero stands for no Sender.
LEMMA StartNumbers == StartIds \subseteq Nat /\ 0 \notin StartIds /\ StartIds \subseteq 0..MaxStarts
BY ForwardingBounds DEF StartIds

\* The history only grows, and who fails or times out is counted.
LEMMA TroubleType == ForwardingTypeOK /\ (Trouble \/ UNCHANGED troubles) => troubles' \in 0..MaxTroubles
BY ForwardingBounds DEF Trouble, ForwardingTypeOK

\* One change of one field of a start.
LEMMA StartUpdate ==
    ASSUME NEW t \in [StartIds -> Sender], NEW n \in StartIds
    PROVE  /\ \A stage \in Stages : [t EXCEPT ![n].stage = stage] \in [StartIds -> Sender]
           /\ \A producer \in {"none", "open", "closed"} :
                 [t EXCEPT ![n].producer = producer] \in [StartIds -> Sender]
           /\ \A options \in BOOLEAN : [t EXCEPT ![n].options = options] \in [StartIds -> Sender]
           /\ \A p \in Pubs : [t EXCEPT ![n].pub = p] \in [StartIds -> Sender]
BY DEF Sender, Stages

\* The head of the queue leaves.
LEMMA QueueTail ==
    ASSUME NEW T, NEW q \in Seq(T), q # <<>>
    PROVE  /\ Tail(q) \in Seq(T)
           /\ Len(q) \in Nat \ {0}
           /\ Len(Tail(q)) = Len(q) - 1
           /\ \A i \in 1..Len(Tail(q)) : i + 1 \in 1..Len(q) /\ Tail(q)[i] = q[i + 1]
           /\ Head(q) = q[1]
           /\ 1 \in 1..Len(q)
OBVIOUS

\* Two events more.
LEMMA TwoMore ==
    ASSUME NEW T, NEW q \in Seq(T), NEW a \in T, NEW b \in T
    PROVE  /\ q \o <<a, b>> \in Seq(T)
           /\ Len(q) \in Nat
           /\ Len(q \o <<a, b>>) = Len(q) + 2
           /\ \A i \in 1..Len(q) : (q \o <<a, b>>)[i] = q[i]
           /\ (q \o <<a, b>>)[Len(q) + 1] = a
           /\ (q \o <<a, b>>)[Len(q) + 2] = b
OBVIOUS

\* One element more.
LEMMA OneMore ==
    ASSUME NEW T, NEW q \in Seq(T), NEW a \in T
    PROVE  /\ Append(q, a) \in Seq(T)
           /\ Len(q) \in Nat
           /\ Len(Append(q, a)) = Len(q) + 1
           /\ \A i \in 1..Len(q) : Append(q, a)[i] = q[i]
           /\ Append(q, a)[Len(q) + 1] = a
OBVIOUS

\* What waits in the queue, and what the events are.
LEMMA Elements == ASSUME NEW T, NEW q \in Seq(T) PROVE \A i \in 1..Len(q) : q[i] \in T
OBVIOUS

\* In particular the queue and the events of the person.
LEMMA ForwardingElements ==
    ForwardingIInv => /\ \A i \in 1..Len(queue) : queue[i] \in StartIds
                      /\ \A i \in 1..Len(events) : events[i] \in Event
<1>1. ForwardingIInv => queue \in Seq(StartIds) /\ events \in Seq(Event)
  BY DEF ForwardingIInv, ForwardingTypeOK
<1> QED BY <1>1, Elements

-----------------------------------------------------------------------------
(* What a step that leaves something alone keeps                           *)

\* Receivers and their transport, when only the starts move on.
LEMMA ReceiversFrame ==
    ASSUME ReceiversWanted, UNCHANGED receivers, causes \subseteq causes'
    PROVE  ReceiversWanted'
BY DEF ReceiversWanted

\* The transports, when no answer comes or goes.
LEMMA TransportsFrame ==
    ASSUME TransportsCome, UNCHANGED receivers, causes \subseteq causes',
           server'.send = server.send, server'.recv = server.recv,
           client'.send = client.send, client'.recv = client.recv, client'.disposed = client.disposed,
           \A n \in StartIds :
              /\ starts[n].stage = "answered" /\ starts[n].options =>
                    starts'[n].stage = "answered" /\ starts'[n].options
              /\ starts'[n].stage = "answered" /\ ~starts'[n].options =>
                    starts[n].stage = "answered" /\ ~starts[n].options
    PROVE  TransportsCome'
<1>1. CASE "answer lost" \in causes' \/ client'.disposed
  BY <1>1 DEF TransportsCome
<1>2. CASE "answer lost" \notin causes' /\ ~client'.disposed
  <2>1. /\ \A s \in Subs : receivers[s].stage = "answered" => server.recv
        /\ server.send => client.send \/ \E n \in StartIds : starts[n].stage = "answered" /\ starts[n].options
        /\ server.recv => client.recv \/ \E s \in Subs : receivers[s].stage = "answered" /\ receivers[s].options
        /\ \A n \in StartIds : starts[n].stage = "answered" /\ ~starts[n].options => client.send
        /\ \A s \in Subs : receivers[s].stage = "wait" =>
               \E r \in Subs : receivers[r].stage = "answered" /\ receivers[r].options
    BY <1>2 DEF TransportsCome
  <2> QED BY <1>2, <2>1 DEF TransportsCome
<1> QED BY <1>1, <1>2

\* The queue, when each start stays in its stage.
LEMMA OneStartFrame ==
    ASSUME OneStart, queue \in Seq(StartIds), UNCHANGED queue,
           \A n \in StartIds : starts'[n].stage = starts[n].stage
    PROVE  OneStart'
BY DEF OneStart, Runs

\* The queue, when its head goes on.
LEMMA HeadGoesOn ==
    ASSUME OneStart, queue \in Seq(StartIds), UNCHANGED queue, NEW n \in StartIds, Runs(n),
           starts'[n].stage \in Busy,
           \A k \in StartIds : k # n => starts'[k].stage = starts[k].stage
    PROVE  OneStart'
<1>1. \A i \in 1..Len(queue) : queue[i] \in StartIds
  OBVIOUS
<1> QED BY <1>1 DEF OneStart, Runs

\* The queue, when its head has finished: nobody runs.
LEMMA HeadLeaves ==
    ASSUME OneStart, queue \in Seq(StartIds), NEW n \in StartIds, Runs(n), queue' = Tail(queue),
           starts'[n].stage \in {"started", "failed"},
           \A k \in StartIds : k # n => starts'[k].stage = starts[k].stage
    PROVE  OneStart' /\ queue' \in Seq(StartIds)
<1>1. /\ Tail(queue) \in Seq(StartIds)
      /\ Len(queue) \in Nat \ {0}
      /\ Len(Tail(queue)) = Len(queue) - 1
      /\ \A i \in 1..Len(Tail(queue)) : i + 1 \in 1..Len(queue) /\ Tail(queue)[i] = queue[i + 1]
      /\ queue[1] = n /\ 1 \in 1..Len(queue)
  BY QueueTail DEF Runs
<1>2. \A k \in StartIds : starts'[k].stage \notin Busy
  <2>1. \A k \in StartIds : starts[k].stage \in Busy => k = n
    BY DEF OneStart, Runs
  <2> QED BY <2>1 DEF Busy
<1>3. \A i \in 1..Len(Tail(queue)) : Tail(queue)[i] # n /\ Tail(queue)[i] \in StartIds
  <2> TAKE i \in 1..Len(Tail(queue))
  <2>1. queue[i + 1] # queue[1]
    BY <1>1 DEF OneStart
  <2> QED BY <1>1, <2>1
<1>4. \A i \in 1..Len(Tail(queue)) : starts'[Tail(queue)[i]].stage \in Busy \cup {"queued"}
  BY <1>1, <1>3 DEF OneStart
<1>5. \A i, j \in 1..Len(Tail(queue)) : Tail(queue)[i] = Tail(queue)[j] => i = j
  <2> TAKE i, j \in 1..Len(Tail(queue))
  <2> HAVE Tail(queue)[i] = Tail(queue)[j]
  <2>1. i + 1 = j + 1
    BY <1>1 DEF OneStart
  <2> QED BY <2>1
<1> QED BY <1>1, <1>2, <1>4, <1>5 DEF OneStart

\* What the ends of forwardings are known from, when no event comes and the SFU ends nothing.
LEMMA EndsFrame ==
    ASSUME EndsAreTold, ForwardingTypeOK, UNCHANGED events, server'.running \subseteq server.running,
           stopping' \subseteq stopping, causes \subseteq causes', client.disposed => client'.disposed,
           \A n \in StartIds : /\ starts'[n].pub = starts[n].pub \/ starts[n].stage \notin Past
                               /\ starts[n].stage \in Past => starts'[n].stage \in Past
                               /\ starts'[n].producer = "closed" =>
                                      starts[n].producer = "closed" \/ client'.disposed
    PROVE  EndsAreTold'
<1>1. \A i \in 1..Len(events) : events[i].kind \in {"unsubscribed", "unrelayed"} => events[i].of \in StartIds
  <2>1. \A i \in 1..Len(events) : events[i] \in Event
    BY DEF ForwardingTypeOK
  <2> QED BY <2>1 DEF Event
<1>2. \A i \in 1..Len(events') : events'[i].kind \in {"unsubscribed", "unrelayed"} =>
          events'[i].of \notin server'.running /\ starts'[events'[i].of].stage \in Past
  BY <1>1 DEF EndsAreTold
<1>3. \A p \in stopping' : \E n \in StartIds :
          starts'[n].pub = p /\ starts'[n].stage \in Past /\ n \notin server'.running
  <2> TAKE p \in stopping'
  <2>1. \A q \in stopping : \E n \in StartIds :
            starts[n].pub = q /\ starts[n].stage \in Past /\ n \notin server.running
    BY DEF EndsAreTold
  <2>2. p \in stopping
    OBVIOUS
  <2>3. PICK n \in StartIds : starts[n].pub = p /\ starts[n].stage \in Past /\ n \notin server.running
    BY <2>1, <2>2
  <2>4. n \notin server'.running
    BY <2>3
  <2> QED BY <2>3, <2>4
<1>4. "started again" \notin causes' /\ ~client'.disposed =>
          \A n \in StartIds : starts'[n].producer = "closed" => n \notin server'.running
  BY DEF EndsAreTold
<1> QED BY <1>2, <1>3, <1>4 DEF EndsAreTold

\* That the end is heard, when no event comes or goes and the SFU ends nothing.
LEMMA HeardFrame ==
    ASSUME EndIsHeard, UNCHANGED events, server.running \subseteq server'.running,
           stopping \subseteq stopping', causes \subseteq causes',
           causes' \cap {"stop overtook start", "started again", "bot left"} = {} =>
              \A n \in StartIds :
                 /\ Sends(n)' => Sends(n) /\ starts'[n].pub = starts[n].pub
                 /\ Sends(n)' \/ starts'[n].stage = "request" =>
                       \/ senders'[starts'[n].pub] = n
                       \/ /\ Sends(n) \/ starts[n].stage = "request"
                          /\ starts'[n].pub = starts[n].pub
                          /\ senders'[starts[n].pub] = senders[starts[n].pub]
    PROVE  EndIsHeard'
<1>1. CASE causes' \cap {"stop overtook start", "started again", "bot left"} # {}
  BY <1>1 DEF EndIsHeard
<1>2. CASE causes' \cap {"stop overtook start", "started again", "bot left"} = {}
  <2>1. \A n \in StartIds :
            /\ Sends(n) \/ starts[n].stage = "request" => senders[starts[n].pub] = n
            /\ Sends(n) => \/ n \in server.running
                           \/ Coming([kind |-> "unsubscribed", of |-> n])
                           \/ starts[n].pub \in stopping
                           \/ Coming([kind |-> "left"])
    BY <1>2 DEF EndIsHeard
  <2>2. \A e : Coming(e)' <=> Coming(e)
    BY DEF Coming
  <2>3. ASSUME NEW n \in StartIds
        PROVE  /\ Sends(n)' \/ starts'[n].stage = "request" => senders'[starts'[n].pub] = n
               /\ Sends(n)' => \/ n \in server'.running
                               \/ Coming([kind |-> "unsubscribed", of |-> n])'
                               \/ starts'[n].pub \in stopping'
                               \/ Coming([kind |-> "left"])'
    BY <1>2, <2>1, <2>2, <2>3
  <2> QED BY <2>3 DEF EndIsHeard
<1> QED BY <1>1, <1>2

\* A Sender belongs to the start that made it last for its publication.
LEMMA SenderOf ==
    ASSUME ForwardingIInv, NEW p \in Pubs, senders[p] # 0
    PROVE  senders[p] \in StartIds /\ starts[senders[p]].pub = p /\ starts[senders[p]].stage \notin {"none", "queued"}
<1>1. senders[p] \in StartIds
  BY ForwardingBounds DEF ForwardingIInv, ForwardingTypeOK, StartIds
<1> QED BY <1>1 DEF ForwardingIInv, StartsMatch

\* Starts that have been called are of different publications.
Once(t) == \A k, n \in StartIds : t[k].stage # "none" /\ t[n].stage # "none" /\ t[k].pub = t[n].pub => k = n

\* Which the invariant says, unless a publication was started again.
LEMMA StartedOnce == ForwardingIInv /\ "started again" \notin causes => Once(starts)
BY DEF ForwardingIInv, StartsMatch, Idle, Once

\* And which stays when no start is called.
LEMMA OnceFrame ==
    ASSUME ForwardingIInv, "started again" \notin causes' => "started again" \notin causes,
           \A k \in StartIds : /\ starts'[k].stage # "none" => starts[k].stage # "none"
                               /\ starts'[k].pub = starts[k].pub
    PROVE  "started again" \notin causes' => Once(starts')
<1>1. "started again" \notin causes' => Once(starts)
  BY StartedOnce
<1>2. Once(starts) => Once(starts')
  BY DEF Once
<1> QED BY <1>1, <1>2

-----------------------------------------------------------------------------
(* The queue                                                               *)

\* What the queue, the starts and the Senders are.
LEMMA ForwardingTypes == ForwardingTypeOK =>
    /\ starts \in [StartIds -> Sender]
    /\ \A n \in StartIds : starts[n] \in Sender
    /\ queue \in Seq(StartIds)
    /\ senders \in [Pubs -> 0..MaxStarts]
BY DEF ForwardingTypeOK

\* A start is called: it waits in the queue.
LEMMA CallKeeps ==
    ASSUME ForwardingIInv, NEW n \in StartIds, NEW p \in Pubs, startForwarding(n, p)
    PROVE  ForwardingIInv'
<1> DEFINE started == [starts[n] EXCEPT !.pub = p, !.stage = "queued"]
<1>1. /\ starts \in [StartIds -> Sender] /\ queue \in Seq(StartIds)
      /\ starts' = [starts EXCEPT ![n] = started]
  BY DEF ForwardingIInv, ForwardingTypeOK, startForwarding
<1>2. /\ starts[n].stage = "none"
      /\ starts'[n] = started /\ started.stage = "queued" /\ started.pub = p
      /\ started.producer = starts[n].producer /\ started.options = starts[n].options
      /\ started \in Sender
      /\ \A k \in StartIds : k # n => starts'[k] = starts[k]
  BY <1>1 DEF startForwarding, Idle, Sender, Stages
<1>3. /\ causes \subseteq causes' /\ causes' \subseteq Causes
      /\ "started again" \notin causes' => \A k \in StartIds : ~Idle(k) => starts[k].pub # p
  BY DEF startForwarding, ForwardingIInv, ForwardingTypeOK, Causes
<1>4. /\ queue' = Append(queue, n) /\ queue' \in Seq(StartIds) /\ Len(queue) \in Nat
      /\ Len(queue') = Len(queue) + 1
      /\ \A i \in 1..Len(queue) : queue'[i] = queue[i] /\ queue[i] \in StartIds
      /\ queue'[Len(queue) + 1] = n
  <2>1. queue' = Append(queue, n)
    BY DEF startForwarding
  <2>2. \A i \in 1..Len(queue) : queue[i] \in StartIds
    BY <1>1
  <2> QED BY <1>1, <2>1, <2>2, OneMore
<1>5. UNCHANGED <<senders, forwardings, listening, stopping, receivers, client, server, events, channel, troubles>>
  BY DEF startForwarding
<1>6. starts[n].producer = "none"
  BY <1>1, <1>2 DEF ForwardingIInv, StartsMatch, Sender
<1>7. ForwardingTypeOK'
  BY <1>1, <1>2, <1>3, <1>4, <1>5 DEF ForwardingIInv, ForwardingTypeOK
<1>8. OneStart'
  <2>1. \A i \in 1..Len(queue) : queue[i] # n
    BY <1>2, <1>4 DEF ForwardingIInv, OneStart, Busy
  <2>2. \A k \in StartIds : starts'[k].stage \in Busy => Runs(k)'
    <3> TAKE k \in StartIds
    <3> HAVE starts'[k].stage \in Busy
    <3>1. k # n /\ starts[k].stage \in Busy
      BY <1>2 DEF Busy
    <3>2. queue # <<>> /\ Head(queue) = k
      BY <3>1 DEF ForwardingIInv, OneStart, Runs
    <3>3. queue' # <<>> /\ Head(queue') = Head(queue)
      BY <1>1, <1>4, <3>2
    <3> QED BY <3>2, <3>3 DEF Runs
  <2>3. \A i \in 1..Len(queue') : i \in 1..Len(queue) \/ i = Len(queue) + 1
    BY <1>4
  <2>4. \A i \in 1..Len(queue') : starts'[queue'[i]].stage \in Busy \cup {"queued"}
    <3> TAKE i \in 1..Len(queue')
    <3>1. CASE i \in 1..Len(queue)
      <4>1. starts[queue[i]].stage \in Busy \cup {"queued"}
        BY <3>1 DEF ForwardingIInv, OneStart
      <4>2. queue'[i] = queue[i] /\ queue[i] \in StartIds /\ queue[i] # n
        BY <1>4, <2>1, <3>1
      <4> QED BY <1>2, <4>1, <4>2
    <3>2. CASE i = Len(queue) + 1
      BY <1>2, <1>4, <3>2
    <3> QED BY <2>3, <3>1, <3>2
  <2>5. \A i, j \in 1..Len(queue') : queue'[i] = queue'[j] => i = j
    BY <1>4, <2>1, <2>3 DEF ForwardingIInv, OneStart
  <2> QED BY <2>2, <2>4, <2>5 DEF OneStart
<1>9. TransportsCome'
  BY <1>2, <1>3, <1>5, TransportsFrame DEF ForwardingIInv
<1>10. ReceiversWanted'
  BY <1>3, <1>5, ReceiversFrame DEF ForwardingIInv
<1>11. StartsMatch'
  <2>1. \A k \in server.running : k \in StartIds /\ starts[k].stage \in Past
    BY DEF ForwardingIInv, StartsMatch, ForwardingTypeOK
  <2>2. n \notin server.running
    BY <1>2, <2>1 DEF Past
  <2>3. \A k \in server'.running : starts'[k].stage \in Past
    BY <1>2, <1>5, <2>1, <2>2
  <2>4. \A k \in StartIds :
            /\ starts'[k].producer # "none" => starts'[k].stage \in {"watch", "found", "started", "failed"}
            /\ starts'[k].stage \in {"watch", "found", "started"} => starts'[k].producer # "none"
    BY <1>2, <1>6 DEF ForwardingIInv, StartsMatch
  <2>5. \A q \in Pubs : senders'[q] # 0 =>
            starts'[senders'[q]].pub = q /\ starts'[senders'[q]].stage \notin {"none", "queued"}
    <3> TAKE q \in Pubs
    <3> HAVE senders'[q] # 0
    <3>1. senders'[q] = senders[q]
      BY <1>5
    <3> QED BY <1>2, <3>1, SenderOf
  <2>6. "started again" \notin causes' =>
            Once(starts')
    <3> SUFFICES ASSUME "started again" \notin causes', NEW k \in StartIds, NEW m \in StartIds,
                        starts'[k].stage # "none", starts'[m].stage # "none", starts'[k].pub = starts'[m].pub
                 PROVE  k = m
      BY DEF Once
    <3>1. CASE k # n /\ m # n
      <4>1. "started again" \notin causes
        BY <1>3
      <4>2. \A i, j \in StartIds : starts[i].stage # "none" /\ starts[j].stage # "none"
                                    /\ starts[i].pub = starts[j].pub => i = j
        BY <4>1, StartedOnce DEF Once
      <4>3. starts'[k] = starts[k] /\ starts'[m] = starts[m]
        BY <1>2, <3>1
      <4> QED BY <4>2, <4>3
    <3>2. \A i \in StartIds : i # n /\ starts'[i].stage # "none" => starts'[i].pub # p
      BY <1>2, <1>3 DEF Idle
    <3>3. starts'[n].pub = p
      BY <1>2
    <3>4. k = n \/ m = n => k = m
      BY <3>2, <3>3
    <3> QED BY <3>1, <3>4
  <2> QED BY <2>3, <2>4, <2>5, <2>6 DEF StartsMatch, Idle, Once
<1>12. EndsAreTold'
  BY <1>2, <1>3, <1>5, EndsFrame DEF ForwardingIInv, Past
<1>13. EndIsHeard'
  BY <1>2, <1>3, <1>5, <1>6, HeardFrame DEF ForwardingIInv, Sends
<1> QED BY <1>7, <1>8, <1>9, <1>10, <1>11, <1>12, <1>13 DEF ForwardingIInv

\* A start that runs changes its stage and no other field.
LEMMA StageChange ==
    ASSUME starts \in [StartIds -> Sender], NEW n \in StartIds, NEW stage \in Stages, Reaches(n, stage)
    PROVE  /\ starts' \in [StartIds -> Sender]
           /\ starts'[n].stage = stage
           /\ starts'[n].pub = starts[n].pub
           /\ starts'[n].producer = starts[n].producer
           /\ starts'[n].options = starts[n].options
           /\ \A k \in StartIds : k # n => starts'[k] = starts[k]
BY DEF Reaches, Sender, Stages

\* A step of one start that has called the SFU, or does not come to it: what the SFU runs
\* and what it tells stays as it was.
LEMMA StartMoves ==
    ASSUME ForwardingIInv, NEW n \in StartIds,
           starts' \in [StartIds -> Sender],
           \A k \in StartIds : k # n => starts'[k] = starts[k],
           starts'[n].pub = starts[n].pub,
           starts[n].stage # "none",
           starts'[n].stage \notin {"none", "queued", "request"},
           starts[n].stage \in Past => starts'[n].stage \in Past,
           starts'[n].producer \in {starts[n].producer, "open"},
           starts'[n].producer # "none" => starts'[n].stage \in {"watch", "found", "started", "failed"},
           starts'[n].stage \in {"watch", "found", "started"} => starts'[n].producer # "none",
           Sends(n)' => Sends(n),
           causes \subseteq causes', causes' \subseteq causes \cup {"answer lost"},
           UNCHANGED <<senders, stopping, receivers, server, events>>,
           client.disposed => client'.disposed
    PROVE  ReceiversWanted' /\ StartsMatch' /\ EndsAreTold' /\ EndIsHeard'
<1>1. /\ \A k \in StartIds : starts'[k].pub = starts[k].pub
      /\ \A k \in StartIds : starts[k].stage \in Past => starts'[k].stage \in Past
      /\ \A k \in StartIds : k # n => starts'[k] = starts[k]
  OBVIOUS
<1>2. ReceiversWanted'
  BY ReceiversFrame DEF ForwardingIInv
<1>3. StartsMatch'
  <2>1. \A k \in server'.running : starts'[k].stage \in Past
    <3>1. \A k \in server.running : k \in StartIds /\ starts[k].stage \in Past
      BY DEF ForwardingIInv, StartsMatch, ForwardingTypeOK
    <3> QED BY <1>1, <3>1
  <2>2. \A k \in StartIds :
            /\ starts'[k].producer # "none" => starts'[k].stage \in {"watch", "found", "started", "failed"}
            /\ starts'[k].stage \in {"watch", "found", "started"} => starts'[k].producer # "none"
    BY <1>1 DEF ForwardingIInv, StartsMatch
  <2>3. \A q \in Pubs : senders'[q] # 0 =>
            starts'[senders'[q]].pub = q /\ starts'[senders'[q]].stage \notin {"none", "queued"}
    <3> TAKE q \in Pubs
    <3> HAVE senders'[q] # 0
    <3>1. senders'[q] = senders[q]
      OBVIOUS
    <3>2. /\ senders[q] \in StartIds /\ starts[senders[q]].pub = q
          /\ starts[senders[q]].stage \notin {"none", "queued"}
      BY <3>1, SenderOf
    <3> QED BY <1>1, <3>1, <3>2
  <2>4. "started again" \notin causes' =>
            Once(starts')
    <3>1. \A k \in StartIds : starts'[k].stage # "none" => starts[k].stage # "none"
      BY <1>1
    <3>2. "started again" \notin causes' => "started again" \notin causes
      OBVIOUS
    <3> QED BY <1>1, <3>1, <3>2, OnceFrame
  <2> QED BY <2>1, <2>2, <2>3, <2>4 DEF StartsMatch, Idle, Once
<1>4. EndsAreTold'
  BY <1>1, EndsFrame DEF ForwardingIInv
<1>5. EndIsHeard'
  <2>1. \A k \in StartIds : k # n => (Sends(k)' <=> Sends(k)) /\ starts'[k].stage = starts[k].stage
    BY <1>1 DEF Sends
  <2>2. \A k \in StartIds : Sends(k)' => Sends(k)
    BY <2>1
  <2> QED BY <1>1, <2>1, <2>2, HeardFrame DEF ForwardingIInv
<1> QED BY <1>2, <1>3, <1>4, <1>5

\* A start that fails, before it was answered or with the answer.
LEMMA FailKeeps ==
    ASSUME ForwardingIInv, NEW n \in StartIds, Runs(n), Fails(n),
           starts[n].stage \in {"queued", "request", "answered", "produce", "watch"},
           ~(starts[n].stage = "answered" /\ starts[n].options),
           Trouble \/ UNCHANGED troubles,
           UNCHANGED <<senders, forwardings, listening, stopping, receivers, client, server, events, channel, causes>>
    PROVE  ForwardingIInv'
<1>1. starts \in [StartIds -> Sender] /\ queue \in Seq(StartIds)
  BY DEF ForwardingIInv, ForwardingTypeOK
<1>2. /\ starts' \in [StartIds -> Sender]
      /\ starts'[n].stage = "failed"
      /\ starts'[n].pub = starts[n].pub
      /\ starts'[n].producer = starts[n].producer
      /\ starts'[n].options = starts[n].options
      /\ \A k \in StartIds : k # n => starts'[k] = starts[k]
  BY <1>1, StageChange DEF Fails, Stages
<1>3. OneStart' /\ queue' \in Seq(StartIds)
  BY <1>1, <1>2, HeadLeaves DEF Fails, ForwardingIInv
<1>4. troubles' \in 0..MaxTroubles
  BY TroubleType DEF ForwardingIInv
<1>5. ForwardingTypeOK'
  BY <1>2, <1>3, <1>4 DEF ForwardingIInv, ForwardingTypeOK
<1>6. TransportsCome'
  BY <1>2, TransportsFrame DEF ForwardingIInv
<1>7. ReceiversWanted' /\ StartsMatch' /\ EndsAreTold' /\ EndIsHeard'
  BY <1>2, StartMoves DEF Past, Sends
<1> QED BY <1>3, <1>5, <1>6, <1>7 DEF ForwardingIInv

\* The steps that end a start without a forwarding.
LEMMA FailingKeeps ==
    ASSUME ForwardingIInv, NEW n \in StartIds, Refuse(n) \/ ProduceFails(n) \/ WatchTimeout(n)
    PROVE  ForwardingIInv'
<1>1. /\ Fails(n)
      /\ starts[n].stage \in {"request", "produce", "watch"}
      /\ Trouble \/ UNCHANGED troubles
      /\ UNCHANGED <<senders, forwardings, listening, stopping, receivers, client, server, events, channel, causes>>
  BY DEF Refuse, ProduceFails, WatchTimeout
<1>2. Runs(n)
  BY <1>1 DEF ForwardingIInv, OneStart, Busy
<1> QED BY <1>1, <1>2, FailKeeps

\* A start comes to the head of the queue.
LEMMA BeginKeeps ==
    ASSUME ForwardingIInv, NEW n \in StartIds, Begin(n)
    PROVE  ForwardingIInv'
<1> DEFINE p == starts[n].pub
<1>1. starts \in [StartIds -> Sender] /\ queue \in Seq(StartIds) /\ p \in Pubs
  BY DEF ForwardingIInv, ForwardingTypeOK, Sender
<1>2. Runs(n) /\ starts[n].stage = "queued"
  BY DEF Begin
<1>3. UNCHANGED <<forwardings, listening, stopping, receivers, client, server, events, channel, troubles, causes>>
  BY DEF Begin
<1>4. CASE Fails(n) /\ UNCHANGED senders
  BY <1>2, <1>3, <1>4, FailKeeps
<1>5. CASE Reaches(n, "request") /\ senders' = [senders EXCEPT ![p] = n] /\ UNCHANGED queue
  <2>1. /\ starts' \in [StartIds -> Sender]
        /\ starts'[n].stage = "request"
        /\ starts'[n].pub = p
        /\ starts'[n].producer = starts[n].producer
        /\ starts'[n].options = starts[n].options
        /\ \A k \in StartIds : k # n => starts'[k] = starts[k]
    BY <1>1, <1>5, StageChange DEF Stages
  <2>2. /\ senders' \in [Pubs -> 0..MaxStarts]
        /\ senders'[p] = n
        /\ \A q \in Pubs : q # p => senders'[q] = senders[q]
    BY <1>1, <1>5, StartNumbers DEF ForwardingIInv, ForwardingTypeOK
  <2>3. starts[n].producer = "none"
    BY <1>1, <1>2 DEF ForwardingIInv, StartsMatch, Sender
  <2>4. ForwardingTypeOK'
    BY <1>3, <1>5, <2>1, <2>2 DEF ForwardingIInv, ForwardingTypeOK
  <2>5. OneStart'
    BY <1>1, <1>2, <1>5, <2>1, HeadGoesOn DEF ForwardingIInv, Busy
  <2>6. TransportsCome'
    BY <1>2, <1>3, <2>1, TransportsFrame DEF ForwardingIInv
  <2>7. ReceiversWanted'
    BY <1>3, ReceiversFrame DEF ForwardingIInv
  <2>8. EndsAreTold'
    BY <1>2, <1>3, <2>1, <2>3, EndsFrame DEF ForwardingIInv, Past
  <2>9. \A k \in StartIds : k # n /\ starts[k].stage # "none" /\ "started again" \notin causes => starts[k].pub # p
    BY <1>2, StartedOnce DEF Once
  <2>10. EndIsHeard'
    <3>1. \A k \in StartIds : Sends(k)' \/ starts'[k].stage = "request" =>
              \/ k = n
              \/ starts[k].stage # "none" /\ (Sends(k) \/ starts[k].stage = "request")
      <4> TAKE k \in StartIds
      <4>1. CASE k # n
        <5>1. starts'[k] = starts[k]
          BY <2>1, <4>1
        <5>2. starts[k].producer # "none" => starts[k].stage # "none"
          BY DEF ForwardingIInv, StartsMatch
        <5> QED BY <5>1, <5>2 DEF Sends
      <4> QED BY <4>1
    <3>2. \A k \in StartIds : Sends(k)' => Sends(k) /\ starts'[k].pub = starts[k].pub
      BY <2>1, <2>3 DEF Sends
    <3>3. \A k \in StartIds : k # n => starts[k].pub \in Pubs /\ starts'[k].pub = starts[k].pub
      BY <1>1, <2>1 DEF Sender
    <3>4. causes' \cap {"stop overtook start", "started again", "bot left"} = {} => "started again" \notin causes
      BY <1>3
    <3> QED BY <1>3, <2>1, <2>2, <2>9, <3>1, <3>2, <3>3, <3>4, HeardFrame DEF ForwardingIInv
  <2>11. StartsMatch'
    <3>1. \A k \in server'.running : starts'[k].stage \in Past
      <4>1. \A k \in server.running : k \in StartIds /\ starts[k].stage \in Past
        BY DEF ForwardingIInv, StartsMatch, ForwardingTypeOK
      <4> QED BY <1>2, <1>3, <2>1, <4>1 DEF Past
    <3>2. \A k \in StartIds :
              /\ starts'[k].producer # "none" => starts'[k].stage \in {"watch", "found", "started", "failed"}
              /\ starts'[k].stage \in {"watch", "found", "started"} => starts'[k].producer # "none"
      BY <2>1, <2>3 DEF ForwardingIInv, StartsMatch
    <3>3. \A q \in Pubs : senders'[q] # 0 =>
              starts'[senders'[q]].pub = q /\ starts'[senders'[q]].stage \notin {"none", "queued"}
      <4> TAKE q \in Pubs
      <4> HAVE senders'[q] # 0
      <4>1. CASE q = p
        BY <2>1, <2>2, <4>1
      <4>2. CASE q # p
        <5>1. senders'[q] = senders[q]
          BY <2>2, <4>2
        <5>2. /\ senders[q] \in StartIds /\ starts[senders[q]].pub = q
              /\ starts[senders[q]].stage \notin {"none", "queued"}
          BY <5>1, SenderOf
        <5> QED BY <1>2, <2>1, <5>1, <5>2
      <4> QED BY <4>1, <4>2
    <3>4. "started again" \notin causes' =>
              Once(starts')
      <4>1. \A k \in StartIds : (starts'[k].stage # "none" => starts[k].stage # "none") /\ starts'[k].pub = starts[k].pub
        BY <1>2, <2>1
      <4> QED BY <1>3, <4>1, OnceFrame
    <3> QED BY <3>1, <3>2, <3>3, <3>4 DEF StartsMatch, Idle, Once
  <2> QED BY <2>4, <2>5, <2>6, <2>7, <2>8, <2>10, <2>11 DEF ForwardingIInv
<1> QED BY <1>4, <1>5 DEF Begin, Fails

\* The SFU executes a request: nobody else runs, so nobody else brings the options.
LEMMA ExecuteKeeps ==
    ASSUME ForwardingIInv, NEW n \in StartIds, Execute(n)
    PROVE  ForwardingIInv'
<1> DEFINE subscribed == [kind |-> "subscribed", of |-> n]
           relayed == [kind |-> "relayed", of |-> n]
<1>1. /\ starts \in [StartIds -> Sender] /\ queue \in Seq(StartIds) /\ events \in Seq(Event)
      /\ starts[n].stage = "request" /\ Runs(n)
  BY DEF ForwardingIInv, ForwardingTypeOK, Execute, OneStart, Busy
<1>2. UNCHANGED <<queue, senders, forwardings, listening, stopping, receivers, client, channel, troubles, causes>>
  BY DEF Execute
<1>3. /\ starts' \in [StartIds -> Sender]
      /\ starts'[n].stage = "answered"
      /\ starts'[n].options = ~server.send
      /\ starts'[n].pub = starts[n].pub
      /\ starts'[n].producer = starts[n].producer
      /\ \A k \in StartIds : k # n => starts'[k] = starts[k]
  <2>1. starts' = [starts EXCEPT ![n].stage = "answered", ![n].options = ~server.send]
    BY DEF Execute
  <2> QED BY <1>1, <2>1 DEF Sender, Stages
<1>4. /\ server' = [server EXCEPT !.send = TRUE, !.running = @ \cup {n}]
      /\ server.running \subseteq StartIds
      /\ server'.send = TRUE /\ server'.recv = server.recv
      /\ server'.running = server.running \cup {n}
  BY DEF Execute, ForwardingIInv, ForwardingTypeOK
<1>5. subscribed \in Event /\ relayed \in Event
  BY DEF Event
<1>6. /\ events' = events \o <<subscribed, relayed>> /\ events' \in Seq(Event)
      /\ Len(events) \in Nat /\ Len(events') = Len(events) + 2
      /\ \A i \in 1..Len(events) : events'[i] = events[i] /\ events[i] \in Event
      /\ events'[Len(events) + 1] = subscribed /\ events'[Len(events) + 2] = relayed
  <2>1. events' = events \o <<subscribed, relayed>>
    BY DEF Execute
  <2>2. \A i \in 1..Len(events) : events[i] \in Event
    BY <1>1
  <2> QED BY <1>1, <1>5, <2>1, <2>2, TwoMore
<1>7. starts[n].producer = "none"
  BY <1>1 DEF ForwardingIInv, StartsMatch
<1>8. ForwardingTypeOK'
  <2>1. server' \in [send : BOOLEAN, recv : BOOLEAN, running : SUBSET StartIds, pubs : [Pubs -> {"there", "ending", "gone"}]]
    BY <1>4 DEF ForwardingIInv, ForwardingTypeOK
  <2> QED BY <1>2, <1>3, <1>6, <2>1 DEF ForwardingIInv, ForwardingTypeOK
<1>9. OneStart'
  BY <1>1, <1>2, <1>3, HeadGoesOn DEF ForwardingIInv, Busy
<1>10. TransportsCome'
  <2>1. \A k \in StartIds : starts[k].stage = "answered" => k = n
    BY <1>1 DEF ForwardingIInv, OneStart, Busy, Runs
  <2>2. \A k \in StartIds : starts[k].stage # "answered"
    BY <1>1, <2>1
  <2>3. \A k \in StartIds : starts'[k].stage = "answered" => k = n
    BY <1>3, <2>2
  <2>4. /\ \A s \in Subs : receivers'[s].stage = "answered" => server'.recv
    BY <1>2, <1>4 DEF ForwardingIInv, TransportsCome
  <2>5. CASE "answer lost" \notin causes /\ ~client.disposed
    <3>1. CASE server.send
      <4>1. client.send
        BY <2>2, <2>5, <3>1 DEF ForwardingIInv, TransportsCome
      <4> QED BY <1>2, <1>4, <2>4, <2>5, <4>1 DEF ForwardingIInv, TransportsCome
    <3>2. CASE ~server.send
      BY <1>2, <1>3, <1>4, <2>3, <2>4, <2>5, <3>2 DEF ForwardingIInv, TransportsCome
    <3> QED BY <3>1, <3>2
  <2> QED BY <1>2, <2>4, <2>5 DEF TransportsCome
<1>11. ReceiversWanted'
  BY <1>2, ReceiversFrame DEF ForwardingIInv
<1>12. StartsMatch'
  <2>1. \A k \in server'.running : starts'[k].stage \in Past
    <3>1. \A k \in server.running : k \in StartIds /\ starts[k].stage \in Past
      BY <1>4 DEF ForwardingIInv, StartsMatch
    <3> QED BY <1>3, <1>4, <3>1 DEF Past
  <2>2. \A k \in StartIds :
            /\ starts'[k].producer # "none" => starts'[k].stage \in {"watch", "found", "started", "failed"}
            /\ starts'[k].stage \in {"watch", "found", "started"} => starts'[k].producer # "none"
    BY <1>3, <1>7 DEF ForwardingIInv, StartsMatch
  <2>3. \A q \in Pubs : senders'[q] # 0 =>
            starts'[senders'[q]].pub = q /\ starts'[senders'[q]].stage \notin {"none", "queued"}
    <3> TAKE q \in Pubs
    <3> HAVE senders'[q] # 0
    <3>1. senders'[q] = senders[q]
      BY <1>2
    <3>2. /\ senders[q] \in StartIds /\ starts[senders[q]].pub = q
          /\ starts[senders[q]].stage \notin {"none", "queued"}
      BY <3>1, SenderOf
    <3> QED BY <1>3, <3>1, <3>2
  <2>4. "started again" \notin causes' => Once(starts')
    <3>1. \A k \in StartIds : (starts'[k].stage # "none" => starts[k].stage # "none") /\ starts'[k].pub = starts[k].pub
      BY <1>1, <1>3
    <3> QED BY <1>2, <3>1, OnceFrame
  <2> QED BY <2>1, <2>2, <2>3, <2>4 DEF StartsMatch, Idle, Once
<1>13. EndsAreTold'
  <2>1. \A i \in 1..Len(events') : i \in 1..Len(events) \/ i = Len(events) + 1 \/ i = Len(events) + 2
    BY <1>6
  <2>2. \A i \in 1..Len(events') : events'[i].kind \in {"unsubscribed", "unrelayed"} =>
            events'[i].of \notin server'.running /\ starts'[events'[i].of].stage \in Past
    <3> TAKE i \in 1..Len(events')
    <3> HAVE events'[i].kind \in {"unsubscribed", "unrelayed"}
    <3>1. i \in 1..Len(events)
      BY <1>6, <2>1
    <3>2. /\ events'[i] = events[i] /\ events[i].of \in StartIds
          /\ events[i].of \notin server.running /\ starts[events[i].of].stage \in Past
      BY <1>6, <3>1 DEF ForwardingIInv, EndsAreTold, Event
    <3>3. events[i].of # n
      BY <1>1, <3>2 DEF Past
    <3> QED BY <1>3, <1>4, <3>2, <3>3
  <2>3. \A p \in stopping' : \E k \in StartIds :
            starts'[k].pub = p /\ starts'[k].stage \in Past /\ k \notin server'.running
    <3> TAKE p \in stopping'
    <3>1. \A q \in stopping : \E k \in StartIds :
              starts[k].pub = q /\ starts[k].stage \in Past /\ k \notin server.running
      BY DEF ForwardingIInv, EndsAreTold
    <3>2. p \in stopping
      BY <1>2
    <3>3. PICK k \in StartIds : starts[k].pub = p /\ starts[k].stage \in Past /\ k \notin server.running
      BY <3>1, <3>2
    <3>4. k # n
      BY <1>1, <3>3 DEF Past
    <3> QED BY <1>3, <1>4, <3>3, <3>4
  <2>4. "started again" \notin causes' /\ ~client'.disposed =>
            \A k \in StartIds : starts'[k].producer = "closed" => k \notin server'.running
    BY <1>2, <1>3, <1>4, <1>7 DEF ForwardingIInv, EndsAreTold
  <2> QED BY <2>2, <2>3, <2>4 DEF EndsAreTold
<1>14. EndIsHeard'
  <2>1. CASE causes' \cap {"stop overtook start", "started again", "bot left"} # {}
    BY <2>1 DEF EndIsHeard
  <2>2. CASE causes' \cap {"stop overtook start", "started again", "bot left"} = {}
    <3>1. \A k \in StartIds :
              /\ Sends(k) \/ starts[k].stage = "request" => senders[starts[k].pub] = k
              /\ Sends(k) => \/ k \in server.running
                             \/ Coming([kind |-> "unsubscribed", of |-> k])
                             \/ starts[k].pub \in stopping
                             \/ Coming([kind |-> "left"])
      BY <1>2, <2>2 DEF ForwardingIInv, EndIsHeard
    <3>2. \A e : Coming(e) => Coming(e)'
      BY <1>6 DEF Coming
    <3>3. \A k \in StartIds : k # n => (Sends(k)' <=> Sends(k)) /\ starts'[k] = starts[k]
      BY <1>3 DEF Sends
    <3>4. ASSUME NEW k \in StartIds
          PROVE  /\ Sends(k)' \/ starts'[k].stage = "request" => senders'[starts'[k].pub] = k
                 /\ Sends(k)' => \/ k \in server'.running
                                 \/ Coming([kind |-> "unsubscribed", of |-> k])'
                                 \/ starts'[k].pub \in stopping'
                                 \/ Coming([kind |-> "left"])'
      <4>1. CASE k = n
        BY <1>1, <1>2, <1>3, <1>4, <3>1, <4>1
      <4>2. CASE k # n
        BY <1>2, <1>4, <3>1, <3>2, <3>3, <4>2
      <4> QED BY <4>1, <4>2
    <3> QED BY <3>4 DEF EndIsHeard
  <2> QED BY <2>1, <2>2
<1> QED BY <1>8, <1>9, <1>10, <1>11, <1>12, <1>13, <1>14 DEF ForwardingIInv

\* The answer with the options is lost.
LEMMA AnswerLostKeeps ==
    ASSUME ForwardingIInv, NEW n \in StartIds, AnswerLost(n)
    PROVE  ForwardingIInv'
<1>1. starts \in [StartIds -> Sender] /\ queue \in Seq(StartIds) /\ starts[n].stage = "answered"
  BY DEF ForwardingIInv, ForwardingTypeOK, AnswerLost
<1>2. /\ starts' \in [StartIds -> Sender]
      /\ starts'[n].stage = "answered"
      /\ starts'[n].pub = starts[n].pub
      /\ starts'[n].producer = starts[n].producer
      /\ \A k \in StartIds : k # n => starts'[k] = starts[k]
  <2>1. starts' = [starts EXCEPT ![n].options = FALSE]
    BY DEF AnswerLost
  <2> QED BY <1>1, <2>1 DEF Sender
<1>3. /\ UNCHANGED <<queue, senders, forwardings, listening, stopping, receivers, client, server, events, channel>>
      /\ Trouble /\ causes' = causes \cup {"answer lost"}
  BY DEF AnswerLost
<1>4. causes' \subseteq Causes /\ troubles' \in 0..MaxTroubles
  BY <1>3, TroubleType DEF ForwardingIInv, ForwardingTypeOK, Causes
<1>5. ForwardingTypeOK'
  BY <1>2, <1>3, <1>4 DEF ForwardingIInv, ForwardingTypeOK
<1>6. OneStart'
  <2>1. \A k \in StartIds : starts'[k].stage = starts[k].stage
    BY <1>1, <1>2
  <2> QED BY <1>1, <1>3, <2>1, OneStartFrame DEF ForwardingIInv
<1>7. TransportsCome'
  BY <1>3 DEF ForwardingIInv, TransportsCome
<1>8. Sends(n)
  BY <1>1 DEF Sends
<1>9. /\ starts[n].producer = "none"
      /\ ReceiversWanted' /\ StartsMatch' /\ EndsAreTold' /\ EndIsHeard'
  <2>1. starts[n].producer = "none"
    BY <1>1 DEF ForwardingIInv, StartsMatch
  <2> QED BY <1>1, <1>2, <1>3, <1>8, <2>1, StartMoves DEF Past
<1> QED BY <1>5, <1>6, <1>7, <1>9 DEF ForwardingIInv

\* The answer arrives, and its options make the transport.
LEMMA AnswerKeepsStart ==
    ASSUME ForwardingIInv, NEW n \in StartIds, AnswerArrives(n)
    PROVE  ForwardingIInv'
<1> DEFINE c == IF starts[n].options THEN [client EXCEPT !.send = TRUE, !.loaded = TRUE] ELSE client
<1>1. /\ starts \in [StartIds -> Sender] /\ queue \in Seq(StartIds)
      /\ starts[n].stage = "answered" /\ Runs(n)
  BY DEF ForwardingIInv, ForwardingTypeOK, AnswerArrives, OneStart, Busy
<1>2. /\ client' = c
      /\ IF c.send THEN Reaches(n, "produce") /\ UNCHANGED queue ELSE Fails(n)
      /\ UNCHANGED <<senders, forwardings, listening, stopping, receivers, server, events, channel, troubles, causes>>
  BY DEF AnswerArrives
<1>3. CASE ~c.send
  <2>1. ~starts[n].options /\ c = client
    BY <1>3 DEF ForwardingIInv, ForwardingTypeOK
  <2> QED BY <1>1, <1>2, <1>3, <2>1, FailKeeps
<1>4. CASE c.send
  <2>1. /\ starts' \in [StartIds -> Sender]
        /\ starts'[n].stage = "produce"
        /\ starts'[n].pub = starts[n].pub
        /\ starts'[n].producer = starts[n].producer
        /\ \A k \in StartIds : k # n => starts'[k] = starts[k]
    BY <1>1, <1>2, <1>4, StageChange DEF Stages
  <2>2. /\ client'.send /\ client'.recv = client.recv /\ client'.disposed = client.disposed
        /\ client' \in [send : BOOLEAN, recv : BOOLEAN, loaded : BOOLEAN, bot : {"joined", "left"}, disposed : BOOLEAN]
    BY <1>2, <1>4 DEF ForwardingIInv, ForwardingTypeOK
  <2>3. ForwardingTypeOK'
    BY <1>2, <1>4, <2>1, <2>2 DEF ForwardingIInv, ForwardingTypeOK
  <2>4. OneStart'
    BY <1>1, <1>2, <1>4, <2>1, HeadGoesOn DEF ForwardingIInv, Busy
  <2>5. TransportsCome'
    BY <1>2, <2>2 DEF ForwardingIInv, TransportsCome
  <2>6. starts[n].producer = "none" /\ Sends(n)
    BY <1>1 DEF ForwardingIInv, StartsMatch, Sends
  <2>7. ReceiversWanted' /\ StartsMatch' /\ EndsAreTold' /\ EndIsHeard'
    BY <1>1, <1>2, <2>1, <2>2, <2>6, StartMoves DEF Past
  <2> QED BY <2>3, <2>4, <2>5, <2>7 DEF ForwardingIInv
<1> QED BY <1>3, <1>4

\* Nobody calls createProducer: the queue is blocked.
LEMMA UnwatchedKeeps ==
    ASSUME ForwardingIInv, NEW n \in StartIds, Unwatched(n)
    PROVE  ForwardingIInv'
<1>1. /\ starts \in [StartIds -> Sender] /\ queue \in Seq(StartIds)
      /\ starts[n].stage = "produce" /\ Runs(n)
  BY DEF ForwardingIInv, ForwardingTypeOK, Unwatched, OneStart, Busy
<1>2. /\ Trouble /\ Reaches(n, "stuck")
      /\ UNCHANGED <<queue, senders, forwardings, listening, stopping, receivers, client, server, events, channel, causes>>
  BY DEF Unwatched
<1>3. /\ starts' \in [StartIds -> Sender]
      /\ starts'[n].stage = "stuck"
      /\ starts'[n].pub = starts[n].pub
      /\ starts'[n].producer = starts[n].producer
      /\ starts'[n].options = starts[n].options
      /\ \A k \in StartIds : k # n => starts'[k] = starts[k]
  BY <1>1, <1>2, StageChange DEF Stages
<1>4. starts[n].producer = "none"
  BY <1>1 DEF ForwardingIInv, StartsMatch
<1>5. ForwardingTypeOK'
  BY <1>2, <1>3, TroubleType DEF ForwardingIInv, ForwardingTypeOK
<1>6. OneStart'
  BY <1>1, <1>2, <1>3, HeadGoesOn DEF ForwardingIInv, Busy
<1>7. TransportsCome'
  BY <1>1, <1>2, <1>3, TransportsFrame DEF ForwardingIInv
<1>8. ReceiversWanted' /\ StartsMatch' /\ EndsAreTold' /\ EndIsHeard'
  BY <1>1, <1>2, <1>3, <1>4, StartMoves DEF Past, Sends
<1> QED BY <1>5, <1>6, <1>7, <1>8 DEF ForwardingIInv

\* The producer is there: the start goes on at once, or watches for its relay.
LEMMA FoundKeeps ==
    ASSUME ForwardingIInv, NEW n \in StartIds, NEW sen \in [StartIds -> Sender],
           starts[n].stage \in {"produce", "found"},
           \A k \in StartIds : k # n => sen[k] = starts[k],
           sen[n].pub = starts[n].pub, sen[n].producer \in {starts[n].producer, "open"},
           starts[n].stage = "produce" => sen[n].producer = "open",
           starts[n].stage = "found" => sen[n].producer = starts[n].producer,
           \/ Found(n, sen)
           \/ starts' = sen /\ sen[n].stage = "watch" /\ UNCHANGED <<queue, forwardings, listening>>,
           UNCHANGED <<senders, stopping, receivers, client, server, events, channel, troubles, causes>>
    PROVE  ForwardingIInv'
<1>1. /\ starts \in [StartIds -> Sender] /\ queue \in Seq(StartIds) /\ Runs(n)
      /\ forwardings \subseteq StartIds /\ listening \subseteq StartIds
  BY DEF ForwardingIInv, ForwardingTypeOK, OneStart, Busy
<1>2. sen[n].producer # "none"
  BY DEF ForwardingIInv, StartsMatch
<1>3. \A stage \in Stages : /\ [sen EXCEPT ![n].stage = stage] \in [StartIds -> Sender]
                            /\ [sen EXCEPT ![n].stage = stage][n] = [sen[n] EXCEPT !.stage = stage]
                            /\ \A k \in StartIds : k # n => [sen EXCEPT ![n].stage = stage][k] = sen[k]
                            /\ [sen[n] EXCEPT !.stage = stage].stage = stage
                            /\ [sen[n] EXCEPT !.stage = stage].pub = sen[n].pub
                            /\ [sen[n] EXCEPT !.stage = stage].producer = sen[n].producer
  BY StartUpdate DEF Sender
<1>4. /\ starts' \in [StartIds -> Sender]
      /\ \A k \in StartIds : k # n => starts'[k] = starts[k]
      /\ starts'[n].pub = starts[n].pub
      /\ starts'[n].producer = sen[n].producer
      /\ \/ starts'[n].stage = "watch" /\ UNCHANGED queue
         \/ starts'[n].stage \in {"started", "failed"} /\ queue' = Tail(queue)
      /\ forwardings' \subseteq StartIds /\ listening' \subseteq StartIds
  <2>1. CASE Found(n, sen)
    <3>1. \E stage \in {"started", "failed"} : starts' = [sen EXCEPT ![n].stage = stage]
      BY <2>1 DEF Found
    <3>2. PICK stage \in {"started", "failed"} : starts' = [sen EXCEPT ![n].stage = stage]
      BY <3>1
    <3>3. stage \in Stages
      BY DEF Stages
    <3>4. queue' = Tail(queue) /\ forwardings' \subseteq StartIds /\ listening' \subseteq StartIds
      BY <1>1, <2>1 DEF Found
    <3>5. /\ starts' \in [StartIds -> Sender]
          /\ starts'[n].stage = stage /\ starts'[n].pub = sen[n].pub /\ starts'[n].producer = sen[n].producer
          /\ \A k \in StartIds : k # n => starts'[k] = sen[k]
      BY <1>3, <3>2, <3>3
    <3> QED BY <3>4, <3>5
  <2>2. CASE starts' = sen /\ sen[n].stage = "watch" /\ UNCHANGED <<queue, forwardings, listening>>
    BY <1>1, <2>2
  <2> QED BY <2>1, <2>2
<1>5. OneStart' /\ queue' \in Seq(StartIds)
  <2>1. CASE starts'[n].stage = "watch" /\ UNCHANGED queue
    BY <1>1, <1>4, <2>1, HeadGoesOn DEF ForwardingIInv, Busy
  <2>2. CASE starts'[n].stage \in {"started", "failed"} /\ queue' = Tail(queue)
    BY <1>1, <1>4, <2>2, HeadLeaves DEF ForwardingIInv
  <2> QED BY <1>4, <2>1, <2>2
<1>6. ForwardingTypeOK'
  BY <1>4, <1>5 DEF ForwardingIInv, ForwardingTypeOK
<1>7. TransportsCome'
  BY <1>4, TransportsFrame DEF ForwardingIInv
<1>8. Sends(n)' => Sends(n)
  BY <1>4 DEF Sends
<1>9. ReceiversWanted' /\ StartsMatch' /\ EndsAreTold' /\ EndIsHeard'
  BY <1>2, <1>4, <1>8, StartMoves DEF Past
<1> QED BY <1>5, <1>6, <1>7, <1>9 DEF ForwardingIInv

\* createProducer returns, or the relay that the start has watched for is there.
LEMMA ProducedKeeps ==
    ASSUME ForwardingIInv, NEW n \in StartIds, Produced(n) \/ Watched(n)
    PROVE  ForwardingIInv'
<1>1. starts \in [StartIds -> Sender]
  BY DEF ForwardingIInv, ForwardingTypeOK
<1>2. CASE Watched(n)
  BY <1>1, <1>2, FoundKeeps DEF Watched
<1>3. CASE Produced(n)
  <2> DEFINE sen == [starts EXCEPT ![n].producer = "open", ![n].stage = "watch"]
  <2>1. /\ sen \in [StartIds -> Sender]
        /\ sen[n].pub = starts[n].pub /\ sen[n].producer = "open" /\ sen[n].stage = "watch"
        /\ \A k \in StartIds : k # n => sen[k] = starts[k]
    BY <1>1 DEF Sender, Stages
  <2>2. \/ Found(n, sen)
        \/ starts' = sen /\ UNCHANGED <<queue, forwardings, listening>>
    BY <1>3 DEF Produced
  <2>3. /\ starts[n].stage = "produce"
        /\ UNCHANGED <<senders, stopping, receivers, client, server, events, channel, troubles, causes>>
    BY <1>3 DEF Produced
  <2> HIDE DEF sen
  <2> QED BY <2>1, <2>2, <2>3, FoundKeeps
<1> QED BY <1>2, <1>3

-----------------------------------------------------------------------------
(* Receivers                                                               *)

\* What happens to a receiver leaves the starts alone.
LEMMA StartsFrame ==
    ASSUME ForwardingIInv, UNCHANGED <<starts, queue, senders, stopping, events>>,
           server'.running = server.running, causes \subseteq causes',
           causes' \subseteq causes \cup {"answer lost", "unsubscribe overtook"}, client.disposed => client'.disposed
    PROVE  OneStart' /\ StartsMatch' /\ EndsAreTold' /\ EndIsHeard'
<1>1. OneStart'
  BY OneStartFrame DEF ForwardingIInv, ForwardingTypeOK
<1>2. StartsMatch'
  BY DEF ForwardingIInv, StartsMatch, Idle
<1>3. EndsAreTold'
  BY EndsFrame DEF ForwardingIInv
<1>4. EndIsHeard'
  <2>1. \A n \in StartIds : Sends(n)' <=> Sends(n)
    BY DEF Sends
  <2> QED BY <2>1, HeardFrame DEF ForwardingIInv
<1> QED BY <1>1, <1>2, <1>3, <1>4

\* One receiver changes.
LEMMA ReceiverTypes == ForwardingIInv => receivers \in [Subs -> Receiver] /\ \A s \in Subs : receivers[s] \in Receiver
BY DEF ForwardingIInv, ForwardingTypeOK

ClientState == [send : BOOLEAN, recv : BOOLEAN, loaded : BOOLEAN, bot : {"joined", "left"}, disposed : BOOLEAN]
ServerState == [send : BOOLEAN, recv : BOOLEAN, running : SUBSET StartIds, pubs : [Pubs -> {"there", "ending", "gone"}]]

\* What the transports and the forwardings of the SFU are.
LEMMA BothTypes == ForwardingTypeOK => client \in ClientState /\ server \in ServerState
BY DEF ForwardingTypeOK, ClientState, ServerState

\* A step of a receiver keeps the invariant when it keeps what is about receivers.
LEMMA OneReceiverKeeps ==
    ASSUME ForwardingIInv, UNCHANGED <<sending, events, channel>>,
           receivers' \in [Subs -> Receiver],
           client' \in ClientState, server' \in ServerState, server'.running = server.running,
           client.disposed => client'.disposed,
           Trouble \/ UNCHANGED troubles,
           causes \subseteq causes', causes' \subseteq causes \cup {"answer lost", "unsubscribe overtook"},
           TransportsCome', ReceiversWanted'
    PROVE  ForwardingIInv'
<1>1. UNCHANGED <<starts, queue, senders, forwardings, listening, stopping, events, channel>>
  BY DEF sending
<1>2. OneStart' /\ StartsMatch' /\ EndsAreTold' /\ EndIsHeard'
  BY <1>1, StartsFrame
<1>3. troubles' \in 0..MaxTroubles /\ causes' \subseteq Causes
  BY TroubleType DEF ForwardingIInv, ForwardingTypeOK, Causes
<1>4. /\ starts' \in [StartIds -> Sender] /\ queue' \in Seq(StartIds) /\ events' \in Seq(Event)
      /\ senders' \in [Pubs -> 0..MaxStarts] /\ forwardings' \subseteq StartIds /\ listening' \subseteq StartIds
      /\ channel' \in [relays : SUBSET StartIds, subscribed : SUBSET StartIds, pubs : SUBSET Pubs]
      /\ stopping' \subseteq Pubs
  BY <1>1 DEF ForwardingIInv, ForwardingTypeOK
<1>5. ForwardingTypeOK'
  BY <1>3, <1>4 DEF ForwardingTypeOK, ClientState, ServerState
<1> QED BY <1>2, <1>5 DEF ForwardingIInv

\* The transports, when no receiver is answered or waits for the transport anew.
LEMMA ReceiverTransports ==
    ASSUME ForwardingIInv, UNCHANGED starts, causes \subseteq causes',
           server'.send = server.send, server'.recv = server.recv,
           client'.send = client.send \/ client'.disposed, client'.recv = client.recv \/ client'.disposed,
           client.disposed => client'.disposed,
           \A s \in Subs :
              /\ receivers[s].stage = "answered" /\ receivers[s].options =>
                    receivers'[s].stage = "answered" /\ receivers'[s].options
              /\ receivers'[s].stage \in {"answered", "wait"} => receivers[s].stage = receivers'[s].stage
    PROVE  TransportsCome'
<1>1. \A s \in Subs : receivers'[s].stage = "answered" => server'.recv
  BY DEF ForwardingIInv, TransportsCome
<1>2. CASE "answer lost" \in causes' \/ client'.disposed
  BY <1>1, <1>2 DEF TransportsCome
<1>3. CASE "answer lost" \notin causes' /\ ~client'.disposed
  <2>1. /\ server.send => client.send \/ \E n \in StartIds : starts[n].stage = "answered" /\ starts[n].options
        /\ server.recv => client.recv \/ \E s \in Subs : receivers[s].stage = "answered" /\ receivers[s].options
        /\ \A n \in StartIds : starts[n].stage = "answered" /\ ~starts[n].options => client.send
        /\ \A s \in Subs : receivers[s].stage = "wait" =>
               \E r \in Subs : receivers[r].stage = "answered" /\ receivers[r].options
    BY <1>3 DEF ForwardingIInv, TransportsCome
  <2>2. \A s \in Subs : receivers'[s].stage = "wait" =>
            \E r \in Subs : receivers'[r].stage = "answered" /\ receivers'[r].options
    BY <2>1
  <2>3. server'.recv => client'.recv \/ \E s \in Subs : receivers'[s].stage = "answered" /\ receivers'[s].options
    BY <1>3, <2>1
  <2> QED BY <1>1, <1>3, <2>1, <2>2, <2>3 DEF TransportsCome
<1> QED BY <1>2, <1>3

\* One receiver changes.
LEMMA ReceiverUpdate ==
    ASSUME ForwardingIInv, NEW s \in Subs, NEW r \in Receiver, receivers' = [receivers EXCEPT ![s] = r]
    PROVE  /\ receivers' \in [Subs -> Receiver] /\ receivers'[s] = r
           /\ \A q \in Subs : q # s => receivers'[q] = receivers[q]
BY ReceiverTypes

\* A step of a receiver that waits for nothing and is not answered.
LEMMA PlainKeeps ==
    ASSUME ForwardingIInv, NEW s \in Subs,
           startSubscribing(s) \/ Capabilities(s) \/ Consumed(s) \/ ConsumeFails(s) \/ stopSubscribing(s)
    PROVE  ForwardingIInv'
<1>1. /\ receivers \in [Subs -> Receiver] /\ receivers[s] \in Receiver
      /\ client \in ClientState /\ server \in ServerState
  BY ReceiverTypes, BothTypes DEF ForwardingIInv
<1>2. /\ UNCHANGED <<sending, server, events, channel>>
      /\ Trouble \/ UNCHANGED troubles
      /\ client' \in {client, [client EXCEPT !.loaded = TRUE]}
      /\ causes \subseteq causes' /\ causes' \subseteq causes \cup {"answer lost", "unsubscribe overtook"}
  BY DEF startSubscribing, Capabilities, Consumed, ConsumeFails, stopSubscribing
<1>3. /\ client' \in ClientState /\ client'.send = client.send /\ client'.recv = client.recv
      /\ client'.disposed = client.disposed
  BY <1>1, <1>2 DEF ClientState
<1>4. /\ receivers' \in [Subs -> Receiver]
      /\ \A q \in Subs : q # s => receivers'[q] = receivers[q]
      /\ \/ receivers'[s].wanted = receivers[s].wanted \/ receivers'[s].wanted = TRUE
         \/ receivers[s].wanted /\ receivers'[s].consumer # "open" /\ receivers'[s].stage = receivers[s].stage
            /\ (receivers[s].stage \in {"consumed", "failed"} \/ "unsubscribe overtook" \in causes')
      /\ \/ receivers'[s].stage = receivers[s].stage /\ receivers'[s].options = receivers[s].options
         \/ receivers[s].stage # "answered" /\ receivers'[s].stage \notin {"answered", "wait", "idle"}
            /\ (receivers[s].stage \in {"consumed", "failed", "idle"} =>
                    receivers'[s].stage \in {"consumed", "failed"} \/ receivers'[s].wanted = TRUE)
      /\ \/ receivers'[s].consumer = receivers[s].consumer
         \/ receivers'[s].consumer = "closed"
         \/ receivers[s].stage = "consume" /\ receivers'[s].wanted = receivers[s].wanted
  <2>1. CASE startSubscribing(s)
    <3> DEFINE r == [receivers[s] EXCEPT !.stage = IF client.loaded THEN "request" ELSE "caps", !.wanted = TRUE]
    <3>1. receivers' = [receivers EXCEPT ![s] = r] /\ receivers[s].stage = "idle"
      BY <2>1 DEF startSubscribing
    <3>2. /\ r \in Receiver /\ r.wanted = TRUE /\ r.stage \in {"caps", "request"}
          /\ r.consumer = receivers[s].consumer
      BY <1>1 DEF Receiver
    <3> QED BY <3>1, <3>2, ReceiverUpdate
  <2>2. CASE Capabilities(s) \/ ConsumeFails(s)
    <3>1. PICK stage \in {"request", "failed"} :
              /\ receivers' = [receivers EXCEPT ![s] = [receivers[s] EXCEPT !.stage = stage]]
              /\ receivers[s].stage \in {"caps", "request", "consume", "wait"}
      BY <2>2 DEF Capabilities, ConsumeFails, Receives
    <3> DEFINE r == [receivers[s] EXCEPT !.stage = stage]
    <3>2. /\ r \in Receiver /\ r.wanted = receivers[s].wanted /\ r.stage = stage
          /\ r.consumer = receivers[s].consumer
      BY <1>1 DEF Receiver
    <3> QED BY <3>1, <3>2, ReceiverUpdate
  <2>3. CASE Consumed(s)
    <3> DEFINE r == [receivers[s] EXCEPT !.stage = "consumed", !.consumer = "open"]
    <3>1. receivers' = [receivers EXCEPT ![s] = r] /\ receivers[s].stage = "consume"
      BY <2>3 DEF Consumed
    <3>2. r \in Receiver /\ r.wanted = receivers[s].wanted /\ r.stage = "consumed"
      BY <1>1 DEF Receiver
    <3> QED BY <3>1, <3>2, ReceiverUpdate
  <2>4. CASE stopSubscribing(s)
    <3> DEFINE r == [receivers[s] EXCEPT !.wanted = FALSE,
                                         !.consumer = IF receivers[s].consumer = "open" THEN "closed" ELSE receivers[s].consumer]
    <3>1. /\ receivers' = [receivers EXCEPT ![s] = r] /\ receivers[s].wanted
          /\ receivers[s].stage \in {"consumed", "failed"} \/ "unsubscribe overtook" \in causes'
      BY <2>4 DEF stopSubscribing
    <3>2. /\ r \in Receiver /\ r.stage = receivers[s].stage /\ r.options = receivers[s].options
          /\ r.consumer # "open" /\ r.consumer \in {receivers[s].consumer, "closed"}
      BY <1>1 DEF Receiver
    <3> QED BY <3>1, <3>2, ReceiverUpdate
  <2> QED BY <2>1, <2>2, <2>3, <2>4
<1>5. TransportsCome'
  <2>1. \A q \in Subs :
            /\ receivers[q].stage = "answered" /\ receivers[q].options =>
                  receivers'[q].stage = "answered" /\ receivers'[q].options
            /\ receivers'[q].stage \in {"answered", "wait"} => receivers[q].stage = receivers'[q].stage
    BY <1>4
  <2> QED BY <1>2, <1>3, <2>1, ReceiverTransports DEF sending
<1>6. ReceiversWanted'
  <2>1. CASE "unsubscribe overtook" \in causes'
    BY <2>1 DEF ReceiversWanted
  <2>2. CASE "unsubscribe overtook" \notin causes'
    <3>1. \A q \in Subs : /\ receivers[q].stage \notin {"idle", "consumed", "failed"} => receivers[q].wanted
                          /\ receivers[q].consumer = "open" => receivers[q].wanted
      BY <1>2, <2>2 DEF ForwardingIInv, ReceiversWanted
    <3>2. \A q \in Subs : /\ receivers'[q].stage \notin {"idle", "consumed", "failed"} => receivers'[q].wanted
                          /\ receivers'[q].consumer = "open" => receivers'[q].wanted
      <4> TAKE q \in Subs
      <4>1. CASE q # s
        BY <1>4, <3>1, <4>1
      <4>2. /\ receivers'[s].stage \notin {"idle", "consumed", "failed"} => receivers'[s].wanted
            /\ receivers'[s].consumer = "open" => receivers'[s].wanted
        BY <1>4, <2>2, <3>1
      <4> QED BY <4>1, <4>2
    <3> QED BY <3>2 DEF ReceiversWanted
  <2> QED BY <2>1, <2>2
<1> QED BY <1>1, <1>2, <1>3, <1>4, <1>5, <1>6, OneReceiverKeeps

\* The SFU makes the transport with the first consumer.
LEMMA ConsumeKeeps ==
    ASSUME ForwardingIInv, NEW s \in Subs, Consume(s)
    PROVE  ForwardingIInv'
<1> DEFINE r == [receivers[s] EXCEPT !.stage = "answered", !.options = ~server.recv]
<1>1. /\ receivers \in [Subs -> Receiver] /\ receivers[s] \in Receiver
      /\ client \in ClientState /\ server \in ServerState
  BY ReceiverTypes, BothTypes DEF ForwardingIInv
<1>2. /\ UNCHANGED <<sending, client, events, channel, troubles, causes>>
      /\ receivers[s].stage = "request" /\ receivers' = [receivers EXCEPT ![s] = r]
      /\ server' = [server EXCEPT !.recv = TRUE]
  BY DEF Consume
<1>3. /\ r \in Receiver /\ r.stage = "answered" /\ r.options = ~server.recv
      /\ r.wanted = receivers[s].wanted /\ r.consumer = receivers[s].consumer
  BY <1>1 DEF Receiver, ServerState
<1>4. /\ receivers' \in [Subs -> Receiver] /\ receivers'[s] = r
      /\ \A q \in Subs : q # s => receivers'[q] = receivers[q]
  BY <1>2, <1>3, ReceiverUpdate
<1>5. /\ server' \in ServerState /\ server'.recv = TRUE /\ server'.send = server.send
      /\ server'.running = server.running
  BY <1>1, <1>2 DEF ServerState
<1> HIDE DEF r
<1>6. TransportsCome'
  <2>1. CASE "answer lost" \in causes \/ client.disposed
    BY <1>2, <1>5, <2>1 DEF TransportsCome
  <2>2. CASE "answer lost" \notin causes /\ ~client.disposed
    <3>1. /\ server.send => client.send \/ \E n \in StartIds : starts[n].stage = "answered" /\ starts[n].options
          /\ server.recv => client.recv \/ \E q \in Subs : receivers[q].stage = "answered" /\ receivers[q].options
          /\ \A n \in StartIds : starts[n].stage = "answered" /\ ~starts[n].options => client.send
          /\ \A q \in Subs : receivers[q].stage = "wait" =>
                 \E k \in Subs : receivers[k].stage = "answered" /\ receivers[k].options
      BY <2>2 DEF ForwardingIInv, TransportsCome
    <3>2. \A q \in Subs : receivers[q].stage = "answered" /\ receivers[q].options =>
                              receivers'[q].stage = "answered" /\ receivers'[q].options
      BY <1>2, <1>4
    <3>3. client.recv \/ \E q \in Subs : receivers'[q].stage = "answered" /\ receivers'[q].options
      <4>1. CASE server.recv
        BY <3>1, <3>2, <4>1
      <4>2. CASE ~server.recv
        BY <1>3, <1>4, <4>2
      <4> QED BY <4>1, <4>2
    <3>4. \A q \in Subs : receivers'[q].stage = "wait" =>
              \E k \in Subs : receivers'[k].stage = "answered" /\ receivers'[k].options
      <4>1. \A q \in Subs : receivers'[q].stage = "wait" => receivers[q].stage = "wait"
        BY <1>3, <1>4
      <4> QED BY <3>1, <3>2, <4>1
    <3> QED BY <1>2, <1>5, <3>1, <3>3, <3>4 DEF TransportsCome, sending
  <2> QED BY <2>1, <2>2
<1>7. ReceiversWanted'
  BY <1>2, <1>3, <1>4 DEF ForwardingIInv, ReceiversWanted
<1> QED BY <1>1, <1>2, <1>4, <1>5, <1>6, <1>7, OneReceiverKeeps

\* The answer with the options of the receiving transport is lost.
LEMMA ConsumerLostKeeps ==
    ASSUME ForwardingIInv, NEW s \in Subs, ConsumerLost(s)
    PROVE  ForwardingIInv'
<1> DEFINE r == [receivers[s] EXCEPT !.options = FALSE]
<1>1. /\ receivers \in [Subs -> Receiver] /\ receivers[s] \in Receiver
      /\ client \in ClientState /\ server \in ServerState
  BY ReceiverTypes, BothTypes DEF ForwardingIInv
<1>2. /\ UNCHANGED <<sending, client, server, events, channel>> /\ Trouble
      /\ receivers' = [receivers EXCEPT ![s] = r]
      /\ causes' = causes \cup {"answer lost"}
  BY DEF ConsumerLost
<1>3. /\ r \in Receiver /\ r.stage = receivers[s].stage
      /\ r.wanted = receivers[s].wanted /\ r.consumer = receivers[s].consumer
  BY <1>1 DEF Receiver
<1>4. /\ receivers' \in [Subs -> Receiver] /\ receivers'[s] = r
      /\ \A q \in Subs : q # s => receivers'[q] = receivers[q]
  BY <1>2, <1>3, ReceiverUpdate
<1> HIDE DEF r
<1>5. TransportsCome'
  BY <1>2, <1>3, <1>4 DEF ForwardingIInv, TransportsCome
<1>6. ReceiversWanted'
  BY <1>2, <1>3, <1>4 DEF ForwardingIInv, ReceiversWanted
<1> QED BY <1>1, <1>2, <1>4, <1>5, <1>6, OneReceiverKeeps

\* Who is answered with the options wakes everybody that waits; who is answered without
\* them finds the transport, or somebody who brings it.
LEMMA ConsumerAnsweredKeeps ==
    ASSUME ForwardingIInv, NEW s \in Subs, ConsumerAnswered(s)
    PROVE  ForwardingIInv'
<1> DEFINE known == client.recv \/ receivers[s].options
<1>1. /\ receivers \in [Subs -> Receiver] /\ \A q \in Subs : receivers[q] \in Receiver
      /\ client \in ClientState /\ server \in ServerState
  BY ReceiverTypes, BothTypes DEF ForwardingIInv
<1>2. /\ UNCHANGED <<sending, server, events, channel, troubles, causes>>
      /\ receivers[s].stage = "answered"
      /\ client' = [client EXCEPT !.recv = known]
  BY DEF ConsumerAnswered
<1>3. \A q \in Subs : \A stage \in {"consume", "wait"} :
          /\ [receivers[q] EXCEPT !.stage = stage] \in Receiver
          /\ [receivers[q] EXCEPT !.stage = stage].stage = stage
          /\ [receivers[q] EXCEPT !.stage = stage].wanted = receivers[q].wanted
          /\ [receivers[q] EXCEPT !.stage = stage].consumer = receivers[q].consumer
  BY <1>1 DEF Receiver
<1>4. receivers' = [q \in Subs |->
               IF q = s THEN [receivers[q] EXCEPT !.stage = IF known THEN "consume" ELSE "wait"]
               ELSE IF receivers[q].stage = "wait" /\ receivers[s].options THEN [receivers[q] EXCEPT !.stage = "consume"]
               ELSE receivers[q]]
  BY DEF ConsumerAnswered
<1>5. /\ receivers' \in [Subs -> Receiver]
      /\ receivers'[s].stage = IF known THEN "consume" ELSE "wait"
      /\ \A q \in Subs : q # s =>
            IF receivers[q].stage = "wait" /\ receivers[s].options THEN receivers'[q].stage = "consume"
            ELSE receivers'[q] = receivers[q]
      /\ \A q \in Subs : receivers'[q].wanted = receivers[q].wanted /\ receivers'[q].consumer = receivers[q].consumer
  <2>1. \A q \in Subs : \/ receivers'[q] = receivers[q]
                        \/ \E stage \in {"consume", "wait"} : receivers'[q] = [receivers[q] EXCEPT !.stage = stage]
    BY <1>4
  <2>2. \A q \in Subs : /\ receivers'[q] \in Receiver
                        /\ receivers'[q].wanted = receivers[q].wanted /\ receivers'[q].consumer = receivers[q].consumer
    <3> TAKE q \in Subs
    <3>1. CASE receivers'[q] = receivers[q]
      BY <1>1, <3>1
    <3>2. CASE \E stage \in {"consume", "wait"} : receivers'[q] = [receivers[q] EXCEPT !.stage = stage]
      <4>1. PICK stage \in {"consume", "wait"} : receivers'[q] = [receivers[q] EXCEPT !.stage = stage]
        BY <3>2
      <4>2. receivers[q] \in Receiver
        BY <1>1
      <4> QED BY <4>1, <4>2 DEF Receiver
    <3> QED BY <2>1, <3>1, <3>2
  <2>3. receivers' \in [Subs -> Receiver]
    BY <1>4, <2>2
  <2>4. receivers'[s] = [receivers[s] EXCEPT !.stage = IF known THEN "consume" ELSE "wait"]
    BY <1>4
  <2>5. \A q \in Subs : q # s =>
            IF receivers[q].stage = "wait" /\ receivers[s].options
            THEN receivers'[q] = [receivers[q] EXCEPT !.stage = "consume"]
            ELSE receivers'[q] = receivers[q]
    BY <1>4
  <2>6. receivers'[s].stage = IF known THEN "consume" ELSE "wait"
    BY <1>3, <2>4
  <2>7. \A q \in Subs : [receivers[q] EXCEPT !.stage = "consume"].stage = "consume"
    BY <1>3
  <2> QED BY <2>2, <2>3, <2>5, <2>6, <2>7
<1>6. /\ client' \in ClientState /\ client'.recv = known /\ client'.send = client.send
      /\ client'.disposed = client.disposed
  BY <1>1, <1>2 DEF ClientState, Receiver
<1>7. ReceiversWanted'
  <2>1. \A q \in Subs : receivers'[q].stage \notin {"idle", "consumed", "failed"} =>
                            receivers[q].stage \notin {"idle", "consumed", "failed"}
    BY <1>2, <1>5
  <2> QED BY <1>2, <1>5, <2>1 DEF ForwardingIInv, ReceiversWanted
<1>8. TransportsCome'
  <2>1. \A q \in Subs : receivers'[q].stage = "answered" => server'.recv
    BY <1>2, <1>5 DEF ForwardingIInv, TransportsCome
  <2>2. CASE "answer lost" \in causes \/ client.disposed
    BY <1>2, <1>6, <2>1, <2>2 DEF TransportsCome
  <2>3. CASE "answer lost" \notin causes /\ ~client.disposed
    <3>1. /\ server.send => client.send \/ \E n \in StartIds : starts[n].stage = "answered" /\ starts[n].options
          /\ client.recv \/ \E q \in Subs : receivers[q].stage = "answered" /\ receivers[q].options
          /\ \A n \in StartIds : starts[n].stage = "answered" /\ ~starts[n].options => client.send
          /\ \A q \in Subs : receivers[q].stage = "wait" =>
                 \E k \in Subs : receivers[k].stage = "answered" /\ receivers[k].options
      BY <1>2, <2>3 DEF ForwardingIInv, TransportsCome
    <3>2. client'.recv \/ \E q \in Subs : receivers'[q].stage = "answered" /\ receivers'[q].options
      <4>1. CASE known
        BY <1>6, <4>1
      <4>2. CASE ~known
        <5>1. PICK q \in Subs : receivers[q].stage = "answered" /\ receivers[q].options
          BY <3>1, <4>2
        <5>2. q # s
          BY <4>2, <5>1
        <5> QED BY <1>5, <5>1, <5>2
      <4> QED BY <4>1, <4>2
    <3>3. \A q \in Subs : receivers'[q].stage = "wait" =>
              \E k \in Subs : receivers'[k].stage = "answered" /\ receivers'[k].options
      <4> TAKE q \in Subs
      <4> HAVE receivers'[q].stage = "wait"
      <4>1. ~receivers[s].options
        BY <1>5
      <4>2. \E k \in Subs : receivers[k].stage = "answered" /\ receivers[k].options
        <5>1. CASE q = s
          BY <1>5, <3>1, <5>1
        <5>2. CASE q # s
          BY <1>5, <3>1, <4>1, <5>2
        <5> QED BY <5>1, <5>2
      <4>3. PICK k \in Subs : receivers[k].stage = "answered" /\ receivers[k].options
        BY <4>2
      <4> QED BY <1>5, <4>1, <4>3
    <3> QED BY <1>2, <1>6, <2>1, <3>1, <3>2, <3>3 DEF TransportsCome, sending
  <2> QED BY <2>2, <2>3
<1> QED BY <1>1, <1>2, <1>5, <1>6, <1>7, <1>8, OneReceiverKeeps

\* The person is disposed of: every producer and consumer is closed with its transport.
LEMMA DisposeKeeps == ForwardingIInv /\ dispose => ForwardingIInv'
<1> SUFFICES ASSUME ForwardingIInv, dispose PROVE ForwardingIInv'
  OBVIOUS
<1>1. /\ receivers \in [Subs -> Receiver] /\ \A q \in Subs : receivers[q] \in Receiver
      /\ client \in ClientState
      /\ starts \in [StartIds -> Sender] /\ \A n \in StartIds : starts[n] \in Sender
      /\ queue \in Seq(StartIds)
  BY ReceiverTypes, BothTypes, ForwardingTypes DEF ForwardingIInv
<1>2. /\ Trouble /\ client' = [client EXCEPT !.disposed = TRUE, !.send = FALSE, !.recv = FALSE]
      /\ UNCHANGED <<queue, senders, forwardings, listening, stopping, server, events, channel, causes>>
  BY DEF dispose
<1>3. client' \in ClientState /\ client'.disposed
  BY <1>1, <1>2 DEF ClientState
<1>4. /\ starts' \in [StartIds -> Sender]
      /\ \A n \in StartIds : /\ starts'[n].stage = starts[n].stage /\ starts'[n].pub = starts[n].pub
                             /\ starts'[n].producer # "open"
                             /\ starts'[n].producer = "none" <=> starts[n].producer = "none"
  <2>1. starts' = [n \in StartIds |-> [starts[n] EXCEPT !.producer = IF starts[n].producer = "open" THEN "closed"
                                                                    ELSE starts[n].producer]]
    BY DEF dispose
  <2> QED BY <1>1, <2>1 DEF Sender
<1>5. /\ receivers' \in [Subs -> Receiver]
      /\ \A s \in Subs : /\ receivers'[s].stage = receivers[s].stage /\ receivers'[s].options = receivers[s].options
                         /\ receivers'[s].wanted = receivers[s].wanted
                         /\ receivers'[s].consumer # "open"
  <2>1. receivers' = [s \in Subs |-> [receivers[s] EXCEPT !.consumer = IF receivers[s].consumer = "open" THEN "closed"
                                                                      ELSE receivers[s].consumer]]
    BY DEF dispose
  <2> QED BY <1>1, <2>1 DEF Receiver
<1>6. ForwardingTypeOK'
  BY <1>2, <1>3, <1>4, <1>5, TroubleType DEF ForwardingIInv, ForwardingTypeOK, ClientState
<1>7. OneStart'
  BY <1>1, <1>2, <1>4, OneStartFrame DEF ForwardingIInv
<1>8. TransportsCome'
  BY <1>2, <1>3, <1>5 DEF ForwardingIInv, TransportsCome
<1>9. ReceiversWanted'
  BY <1>2, <1>5 DEF ForwardingIInv, ReceiversWanted
<1>10. StartsMatch'
  <2>1. \A n \in server'.running : starts'[n].stage \in Past
    <3>1. \A n \in server.running : n \in StartIds /\ starts[n].stage \in Past
      BY DEF ForwardingIInv, StartsMatch, ForwardingTypeOK
    <3> QED BY <1>2, <1>4, <3>1
  <2>2. \A n \in StartIds :
            /\ starts'[n].producer # "none" => starts'[n].stage \in {"watch", "found", "started", "failed"}
            /\ starts'[n].stage \in {"watch", "found", "started"} => starts'[n].producer # "none"
    BY <1>4 DEF ForwardingIInv, StartsMatch
  <2>3. \A p \in Pubs : senders'[p] # 0 =>
            starts'[senders'[p]].pub = p /\ starts'[senders'[p]].stage \notin {"none", "queued"}
    <3> TAKE p \in Pubs
    <3> HAVE senders'[p] # 0
    <3>1. senders'[p] = senders[p]
      BY <1>2
    <3> QED BY <1>4, <3>1, SenderOf
  <2>4. "started again" \notin causes' => Once(starts')
    BY <1>2, <1>4, OnceFrame
  <2> QED BY <2>1, <2>2, <2>3, <2>4 DEF StartsMatch, Idle, Once
<1>11. EndsAreTold'
  BY <1>2, <1>3, <1>4, EndsFrame DEF ForwardingIInv
<1>12. EndIsHeard'
  <2>1. \A n \in StartIds : Sends(n)' => Sends(n)
    BY <1>4 DEF Sends
  <2> QED BY <1>2, <1>4, <2>1, HeardFrame DEF ForwardingIInv
<1> QED BY <1>6, <1>7, <1>8, <1>9, <1>10, <1>11, <1>12 DEF ForwardingIInv

-----------------------------------------------------------------------------
(* The SFU                                                                 *)

\* A step of the SFU, or of who asks it, that leaves starts and receivers alone: the ends
\* of forwardings are told, in the order in which they happen.
LEMMA ServerKeeps ==
    ASSUME ForwardingIInv,
           UNCHANGED <<starts, queue, senders, listening, stopping, receivers, client, channel, causes>>,
           forwardings' \subseteq StartIds,
           Trouble \/ UNCHANGED troubles,
           server' \in ServerState, server'.send = server.send, server'.recv = server.recv,
           server'.running \subseteq server.running,
           events' \in Seq(Event),
           \A i \in 1..Len(events') :
              \/ i \in 1..Len(events) /\ events'[i] = events[i]
              \/ events'[i].kind \in {"unsubscribed", "unrelayed"} =>
                    events'[i].of \in server.running \ server'.running,
           \A e : Coming(e) => Coming(e)',
           \A n \in server.running \ server'.running :
              Coming([kind |-> "unsubscribed", of |-> n])' \/ Coming([kind |-> "left"])'
    PROVE  ForwardingIInv'
<1>1. troubles' \in 0..MaxTroubles
  BY TroubleType DEF ForwardingIInv
<1>2. ForwardingTypeOK'
  BY <1>1 DEF ForwardingIInv, ForwardingTypeOK, ServerState
<1>3. OneStart'
  BY OneStartFrame DEF ForwardingIInv, ForwardingTypeOK
<1>4. TransportsCome'
  BY TransportsFrame DEF ForwardingIInv
<1>5. ReceiversWanted'
  BY ReceiversFrame DEF ForwardingIInv
<1>6. \A n \in server.running : n \in StartIds /\ starts[n].stage \in Past
  BY DEF ForwardingIInv, ForwardingTypeOK, StartsMatch
<1>7. StartsMatch'
  BY <1>6 DEF ForwardingIInv, StartsMatch, Idle
<1>8. EndsAreTold'
  <2>1. \A i \in 1..Len(events') : events'[i].kind \in {"unsubscribed", "unrelayed"} =>
            events'[i].of \notin server'.running /\ starts'[events'[i].of].stage \in Past
    <3> TAKE i \in 1..Len(events')
    <3> HAVE events'[i].kind \in {"unsubscribed", "unrelayed"}
    <3>1. CASE i \in 1..Len(events) /\ events'[i] = events[i]
      BY <3>1 DEF ForwardingIInv, EndsAreTold
    <3>2. CASE events'[i].of \in server.running \ server'.running
      BY <1>6, <3>2
    <3> QED BY <3>1, <3>2
  <2>2. \A p \in stopping' : \E n \in StartIds :
            starts'[n].pub = p /\ starts'[n].stage \in Past /\ n \notin server'.running
    <3> TAKE p \in stopping'
    <3>1. \A q \in stopping : \E k \in StartIds :
              starts[k].pub = q /\ starts[k].stage \in Past /\ k \notin server.running
      BY DEF ForwardingIInv, EndsAreTold
    <3>2. p \in stopping
      OBVIOUS
    <3> QED BY <3>1, <3>2
  <2>3. "started again" \notin causes' /\ ~client'.disposed =>
            \A k \in StartIds : starts'[k].producer = "closed" => k \notin server'.running
    BY DEF ForwardingIInv, EndsAreTold
  <2> QED BY <2>1, <2>2, <2>3 DEF EndsAreTold
<1>9. EndIsHeard'
  <2>1. CASE causes' \cap {"stop overtook start", "started again", "bot left"} # {}
    BY <2>1 DEF EndIsHeard
  <2>2. CASE causes' \cap {"stop overtook start", "started again", "bot left"} = {}
    <3>1. \A k \in StartIds :
              /\ Sends(k) \/ starts[k].stage = "request" => senders[starts[k].pub] = k
              /\ Sends(k) => \/ k \in server.running
                             \/ Coming([kind |-> "unsubscribed", of |-> k])
                             \/ starts[k].pub \in stopping
                             \/ Coming([kind |-> "left"])
      BY <2>2 DEF ForwardingIInv, EndIsHeard
    <3>2. \A k \in StartIds : Sends(k)' <=> Sends(k)
      BY DEF Sends
    <3>3. ASSUME NEW k \in StartIds
          PROVE  /\ Sends(k)' \/ starts'[k].stage = "request" => senders'[starts'[k].pub] = k
                 /\ Sends(k)' => \/ k \in server'.running
                                 \/ Coming([kind |-> "unsubscribed", of |-> k])'
                                 \/ starts'[k].pub \in stopping'
                                 \/ Coming([kind |-> "left"])'
      <4>1. Sends(k)' \/ starts'[k].stage = "request" => senders'[starts'[k].pub] = k
        BY <3>1, <3>2
      <4>2. CASE k \in server.running
        BY <4>1, <4>2
      <4>3. CASE k \notin server.running
        BY <3>1, <3>2, <4>1, <4>3
      <4> QED BY <4>2, <4>3
    <3> QED BY <3>3 DEF EndIsHeard
  <2> QED BY <2>1, <2>2
<1> QED BY <1>2, <1>3, <1>4, <1>5, <1>7, <1>8, <1>9 DEF ForwardingIInv

\* What the end of a forwarding tells.
LEMMA EndsTell ==
    ASSUME ForwardingIInv, NEW n \in server.running, Ends(n)
    PROVE  /\ server' \in ServerState /\ server'.send = server.send /\ server'.recv = server.recv
           /\ server'.running = server.running \ {n}
           /\ events' \in Seq(Event)
           /\ \A i \in 1..Len(events') :
                 \/ i \in 1..Len(events) /\ events'[i] = events[i]
                 \/ events'[i].of = n
           /\ \A e : Coming(e) => Coming(e)'
           /\ Coming([kind |-> "unsubscribed", of |-> n])'
<1> DEFINE unsubscribed == [kind |-> "unsubscribed", of |-> n]
           unrelayed == [kind |-> "unrelayed", of |-> n]
<1>1. server \in ServerState /\ events \in Seq(Event) /\ n \in StartIds
  BY BothTypes DEF ForwardingIInv, ForwardingTypeOK
<1>2. unsubscribed \in Event /\ unrelayed \in Event
  BY <1>1 DEF Event
<1>3. /\ events' = events \o <<unsubscribed, unrelayed>> /\ events' \in Seq(Event)
      /\ Len(events) \in Nat /\ Len(events') = Len(events) + 2
      /\ \A i \in 1..Len(events) : events'[i] = events[i]
      /\ events'[Len(events) + 1] = unsubscribed /\ events'[Len(events) + 2] = unrelayed
  <2>1. events' = events \o <<unsubscribed, unrelayed>>
    BY DEF Ends
  <2> QED BY <1>1, <1>2, <2>1, TwoMore
<1>4. /\ server' \in ServerState /\ server'.send = server.send /\ server'.recv = server.recv
      /\ server'.running = server.running \ {n}
  BY <1>1 DEF Ends, ServerState
<1>5. \A i \in 1..Len(events') : i \in 1..Len(events) \/ i = Len(events) + 1 \/ i = Len(events) + 2
  BY <1>3
<1>6. \A e : Coming(e) => Coming(e)'
  BY <1>3 DEF Coming
<1>7. Coming(unsubscribed)'
  <2>1. Len(events) + 1 \in 1..Len(events')
    BY <1>3
  <2> QED BY <1>3, <2>1 DEF Coming
<1> QED BY <1>3, <1>4, <1>5, <1>6, <1>7

\* A forwarding is stopped, or ends with its publication.
LEMMA StopForwardingKeeps ==
    ASSUME ForwardingIInv, NEW n \in StartIds, stopForwarding(n) \/ EndForwarding(n)
    PROVE  ForwardingIInv'
<1>1. /\ UNCHANGED <<starts, queue, senders, listening, stopping, receivers, client, channel, causes>>
      /\ Trouble \/ UNCHANGED troubles
      /\ \/ n \in server.running /\ Ends(n)
         \/ UNCHANGED <<server, events>>
  BY DEF stopForwarding, EndForwarding, sending
<1>2. forwardings' \subseteq StartIds
  BY DEF stopForwarding, EndForwarding, sending, ForwardingIInv, ForwardingTypeOK
<1>3. CASE n \in server.running /\ Ends(n)
  <2>1. /\ server' \in ServerState /\ server'.send = server.send /\ server'.recv = server.recv
        /\ server'.running = server.running \ {n}
        /\ events' \in Seq(Event)
        /\ \A i \in 1..Len(events') :
              \/ i \in 1..Len(events) /\ events'[i] = events[i]
              \/ events'[i].of = n
        /\ \A e : Coming(e) => Coming(e)'
        /\ Coming([kind |-> "unsubscribed", of |-> n])'
    BY <1>3, EndsTell
  <2>2. \A k \in server.running \ server'.running : Coming([kind |-> "unsubscribed", of |-> k])'
    BY <2>1
  <2>3. \A i \in 1..Len(events') :
           \/ i \in 1..Len(events) /\ events'[i] = events[i]
           \/ events'[i].of \in server.running \ server'.running
    BY <1>3, <2>1
  <2> QED BY <1>1, <1>2, <2>1, <2>2, <2>3, ServerKeeps
<1>4. CASE UNCHANGED <<server, events>>
  <2>1. server \in ServerState /\ events \in Seq(Event)
    BY BothTypes DEF ForwardingIInv, ForwardingTypeOK
  <2>2. \A e : Coming(e) => Coming(e)'
    BY <1>4 DEF Coming
  <2>3. server' \in ServerState /\ events' \in Seq(Event) /\ server'.running = server.running
    BY <1>4, <2>1
  <2>4. \A i \in 1..Len(events') : i \in 1..Len(events) /\ events'[i] = events[i]
    BY <1>4
  <2> QED BY <1>1, <1>2, <1>4, <2>2, <2>3, <2>4, ServerKeeps
<1> QED BY <1>1, <1>3, <1>4

\* One event more tells nothing of a forwarding.
LEMMA OneEvent ==
    ASSUME ForwardingIInv, NEW e \in Event, events' = Append(events, e)
    PROVE  /\ events' \in Seq(Event)
           /\ \A i \in 1..Len(events') : (i \in 1..Len(events) /\ events'[i] = events[i]) \/ events'[i] = e
           /\ \A d : Coming(d) => Coming(d)'
           /\ Coming(e)'
<1>1. /\ events' \in Seq(Event) /\ Len(events) \in Nat /\ Len(events') = Len(events) + 1
      /\ \A i \in 1..Len(events) : events'[i] = events[i]
      /\ events'[Len(events) + 1] = e
  BY OneMore DEF ForwardingIInv, ForwardingTypeOK
<1>2. \A i \in 1..Len(events') : i \in 1..Len(events) \/ i = Len(events) + 1
  BY <1>1
<1>3. \A d : Coming(d) => Coming(d)'
  BY <1>1 DEF Coming
<1>4. Coming(e)'
  <2>1. Len(events) + 1 \in 1..Len(events')
    BY <1>1
  <2> QED BY <1>1, <2>1 DEF Coming
<1> QED BY <1>1, <1>2, <1>3, <1>4

\* A publication ends, or the bot leaves.
LEMMA OthersKeep ==
    ASSUME ForwardingIInv, (\E p \in Pubs : Unpublish(p) \/ Unpublished(p)) \/ BotLeaves
    PROVE  ForwardingIInv'
<1>1. server \in ServerState /\ events \in Seq(Event) /\ forwardings \subseteq StartIds
  BY BothTypes DEF ForwardingIInv, ForwardingTypeOK
<1>2. CASE \E p \in Pubs : Unpublish(p)
  <2>1. PICK p \in Pubs : Unpublish(p)
    BY <1>2
  <2>2. /\ Trouble /\ server' = [server EXCEPT !.pubs[p] = "ending"]
        /\ UNCHANGED <<starts, queue, senders, forwardings, listening, stopping, receivers, client, events, channel, causes>>
    BY <2>1 DEF Unpublish, sending
  <2>3. /\ server' \in ServerState /\ server'.send = server.send /\ server'.recv = server.recv
        /\ server'.running = server.running
    BY <1>1, <2>2 DEF ServerState
  <2>4. \A e : Coming(e) => Coming(e)'
    BY <2>2 DEF Coming
  <2>5. /\ events' \in Seq(Event)
        /\ \A i \in 1..Len(events') : i \in 1..Len(events) /\ events'[i] = events[i]
    BY <1>1, <2>2
  <2> QED BY <1>1, <2>2, <2>3, <2>4, <2>5, ServerKeeps
<1>3. CASE \E p \in Pubs : Unpublished(p)
  <2>1. PICK p \in Pubs : Unpublished(p)
    BY <1>3
  <2> DEFINE gone == [kind |-> "unpublished", pub |-> p]
  <2>2. /\ events' = Append(events, gone) /\ server' = [server EXCEPT !.pubs[p] = "gone"]
        /\ UNCHANGED <<starts, queue, senders, forwardings, listening, stopping, receivers, client, channel, troubles, causes>>
    BY <2>1 DEF Unpublished, sending
  <2>3. /\ server' \in ServerState /\ server'.send = server.send /\ server'.recv = server.recv
        /\ server'.running = server.running
    BY <1>1, <2>2 DEF ServerState
  <2>4. gone \in Event /\ gone.kind = "unpublished"
    BY DEF Event
  <2>5. /\ events' \in Seq(Event)
        /\ \A i \in 1..Len(events') : (i \in 1..Len(events) /\ events'[i] = events[i]) \/ events'[i] = gone
        /\ \A e : Coming(e) => Coming(e)'
    BY <2>2, <2>4, OneEvent
  <2>6. \A i \in 1..Len(events') :
           \/ i \in 1..Len(events) /\ events'[i] = events[i]
           \/ events'[i].kind \notin {"unsubscribed", "unrelayed"}
    BY <2>4, <2>5
  <2> QED BY <1>1, <2>2, <2>3, <2>5, <2>6, ServerKeeps
<1>4. CASE BotLeaves
  <2> DEFINE left == [kind |-> "left"]
  <2>1. /\ Trouble /\ events' = Append(events, left) /\ server' = [server EXCEPT !.running = {}]
        /\ UNCHANGED <<starts, queue, senders, forwardings, listening, stopping, receivers, client, channel, causes>>
    BY <1>4 DEF BotLeaves, sending
  <2>2. /\ server' \in ServerState /\ server'.send = server.send /\ server'.recv = server.recv
        /\ server'.running = {}
    BY <1>1, <2>1 DEF ServerState
  <2>3. left \in Event /\ left.kind = "left"
    BY DEF Event
  <2>4. /\ events' \in Seq(Event)
        /\ \A i \in 1..Len(events') : (i \in 1..Len(events) /\ events'[i] = events[i]) \/ events'[i] = left
        /\ \A e : Coming(e) => Coming(e)'
        /\ Coming(left)'
    BY <2>1, <2>3, OneEvent
  <2>5. \A i \in 1..Len(events') :
           \/ i \in 1..Len(events) /\ events'[i] = events[i]
           \/ events'[i].kind \notin {"unsubscribed", "unrelayed"}
    BY <2>3, <2>4
  <2> QED BY <1>1, <2>1, <2>2, <2>4, <2>5, ServerKeeps
<1> QED BY <1>2, <1>3, <1>4

-----------------------------------------------------------------------------
(* Channel events                                                          *)

ChannelState == [relays : SUBSET StartIds, subscribed : SUBSET StartIds, pubs : SUBSET Pubs]

\* Starts that keep what they have, but for a relay that appears and producers that close.
Keeps(n) ==
    /\ starts'[n].pub = starts[n].pub
    /\ starts'[n].options = starts[n].options
    /\ starts'[n].stage = starts[n].stage \/ (starts[n].stage = "watch" /\ starts'[n].stage = "found")
    /\ starts'[n].producer = starts[n].producer \/ (starts[n].producer = "open" /\ starts'[n].producer = "closed")

\* The queue and the starts, when the starts keep what they have.
LEMMA KeepingStarts ==
    ASSUME ForwardingIInv, starts' \in [StartIds -> Sender], \A n \in StartIds : Keeps(n),
           \A p \in Pubs : senders'[p] \in {0, senders[p]},
           server'.running = server.running,
           "started again" \notin causes' => "started again" \notin causes,
           UNCHANGED queue
    PROVE  OneStart' /\ StartsMatch'
<1>1. OneStart'
  <2>1. queue \in Seq(StartIds) /\ \A i \in 1..Len(queue) : queue[i] \in StartIds
    BY ForwardingElements DEF ForwardingIInv, ForwardingTypeOK
  <2>2. \A n \in StartIds : /\ starts'[n].stage \in Busy <=> starts[n].stage \in Busy
                            /\ starts'[n].stage = "queued" <=> starts[n].stage = "queued"
    BY DEF Keeps, Busy
  <2>3. \A n \in StartIds : starts'[n].stage \in Busy => Runs(n)'
    BY <2>2 DEF ForwardingIInv, OneStart, Runs
  <2>4. \A i \in 1..Len(queue') : starts'[queue'[i]].stage \in Busy \cup {"queued"}
    <3> TAKE i \in 1..Len(queue')
    <3>1. queue'[i] = queue[i] /\ i \in 1..Len(queue) /\ queue[i] \in StartIds
      BY <2>1
    <3>2. starts[queue[i]].stage \in Busy \cup {"queued"}
      BY <3>1 DEF ForwardingIInv, OneStart
    <3> QED BY <2>2, <3>1, <3>2
  <2>5. \A i, j \in 1..Len(queue') : queue'[i] = queue'[j] => i = j
    BY DEF ForwardingIInv, OneStart
  <2> QED BY <2>3, <2>4, <2>5 DEF OneStart
<1>2. \A n \in server'.running : starts'[n].stage \in Past
  <2>1. \A n \in server.running : n \in StartIds /\ starts[n].stage \in Past
    BY DEF ForwardingIInv, ForwardingTypeOK, StartsMatch
  <2> QED BY <2>1 DEF Keeps, Past
<1>3. \A n \in StartIds :
          /\ starts'[n].producer # "none" => starts'[n].stage \in {"watch", "found", "started", "failed"}
          /\ starts'[n].stage \in {"watch", "found", "started"} => starts'[n].producer # "none"
  BY DEF ForwardingIInv, StartsMatch, Keeps
<1>4. \A p \in Pubs : senders'[p] # 0 =>
          starts'[senders'[p]].pub = p /\ starts'[senders'[p]].stage \notin {"none", "queued"}
  <2> TAKE p \in Pubs
  <2> HAVE senders'[p] # 0
  <2>1. senders'[p] = senders[p]
    OBVIOUS
  <2>2. /\ senders[p] \in StartIds /\ starts[senders[p]].pub = p
        /\ starts[senders[p]].stage \notin {"none", "queued"}
    BY <2>1, SenderOf
  <2>3. \A n \in StartIds : /\ starts'[n].pub = starts[n].pub
                            /\ starts[n].stage \notin {"none", "queued"} => starts'[n].stage \notin {"none", "queued"}
    BY DEF Keeps
  <2>4. starts'[senders[p]].pub = p /\ starts'[senders[p]].stage \notin {"none", "queued"}
    BY <2>2, <2>3
  <2> QED BY <2>1, <2>4
<1>5. "started again" \notin causes' => Once(starts')
  <2>1. \A n \in StartIds : (starts'[n].stage # "none" => starts[n].stage # "none") /\ starts'[n].pub = starts[n].pub
    BY DEF Keeps
  <2> QED BY <2>1, OnceFrame
<1>6. StartsMatch'
  BY <1>2, <1>3, <1>4, <1>5 DEF StartsMatch, Idle, Once
<1> QED BY <1>1, <1>6

\* removeSender closes the producer of the publication's Sender, and no other.
LEMMA Unproduced ==
    ASSUME ForwardingIInv, NEW p \in Pubs, starts' = unproduce(starts, p)
    PROVE  /\ starts' \in [StartIds -> Sender]
           /\ \A n \in StartIds : /\ Keeps(n)
                                  /\ starts'[n].stage = starts[n].stage
                                  /\ n # senders[p] => starts'[n] = starts[n]
                                  /\ n = senders[p] => starts'[n].producer # "open"
<1>1. starts \in [StartIds -> Sender] /\ \A n \in StartIds : starts[n] \in Sender
  BY ForwardingTypes DEF ForwardingIInv
<1>2. CASE senders[p] # 0 /\ starts[senders[p]].producer = "open"
  <2>1. senders[p] \in StartIds
    BY <1>2, SenderOf
  <2>2. starts' = [starts EXCEPT ![senders[p]].producer = "closed"]
    BY <1>2 DEF unproduce
  <2>3. /\ starts' \in [StartIds -> Sender]
        /\ \A n \in StartIds : n # senders[p] => starts'[n] = starts[n]
        /\ starts'[senders[p]] = [starts[senders[p]] EXCEPT !.producer = "closed"]
    <3>1. starts' \in [StartIds -> Sender]
      BY <1>1, <2>1, <2>2 DEF Sender
    <3> QED BY <1>1, <2>1, <2>2, <3>1
  <2>4. /\ starts'[senders[p]].producer = "closed"
        /\ starts'[senders[p]].pub = starts[senders[p]].pub
        /\ starts'[senders[p]].options = starts[senders[p]].options
        /\ starts'[senders[p]].stage = starts[senders[p]].stage
    BY <1>1, <2>1, <2>3 DEF Sender
  <2> QED BY <1>2, <2>3, <2>4 DEF Keeps
<1>3. CASE ~(senders[p] # 0 /\ starts[senders[p]].producer = "open")
  <2>1. starts' = starts
    BY <1>3 DEF unproduce
  <2>2. \A n \in StartIds : n = senders[p] => starts[n].producer # "open"
    BY <1>3, StartNumbers
  <2> QED BY <1>1, <2>1, <2>2 DEF Keeps
<1> QED BY <1>2, <1>3

\* The head of the events is handled.
LEMMA HeadEvent ==
    ASSUME ForwardingIInv, events # <<>>, events' = Tail(events)
    PROVE  /\ events' \in Seq(Event)
           /\ Head(events) \in Event
           /\ 1 \in 1..Len(events) /\ Head(events) = events[1]
           /\ \A i \in 1..Len(events') : i + 1 \in 1..Len(events) /\ events'[i] = events[i + 1]
           /\ \A d : Coming(d) => d = Head(events) \/ Coming(d)'
<1>1. events \in Seq(Event)
  BY DEF ForwardingIInv, ForwardingTypeOK
<1>2. /\ events' \in Seq(Event)
      /\ Len(events) \in Nat \ {0}
      /\ Len(events') = Len(events) - 1
      /\ \A i \in 1..Len(events') : i + 1 \in 1..Len(events) /\ events'[i] = events[i + 1]
      /\ Head(events) = events[1]
      /\ 1 \in 1..Len(events)
  BY <1>1, QueueTail
<1>3. events[1] \in Event
  BY <1>1, <1>2
<1>4. ASSUME NEW d, Coming(d), d # Head(events)
      PROVE  Coming(d)'
  <2>1. PICK i \in 1..Len(events) : events[i] = d
    BY <1>4 DEF Coming
  <2>2. i # 1
    BY <1>2, <1>4, <2>1
  <2>3. i - 1 \in 1..Len(events')
    BY <1>2, <2>2
  <2>4. events'[i - 1] = d
    BY <1>2, <2>1, <2>3
  <2> QED BY <2>3, <2>4 DEF Coming
<1> QED BY <1>2, <1>3, <1>4

\* What an event may do: close producers of what has ended, and note what is to be stopped.
LEMMA EventKeeps ==
    ASSUME ForwardingIInv, events # <<>>, events' = Tail(events),
           UNCHANGED <<queue, forwardings, receivers, server, troubles>>,
           listening' \subseteq StartIds, channel' \in ChannelState, client' \in ClientState,
           client'.send = client.send, client'.recv = client.recv, client'.disposed = client.disposed,
           starts' \in [StartIds -> Sender], \A n \in StartIds : Keeps(n),
           \A n \in StartIds : "started again" \notin causes /\ starts'[n].producer # starts[n].producer =>
                                   n \notin server.running,
           senders' \in [Pubs -> 0..MaxStarts], \A p \in Pubs : senders'[p] \in {0, senders[p]},
           senders' = senders \/ "bot left" \in causes',
           causes \subseteq causes', causes' \subseteq causes \cup {"bot left"},
           stopping' \subseteq Pubs, stopping \subseteq stopping',
           \A p \in stopping' \ stopping : \E n \in StartIds :
               starts[n].pub = p /\ starts[n].stage \in Past /\ n \notin server.running,
           Head(events) = [kind |-> "left"] => "bot left" \in causes',
           \A n \in StartIds : Head(events) = [kind |-> "unsubscribed", of |-> n] => starts[n].pub \in stopping'
    PROVE  ForwardingIInv'
<1>1. /\ events' \in Seq(Event)
      /\ \A i \in 1..Len(events') : i + 1 \in 1..Len(events) /\ events'[i] = events[i + 1]
      /\ \A d : Coming(d) => d = Head(events) \/ Coming(d)'
  BY HeadEvent
<1>2. ForwardingTypeOK'
  <2>1. causes' \subseteq Causes
    BY DEF ForwardingIInv, ForwardingTypeOK, Causes
  <2> QED BY <1>1, <2>1 DEF ForwardingIInv, ForwardingTypeOK, ChannelState, ClientState
<1>3. OneStart' /\ StartsMatch'
  BY KeepingStarts
<1>4. TransportsCome'
  <2>1. \A n \in StartIds : /\ starts'[n].stage = "answered" <=> starts[n].stage = "answered"
                            /\ starts'[n].options = starts[n].options
    BY DEF Keeps
  <2> QED BY <2>1, TransportsFrame DEF ForwardingIInv
<1>5. ReceiversWanted'
  BY ReceiversFrame DEF ForwardingIInv
<1>6. \A n \in StartIds : starts[n].stage \in Past => starts'[n].stage \in Past
  <2> TAKE n \in StartIds
  <2>1. Keeps(n)
    OBVIOUS
  <2> QED BY <2>1 DEF Keeps, Past
<1>7. EndsAreTold'
  <2>1. \A i \in 1..Len(events') : events'[i].kind \in {"unsubscribed", "unrelayed"} =>
            events'[i].of \notin server'.running /\ starts'[events'[i].of].stage \in Past
    <3> TAKE i \in 1..Len(events')
    <3> HAVE events'[i].kind \in {"unsubscribed", "unrelayed"}
    <3>1. i + 1 \in 1..Len(events) /\ events'[i] = events[i + 1] /\ events[i + 1] \in Event
      BY <1>1, ForwardingElements
    <3>2. events[i + 1].of \notin server.running /\ starts[events[i + 1].of].stage \in Past
      BY <3>1 DEF ForwardingIInv, EndsAreTold
    <3>3. events[i + 1].of \in StartIds
      BY <3>1 DEF Event
    <3> QED BY <1>6, <3>1, <3>2, <3>3
  <2>2. \A p \in stopping' : \E n \in StartIds :
            starts'[n].pub = p /\ starts'[n].stage \in Past /\ n \notin server'.running
    <3> TAKE p \in stopping'
    <3>1. \A q \in stopping : \E k \in StartIds :
              starts[k].pub = q /\ starts[k].stage \in Past /\ k \notin server.running
      BY DEF ForwardingIInv, EndsAreTold
    <3>2. PICK n \in StartIds : starts[n].pub = p /\ starts[n].stage \in Past /\ n \notin server.running
      BY <3>1
    <3>3. starts'[n].pub = p
      BY <3>2 DEF Keeps
    <3> QED BY <1>6, <3>2, <3>3
  <2>3. "started again" \notin causes' /\ ~client'.disposed =>
            \A k \in StartIds : starts'[k].producer = "closed" => k \notin server'.running
    BY DEF ForwardingIInv, EndsAreTold
  <2> QED BY <2>1, <2>2, <2>3 DEF EndsAreTold
<1>8. EndIsHeard'
  <2>1. CASE causes' \cap {"stop overtook start", "started again", "bot left"} # {}
    BY <2>1 DEF EndIsHeard
  <2>2. CASE causes' \cap {"stop overtook start", "started again", "bot left"} = {}
    <3>1. \A k \in StartIds :
              /\ Sends(k) \/ starts[k].stage = "request" => senders[starts[k].pub] = k
              /\ Sends(k) => \/ k \in server.running
                             \/ Coming([kind |-> "unsubscribed", of |-> k])
                             \/ starts[k].pub \in stopping
                             \/ Coming([kind |-> "left"])
      BY <2>2 DEF ForwardingIInv, EndIsHeard
    <3>2. \A k \in StartIds : (Sends(k)' => Sends(k)) /\ (starts'[k].stage = "request" => starts[k].stage = "request")
      BY DEF Sends, Keeps
    <3>3. ASSUME NEW k \in StartIds
          PROVE  /\ Sends(k)' \/ starts'[k].stage = "request" => senders'[starts'[k].pub] = k
                 /\ Sends(k)' => \/ k \in server'.running
                                 \/ Coming([kind |-> "unsubscribed", of |-> k])'
                                 \/ starts'[k].pub \in stopping'
                                 \/ Coming([kind |-> "left"])'
      <4>1. starts'[k].pub = starts[k].pub
        BY DEF Keeps
      <4>2. senders' = senders /\ Head(events) # [kind |-> "left"]
        BY <2>2
      <4>3. Coming([kind |-> "left"]) => Coming([kind |-> "left"])'
        BY <1>1, <4>2
      <4>4. Coming([kind |-> "unsubscribed", of |-> k]) =>
                Coming([kind |-> "unsubscribed", of |-> k])' \/ starts[k].pub \in stopping'
        BY <1>1
      <4> QED BY <3>1, <3>2, <4>1, <4>2, <4>3, <4>4
    <3> QED BY <3>3 DEF EndIsHeard
  <2> QED BY <2>1, <2>2
<1> QED BY <1>2, <1>3, <1>4, <1>5, <1>7, <1>8 DEF ForwardingIInv

\* What a Sender's end has to do with the end it was told.
LEMMA SenderEnded ==
    ASSUME ForwardingIInv, NEW p \in Pubs, "started again" \notin causes, senders[p] # 0,
           NEW m \in StartIds, starts[m].pub = p, starts[m].stage \in Past, m \notin server.running
    PROVE  senders[p] \notin server.running
<1>1. /\ senders[p] \in StartIds /\ starts[senders[p]].pub = p
      /\ starts[senders[p]].stage \notin {"none", "queued"}
  BY SenderOf
<1>2. starts[m].stage # "none"
  BY DEF Past
<1>3. senders[p] = m
  BY <1>1, <1>2, StartedOnce DEF Once
<1> QED BY <1>3

\* The producer that removeSender closes is of a forwarding that has ended.
LEMMA UnproducedEnded ==
    ASSUME ForwardingIInv, NEW p \in Pubs, starts' = unproduce(starts, p),
           NEW m \in StartIds, starts[m].pub = p, starts[m].stage \in Past, m \notin server.running,
           "started again" \notin causes
    PROVE  \A n \in StartIds : starts'[n].producer # starts[n].producer => n \notin server.running
<1> TAKE n \in StartIds
<1> HAVE starts'[n].producer # starts[n].producer
<1>1. n = senders[p]
  BY Unproduced
<1>2. senders[p] # 0
  BY <1>1, StartNumbers
<1> QED BY <1>1, <1>2, SenderEnded

\* Each of the events does no more than that.
LEMMA ApplyKeeps == ForwardingIInv /\ ApplyEvent => ForwardingIInv'
<1> SUFFICES ASSUME ForwardingIInv, ApplyEvent PROVE ForwardingIInv'
  OBVIOUS
<1> DEFINE e == Head(events)
<1>1. /\ events # <<>> /\ events' = Tail(events) /\ Applied(e)
      /\ UNCHANGED <<receivers, server, troubles>>
  BY DEF ApplyEvent
<1>2. /\ e \in Event /\ 1 \in 1..Len(events) /\ e = events[1]
  BY <1>1, HeadEvent
<1>3. /\ starts \in [StartIds -> Sender] /\ channel \in ChannelState /\ client \in ClientState
      /\ senders \in [Pubs -> 0..MaxStarts] /\ listening \subseteq StartIds /\ stopping \subseteq Pubs
      /\ \A n \in StartIds : starts[n] \in Sender
  BY ForwardingTypes, BothTypes DEF ForwardingIInv, ForwardingTypeOK, ChannelState
<1>4. e.kind \in {"unsubscribed", "unrelayed"} =>
          e.of \in StartIds /\ e.of \notin server.running /\ starts[e.of].stage \in Past
  <2>1. e.kind \in {"unsubscribed", "unrelayed"} => e.of \notin server.running /\ starts[e.of].stage \in Past
    BY <1>2 DEF ForwardingIInv, EndsAreTold
  <2>2. e.kind \in {"unsubscribed", "unrelayed"} => e.of \in StartIds
    BY <1>2 DEF Event
  <2> QED BY <2>1, <2>2
<1>5. /\ [kind |-> "left"].kind = "left"
      /\ \A n \in StartIds : [kind |-> "unsubscribed", of |-> n].kind = "unsubscribed"
                          /\ [kind |-> "unsubscribed", of |-> n].of = n
  OBVIOUS
<1>6. starts' = starts => \A n \in StartIds : Keeps(n)
  BY DEF Keeps
<1> HIDE DEF e
<1>7. CASE e.kind \in {"subscribed", "unpublished"}
  <2>1. /\ UNCHANGED <<starts, queue, senders, forwardings, listening, stopping, client, causes>>
        /\ \/ e.kind = "subscribed" /\ channel' = [channel EXCEPT !.subscribed = @ \cup {e.of}]
           \/ e.kind = "unpublished" /\ channel' = [channel EXCEPT !.pubs = @ \ {e.pub}]
    BY <1>1, <1>7 DEF Applied, Subscribed, PublicationGone, sending
  <2>2. channel' \in ChannelState
    BY <1>2, <1>3, <2>1 DEF ChannelState, Event
  <2>3. e # [kind |-> "left"] /\ \A n \in StartIds : e # [kind |-> "unsubscribed", of |-> n]
    BY <1>5, <1>7
  <2> QED BY <1>1, <1>3, <1>6, <2>1, <2>2, <2>3, EventKeeps DEF e
<1>8. CASE e.kind = "relayed"
  <2> DEFINE n == e.of
  <2>1. n \in StartIds
    BY <1>2, <1>8 DEF Event
  <2>2. /\ UNCHANGED <<queue, senders, forwardings, listening, stopping, client, causes>>
        /\ channel' = [channel EXCEPT !.relays = @ \cup {n}]
        /\ IF starts[n].stage = "watch" THEN Reaches(n, "found") ELSE UNCHANGED starts
    BY <1>1, <1>8 DEF Applied, Relayed
  <2>3. channel' \in ChannelState
    BY <1>3, <2>1, <2>2 DEF ChannelState
  <2>4. /\ starts' \in [StartIds -> Sender] /\ \A k \in StartIds : Keeps(k)
        /\ \A k \in StartIds : starts'[k].producer = starts[k].producer
    <3>1. CASE starts[n].stage = "watch"
      <4>1. /\ starts' \in [StartIds -> Sender]
            /\ starts'[n].stage = "found"
            /\ starts'[n].pub = starts[n].pub
            /\ starts'[n].producer = starts[n].producer
            /\ starts'[n].options = starts[n].options
            /\ \A k \in StartIds : k # n => starts'[k] = starts[k]
        BY <1>3, <2>1, <2>2, <3>1, StageChange DEF Stages
      <4> QED BY <3>1, <4>1 DEF Keeps
    <3>2. CASE starts[n].stage # "watch"
      BY <1>3, <1>6, <2>2, <3>2
    <3> QED BY <3>1, <3>2
  <2>5. e # [kind |-> "left"] /\ \A k \in StartIds : e # [kind |-> "unsubscribed", of |-> k]
    BY <1>5, <1>8
  <2> QED BY <1>1, <1>3, <2>2, <2>3, <2>4, <2>5, EventKeeps DEF e
<1>9. CASE e.kind = "unsubscribed"
  <2> DEFINE n == e.of
  <2>1. n \in StartIds /\ starts[n].pub \in Pubs
    BY <1>3, <1>4, <1>9 DEF Sender
  <2>2. /\ UNCHANGED <<starts, queue, senders, forwardings, listening, client, causes>>
        /\ channel' = [channel EXCEPT !.subscribed = @ \ {n}]
        /\ stopping' = stopping \cup {starts[n].pub}
    BY <1>1, <1>9 DEF Applied, Unsubscribed
  <2>3. channel' \in ChannelState
    BY <1>3, <2>2 DEF ChannelState
  <2>4. stopping' \subseteq Pubs /\ stopping \subseteq stopping'
    BY <1>3, <2>1, <2>2
  <2>5. \A p \in stopping' \ stopping : \E k \in StartIds :
            starts[k].pub = p /\ starts[k].stage \in Past /\ k \notin server.running
    BY <1>4, <1>9, <2>1, <2>2
  <2>6. e # [kind |-> "left"] /\ \A k \in StartIds : e = [kind |-> "unsubscribed", of |-> k] => starts[k].pub \in stopping'
    BY <1>5, <1>9, <2>2
  <2> QED BY <1>1, <1>3, <1>6, <2>2, <2>3, <2>4, <2>5, <2>6, EventKeeps DEF e
<1>10. CASE e.kind = "unrelayed"
  <2> DEFINE n == e.of
  <2>1. n \in StartIds /\ starts[n].pub \in Pubs /\ n \notin server.running /\ starts[n].stage \in Past
    BY <1>3, <1>4, <1>10 DEF Sender
  <2>2. /\ UNCHANGED <<queue, senders, forwardings, stopping, client, causes>>
        /\ channel' = [channel EXCEPT !.relays = @ \ {n}]
        /\ listening' = listening \ {n}
        /\ starts' = unproduce(starts, starts[n].pub) \/ UNCHANGED starts
    BY <1>1, <1>10 DEF Applied, Unrelayed
  <2>3. channel' \in ChannelState /\ listening' \subseteq StartIds
    BY <1>3, <2>2 DEF ChannelState
  <2>4. /\ starts' \in [StartIds -> Sender] /\ \A k \in StartIds : Keeps(k)
        /\ \A k \in StartIds : "started again" \notin causes /\ starts'[k].producer # starts[k].producer =>
                                   k \notin server.running
    <3>1. CASE starts' = unproduce(starts, starts[n].pub)
      BY <2>1, <3>1, Unproduced, UnproducedEnded
    <3>2. CASE UNCHANGED starts
      BY <1>3, <1>6, <3>2
    <3> QED BY <2>2, <3>1, <3>2
  <2>5. e # [kind |-> "left"] /\ \A k \in StartIds : e # [kind |-> "unsubscribed", of |-> k]
    BY <1>5, <1>10
  <2> QED BY <1>1, <1>3, <2>2, <2>3, <2>4, <2>5, EventKeeps DEF e
<1>11. CASE e.kind = "left"
  <2>1. /\ UNCHANGED <<starts, queue, forwardings, listening, stopping, channel>>
        /\ client' = [client EXCEPT !.bot = "left"]
        /\ senders' = [p \in Pubs |-> 0]
        /\ causes' = causes \cup {"bot left"}
    BY <1>1, <1>11 DEF Applied, BotLeft
  <2>2. /\ client' \in ClientState /\ client'.send = client.send /\ client'.recv = client.recv
        /\ client'.disposed = client.disposed
    BY <1>3, <2>1 DEF ClientState
  <2>3. senders' \in [Pubs -> 0..MaxStarts] /\ \A p \in Pubs : senders'[p] = 0
    <3>1. 0 \in 0..MaxStarts
      BY ForwardingBounds
    <3> QED BY <2>1, <3>1
  <2>4. \A k \in StartIds : e # [kind |-> "unsubscribed", of |-> k]
    BY <1>5, <1>11
  <2> QED BY <1>1, <1>3, <1>6, <2>1, <2>2, <2>3, <2>4, EventKeeps DEF e
<1>12. e.kind \in {"subscribed", "relayed", "unsubscribed", "unrelayed", "unpublished", "left"}
  BY <1>2 DEF Event
<1> QED BY <1>7, <1>8, <1>9, <1>10, <1>11, <1>12

\* stopPublishing closes what the ended forwarding sent, or came too early for it.
LEMMA StopPublishingKeeps ==
    ASSUME ForwardingIInv, NEW p \in Pubs, StopPublishing(p)
    PROVE  ForwardingIInv'
<1>1. /\ p \in stopping /\ stopping' = stopping \ {p}
      /\ starts' = unproduce(starts, p)
      /\ causes' = IF Overtaken(p) THEN causes \cup {"stop overtook start"} ELSE causes
      /\ UNCHANGED <<queue, senders, forwardings, listening, receivers, client, server, events, channel, troubles>>
  BY DEF StopPublishing
<1>2. causes \subseteq causes' /\ causes' \subseteq causes \cup {"stop overtook start"}
  BY <1>1
<1>3. /\ starts' \in [StartIds -> Sender]
      /\ \A n \in StartIds : /\ Keeps(n)
                             /\ starts'[n].stage = starts[n].stage
                             /\ n # senders[p] => starts'[n] = starts[n]
                             /\ n = senders[p] => starts'[n].producer # "open"
  BY <1>1, Unproduced
<1>4. ForwardingTypeOK'
  <2>1. causes' \subseteq Causes
    BY <1>2 DEF ForwardingIInv, ForwardingTypeOK, Causes
  <2> QED BY <1>1, <1>3, <2>1 DEF ForwardingIInv, ForwardingTypeOK
<1>5. OneStart' /\ StartsMatch'
  BY <1>1, <1>2, <1>3, KeepingStarts
<1>6. TransportsCome'
  <2>1. \A n \in StartIds : starts'[n].options = starts[n].options
    BY <1>3 DEF Keeps
  <2> QED BY <1>1, <1>2, <1>3, <2>1, TransportsFrame DEF ForwardingIInv
<1>7. ReceiversWanted'
  BY <1>1, <1>2, ReceiversFrame DEF ForwardingIInv
<1>8. EndsAreTold'
  <2>1. \A i \in 1..Len(events') : events'[i].kind \in {"unsubscribed", "unrelayed"} =>
            events'[i].of \notin server'.running /\ starts'[events'[i].of].stage \in Past
    <3> TAKE i \in 1..Len(events')
    <3> HAVE events'[i].kind \in {"unsubscribed", "unrelayed"}
    <3>1. i \in 1..Len(events) /\ events[i].of \notin server.running /\ starts[events[i].of].stage \in Past
      BY <1>1 DEF ForwardingIInv, EndsAreTold
    <3>2. events[i] \in Event
      BY <3>1, ForwardingElements
    <3>3. events[i].of \in StartIds
      BY <1>1, <3>2 DEF Event
    <3> QED BY <1>1, <1>3, <3>1, <3>3
  <2>2. PICK m \in StartIds : starts[m].pub = p /\ starts[m].stage \in Past /\ m \notin server.running
    BY <1>1 DEF ForwardingIInv, EndsAreTold
  <2>3. \A q \in stopping' : \E n \in StartIds :
            starts'[n].pub = q /\ starts'[n].stage \in Past /\ n \notin server'.running
    <3> TAKE q \in stopping'
    <3>1. \A r \in stopping : \E k \in StartIds :
              starts[k].pub = r /\ starts[k].stage \in Past /\ k \notin server.running
      BY DEF ForwardingIInv, EndsAreTold
    <3>2. q \in stopping
      BY <1>1
    <3>3. PICK n \in StartIds : starts[n].pub = q /\ starts[n].stage \in Past /\ n \notin server.running
      BY <3>1, <3>2
    <3>4. starts'[n].pub = q
      BY <1>3, <3>3 DEF Keeps
    <3> QED BY <1>1, <1>3, <3>3, <3>4
  <2>4. "started again" \notin causes' /\ ~client'.disposed =>
            \A n \in StartIds : starts'[n].producer = "closed" => n \notin server'.running
    <3> SUFFICES ASSUME "started again" \notin causes', ~client'.disposed,
                        NEW n \in StartIds, starts'[n].producer = "closed"
                 PROVE  n \notin server'.running
      OBVIOUS
    <3>1. "started again" \notin causes
      BY <1>2
    <3>2. CASE starts'[n].producer = starts[n].producer
      BY <1>1, <3>1, <3>2 DEF ForwardingIInv, EndsAreTold
    <3>3. CASE starts'[n].producer # starts[n].producer
      BY <1>1, <2>2, <3>1, <3>3, UnproducedEnded
    <3> QED BY <3>2, <3>3
  <2> QED BY <2>1, <2>3, <2>4 DEF EndsAreTold
<1>9. EndIsHeard'
  <2>1. CASE causes' \cap {"stop overtook start", "started again", "bot left"} # {}
    BY <2>1 DEF EndIsHeard
  <2>2. CASE causes' \cap {"stop overtook start", "started again", "bot left"} = {}
    <3>1. \A k \in StartIds :
              /\ Sends(k) \/ starts[k].stage = "request" => senders[starts[k].pub] = k
              /\ Sends(k) => \/ k \in server.running
                             \/ Coming([kind |-> "unsubscribed", of |-> k])
                             \/ starts[k].pub \in stopping
                             \/ Coming([kind |-> "left"])
      BY <1>2, <2>2 DEF ForwardingIInv, EndIsHeard
    <3>2. \A k \in StartIds : Sends(k)' => Sends(k)
      BY <1>3 DEF Sends, Keeps
    <3>3. \A d : Coming(d)' <=> Coming(d)
      BY <1>1 DEF Coming
    <3>4. ~Overtaken(p)
      BY <1>1, <2>2
    <3>5. ASSUME NEW k \in StartIds
          PROVE  /\ Sends(k)' \/ starts'[k].stage = "request" => senders'[starts'[k].pub] = k
                 /\ Sends(k)' => \/ k \in server'.running
                                 \/ Coming([kind |-> "unsubscribed", of |-> k])'
                                 \/ starts'[k].pub \in stopping'
                                 \/ Coming([kind |-> "left"])'
      <4>1. starts'[k].pub = starts[k].pub
        BY <1>3 DEF Keeps
      <4>2. Sends(k)' \/ starts'[k].stage = "request" => senders'[starts'[k].pub] = k
        BY <1>1, <1>3, <3>1, <3>2, <4>1
      <4>3. Sends(k)' => starts[k].pub # p
        <5> SUFFICES ASSUME Sends(k)', starts[k].pub = p PROVE FALSE
          OBVIOUS
        <5>1. senders[p] = k /\ k # 0
          BY <3>1, <3>2, StartNumbers
        <5>2. starts'[k].producer # "open"
          BY <1>3, <5>1
        <5>3. starts[k].producer # "none"
          BY <3>4, <5>1 DEF Overtaken
        <5>4. starts'[k].stage \notin {"answered", "produce"}
          BY <1>3, <5>3 DEF ForwardingIInv, StartsMatch
        <5> QED BY <5>2, <5>4 DEF Sends
      <4> QED BY <1>1, <3>1, <3>2, <3>3, <4>1, <4>2, <4>3
    <3> QED BY <3>5 DEF EndIsHeard
  <2> QED BY <2>1, <2>2
<1> QED BY <1>4, <1>5, <1>6, <1>7, <1>8, <1>9 DEF ForwardingIInv

-----------------------------------------------------------------------------
(* The invariant                                                           *)

\* At first nothing has happened.
LEMMA ForwardingInitKeeps == ForwardingInit => ForwardingIInv
<1> SUFFICES ASSUME ForwardingInit PROVE ForwardingIInv
  OBVIOUS
<1>1. (CHOOSE p \in Pubs : TRUE) \in Pubs
  BY ForwardingAssumption
<1>2. 0 \in 0..MaxStarts /\ 0 \in 0..MaxTroubles
  BY ForwardingBounds
<1>3. /\ starts \in [StartIds -> Sender]
      /\ \A n \in StartIds : starts[n].stage = "none" /\ starts[n].producer = "none"
  BY <1>1 DEF ForwardingInit, Sender, Stages
<1>4. /\ receivers \in [Subs -> Receiver]
      /\ \A s \in Subs : receivers[s].stage = "idle" /\ receivers[s].consumer = "none"
  BY DEF ForwardingInit, Receiver
<1>5. /\ queue = <<>> /\ queue \in Seq(StartIds) /\ events = <<>> /\ events \in Seq(Event)
      /\ stopping = {} /\ causes = {} /\ troubles = 0 /\ forwardings = {} /\ listening = {}
      /\ client = [send |-> FALSE, recv |-> FALSE, loaded |-> FALSE, bot |-> "joined", disposed |-> FALSE]
      /\ server = [send |-> FALSE, recv |-> FALSE, running |-> {}, pubs |-> [p \in Pubs |-> "there"]]
      /\ channel = [relays |-> {}, subscribed |-> {}, pubs |-> Pubs]
      /\ senders = [p \in Pubs |-> 0]
  BY DEF ForwardingInit
<1>6. ForwardingTypeOK
  BY <1>2, <1>3, <1>4, <1>5 DEF ForwardingTypeOK, Causes
<1>7. OneStart
  BY <1>3, <1>5 DEF OneStart, Busy
<1>8. TransportsCome
  BY <1>3, <1>4, <1>5 DEF TransportsCome
<1>9. ReceiversWanted
  BY <1>4 DEF ReceiversWanted
<1>10. StartsMatch
  BY <1>3, <1>5 DEF StartsMatch, Idle
<1>11. EndsAreTold
  BY <1>3, <1>5 DEF EndsAreTold
<1>12. EndIsHeard
  BY <1>3, <1>5 DEF EndIsHeard, Sends
<1> QED BY <1>6, <1>7, <1>8, <1>9, <1>10, <1>11, <1>12 DEF ForwardingIInv

\* A step of something else.
LEMMA ForwardingStutters == ForwardingIInv /\ UNCHANGED forwardingVars => ForwardingIInv'
<1> SUFFICES ASSUME ForwardingIInv, UNCHANGED forwardingVars PROVE ForwardingIInv'
  OBVIOUS
<1>1. UNCHANGED <<sending, receivers, client, server, events, channel, troubles, causes>>
  BY DEF forwardingVars
<1>2. TransportsCome' /\ ReceiversWanted'
  BY <1>1 DEF sending, ForwardingIInv, TransportsCome, ReceiversWanted
<1>3. receivers \in [Subs -> Receiver] /\ client \in ClientState /\ server \in ServerState
  BY ReceiverTypes, BothTypes DEF ForwardingIInv
<1> QED BY <1>1, <1>2, <1>3, OneReceiverKeeps

\* Every step keeps the invariant.
LEMMA ForwardingStep == ForwardingIInv /\ [ForwardingNext]_forwardingVars => ForwardingIInv'
<1> SUFFICES ASSUME ForwardingIInv, [ForwardingNext]_forwardingVars PROVE ForwardingIInv'
  OBVIOUS
<1>1. CASE UNCHANGED forwardingVars
  BY <1>1, ForwardingStutters
<1>2. CASE ApplyEvent
  BY <1>2, ApplyKeeps
<1>3. ASSUME NEW n \in StartIds, Proceeds(n) PROVE ForwardingIInv'
  BY <1>3, BeginKeeps, ExecuteKeeps, FailingKeeps, AnswerKeepsStart, ProducedKeeps DEF Proceeds
<1>4. ASSUME NEW n \in StartIds,
             \/ \E p \in Pubs : startForwarding(n, p)
             \/ AnswerLost(n) \/ Unwatched(n) \/ stopForwarding(n) \/ EndForwarding(n)
      PROVE  ForwardingIInv'
  BY <1>4, CallKeeps, AnswerLostKeeps, UnwatchedKeeps, StopForwardingKeeps
<1>5. CASE \E p \in Pubs : Unpublish(p) \/ Unpublished(p) \/ StopPublishing(p)
  BY <1>5, OthersKeep, StopPublishingKeeps
<1>6. ASSUME NEW s \in Subs,
             \/ startSubscribing(s) \/ stopSubscribing(s)
             \/ Capabilities(s) \/ Consume(s) \/ ConsumerLost(s) \/ ConsumerAnswered(s)
             \/ Consumed(s) \/ ConsumeFails(s)
      PROVE  ForwardingIInv'
  BY <1>6, PlainKeeps, ConsumeKeeps, ConsumerLostKeeps, ConsumerAnsweredKeeps
<1>7. CASE BotLeaves
  BY <1>7, OthersKeep
<1>8. CASE dispose
  BY <1>8, DisposeKeeps
<1> QED BY <1>1, <1>2, <1>3, <1>4, <1>5, <1>6, <1>7, <1>8 DEF ForwardingNext

\* The invariant of the forwardings: one start at a time, transports that come, starts and
\* producers that match what the SFU runs, and ends that are told and heard.
THEOREM ForwardingInvariance == ForwardingSpec => []ForwardingIInv
<1>1. ForwardingInit => ForwardingIInv
  BY ForwardingInitKeeps
<1>2. ForwardingIInv /\ [ForwardingNext]_forwardingVars => ForwardingIInv'
  BY ForwardingStep
<1> QED BY <1>1, <1>2, PTL DEF ForwardingSpec

\* createProducer and createConsumer find the transport that the answer of some request
\* has made, or one of them will make it, whatever the order of the answers is.
THEOREM TransportsAreAlwaysFound == ForwardingSpec => []TransportsAreFound
<1>1. ForwardingIInv => TransportsAreFound
  BY DEF ForwardingIInv, TransportsCome, TransportsAreFound
<1> QED BY <1>1, ForwardingInvariance, PTL

\* removeSender, for the end of a forwarding, never closes the producer of one that runs:
\* what was started is fed.
THEOREM StartedIsAlwaysFed == ForwardingSpec => []StartedIsFed
<1>1. ForwardingIInv => StartedIsFed
  <2> SUFFICES ASSUME ForwardingIInv, "started again" \notin causes, ~client.disposed,
                      NEW n \in server.running, starts[n].stage = "started"
               PROVE  starts[n].producer = "open"
    BY DEF StartedIsFed
  <2>1. n \in StartIds /\ starts[n] \in Sender
    BY DEF ForwardingIInv, ForwardingTypeOK
  <2>2. starts[n].producer # "none"
    BY <2>1 DEF ForwardingIInv, StartsMatch
  <2>3. starts[n].producer # "closed"
    BY <2>1 DEF ForwardingIInv, EndsAreTold
  <2> QED BY <2>1, <2>2, <2>3 DEF Sender
<1> QED BY <1>1, ForwardingInvariance, PTL

\* When all is handled, nothing is sent or received for nobody, but for the causes named.
THEOREM NothingEverLeaks == ForwardingSpec => []NothingLeaks
<1>1. ForwardingIInv => NothingLeaks
  <2> SUFFICES ASSUME ForwardingIInv, AtRest
               PROVE  /\ causes \cap {"stop overtook start", "started again", "bot left"} = {} =>
                             \A n \in StartIds : starts[n].producer = "open" => n \in server.running
                      /\ "unsubscribe overtook" \notin causes =>
                             \A s \in Subs : receivers[s].consumer = "open" => receivers[s].wanted
    BY DEF NothingLeaks
  <2>1. "unsubscribe overtook" \notin causes =>
            \A s \in Subs : receivers[s].consumer = "open" => receivers[s].wanted
    BY DEF ForwardingIInv, ReceiversWanted
  <2>2. ASSUME causes \cap {"stop overtook start", "started again", "bot left"} = {},
               NEW n \in StartIds, starts[n].producer = "open"
        PROVE  n \in server.running
    <3>1. events = <<>> /\ stopping = {}
      BY DEF AtRest
    <3>2. ~Coming([kind |-> "unsubscribed", of |-> n]) /\ ~Coming([kind |-> "left"])
      BY <3>1 DEF Coming
    <3>3. Sends(n)
      BY <2>2 DEF Sends
    <3> QED BY <2>2, <3>1, <3>2, <3>3 DEF ForwardingIInv, EndIsHeard
  <2> QED BY <2>1, <2>2
<1> QED BY <1>1, ForwardingInvariance, PTL
=============================================================================
