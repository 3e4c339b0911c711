---------------------------- MODULE P2PTransport ----------------------------
(***************************************************************************)
(* The transport under one direction of a peer-to-peer connection: the     *)
(* RTCPeerConnections of a Sender and its Receiver (core/src/plugin/       *)
(* internal/person/connection/{peer,sender,receiver}.ts), the states they  *)
(* show, ICE candidates, and the rounds of Sender.restartIce.              *)
(*                                                                         *)
(* A description is represented by its ICE generation: 1 for the offer of  *)
(* the first add, one more for each restart.  Descriptions are handled one *)
(* at a time in a promise queue, candidates at once.  Whether ICE finds a  *)
(* path is up to the network.                                              *)
(***************************************************************************)
EXTENDS Naturals, Sequences, FiniteSets

CONSTANTS
    MaxRestarts,  \* BackOff.times of restartIce (8 in the code)
    MaxBreaks,    \* bound: disconnected and failed events of a peer
    MaxOffers,    \* bound: offers, the first and those of restarts
    MaxLost       \* bound: signaling messages that are not delivered

ASSUME P2PTransportAssumption == {MaxRestarts, MaxBreaks, MaxOffers, MaxLost} \subseteq Nat

Peers == {"sender", "receiver"}
Loops == 1..MaxBreaks

VARIABLES
    peers,     \* the Peer on each side
    restarts,  \* of the sender: its backoff, and the calls of restartIce
    net,       \* signaling messages on their way to each side
    endpoint,  \* state of the sender's endpoint, the subscribing member
    breaks,
    lost

vars == <<peers, restarts, net, endpoint, breaks, lost>>

Generation == Nat \ {0}
Messages == {"description", "candidate"} \X Generation

PeerType ==
    [pc : {"new", "connecting", "connected", "disconnected", "failed", "closed"},   \* pc.connectionState
     state : {"new", "connecting", "connected", "reconnecting", "disconnected"},    \* _connectionState
     local : Nat, remote : Nat, \* generations of the descriptions
     ice : Nat,                 \* the generation that ICE has begun to check
     stable : BOOLEAN,          \* signalingState
     queue : Seq(Generation),   \* promiseQueue
     busy : BOOLEAN,            \* one of its handlers awaits signaling.send
     pending : BOOLEAN,         \* _pendingCandidates holds some
     early : BOOLEAN]           \* history: first candidates were given to no description

Loop == [id : Loops, phase : {"backoff", "params", "offer", "send", "wait"}]

TypeOK ==
    /\ peers \in [Peers -> PeerType]
    /\ restarts \in [count : 0..MaxRestarts, watching : 0..MaxBreaks, loops : SUBSET Loop]
    /\ \A l, k \in restarts.loops : l.id = k.id => l = k
    /\ net \in [Peers -> Seq(Messages)]
    /\ endpoint \in {"joined", "left"}
    /\ breaks \in 0..MaxBreaks /\ lost \in 0..MaxLost

sender == peers["sender"]
receiver == peers["receiver"]
Other(side) == IF side = "sender" THEN "receiver" ELSE "sender"

Description(g) == <<"description", g>>
Candidate == <<"candidate", 1>>

\* What a peer sends when it has set the local description g: the description, and with
\* it the first candidates (_onICECandidate), which do not wait for the rest of the caller.
\* Candidates of a restart find a remote description, which takes or refuses them at once.
Outgoing(g) ==
    IF g = 1 THEN {<<Description(g), Candidate>>, <<Candidate, Description(g)>>} ELSE {<<Description(g)>>}

\* signaling.send from side: messages arrive in order, but a description may be lost.  A
\* closed peer listens no more.
Send(side, g) ==
    LET Arrives(out) == net' = IF peers[Other(side)].pc = "closed" THEN net ELSE [net EXCEPT ![Other(side)] = @ \o out]
    IN  \/ UNCHANGED lost /\ \E out \in Outgoing(g) : Arrives(out)
        \/ /\ lost < MaxLost /\ lost' = lost + 1
           /\ Arrives(IF g = 1 THEN <<Candidate>> ELSE <<>>)

----------------------------------------------------------------------------
(* Candidates.                                                             *)

\* Candidates are given to the remote description; a failure is only logged.
resolveCandidates(p) == [p EXCEPT !.pending = FALSE, !.early = @ \/ (p.remote = 0 /\ p.pending)]

\* Without a remote description the candidate waits.
handleCandidate(p) ==
    IF p.remote = 0 THEN [p EXCEPT !.pending = TRUE] ELSE resolveCandidates([p EXCEPT !.pending = TRUE])

Queued(p, g) == [p EXCEPT !.queue = Append(@, g)]

\* signaling.onMessage: a description waits for its turn.
onMessage(side) ==
    /\ net[side] # <<>>
    /\ net' = [net EXCEPT ![side] = Tail(@)]
    /\ peers' = [peers EXCEPT ![side] =
           IF Head(net[side])[1] = "candidate" THEN handleCandidate(@) ELSE Queued(@, Head(net[side])[2])]
    /\ UNCHANGED <<restarts, endpoint, breaks, lost>>

----------------------------------------------------------------------------
(* Descriptions.                                                           *)

\* The first offer.  What other publications offer keeps the generation.
add ==
    /\ sender.local = 0 /\ sender.pc # "closed"
    /\ peers' = [peers EXCEPT !["sender"].local = 1, !["sender"].stable = FALSE]
    /\ Send("sender", 1)
    /\ UNCHANGED <<restarts, endpoint, breaks>>

Starts(side) == ~peers[side].busy /\ peers[side].queue # <<>>
Taken(p) == [p EXCEPT !.queue = Tail(@)]

\* Faulty variant: candidates that wait are left to the next one.
_handleReceiverAnswerOnly ==
    /\ Starts("sender")
    /\ peers' = [peers EXCEPT !["sender"] =
           IF @.stable THEN Taken(@)
           ELSE [Taken(@) EXCEPT !.remote = Head(sender.queue), !.stable = TRUE, !.busy = TRUE]]
    /\ UNCHANGED <<restarts, net, endpoint, breaks, lost>>

\* _handleReceiverAnswer up to _resolvePendingSender.  setRemoteDescription throws when no
\* offer is open.
_handleReceiverAnswer ==
    /\ Starts("sender")
    /\ peers' = [peers EXCEPT !["sender"] =
           IF @.stable THEN Taken(@)
           ELSE resolveCandidates([Taken(@) EXCEPT !.remote = Head(sender.queue), !.stable = TRUE, !.busy = TRUE])]
    /\ UNCHANGED <<restarts, net, endpoint, breaks, lost>>

\* What waited has been offered.
AnswerHandled ==
    /\ sender.busy
    /\ peers' = [peers EXCEPT !["sender"].busy = FALSE]
    /\ UNCHANGED <<restarts, net, endpoint, breaks, lost>>

\* _handleSenderProduce and _handleSenderRestartIce up to the signaling.send of sendAnswer.
handleOffer ==
    /\ Starts("receiver")
    /\ LET g == Head(receiver.queue)
           shown == IF g = 1 THEN receiver.state ELSE "reconnecting"
       IN  /\ peers' = [peers EXCEPT !["receiver"] =
                  [Taken(@) EXCEPT !.remote = g, !.local = g, !.busy = TRUE, !.state = shown]]
           /\ Send("receiver", g)
    /\ UNCHANGED <<restarts, endpoint, breaks>>

\* Faulty variant: the state is left to the events of the connection.
OfferHandledSilently ==
    /\ receiver.busy
    /\ peers' = [peers EXCEPT !["receiver"] = [resolveCandidates(@) EXCEPT !.busy = FALSE]]
    /\ UNCHANGED <<restarts, net, endpoint, breaks, lost>>

\* The end of the handler of an offer.
OfferHandled ==
    /\ receiver.busy
    /\ LET shown == IF receiver.pc = "connected" /\ receiver.remote > 1 THEN "connected" ELSE receiver.state
       IN  peers' = [peers EXCEPT !["receiver"] = [resolveCandidates(@) EXCEPT !.busy = FALSE, !.state = shown]]
    /\ UNCHANGED <<restarts, net, endpoint, breaks, lost>>

----------------------------------------------------------------------------
(* Sender.restartIce: what a call of it makes of t, the state without it.  *)

Without(l) == [state |-> sender.state, count |-> restarts.count, loops |-> restarts.loops \ {l}]

goesOn(t, l, phase) == [t EXCEPT !.loops = @ \cup {[l EXCEPT !.phase = phase]}]

\* Up to the backoff; BackOff.wait counts first.
restartIce(t, l) ==
    IF t.count >= MaxRestarts THEN [t EXCEPT !.state = "disconnected"]
    ELSE goesOn([t EXCEPT !.state = "reconnecting", !.count = @ + 1], l, "backoff")

\* How checkNeedEnd ends it.
NeedEnd == endpoint = "left" \/ sender.pc = "connected"
ended(t) ==
    IF endpoint = "left" THEN [t EXCEPT !.state = "disconnected"]
    ELSE [t EXCEPT !.state = "connected", !.count = 0]

\* The sender is p but for the state that it shows.
BecomesWith(p, t) ==
    /\ restarts' = [restarts EXCEPT !.count = t.count, !.loops = t.loops]
    /\ peers' = [peers EXCEPT !["sender"] = [p EXCEPT !.state = t.state]]
Becomes(t) == BecomesWith(sender, t) /\ UNCHANGED <<net, lost>>

BackoffOver(l) ==
    /\ l.phase = "backoff"
    /\ Becomes(IF NeedEnd THEN ended(Without(l)) ELSE goesOn(Without(l), l, "params"))

\* IceManager.updateIceParams fails.
ParamsFail(l) == l.phase = "params" /\ Becomes(restartIce(Without(l), l))

\* A closed connection throws.
ParamsUpdated(l) ==
    /\ l.phase = "params"
    /\ Becomes(IF sender.pc = "closed" THEN Without(l)
               ELSE IF NeedEnd THEN ended(Without(l)) ELSE goesOn(Without(l), l, "offer"))

\* The restart waits for signaling, in vain or not, and has to end.
SignalingOver(l) == l.phase = "offer" /\ NeedEnd /\ Becomes(ended(Without(l)))

\* createOffer and setLocalDescription, whatever offer is still open.
Offer(l) ==
    /\ l.phase = "offer"
    /\ IF sender.pc = "closed" THEN Becomes(Without(l))
       ELSE /\ sender.local < MaxOffers
            /\ BecomesWith([sender EXCEPT !.local = @ + 1, !.stable = FALSE], goesOn(Without(l), l, "send"))
            /\ Send("sender", sender.local + 1)

\* signaling.send fails, also when the message was delivered.
SendFails(l) == l.phase = "send" /\ Becomes(restartIce(Without(l), l))

Sent(l) ==
    /\ l.phase = "send"
    /\ Becomes(IF sender.pc = "connected" THEN ended(Without(l)) ELSE goesOn(Without(l), l, "wait"))

\* Faulty variant: the restart ends with the wait.
WaitExpiresOnce(l) == l.phase = "wait" /\ Becomes(Without(l))

\* waitForConnectionState rejects after iceDisconnectBufferTimeout.
WaitExpires(l) == l.phase = "wait" /\ Becomes(restartIce(Without(l), l))

Advance(i) ==
    /\ \E l \in restarts.loops :
          /\ l.id = i
          /\ \/ BackoffOver(l) \/ ParamsFail(l) \/ ParamsUpdated(l) \/ SignalingOver(l)
             \/ Offer(l) \/ SendFails(l) \/ Sent(l) \/ WaitExpires(l)
    /\ UNCHANGED <<endpoint, breaks>>

----------------------------------------------------------------------------
(* The events of the connections.                                          *)

\* ICE begins with a generation that both descriptions have.
PcConnecting(side) ==
    /\ LET p == peers[side]
       IN  p.pc # "closed" /\ p.ice < p.remote
    /\ peers' = [peers EXCEPT ![side].pc = "connecting", ![side].state = "connecting", ![side].ice = peers[side].remote]
    /\ UNCHANGED <<restarts, net, endpoint, breaks, lost>>

\* The handlers of a loss end, and the restarts that wait for the connection.  Candidates
\* that still wait are dropped.
PcConnected(side) ==
    /\ peers[side].pc \in {"connecting", "disconnected"}
    /\ LET waiting == {l \in restarts.loops : l.phase = "wait"}
       IN  IF side = "receiver"
           THEN /\ peers' = [peers EXCEPT ![side].pc = "connected", ![side].pending = FALSE, ![side].state = "connected"]
                /\ UNCHANGED restarts
           ELSE /\ peers' = [peers EXCEPT ![side].pc = "connected", ![side].pending = FALSE,
                       ![side].state = IF waiting # {} /\ endpoint = "left" THEN "disconnected" ELSE "connected"]
                /\ restarts' = [count |-> IF waiting # {} /\ endpoint # "left" THEN 0 ELSE restarts.count,
                                watching |-> 0, loops |-> restarts.loops \ waiting]
    /\ UNCHANGED <<net, endpoint, breaks, lost>>

\* disconnected or failed: the sender gives it some time, the receiver shows only failed.
PcBreaks(side) ==
    /\ breaks < MaxBreaks
    /\ breaks' = breaks + 1
    /\ \E pc \in {"disconnected", "failed"} :
          /\ peers[side].pc \in {"connecting", "connected"} \/ (peers[side].pc = "disconnected" /\ pc = "failed")
          /\ IF side = "sender"
             THEN /\ peers' = [peers EXCEPT ![side].pc = pc]
                  /\ restarts' = [restarts EXCEPT !.watching = @ + 1]
             ELSE /\ peers' = [peers EXCEPT ![side].pc = pc, ![side].state = IF pc = "failed" THEN "disconnected" ELSE @]
                  /\ UNCHANGED restarts
    /\ UNCHANGED <<net, endpoint, lost>>

\* The time is over and the connection has not come back.
LossConfirmed ==
    /\ restarts.watching > 0
    /\ LET l == [id |-> CHOOSE i \in Loops : i \notin {k.id : k \in restarts.loops}, phase |-> "backoff"]
           t == IF sender.state = "reconnecting" THEN Without(l) ELSE restartIce(Without(l), l)
       IN  /\ restarts' = [count |-> t.count, watching |-> restarts.watching - 1, loops |-> t.loops]
           /\ peers' = [peers EXCEPT !["sender"].state = t.state]
    /\ UNCHANGED <<net, endpoint, breaks, lost>>

\* Each side closes its connection by itself; what was queued for it does nothing any more.
close(side) ==
    /\ peers[side].pc # "closed"
    /\ peers' = [peers EXCEPT ![side] =
           [@ EXCEPT !.pc = "closed", !.state = "disconnected", !.queue = <<>>, !.pending = FALSE, !.busy = FALSE]]
    /\ net' = [net EXCEPT ![side] = <<>>]
    /\ UNCHANGED <<restarts, endpoint, breaks, lost>>

EndpointLeaves ==
    /\ endpoint = "joined"
    /\ endpoint' = "left"
    /\ UNCHANGED <<peers, restarts, net, breaks, lost>>

----------------------------------------------------------------------------
Init ==
    /\ peers = [side \in Peers |->
           [pc |-> "new", state |-> "new", local |-> 0, remote |-> 0, ice |-> 0, stable |-> TRUE,
            queue |-> <<>>, busy |-> FALSE, pending |-> FALSE, early |-> FALSE]]
    /\ restarts = [count |-> 0, watching |-> 0, loops |-> {}]
    /\ net = [side \in Peers |-> <<>>]
    /\ endpoint = "joined"
    /\ breaks = 0
    /\ lost = 0

Next ==
    \/ add \/ _handleReceiverAnswer \/ AnswerHandled \/ handleOffer \/ OfferHandled
    \/ \E side \in Peers : \/ onMessage(side) \/ close(side)
                           \/ PcConnecting(side) \/ PcConnected(side) \/ PcBreaks(side)
    \/ \E i \in Loops : Advance(i)
    \/ LossConfirmed \/ EndpointLeaves

\* Requests are answered or fail, and timers fire.
Fairness == WF_vars(LossConfirmed \/ \E i \in Loops : Advance(i))

Spec == Init /\ [][Next]_vars /\ Fairness

----------------------------------------------------------------------------
(* Properties.                                                             *)

\* Whatever a candidate overtakes: when no description is being handled, no candidate
\* waits that a description could take, and those of the first connection were never
\* given to a description that cannot use them.
CandidatesReachDescription ==
    /\ TypeOK
    /\ \A side \in Peers :
          LET p == peers[side]
          IN  /\ ~p.busy /\ p.remote > 0 => ~p.pending
              /\ ~p.early

\* When no restart is under way and no loss is being waited for, the sender shows the
\* state its connection is in, and the next loss has all its attempts; unless the attempts
\* were used up.  The receiver shows that it is connected when it has handled its offers.
StatesAgree ==
    /\ restarts.loops = {} /\ restarts.watching = 0 /\ endpoint = "joined" =>
          /\ sender.pc = "connected" => (sender.state = "connected" /\ restarts.count = 0) \/ restarts.count = MaxRestarts
          /\ sender.pc \in {"disconnected", "failed"} => sender.state = "disconnected"
    /\ ~receiver.busy /\ receiver.pc = "connected" => receiver.state = "connected"

\* The sender shows that it reconnects, and where the bound stops its offer.
Reconnecting == sender.state = "reconnecting" /\ sender.pc # "closed"
CutShort == sender.local = MaxOffers /\ \E l \in restarts.loops : l.phase = "offer"
=============================================================================
