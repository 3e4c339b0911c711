--------------------------- MODULE P2PNegotiation ---------------------------
(***************************************************************************)
(* One direction of a peer-to-peer connection: the Sender of the person    *)
(* that publishes and the Receiver of the person that subscribes (core/    *)
(* src/plugin/internal/person/connection/{sender,receiver,index}.ts), with *)
(* the two signaling queues between them.                                  *)
(*                                                                         *)
(* A publication is produced by an offer that adds an m-line and ends with *)
(* an offer that makes the m-line inactive; all data publications share    *)
(* one m-line, which has no direction.  The sender runs one negotiation at *)
(* a time and keeps what comes meanwhile in _pendingPublications;          *)
(* restartIce offers on its own.  An SDP is represented by its m-lines.    *)
(*                                                                         *)
(* add and remove await createOffer and setLocalDescription before they    *)
(* send: what they do up to the first await is one step and sendOffer the  *)
(* other, and restartIce, which nothing keeps out, may come in between.    *)
(* The handlers of messages are one action each: they run one at a time,   *)
(* in promise queues.                                                      *)
(***************************************************************************)
EXTENDS Integers, Sequences, FiniteSets, Functions

CONSTANTS
    MediaPubs,      \* publications of audio and video
    DataPubs,       \* publications of data
    MaxStarts,      \* bound: calls of startPublishing
    MaxRestarts,    \* bound: offers made by restartIce
    MaxLost         \* bound: signaling messages that are never delivered

NoMid   == 0
AppLine == "application"   \* stands in for the publication of the data m-line

ASSUME PubsAreDisjoint == MediaPubs \cap DataPubs = {} /\ AppLine \notin MediaPubs
ASSUME BoundsAreNat == MaxStarts \in Nat /\ MaxRestarts \in Nat /\ MaxLost \in Nat

VARIABLES
    sender,        \* the Sender and its RTCPeerConnection
    receiver,      \* the Receiver and its RTCPeerConnection
    toReceiver,    \* signaling messages on their way to the receiver
    toSender,      \* signaling messages on their way to the sender
    starts, restarts, lost,   \* what the bounds count
    wanted,        \* history: the publications started and not stopped since
    skippedStops,  \* history: publications whose stop came during a negotiation
    refusedMids,   \* history: m-lines the receiver refused an offer for
    orphanMids,    \* history: m-lines whose track had no publicationInfo
    crossed,       \* history: an answer was applied to an offer it does not answer
    raced          \* history: restartIce offered while add or remove awaited

counters == <<starts, restarts, lost>>
history  == <<wanted, skippedStops, refusedMids, orphanMids, crossed, raced>>
vars     == <<sender, receiver, toReceiver, toSender, counters, history>>

-----------------------------------------------------------------------------
(* Types                                                                   *)

Pub == MediaPubs \cup DataPubs

Mid   == Nat \ {NoMid}
MLine == [mid : Mid, pub : MediaPubs \cup {AppLine}, active : BOOLEAN]

\* An element of _pendingPublications: a publication to add, or an id to remove.
PendingOp == [op : {"add", "remove"}, pub : Pub]

\* An add or remove that awaits; stale when restartIce has offered meanwhile.
AwaitingOp == [kind : {"produce", "unproduce"}, pub : Pub, mid : Nat, stale : BOOLEAN]

Offers  == [kind : {"produce", "unproduce"}, offer : Nat, mlines : Seq(MLine), pub : Pub,
            mid : Nat]
             \cup [kind : {"restartIce"}, offer : Nat, mlines : Seq(MLine)]
Answers == [kind : {"answer"}, offer : Nat, mids : Seq(Mid)]

SenderType == [publications    : SUBSET Pub,
               opening         : SUBSET DataPubs,   \* data channels not yet open
               pending         : Seq(PendingOp),
               isNegotiating   : BOOLEAN,
               signalingState  : {"stable", "have-local-offer", "closed"},
               offering        : Seq(AwaitingOp),
               mlines          : Seq(MLine),     \* what createOffer would return now
               made            : Nat,            \* m-lines made so far
               local           : Seq(MLine),     \* the local description
               offer           : Nat,            \* number of that description
               answered        : SUBSET Mid]     \* m-lines of the remote description

ReceiverType == [publicationInfo : [Pub -> Nat],   \* the mid, NoMid when absent
                 streams         : SUBSET Pub,
                 trackMids       : SUBSET Mid,     \* m-lines that had their ontrack
                 closed          : BOOLEAN]

TypeOK == /\ sender \in SenderType
          /\ receiver \in ReceiverType
          /\ toReceiver \in Seq(Offers)
          /\ toSender \in Seq(Answers)
          /\ starts \in Nat /\ restarts \in Nat /\ lost \in Nat
          /\ wanted \subseteq Pub /\ skippedStops \subseteq Pub
          /\ refusedMids \subseteq Mid /\ orphanMids \subseteq Mid
          /\ crossed \in BOOLEAN /\ raced \in BOOLEAN

-----------------------------------------------------------------------------
(* Session descriptions                                                    *)

Mids(mlines) == [i \in 1..Len(mlines) |-> mlines[i].mid]

\* The m-lines that are neither stopped nor recycled.
ActiveLines(mlines) == {l \in Range(mlines) : l.active}

LinesOf(mlines, p) == {l \in ActiveLines(mlines) : l.pub = p}

Line(mid, p) == [mid |-> mid, pub |-> p, active |-> TRUE]

\* createOffer puts a new m-line where a stopped one was, else at the end.
WithLine(mlines, line) ==
    LET stopped == {i \in 1..Len(mlines) : ~mlines[i].active}
    IN  IF stopped = {}
        THEN Append(mlines, line)
        ELSE [mlines EXCEPT ![CHOOSE i \in stopped : \A j \in stopped : i <= j] = line]

\* transceiver.stop(): the m-line of the publication's transceiver becomes inactive.
WithoutLine(mlines, mid) ==
    [i \in 1..Len(mlines) |-> IF mlines[i].mid = mid
                              THEN [mlines[i] EXCEPT !.active = FALSE]
                              ELSE mlines[i]]

-----------------------------------------------------------------------------
(* Sender: what each operation makes of the sender s                       *)

Busy(s) == s.isNegotiating \/ s.signalingState # "stable"

\* createOffer and setLocalDescription.
Offering(s) == [s EXCEPT !.local = s.mlines,
                         !.offer = @ + 1,
                         !.signalingState = "have-local-offer"]

\* The m-line that carries p: a data channel uses the application m-line, a
\* transceiver has one of its own.
midFor(s, p) ==
    IF p \in DataPubs /\ LinesOf(s.mlines, AppLine) # {}
    THEN (CHOOSE l \in LinesOf(s.mlines, AppLine) : TRUE).mid
    ELSE s.made + 1

\* createDataChannel or addTransceiver.
WithPublication(s, p) ==
    LET line == Line(midFor(s, p), IF p \in MediaPubs THEN p ELSE AppLine)
    IN  IF line \in Range(s.mlines) THEN s
        ELSE [s EXCEPT !.mlines = WithLine(@, line), !.made = @ + 1]

Await(s, kind, p, mid) ==
    [s EXCEPT !.isNegotiating = TRUE,
              !.offering = Append(@, [kind |-> kind, pub |-> p, mid |-> mid, stale |-> FALSE])]

\* Sender.add up to createOffer
add(s, p) ==
    IF Busy(s)
    THEN [s EXCEPT !.pending = Append(@, [op |-> "add", pub |-> p])]
    ELSE Await([WithPublication(s, p) EXCEPT !.publications = @ \cup {p},
                                             !.opening = @ \cup ({p} \cap DataPubs)],
               "produce", p, midFor(s, p))

\* transceivers[publicationId]: the latest m-line made for the publication.
transceiverMid(s, p) == LET ls == LinesOf(s.mlines, p)
                        IN  (CHOOSE l \in ls : \A k \in ls : k.mid <= l.mid).mid

\* Closes the data channel or stops the transceiver of p.
WithoutPublication(s, p) ==
    IF p \in DataPubs
    THEN [s EXCEPT !.opening = @ \ {p}]
    ELSE [s EXCEPT !.mlines = WithoutLine(@, transceiverMid(s, p))]

\* Faulty variant: does not wait for the negotiation that is under way.
removeAtOnce(s, p) ==
    IF p \notin s.publications THEN s
    ELSE Await(WithoutPublication([s EXCEPT !.publications = @ \ {p}], p), "unproduce", p, NoMid)

\* Sender.remove up to createOffer.  The publication is deleted before the
\* negotiation is looked at.
remove(s, p) ==
    LET s1 == [s EXCEPT !.publications = @ \ {p}]
    IN  IF p \notin s.publications THEN s
        ELSE IF Busy(s) THEN [s1 EXCEPT !.pending = Append(@, [op |-> "remove", pub |-> p])]
        ELSE Await(WithoutPublication(s1, p), "unproduce", p, NoMid)

\* _resolvePendingSender takes one element, whatever comes of it.
resolvePendingSender(s) ==
    IF s.pending = <<>> THEN s
    ELSE LET head == Head(s.pending)
             s1   == [s EXCEPT !.pending = Tail(@)]
         IN  IF head.op = "add" THEN add(s1, head.pub) ELSE remove(s1, head.pub)

\* The peer connection of the sender is closed: what was awaited rejects.
closed(s) == [s EXCEPT !.signalingState = "closed", !.offering = <<>>]

-----------------------------------------------------------------------------
(* Signaling: messages arrive in order; a send may fail for good           *)

Send(queue, out) ==
    \/ queue' = queue \o out /\ UNCHANGED lost
    \/ out # <<>> /\ lost < MaxLost /\ lost' = lost + 1 /\ UNCHANGED queue

-----------------------------------------------------------------------------
(* The publishing person                                                   *)

Init == /\ sender = [publications |-> {}, opening |-> {}, pending |-> <<>>,
                     isNegotiating |-> FALSE, signalingState |-> "stable",
                     offering |-> <<>>, mlines |-> <<>>, made |-> 0,
                     local |-> <<>>, offer |-> 0, answered |-> {}]
        /\ receiver = [publicationInfo |-> [p \in Pub |-> NoMid], streams |-> {},
                       trackMids |-> {}, closed |-> FALSE]
        /\ toReceiver = <<>> /\ toSender = <<>>
        /\ starts = 0 /\ restarts = 0 /\ lost = 0
        /\ wanted = {} /\ skippedStops = {} /\ refusedMids = {} /\ orphanMids = {}
        /\ crossed = FALSE /\ raced = FALSE

\* The remote person subscribed to p.
startPublishing(p) ==
    /\ p \notin wanted
    /\ starts < MaxStarts
    /\ starts' = starts + 1
    /\ wanted' = wanted \cup {p}
    /\ sender' = add(sender, p)
    /\ UNCHANGED <<receiver, toReceiver, toSender, restarts, lost, skippedStops,
                   refusedMids, orphanMids, crossed, raced>>

\* The subscription to p ended; _closeIfNeeded closes the connection when neither
\* direction has media, and the other direction may be empty.
stopPublishing(p) ==
    /\ p \in wanted
    /\ wanted' = wanted \ {p}
    /\ skippedStops' = IF Busy(sender) THEN skippedStops \cup {p} ELSE skippedStops
    /\ LET s == remove(sender, p)
       IN  sender' \in {s} \cup (IF s.publications = {} THEN {closed(s)} ELSE {})
    /\ UNCHANGED <<receiver, toReceiver, toSender, counters,
                   refusedMids, orphanMids, crossed, raced>>

\* The message of an awaiting operation, with the local description of s.
Message(s, op) == [kind |-> op.kind, offer |-> s.offer, mlines |-> s.local,
                   pub |-> op.pub, mid |-> op.mid]

\* The rest of add or remove.  If restartIce has offered meanwhile, setLocalDescription
\* may refuse the older offer, or the message may go out with the newer one.
sendOffer ==
    /\ sender.offering # <<>>
    /\ LET op   == Head(sender.offering)
           s    == [sender EXCEPT !.offering = Tail(@)]
       IN  \/ /\ sender' = Offering(s)
              /\ Send(toReceiver, <<Message(Offering(s), op)>>)
           \/ /\ op.stale
              /\ sender' = s
              /\ Send(toReceiver, <<Message(s, op)>>)
           \/ /\ op.stale
              /\ sender' = s
              /\ UNCHANGED <<toReceiver, lost>>
    /\ UNCHANGED <<receiver, toSender, starts, restarts, history>>

\* An answer fits the local description when it has the same m-lines.
Fits(answer) == /\ sender.signalingState = "have-local-offer"
                /\ answer.mids = Mids(sender.local)

\* ... or only after the pending queue was looked at.
handleReceiverAnswerResolvesFirst ==
    /\ toSender # <<>>
    /\ Fits(Head(toSender))
    /\ toSender' = Tail(toSender)
    /\ crossed' = (crossed \/ Head(toSender).offer # sender.offer)
    /\ sender' = [resolvePendingSender(
                    [sender EXCEPT !.signalingState = "stable",
                                   !.answered = Range(Head(toSender).mids)])
                  EXCEPT !.isNegotiating = FALSE]
    /\ UNCHANGED <<receiver, toReceiver, counters, wanted, skippedStops, refusedMids,
                   orphanMids, raced>>

\* _handleReceiverAnswer, its awaits before _isNegotiating is cleared included: add and
\* remove find the sender busy up to there.  While it resolves a pending operation, the
\* promise queue holds the next answer back; only after restartIce is there one to hold.
handleReceiverAnswer ==
    /\ toSender # <<>>
    /\ Fits(Head(toSender))
    /\ toSender' = Tail(toSender)
    /\ crossed' = (crossed \/ Head(toSender).offer # sender.offer)
    /\ sender' = resolvePendingSender(
                   [sender EXCEPT !.signalingState = "stable",
                                  !.isNegotiating = FALSE,
                                  !.answered = Range(Head(toSender).mids)])
    /\ UNCHANGED <<receiver, toReceiver, counters, wanted, skippedStops, refusedMids,
                   orphanMids, raced>>

\* setRemoteDescription rejects, or the connection is closed: nothing else happens.
ignoreReceiverAnswer ==
    /\ toSender # <<>>
    /\ ~Fits(Head(toSender))
    /\ toSender' = Tail(toSender)
    /\ UNCHANGED <<sender, receiver, toReceiver, counters, history>>

\* One round of restartIce, from createOffer to send: it looks neither at _isNegotiating
\* nor at the queue.
restartIce ==
    /\ restarts < MaxRestarts
    /\ sender.signalingState # "closed"
    /\ sender.answered # {}
    /\ restarts' = restarts + 1
    /\ raced' = (raced \/ sender.offering # <<>>)
    /\ LET s == Offering([sender EXCEPT
                   !.offering = [i \in DOMAIN @ |-> [@[i] EXCEPT !.stale = TRUE]]])
       IN  /\ sender' = s
           /\ Send(toReceiver, <<[kind |-> "restartIce", offer |-> s.offer,
                                  mlines |-> s.local]>>)
    /\ UNCHANGED <<receiver, toSender, starts, wanted, skippedStops, refusedMids,
                   orphanMids, crossed>>

-----------------------------------------------------------------------------
(* The subscribing person                                                  *)

Incoming(kind) == toReceiver # <<>> /\ Head(toReceiver).kind = kind

\* The m-lines of an offer that no publicationInfo accounts for.
Unaccounted(mlines, info) ==
    {l.mid : l \in {k \in ActiveLines(mlines) : \A p \in Pub : info[p] # k.mid}}

\* Faulty variant: info is stored after setRemoteDescription has raised ontrack.
sendAnswerBeforeInfo(msg, info) ==
    LET fresh == {l \in ActiveLines(msg.mlines) :
                     l.pub # AppLine /\ l.mid \notin receiver.trackMids}
        known(l) == \E p \in Pub : receiver.publicationInfo[p] = l.mid
    IN  /\ receiver' = [receiver EXCEPT
              !.publicationInfo = info,
              !.trackMids = @ \cup {l.mid : l \in ActiveLines(msg.mlines)}]
        /\ orphanMids' = orphanMids \cup {l.mid : l \in {k \in fresh : ~known(k)}}
        /\ Send(toSender, <<[kind |-> "answer", offer |-> msg.offer,
                             mids |-> Mids(msg.mlines)]>>)

\* sendAnswer.  setRemoteDescription raises ontrack for every media m-line that is new.
sendAnswer(msg, info) ==
    LET fresh == {l \in ActiveLines(msg.mlines) :
                     l.pub # AppLine /\ l.mid \notin receiver.trackMids}
    IN  /\ receiver' = [receiver EXCEPT
              !.publicationInfo = info,
              !.trackMids = @ \cup {l.mid : l \in ActiveLines(msg.mlines)},
              !.streams = @ \cup {p \in Pub : \E l \in fresh : info[p] = l.mid}]
        /\ orphanMids' = orphanMids
              \cup {l.mid : l \in {k \in fresh : \A p \in Pub : info[p] # k.mid}}
        /\ Send(toSender, <<[kind |-> "answer", offer |-> msg.offer,
                             mids |-> Mids(msg.mlines)]>>)

handleSenderProduce ==
    /\ Incoming("produce")
    /\ ~receiver.closed
    /\ LET msg     == Head(toReceiver)
           info    == [receiver.publicationInfo EXCEPT ![msg.pub] = msg.mid]
           missing == Unaccounted(msg.mlines, info)
       IN  \/ /\ missing = {}
              /\ sendAnswer(msg, info)
              /\ UNCHANGED refusedMids
           \/ /\ missing # {}   \* _validateRemoteOffer throws: no answer is sent
              /\ receiver' = [receiver EXCEPT !.publicationInfo = info]
              /\ refusedMids' = refusedMids \cup missing
              /\ UNCHANGED <<toSender, lost, orphanMids>>
    /\ toReceiver' = Tail(toReceiver)
    /\ UNCHANGED <<sender, starts, restarts, wanted, skippedStops, crossed, raced>>

\* Faulty variant: the publicationInfo stays.
handleSenderUnproduceKeepsInfo ==
    /\ Incoming("unproduce")
    /\ ~receiver.closed
    /\ sendAnswer(Head(toReceiver), receiver.publicationInfo)
    /\ toReceiver' = Tail(toReceiver)
    /\ UNCHANGED <<sender, starts, restarts, wanted, skippedStops, refusedMids, crossed, raced>>

handleSenderUnproduce ==
    /\ Incoming("unproduce")
    /\ ~receiver.closed
    /\ LET msg == Head(toReceiver)
       IN  sendAnswer(msg, [receiver.publicationInfo EXCEPT ![msg.pub] = NoMid])
    /\ toReceiver' = Tail(toReceiver)
    /\ UNCHANGED <<sender, starts, restarts, wanted, skippedStops, refusedMids, crossed, raced>>

handleSenderRestartIce ==
    /\ Incoming("restartIce")
    /\ ~receiver.closed
    /\ sendAnswer(Head(toReceiver), receiver.publicationInfo)
    /\ toReceiver' = Tail(toReceiver)
    /\ UNCHANGED <<sender, starts, restarts, wanted, skippedStops, refusedMids, crossed, raced>>

\* The signaling state of the receiver is closed: the handlers return at once.
ignoreOffer ==
    /\ toReceiver # <<>>
    /\ receiver.closed
    /\ toReceiver' = Tail(toReceiver)
    /\ UNCHANGED <<sender, receiver, toSender, counters, history>>

\* ondatachannel: the transport of the application m-line is up, and the label of
\* the channel names the publication.
ondatachannel(p) ==
    /\ p \in sender.opening
    /\ ~receiver.closed
    /\ \E l \in LinesOf(sender.local, AppLine) : l.mid \in sender.answered
    /\ sender' = [sender EXCEPT !.opening = @ \ {p}]
    /\ receiver' = [receiver EXCEPT !.streams = @ \cup {p}]
    /\ UNCHANGED <<toReceiver, toSender, counters, history>>

\* The subscription to p ended on this side; _closeIfNeeded as above.
stopSubscribing(p) ==
    /\ p \in receiver.streams
    /\ LET left == [receiver EXCEPT !.streams = @ \ {p}]
       IN  receiver' \in {left} \cup
                            (IF left.streams = {} THEN {[left EXCEPT !.closed = TRUE]} ELSE {})
    /\ UNCHANGED <<sender, toReceiver, toSender, counters, history>>

-----------------------------------------------------------------------------

Handle == \/ sendOffer
          \/ handleReceiverAnswer \/ ignoreReceiverAnswer
          \/ handleSenderProduce \/ handleSenderUnproduce \/ handleSenderRestartIce
          \/ ignoreOffer

Next == \/ \E p \in Pub : startPublishing(p) \/ stopPublishing(p)
        \/ restartIce
        \/ Handle
        \/ \E p \in DataPubs : ondatachannel(p)
        \/ \E p \in Pub : stopSubscribing(p)

Spec == Init /\ [][Next]_vars

\* Signaling delivers, and the handlers of what was delivered run.
FairSpec == Spec /\ WF_vars(Handle)

-----------------------------------------------------------------------------
(* Properties                                                              *)

\* Nothing is under way between the two peers.
AtRest == toReceiver = <<>> /\ toSender = <<>> /\ sender.offering = <<>> /\ ~Busy(sender)

\* No message was lost and nobody closed the connection.
Intact == lost = 0 /\ sender.signalingState # "closed" /\ ~receiver.closed

(***************************************************************************)
(* When nothing is under way, the receiver knows exactly the publications  *)
(* that are wanted, each by the m-line that carries it, unless a stop came *)
(* during a negotiation or an ICE restart during an add or remove.         *)
(***************************************************************************)
AgreementAtRest ==
    /\ TypeOK
    /\ AtRest /\ Intact /\ ~raced /\ skippedStops = {} /\ refusedMids = {} =>
          /\ sender.pending = <<>>
          /\ \A p \in Pub : (receiver.publicationInfo[p] # NoMid) <=> p \in wanted
          /\ \A p \in wanted \cap MediaPubs :
                LinesOf(sender.mlines, p) = {Line(receiver.publicationInfo[p], p)}

(***************************************************************************)
(* A track never reaches the receiver before the information which         *)
(* publication it belongs to: an ICE restart that offers its m-line comes  *)
(* after the message that announces it, except in the middle of an add.    *)
(***************************************************************************)
TracksAreKnown == ~raced /\ skippedStops = {} /\ refusedMids = {} /\ lost = 0 => orphanMids = {}

(***************************************************************************)
(* An ICE restart is the only way in which an answer can be taken for the  *)
(* answer to another offer.                                                *)
(***************************************************************************)
CrossedOnlyByRestart == crossed => restarts > 0

(***************************************************************************)
(* A publication that waits in the pending queue is announced to the       *)
(* receiver in the end, also when an ICE restart takes its turn first.     *)
(***************************************************************************)
WaitingIsProduced ==
    \A p \in Pub :
       [op |-> "add", pub |-> p] \in Range(sender.pending)
          ~> \/ receiver.publicationInfo[p] # NoMid
             \/ ~Intact \/ raced \/ skippedStops # {} \/ refusedMids # {}
=============================================================================
