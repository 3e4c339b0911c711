----------------------- MODULE SignalingClient_proof -----------------------
(***************************************************************************)
(* Proofs about SignalingClient, for every set of messages and every       *)
(* number of reconnections, breaks and checks: the client is never left    *)
(* without a connection and without a timer that brings one, and what the  *)
(* session does with messages is what MessageTransfer promises.            *)
(*                                                                         *)
(* The first half is about the connections, the second about the messages; *)
(* they meet in the lemmas on the operators, which say what an operator    *)
(* does to either.                                                         *)
(***************************************************************************)
EXTENDS SignalingClient, FiniteSetTheorems, SequenceTheorems, TLAPS

-----------------------------------------------------------------------------
(* Types                                                                   *)

Item == Messages \union {Check}

\* The client in TypeOK, without the bounds on what is counted.
ClientType ==
    [ws : Sockets \union {NoSocket}, isOpen : BOOLEAN, isDestroyed : BOOLEAN,
     reconnectCount : Nat, reconnectTimer : BOOLEAN, lostTimers : Nat,
     connectionState : {"closed", "reconnecting", "connected"},
     waiting : Seq(Item),
     check : {"unstarted", "off", "idle", "out"}, checkOn : Sockets \union {NoSocket},
     closed : BOOLEAN, hung : BOOLEAN,
     req : [Messages -> {"idle", "waiting", "sent", "settled"}],
     result : [Messages -> {"none", "ok", "failed"}]]

LEMMA Bounds == MaxReconnects \in Nat /\ MaxBreaks \in Nat /\ MaxChecks \in Nat /\ MaxSockets \in Nat \ {0}
BY SignalingAssumption DEF MaxSockets

(***************************************************************************)
(* Changes of one field after the other.                                   *)
(***************************************************************************)
LEMMA ClientUpdate ==
    ASSUME NEW c \in ClientType
    PROVE  /\ \A s \in Sockets \union {NoSocket} : [c EXCEPT !.ws = s] \in ClientType /\ [c EXCEPT !.checkOn = s] \in ClientType
           /\ \A b \in BOOLEAN : /\ [c EXCEPT !.isOpen = b] \in ClientType
                                 /\ [c EXCEPT !.isDestroyed = b] \in ClientType
                                 /\ [c EXCEPT !.reconnectTimer = b] \in ClientType
                                 /\ [c EXCEPT !.closed = b] \in ClientType
                                 /\ [c EXCEPT !.hung = b] \in ClientType
           /\ \A n \in Nat : [c EXCEPT !.reconnectCount = n] \in ClientType /\ [c EXCEPT !.lostTimers = n] \in ClientType
           /\ \A st \in {"closed", "reconnecting", "connected"} : [c EXCEPT !.connectionState = st] \in ClientType
           /\ \A q \in Seq(Item) : [c EXCEPT !.waiting = q] \in ClientType
           /\ \A k \in {"unstarted", "off", "idle", "out"} : [c EXCEPT !.check = k] \in ClientType
           /\ \A r \in [Messages -> {"idle", "waiting", "sent", "settled"}] : [c EXCEPT !.req = r] \in ClientType
           /\ \A r \in [Messages -> {"none", "ok", "failed"}] : [c EXCEPT !.result = r] \in ClientType
BY DEF ClientType

-----------------------------------------------------------------------------
(* What the operators do                                                   *)

\* d has the connection of c.
SameLink(c, d) == /\ d.ws = c.ws /\ d.isDestroyed = c.isDestroyed
                  /\ d.reconnectCount = c.reconnectCount /\ d.reconnectTimer = c.reconnectTimer
                  /\ d.lostTimers = c.lostTimers /\ d.check = c.check

\* Requests go on, and are settled as MessageTransfer allows it to be done without a delivery.
Progress(c, d) ==
    /\ d.closed = c.closed
    /\ \A m \in Messages :
          /\ d.req[m] = "idle" <=> c.req[m] = "idle"
          /\ d.req[m] # "settled" => c.req[m] # "settled"
          /\ d.result[m] # c.result[m] => /\ c.req[m] # "settled" /\ d.req[m] = "settled"
                                          /\ d.result[m] = "ok" => c.closed \/ ~targetJoined

\* The messages of ms have been given to send.
Begun(c, ms) == \A m \in ms \cap Messages : c.req[m] # "idle"

LEMMA RejectKeeps ==
    ASSUME NEW c \in ClientType, NEW ms
    PROVE  LET d == Reject(c, ms)
           IN  /\ d \in ClientType
               /\ SameLink(c, d)
               /\ d.waiting = c.waiting /\ d.closed = c.closed
               /\ Begun(c, ms) => Progress(c, d)
<1> DEFINE told == IF c.closed \/ ~targetJoined THEN "ok" ELSE "failed"
           req == [m \in Messages |-> IF m \in ms THEN "settled" ELSE c.req[m]]
           result == [m \in Messages |-> IF m \in ms /\ c.req[m] # "settled" THEN told ELSE c.result[m]]
           d == [c EXCEPT !.req = req, !.result = result]
<1>1. Reject(c, ms) = d
  BY DEF Reject
<1>2. /\ req \in [Messages -> {"idle", "waiting", "sent", "settled"}]
      /\ result \in [Messages -> {"none", "ok", "failed"}]
  BY DEF ClientType
<1>3. \A m \in Messages : /\ m \in ms => req[m] = "settled"
                          /\ m \notin ms => req[m] = c.req[m]
                          /\ result[m] # c.result[m] => /\ m \in ms /\ c.req[m] # "settled"
                                                        /\ result[m] = "ok" => c.closed \/ ~targetJoined
  OBVIOUS
<1> HIDE DEF req, result
<1>4. d = [[c EXCEPT !.req = req] EXCEPT !.result = result]
  BY DEF ClientType
<1>5. d \in ClientType
  BY <1>2, <1>4, ClientUpdate
<1>6. /\ SameLink(c, d) /\ d.waiting = c.waiting /\ d.closed = c.closed
      /\ d.req = req /\ d.result = result
  BY DEF ClientType, SameLink
<1> HIDE DEF d
<1>7. Begun(c, ms) => Progress(c, d)
  BY <1>3, <1>6 DEF Begun, Progress
<1> QED BY <1>1, <1>5, <1>6, <1>7

\* What is written waits again, or is on its way.
Carried(c, ms) ==
    \/ client'.waiting = c.waiting /\ uplink' = uplink
    \/ client'.waiting = c.waiting \o ms /\ uplink' = uplink
    \/ client'.waiting = c.waiting /\ c.ws \in Sockets /\ uplink' = [uplink EXCEPT ![c.ws] = @ \o ms]

LEMMA TransmitKeeps ==
    ASSUME NEW c \in ClientType, NEW ms \in Seq(Item), NEW out, c.ws # NoSocket, Begun(c, Range(ms)),
           Transmit(out, c, ms)
    PROVE  /\ client' \in ClientType /\ SameLink(c, client') /\ Progress(c, client')
           /\ Carried(c, ms)
<1> DEFINE req == [m \in Messages |-> IF m \in Range(ms) /\ c.req[m] = "waiting" THEN "sent" ELSE c.req[m]]
           sent == [c EXCEPT !.req = req]
<1>1. req \in [Messages -> {"idle", "waiting", "sent", "settled"}]
  BY DEF ClientType
<1>2. \A m \in Messages : /\ req[m] = "idle" <=> c.req[m] = "idle"
                          /\ req[m] = "settled" <=> c.req[m] = "settled"
  BY DEF ClientType
<1> HIDE DEF req
<1>3. sent \in ClientType
  BY <1>1, ClientUpdate
<1>4. /\ SameLink(c, sent) /\ sent.waiting = c.waiting /\ Progress(c, sent)
  BY <1>2 DEF ClientType, SameLink, Progress
<1>5. /\ \/ client' = Reject(c, Range(ms)) /\ uplink' = uplink
         \/ client' = sent /\ uplink' = uplink
         \/ client' = [c EXCEPT !.waiting = c.waiting \o ms] /\ uplink' = uplink
         \/ /\ client' = sent \/ client' = [sent EXCEPT !.checkOn = c.ws]
            /\ uplink' = [uplink EXCEPT ![c.ws] = @ \o ms]
  BY DEF Transmit, req
<1> HIDE DEF sent
<1>6. c.ws \in Sockets
  BY DEF ClientType
<1>7. CASE client' = Reject(c, Range(ms)) /\ uplink' = uplink
  BY <1>7, RejectKeeps DEF Carried
<1>8. CASE client' = sent /\ uplink' = uplink
  BY <1>3, <1>4, <1>8 DEF Carried
<1>9. CASE client' = [c EXCEPT !.waiting = c.waiting \o ms] /\ uplink' = uplink
  <2>1. c.waiting \o ms \in Seq(Item)
    BY DEF ClientType
  <2>2. client' \in ClientType
    BY <1>9, <2>1, ClientUpdate
  <2>3. SameLink(c, client') /\ Progress(c, client') /\ client'.waiting = c.waiting \o ms
    BY <1>9 DEF ClientType, SameLink, Progress
  <2> QED BY <1>9, <2>2, <2>3 DEF Carried
<1>10. CASE /\ client' = sent \/ client' = [sent EXCEPT !.checkOn = c.ws]
            /\ uplink' = [uplink EXCEPT ![c.ws] = @ \o ms]
  <2>1. client' \in ClientType
    <3>1. c.ws \in Sockets \union {NoSocket}
      BY <1>6
    <3> QED BY <1>3, <1>10, <3>1, ClientUpdate
  <2>2. SameLink(c, client') /\ client'.waiting = c.waiting /\ Progress(c, client')
    BY <1>3, <1>4, <1>10 DEF ClientType, SameLink, Progress
  <2> QED BY <1>6, <1>10, <2>1, <2>2 DEF Carried
<1> QED BY <1>5, <1>7, <1>8, <1>9, <1>10

(***************************************************************************)
(* Socket.send of one message or of the check.                             *)
(***************************************************************************)
LEMMA WriteKeeps ==
    ASSUME NEW c \in ClientType, NEW m \in Item, Begun(c, {m}), Write(c, m)
    PROVE  /\ client' \in ClientType /\ SameLink(c, client') /\ Progress(c, client')
           /\ Carried(c, <<m>>)
<1>1. <<m>> \in Seq(Item) /\ Range(<<m>>) = {m}
  BY DEF Range
<1>2. CASE c.isDestroyed
  BY <1>2, RejectKeeps DEF Write, Carried
<1>3. CASE ~c.isDestroyed /\ (c.ws = NoSocket \/ ~c.isOpen)
  <2>1. /\ uplink' = uplink
        /\ \/ client' = [c EXCEPT !.waiting = c.waiting]
           \/ client' = [c EXCEPT !.waiting = Append(c.waiting, m)]
    BY <1>3 DEF Write
  <2>2. c.waiting \in Seq(Item) /\ Append(c.waiting, m) \in Seq(Item) /\ Append(c.waiting, m) = c.waiting \o <<m>>
    BY DEF ClientType
  <2>3. client' \in ClientType
    BY <2>1, <2>2, ClientUpdate
  <2>4. SameLink(c, client') /\ Progress(c, client') /\ client'.waiting \in {c.waiting, c.waiting \o <<m>>}
    BY <2>1, <2>2 DEF ClientType, SameLink, Progress
  <2> QED BY <2>1, <2>3, <2>4 DEF Carried
<1>4. CASE ~c.isDestroyed /\ ~(c.ws = NoSocket \/ ~c.isOpen)
  <2>1. PICK out \in Written(conns[c.ws]) : Transmit(out, c, <<m>>)
    BY <1>4 DEF Write
  <2> QED BY <1>1, <1>4, <2>1, TransmitKeeps
<1> QED BY <1>2, <1>3, <1>4

(***************************************************************************)
(* destroy, after whoever waits was rejected or not.                       *)
(***************************************************************************)
LEMMA DestroyKeeps ==
    ASSUME NEW c \in ClientType
    PROVE  LET d == destroy(c)
           IN  /\ d \in ClientType /\ d.isDestroyed
               /\ d.ws = c.ws /\ d.reconnectCount = c.reconnectCount /\ ~d.reconnectTimer
               /\ d.lostTimers = c.lostTimers /\ d.check = c.check
               /\ d.waiting = << >> /\ d.req = c.req /\ d.result = c.result /\ d.closed = c.closed
<1> DEFINE d1 == [c EXCEPT !.isDestroyed = TRUE]
           d2 == [d1 EXCEPT !.connectionState = "closed"]
           d3 == [d2 EXCEPT !.waiting = << >>]
           d4 == [d3 EXCEPT !.reconnectTimer = FALSE]
<1>1. destroy(c) = d4
  BY DEF destroy, ClientType
<1>2. << >> \in Seq(Item)
  OBVIOUS
<1>3. d1 \in ClientType
  BY ClientUpdate
<1>4. d2 \in ClientType
  BY <1>3, ClientUpdate
<1>5. d3 \in ClientType
  BY <1>2, <1>4, ClientUpdate
<1>6. d4 \in ClientType
  BY <1>5, ClientUpdate
<1> QED BY <1>1, <1>6 DEF ClientType

LEMMA FailedKeeps ==
    ASSUME NEW c \in ClientType
    PROVE  LET d == connectionFailed(c)
           IN  /\ d \in ClientType /\ SameLink(c, d)
               /\ d.waiting = << >>
               /\ Begun(c, Range(c.waiting)) => Progress(c, d)
<1> DEFINE e == [c EXCEPT !.waiting = << >>]
<1>1. << >> \in Seq(Item)
  OBVIOUS
<1>2. e \in ClientType
  BY <1>1, ClientUpdate
<1>3. /\ SameLink(c, e) /\ e.waiting = << >> /\ e.closed = c.closed
      /\ e.req = c.req /\ e.result = c.result
  BY DEF ClientType, SameLink
<1>4. connectionFailed(c) = Reject(e, Range(c.waiting))
  BY DEF connectionFailed
<1> HIDE DEF e
<1> QED BY <1>2, <1>3, <1>4, RejectKeeps DEF SameLink, Progress, Begun

(***************************************************************************)
(* reconnect arms a timer, or gives the client up.                         *)
(***************************************************************************)
LEMMA ReconnectKeeps ==
    ASSUME NEW c \in ClientType
    PROVE  LET d == reconnect(c)
           IN  /\ d \in ClientType
               /\ d.ws = NoSocket /\ d.reconnectCount = c.reconnectCount /\ d.check = c.check
               /\ \/ d.isDestroyed /\ ~d.reconnectTimer /\ d.lostTimers = c.lostTimers
                  \/ d.reconnectTimer /\ d.lostTimers = c.lostTimers + (IF c.reconnectTimer THEN 1 ELSE 0)
               /\ d.waiting \in {<< >>, c.waiting}
               /\ Begun(c, Range(c.waiting)) => Progress(c, d)
<1> DEFINE l1 == [c EXCEPT !.ws = NoSocket]
           left == [l1 EXCEPT !.isOpen = FALSE]
<1>1. l1 \in ClientType
  BY ClientUpdate
<1>2. left \in ClientType
  BY <1>1, ClientUpdate
<1>3. /\ left.ws = NoSocket /\ left.isDestroyed = c.isDestroyed
      /\ left.reconnectCount = c.reconnectCount /\ left.reconnectTimer = c.reconnectTimer
      /\ left.lostTimers = c.lostTimers /\ left.check = c.check
      /\ left.waiting = c.waiting /\ left.closed = c.closed /\ left.req = c.req /\ left.result = c.result
  BY DEF ClientType
<1>4. left = [c EXCEPT !.ws = NoSocket, !.isOpen = FALSE]
  BY DEF ClientType
<1> HIDE DEF left
<1>5. Begun(c, Range(c.waiting)) => Begun(left, Range(left.waiting))
  BY <1>3 DEF Begun
<1>6. \A d : Progress(left, d) => Progress(c, d)
  BY <1>3 DEF Progress
<1>7. CASE c.reconnectCount >= MaxReconnects
  <2> DEFINE failed == connectionFailed(left)
  <2>1. reconnect(c) = destroy(failed)
    BY <1>4, <1>7 DEF reconnect
  <2>2. failed \in ClientType /\ SameLink(left, failed) /\ (Begun(left, Range(left.waiting)) => Progress(left, failed))
    BY <1>2, FailedKeeps
  <2> HIDE DEF failed
  <2>3. \A d : d.req = failed.req /\ d.result = failed.result /\ d.closed = failed.closed /\ Progress(left, failed) => Progress(left, d)
    BY DEF Progress
  <2> QED BY <1>3, <1>5, <1>6, <2>1, <2>2, <2>3, DestroyKeeps DEF SameLink
<1>8. CASE ~(c.reconnectCount >= MaxReconnects)
  <2> DEFINE n == left.lostTimers + (IF left.reconnectTimer THEN 1 ELSE 0)
             d1 == [left EXCEPT !.connectionState = "reconnecting"]
             d2 == [d1 EXCEPT !.lostTimers = n]
             d3 == [d2 EXCEPT !.reconnectTimer = TRUE]
  <2>1. n \in Nat
    BY <1>2 DEF ClientType
  <2>2. reconnect(c) = d3
    BY <1>2, <1>3, <1>4, <1>8 DEF reconnect, ClientType
  <2> HIDE DEF n
  <2>3. d1 \in ClientType
    BY <1>2, ClientUpdate
  <2>4. d2 \in ClientType
    BY <2>1, <2>3, ClientUpdate
  <2>5. d3 \in ClientType
    BY <2>4, ClientUpdate
  <2>6. /\ d3.ws = left.ws /\ d3.reconnectCount = left.reconnectCount /\ d3.check = left.check
        /\ d3.reconnectTimer /\ d3.lostTimers = n /\ d3.waiting = left.waiting
        /\ d3.req = left.req /\ d3.result = left.result /\ d3.closed = left.closed
    BY <1>2 DEF ClientType
  <2> HIDE DEF d3
  <2>7. Progress(left, d3)
    BY <2>6 DEF Progress
  <2> QED BY <1>3, <1>6, <2>2, <2>5, <2>6, <2>7 DEF n
<1> QED BY <1>7, <1>8

-----------------------------------------------------------------------------
(* Connections                                                             *)

\* The WebSockets that were made, and those whose loss is still to be told.
Used(cs) == {s \in Sockets : cs[s] # "unused"}
Broken(cs) == {s \in Sockets : cs[s] = "broken"}

Timers(c) == c.lostTimers + (IF c.reconnectTimer THEN 1 ELSE 0)
ChecksOut(c) == IF c.check = "out" THEN 1 ELSE 0

Types == /\ client \in ClientType
         /\ conns \in [Sockets -> Phases]
         /\ breaks \in 0..MaxBreaks
         /\ checks \in 0..MaxChecks

\* Every WebSocket but the first, and every timer, comes from a break or a check of its own.
TimersAreCounted ==
    /\ Cardinality(Used(conns)) + Cardinality(Broken(conns)) + Timers(client) + ChecksOut(client)
           <= 1 + breaks + checks
    /\ client.reconnectCount + 1 <= Cardinality(Used(conns))

\* What NeverStranded adds to the types.
Connectable ==
    ~client.isDestroyed =>
        \/ Timers(client) > 0
        \/ client.ws # NoSocket /\ conns[client.ws] \in {"connecting", "open", "broken", "refused"}

LinkInv == Types /\ TimersAreCounted /\ Connectable

(***************************************************************************)
(* One WebSocket changes.                                                  *)
(***************************************************************************)
LEMMA SocketChanges ==
    ASSUME NEW cs \in [Sockets -> Phases], NEW s \in Sockets, NEW phase \in Phases \ {"unused"}
    PROVE  LET ds == [cs EXCEPT ![s] = phase]
           IN  /\ ds \in [Sockets -> Phases]
               /\ Used(ds) = Used(cs) \cup {s}
               /\ Broken(ds) = IF phase = "broken" THEN Broken(cs) \cup {s} ELSE Broken(cs) \ {s}
BY DEF Used, Broken, Phases

LEMMA SocketMoves ==
    ASSUME NEW cs \in [Sockets -> Phases], NEW s \in Sockets, NEW phase \in Phases \ {"unused"},
           cs[s] \notin {"unused", "broken"}
    PROVE  /\ [cs EXCEPT ![s] = phase] \in [Sockets -> Phases]
           /\ Used([cs EXCEPT ![s] = phase]) = Used(cs)
           /\ phase # "broken" => Broken([cs EXCEPT ![s] = phase]) = Broken(cs)
           /\ phase = "broken" => Broken([cs EXCEPT ![s] = phase]) = Broken(cs) \cup {s}
BY DEF Used, Broken, Phases

LEMMA SocketCloses ==
    ASSUME NEW cs \in [Sockets -> Phases], NEW s \in Sockets
    PROVE  /\ [cs EXCEPT ![s] = "closed"] \in [Sockets -> Phases]
           /\ Used([cs EXCEPT ![s] = "closed"]) = Used(cs) \cup {s}
           /\ Broken([cs EXCEPT ![s] = "closed"]) = Broken(cs) \ {s}
BY DEF Used, Broken, Phases

LEMMA CloseKeeps ==
    ASSUME NEW cs \in [Sockets -> Phases], NEW s \in Sockets \cup {NoSocket}, NEW phase \in {"replaced", "ended"}
    PROVE  /\ Close(cs, s, phase) \in [Sockets -> Phases]
           /\ Used(Close(cs, s, phase)) = Used(cs)
           /\ Broken(Close(cs, s, phase)) = Broken(cs)
BY DEF Close, Used, Broken, Phases, Live

LEMMA Finite ==
    ASSUME NEW cs \in [Sockets -> Phases]
    PROVE  /\ IsFiniteSet(Used(cs)) /\ IsFiniteSet(Broken(cs))
           /\ Cardinality(Used(cs)) \in 0..MaxSockets /\ Cardinality(Broken(cs)) \in Nat
           /\ Cardinality(Used(cs)) < MaxSockets => \E s \in Sockets : cs[s] = "unused"
<1>1. IsFiniteSet(Sockets) /\ Cardinality(Sockets) = MaxSockets
  BY FS_Interval, Bounds DEF Sockets
<1>2. Used(cs) \subseteq Sockets /\ Broken(cs) \subseteq Sockets
  BY DEF Used, Broken
<1>3. /\ IsFiniteSet(Used(cs)) /\ IsFiniteSet(Broken(cs))
      /\ Cardinality(Used(cs)) <= MaxSockets
  BY <1>1, <1>2, FS_Subset
<1>4. Cardinality(Used(cs)) \in Nat /\ Cardinality(Broken(cs)) \in Nat
  BY <1>3, FS_CardinalityType
<1>5. Cardinality(Used(cs)) < MaxSockets => \E s \in Sockets : cs[s] = "unused"
  <2>1. SUFFICES ASSUME \A s \in Sockets : cs[s] # "unused", Cardinality(Used(cs)) < MaxSockets PROVE FALSE
    OBVIOUS
  <2>2. Used(cs) = Sockets
    BY <2>1 DEF Used
  <2> QED BY <1>1, <2>1, <2>2, Bounds
<1> QED BY <1>3, <1>4, <1>5, Bounds

LEMMA CountTypes ==
    ASSUME NEW c \in ClientType
    PROVE  /\ Timers(c) \in Nat
           /\ Timers(c) > 0 <=> c.reconnectTimer \/ c.lostTimers > 0
           /\ ChecksOut(c) \in Nat
           /\ c.reconnectCount \in Nat
<1>1. c.lostTimers \in Nat /\ c.reconnectCount \in Nat /\ c.reconnectTimer \in BOOLEAN
  BY DEF ClientType
<1> QED BY <1>1 DEF Timers, ChecksOut

(***************************************************************************)
(* A step that makes no WebSocket keeps the counts, when what it adds was  *)
(* counted as a break or a check, or takes something else away.            *)
(***************************************************************************)
LEMMA CountsKeep ==
    ASSUME Types, TimersAreCounted, client' \in ClientType, conns' \in [Sockets -> Phases],
           breaks' \in 0..MaxBreaks, checks' \in 0..MaxChecks,
           Used(conns') = Used(conns), client'.reconnectCount \in {0, client.reconnectCount},
           Cardinality(Broken(conns')) + Timers(client') + ChecksOut(client') - breaks' - checks'
               <= Cardinality(Broken(conns)) + Timers(client) + ChecksOut(client) - breaks - checks
    PROVE  Types' /\ TimersAreCounted'
<1>1. /\ Cardinality(Used(conns)) \in Nat
      /\ Cardinality(Broken(conns)) \in Nat /\ Cardinality(Broken(conns')) \in Nat
  BY Finite DEF Types
<1>2. /\ Timers(client) \in Nat /\ Timers(client') \in Nat
      /\ ChecksOut(client) \in Nat /\ ChecksOut(client') \in Nat
      /\ client.reconnectCount \in Nat /\ client'.reconnectCount \in Nat
      /\ client.reconnectCount + 1 <= Cardinality(Used(conns))
  BY CountTypes DEF Types, TimersAreCounted
<1>3. breaks \in Nat /\ checks \in Nat /\ breaks' \in Nat /\ checks' \in Nat
  BY DEF Types
<1>4. Types'
  BY DEF Types
<1>5. Cardinality(Used(conns)) + Cardinality(Broken(conns)) + Timers(client) + ChecksOut(client)
          <= 1 + breaks + checks
  BY DEF TimersAreCounted
<1>6. Cardinality(Used(conns')) + Cardinality(Broken(conns')) + Timers(client') + ChecksOut(client')
          <= 1 + breaks' + checks'
  BY <1>1, <1>2, <1>3, <1>5
<1>7. client'.reconnectCount + 1 <= Cardinality(Used(conns'))
  BY <1>1, <1>2
<1> QED BY <1>4, <1>6, <1>7 DEF TimersAreCounted

(***************************************************************************)
(* A step that changes neither the WebSockets nor the timers.              *)
(***************************************************************************)
LEMMA SameLinkKeeps ==
    ASSUME LinkInv, client' \in ClientType, SameLink(client, client'), UNCHANGED <<conns, breaks, checks>>
    PROVE  LinkInv'
BY DEF LinkInv, Types, TimersAreCounted, Connectable, SameLink, Timers, ChecksOut

(***************************************************************************)
(* _reconnect or the end of the client: what had to be told was told, and  *)
(* it was counted.                                                         *)
(***************************************************************************)
LEMMA ReconnectLink ==
    ASSUME LinkInv, NEW c \in ClientType, SameLink(client, [c EXCEPT !.check = client.check]),
           c.check \in {client.check, "idle"}, client' = reconnect(c),
           conns' \in [Sockets -> Phases], Used(conns') = Used(conns), Cardinality(Broken(conns')) \in Nat,
           breaks' \in 0..MaxBreaks, UNCHANGED checks,
           Cardinality(Broken(conns')) + 1 + ChecksOut(c) - breaks' <= Cardinality(Broken(conns)) + ChecksOut(client) - breaks
    PROVE  LinkInv'
<1>1. /\ client' \in ClientType /\ client'.reconnectCount = c.reconnectCount /\ client'.check = c.check
      /\ \/ client'.isDestroyed /\ ~client'.reconnectTimer /\ client'.lostTimers = c.lostTimers
         \/ client'.reconnectTimer /\ client'.lostTimers = c.lostTimers + (IF c.reconnectTimer THEN 1 ELSE 0)
  BY ReconnectKeeps
<1>2. c.reconnectCount = client.reconnectCount /\ Timers(c) = Timers(client)
  BY DEF SameLink, Timers, ClientType
<1>3. /\ c.lostTimers \in Nat /\ c.reconnectTimer \in BOOLEAN
      /\ client'.lostTimers \in Nat /\ client'.reconnectTimer \in BOOLEAN
  BY <1>1 DEF ClientType
<1>4. Timers(client') <= Timers(c) + 1 /\ (client'.isDestroyed \/ Timers(client') > 0)
  BY <1>1, <1>3 DEF Timers
<1>5. /\ ChecksOut(client') = ChecksOut(c) /\ ChecksOut(c) \in Nat /\ ChecksOut(client) \in Nat
      /\ Timers(client') \in Nat /\ Timers(client) \in Nat
  BY <1>1, CountTypes DEF LinkInv, Types, ChecksOut
<1>6. breaks \in Nat /\ breaks' \in Nat /\ checks \in 0..MaxChecks /\ Cardinality(Broken(conns)) \in Nat
  BY Finite DEF LinkInv, Types
<1>7. Cardinality(Broken(conns')) + Timers(client') + ChecksOut(client') - breaks' - checks'
          <= Cardinality(Broken(conns)) + Timers(client) + ChecksOut(client) - breaks - checks
  BY <1>2, <1>4, <1>5, <1>6
<1>8. Types' /\ TimersAreCounted'
  BY <1>1, <1>2, <1>6, <1>7, CountsKeep DEF LinkInv
<1>9. Connectable'
  BY <1>4 DEF Connectable
<1> QED BY <1>8, <1>9 DEF LinkInv

(***************************************************************************)
(* A client that is gone needs no connection.                              *)
(***************************************************************************)
LEMMA DestroyLink ==
    ASSUME LinkInv, client' \in ClientType, client'.isDestroyed, ~client'.reconnectTimer,
           client'.lostTimers = client.lostTimers, client'.reconnectCount = client.reconnectCount,
           client'.check \in {client.check, "off"},
           conns' \in [Sockets -> Phases], Used(conns') = Used(conns),
           Broken(conns') \subseteq Broken(conns), breaks' \in breaks..MaxBreaks, UNCHANGED checks
    PROVE  LinkInv'
<1>1. Timers(client') <= Timers(client) /\ ChecksOut(client') <= ChecksOut(client)
  BY DEF LinkInv, Types, ClientType, Timers, ChecksOut
<1>2. /\ Timers(client') \in Nat /\ Timers(client) \in Nat
      /\ ChecksOut(client') \in Nat /\ ChecksOut(client) \in Nat
  BY CountTypes DEF LinkInv, Types
<1>3. /\ Cardinality(Broken(conns')) \in Nat /\ Cardinality(Broken(conns)) \in Nat
      /\ Cardinality(Broken(conns')) <= Cardinality(Broken(conns))
  BY Finite, FS_Subset DEF LinkInv, Types
<1>4. breaks \in Nat /\ breaks' \in 0..MaxBreaks /\ breaks <= breaks' /\ checks \in 0..MaxChecks /\ checks' = checks
  BY Bounds DEF LinkInv, Types
<1>5. Cardinality(Broken(conns')) + Timers(client') + ChecksOut(client') - breaks' - checks'
          <= Cardinality(Broken(conns)) + Timers(client) + ChecksOut(client) - breaks - checks
  BY <1>1, <1>2, <1>3, <1>4
<1>6. Types' /\ TimersAreCounted'
  BY <1>4, <1>5, CountsKeep DEF LinkInv
<1> QED BY <1>6 DEF LinkInv, Connectable

(***************************************************************************)
(* The messages that waited are written when a WebSocket opens.            *)
(***************************************************************************)
LEMMA OpensKeeps ==
    ASSUME Types, Begun(client, Range(client.waiting)), NEW s \in Sockets, Opens(s)
    PROVE  /\ client' \in ClientType /\ Progress(client, client')
           /\ client'.reconnectCount = 0
           /\ SameLink(client, [client' EXCEPT !.reconnectCount = client.reconnectCount, !.check = client.check])
           /\ ChecksOut(client') = ChecksOut(client)
           /\ \/ client'.waiting \in {<< >>, client.waiting} /\ uplink' = uplink
              \/ /\ client'.waiting = << >> /\ client.ws \in Sockets
                 /\ uplink' = [uplink EXCEPT ![client.ws] = @ \o client.waiting]
<1> DEFINE check == IF client.check = "unstarted" /\ ~client.isDestroyed THEN "idle" ELSE client.check
           c1 == [client EXCEPT !.isOpen = TRUE]
           c2 == [c1 EXCEPT !.connectionState = "connected"]
           c3 == [c2 EXCEPT !.reconnectCount = 0]
           c == [c3 EXCEPT !.check = check]
           e == [c EXCEPT !.waiting = << >>]
<1>1. client \in ClientType /\ check \in {"unstarted", "off", "idle", "out"}
  BY DEF Types, ClientType
<1>2. ChecksOut([client EXCEPT !.check = check]) = ChecksOut(client)
  BY <1>1 DEF ChecksOut, ClientType
<1> HIDE DEF check
<1>3. c1 \in ClientType
  BY <1>1, ClientUpdate
<1>4. c2 \in ClientType
  BY <1>3, ClientUpdate
<1>5. c3 \in ClientType
  BY <1>4, ClientUpdate
<1>6. c \in ClientType
  BY <1>1, <1>5, ClientUpdate
<1>7. /\ c.ws = client.ws /\ c.isDestroyed = client.isDestroyed /\ c.reconnectCount = 0
      /\ c.reconnectTimer = client.reconnectTimer /\ c.lostTimers = client.lostTimers /\ c.check = check
      /\ c.waiting = client.waiting /\ c.closed = client.closed
      /\ c.req = client.req /\ c.result = client.result
  BY <1>1 DEF ClientType
<1>8. c = [client EXCEPT !.isOpen = TRUE, !.connectionState = "connected", !.reconnectCount = 0, !.check = check]
  BY <1>1 DEF ClientType
<1> HIDE DEF c
<1>9. << >> \in Seq(Item) /\ client.waiting \in Seq(Item)
  BY <1>1 DEF ClientType
<1>10. e \in ClientType
  BY <1>6, <1>9, ClientUpdate
<1>11. /\ SameLink(c, e) /\ e.waiting = << >> /\ e.closed = c.closed
       /\ e.req = c.req /\ e.result = c.result
  BY <1>6 DEF ClientType, SameLink
<1> HIDE DEF e
<1>12. \/ /\ client.ws = NoSocket /\ uplink' = uplink
          /\ client' = [c EXCEPT !.hung = client.waiting # << >>]
       \/ /\ client.ws # NoSocket
          /\ \E out \in Written(conns'[client.ws]) : Transmit(out, e, client.waiting)
  BY <1>8 DEF Opens, e, check
<1>13. ASSUME NEW d, d \in ClientType, SameLink(c, d)
       PROVE  /\ d.reconnectCount = 0
              /\ SameLink(client, [d EXCEPT !.reconnectCount = client.reconnectCount, !.check = client.check])
              /\ ChecksOut(d) = ChecksOut(client)
  BY <1>1, <1>2, <1>7, <1>13 DEF ClientType, SameLink, ChecksOut
<1>14. CASE /\ client.ws = NoSocket /\ uplink' = uplink
            /\ client' = [c EXCEPT !.hung = client.waiting # << >>]
  <2>1. client' \in ClientType
    BY <1>6, <1>14, ClientUpdate
  <2>2. /\ SameLink(c, client') /\ client'.waiting = c.waiting /\ client'.closed = c.closed
        /\ client'.req = c.req /\ client'.result = c.result
    BY <1>6, <1>14 DEF ClientType, SameLink
  <2>3. Progress(client, client')
    BY <1>7, <2>2 DEF Progress
  <2> QED BY <1>7, <1>13, <1>14, <2>1, <2>2, <2>3
<1>15. CASE client.ws # NoSocket /\ \E out \in Written(conns'[client.ws]) : Transmit(out, e, client.waiting)
  <2>1. e.ws = client.ws /\ e.ws # NoSocket /\ Begun(e, Range(client.waiting))
    BY <1>7, <1>11, <1>15 DEF SameLink, Begun
  <2>2. /\ client' \in ClientType /\ SameLink(e, client') /\ Progress(e, client')
        /\ Carried(e, client.waiting)
    BY <1>9, <1>10, <1>15, <2>1, TransmitKeeps
  <2>3. SameLink(c, client')
    BY <1>11, <2>2 DEF SameLink
  <2>4. Progress(client, client')
    BY <1>7, <1>11, <2>2 DEF Progress
  <2>5. << >> \o client.waiting = client.waiting
    BY <1>9
  <2> QED BY <1>11, <1>13, <2>1, <2>2, <2>3, <2>4, <2>5 DEF Carried
<1> QED BY <1>12, <1>14, <1>15

LEMMA OpensLink ==
    ASSUME LinkInv, Begun(client, Range(client.waiting)), NEW s \in Sockets, Opens(s)
    PROVE  LinkInv'
<1>1. /\ client' \in ClientType
      /\ client'.reconnectCount = 0
      /\ SameLink(client, [client' EXCEPT !.reconnectCount = client.reconnectCount, !.check = client.check])
      /\ ChecksOut(client') = ChecksOut(client)
  BY OpensKeeps DEF LinkInv
<1>2. /\ client'.ws = client.ws /\ client'.isDestroyed = client.isDestroyed
      /\ Timers(client') = Timers(client)
  BY <1>1 DEF SameLink, ClientType, Timers
<1>3. conns \in [Sockets -> Phases] /\ conns' = [conns EXCEPT ![s] = "open"] /\ conns[s] = "connecting"
  BY DEF LinkInv, Types, Opens
<1>4. /\ conns' \in [Sockets -> Phases]
      /\ Used(conns') = Used(conns) /\ Broken(conns') = Broken(conns)
  <2>1. "open" \in Phases \ {"unused"}
    BY DEF Phases
  <2> QED BY <1>3, <2>1, SocketMoves
<1>5. Types' /\ TimersAreCounted'
  <2>1. /\ breaks' = breaks /\ checks' = checks /\ breaks \in 0..MaxBreaks /\ checks \in 0..MaxChecks
        /\ Cardinality(Broken(conns)) \in Nat /\ Timers(client) \in Nat /\ ChecksOut(client) \in Nat
    BY Finite, CountTypes DEF Opens, LinkInv, Types
  <2>2. Cardinality(Broken(conns')) + Timers(client') + ChecksOut(client') - breaks' - checks'
            <= Cardinality(Broken(conns)) + Timers(client) + ChecksOut(client) - breaks - checks
    BY <1>1, <1>2, <1>4, <2>1
  <2> QED BY <1>1, <1>4, <2>1, <2>2, CountsKeep DEF LinkInv
<1>6. Connectable'
  BY <1>2, <1>3 DEF LinkInv, Types, ClientType, Connectable
<1> QED BY <1>5, <1>6 DEF LinkInv

(***************************************************************************)
(* A connection that breaks is counted, and will be told; one that the     *)
(* server has closed for good too.                                         *)
(***************************************************************************)
LEMMA BreakLink ==
    ASSUME LinkInv, NEW s \in Sockets, Breaks(s) \/ ServerCloses(s)
    PROVE  LinkInv'
<1>1. PICK phase \in {"broken", "refused"} :
          conns' = [conns EXCEPT ![s] = phase] /\ conns[s] \in {"connecting", "open"}
  BY DEF Breaks, ServerCloses, Live
<1>2. /\ breaks < MaxBreaks /\ breaks' = breaks + 1 /\ breaks \in Nat /\ breaks' \in 0..MaxBreaks
      /\ client' = client /\ checks' = checks /\ checks \in 0..MaxChecks
      /\ client \in ClientType /\ conns \in [Sockets -> Phases]
  BY Bounds DEF Breaks, ServerCloses, LinkInv, Types
<1>3. /\ conns' \in [Sockets -> Phases] /\ Used(conns') = Used(conns)
      /\ Broken(conns') \in {Broken(conns), Broken(conns) \cup {s}}
  <2>1. phase \in Phases \ {"unused"}
    BY DEF Phases
  <2> QED BY <1>1, <1>2, <2>1, SocketMoves
<1>4. /\ Cardinality(Broken(conns)) \in Nat /\ Cardinality(Broken(conns')) \in Nat
      /\ Cardinality(Broken(conns')) <= Cardinality(Broken(conns)) + 1
  BY <1>2, <1>3, Finite, FS_AddElement
<1>5. Types' /\ TimersAreCounted'
  <2>1. Timers(client) \in Nat /\ ChecksOut(client) \in Nat /\ checks \in Nat
    BY <1>2, CountTypes
  <2>2. Cardinality(Broken(conns')) + Timers(client') + ChecksOut(client') - breaks' - checks'
            <= Cardinality(Broken(conns)) + Timers(client) + ChecksOut(client) - breaks - checks
    BY <1>2, <1>4, <2>1
  <2> QED BY <1>2, <1>3, <2>2, CountsKeep DEF LinkInv
<1>6. Connectable'
  BY <1>1, <1>2 DEF LinkInv, Connectable, ClientType
<1> QED BY <1>5, <1>6 DEF LinkInv

(***************************************************************************)
(* The close event of a WebSocket that was replaced says nothing new.      *)
(***************************************************************************)
LEMMA ReplacedLink ==
    ASSUME LinkInv, NEW s \in Sockets, CloseReplaced(s)
    PROVE  LinkInv'
<1>1. /\ conns' = [conns EXCEPT ![s] = "closed"] /\ conns[s] = "replaced"
      /\ client' = client /\ checks' = checks /\ breaks' = breaks
      /\ client \in ClientType /\ conns \in [Sockets -> Phases]
      /\ breaks \in 0..MaxBreaks /\ checks \in 0..MaxChecks
  BY DEF CloseReplaced, LinkInv, Types
<1>2. conns' \in [Sockets -> Phases] /\ Used(conns') = Used(conns) /\ Broken(conns') = Broken(conns)
  <2>1. "closed" \in Phases \ {"unused"}
    BY DEF Phases
  <2> QED BY <1>1, <2>1, SocketMoves
<1>3. Types' /\ TimersAreCounted'
  BY <1>1, <1>2 DEF LinkInv, Types, TimersAreCounted
<1>4. Connectable'
  BY <1>1 DEF LinkInv, Connectable, ClientType
<1> QED BY <1>3, <1>4 DEF LinkInv

(***************************************************************************)
(* The close event of the WebSocket s, with what was closed before it.     *)
(***************************************************************************)
LEMMA CloseEvent ==
    ASSUME Types, NEW s \in Sockets, conns[s] # "unused", NEW phase \in {"replaced", "ended"},
           conns' = [Close(conns, client.ws, phase) EXCEPT ![s] = "closed"]
    PROVE  /\ conns' \in [Sockets -> Phases] /\ Used(conns') = Used(conns)
           /\ Broken(conns') = Broken(conns) \ {s}
           /\ Cardinality(Broken(conns)) \in Nat
           /\ Cardinality(Broken(conns')) = Cardinality(Broken(conns)) - (IF conns[s] = "broken" THEN 1 ELSE 0)
<1> DEFINE cs == Close(conns, client.ws, phase)
<1>1. conns \in [Sockets -> Phases] /\ client.ws \in Sockets \cup {NoSocket}
  BY DEF Types, ClientType
<1>2. cs \in [Sockets -> Phases] /\ Used(cs) = Used(conns) /\ Broken(cs) = Broken(conns)
  BY <1>1, CloseKeeps
<1> HIDE DEF cs
<1>4. /\ conns' \in [Sockets -> Phases] /\ Used(conns') = Used(cs) \cup {s}
      /\ Broken(conns') = Broken(cs) \ {s}
  <2> DEFINE ds == [cs EXCEPT ![s] = "closed"]
  <2>1. conns' = ds
    BY DEF cs
  <2>2. ds \in [Sockets -> Phases]
    BY <1>2, SocketCloses
  <2>3. Used(ds) = Used(cs) \cup {s} /\ Broken(ds) = Broken(cs) \ {s}
    BY <1>2, SocketCloses
  <2> HIDE DEF ds
  <2> QED BY <2>1, <2>2, <2>3
<1>5. s \in Used(conns) /\ (s \in Broken(conns) <=> conns[s] = "broken")
  BY DEF Used, Broken
<1>6. IsFiniteSet(Broken(conns)) /\ Cardinality(Broken(conns)) \in Nat
  BY <1>1, Finite
<1>7. CASE conns[s] = "broken"
  <2>1. Cardinality(Broken(conns) \ {s}) = Cardinality(Broken(conns)) - 1
    BY <1>5, <1>6, <1>7, FS_RemoveElement
  <2>2. Used(conns) \cup {s} = Used(conns)
    BY <1>5
  <2> QED BY <1>2, <1>4, <1>6, <1>7, <2>1, <2>2
<1>8. CASE conns[s] # "broken"
  <2>1. Broken(conns) \ {s} = Broken(conns)
    BY <1>5, <1>8
  <2>2. Used(conns) \cup {s} = Used(conns)
    BY <1>5
  <2>3. Broken(conns') = Broken(conns)
    BY <1>2, <1>4, <2>1
  <2>4. Cardinality(Broken(conns')) = Cardinality(Broken(conns)) - 0
    BY <1>6, <2>3
  <2> QED BY <1>2, <1>4, <1>6, <1>8, <2>2, <2>4
<1> QED BY <1>7, <1>8

LEMMA AbnormalLink ==
    ASSUME LinkInv, NEW s \in Sockets, CloseAbnormal(s)
    PROVE  LinkInv'
<1>1. /\ client \in ClientType /\ client' = reconnect(client) /\ checks' = checks
      /\ conns[s] \in {"broken", "replaced", "ended"}
      /\ conns' = [Close(conns, client.ws, "replaced") EXCEPT ![s] = "closed"]
      /\ breaks \in 0..MaxBreaks
      /\ \/ conns[s] = "broken" /\ breaks' = breaks
         \/ conns[s] # "broken" /\ breaks < MaxBreaks /\ breaks' = breaks + 1
  BY DEF CloseAbnormal, LinkInv, Types
<1>2. /\ conns' \in [Sockets -> Phases] /\ Used(conns') = Used(conns)
      /\ Cardinality(Broken(conns)) \in Nat
      /\ Cardinality(Broken(conns')) = Cardinality(Broken(conns)) - (IF conns[s] = "broken" THEN 1 ELSE 0)
  BY <1>1, CloseEvent DEF LinkInv
<1>3. Cardinality(Broken(conns')) \in Nat
  BY <1>2, Finite
<1>4. breaks' \in 0..MaxBreaks
  BY <1>1, Bounds
<1>5. SameLink(client, [client EXCEPT !.check = client.check]) /\ client.check \in {client.check, "idle"}
  BY <1>1 DEF SameLink, ClientType
<1>6. ChecksOut(client) \in Nat
  BY <1>1, CountTypes
<1>7. breaks \in Int /\ breaks' \in Int
  BY <1>1, <1>4
<1>8. Cardinality(Broken(conns')) + 1 + ChecksOut(client) - breaks' <= Cardinality(Broken(conns)) + ChecksOut(client) - breaks
  BY <1>1, <1>2, <1>3, <1>6, <1>7
<1> QED BY <1>1, <1>2, <1>3, <1>4, <1>5, <1>8, ReconnectLink

LEMMA FinalLink ==
    ASSUME LinkInv, NEW s \in Sockets, CloseFinal(s)
    PROVE  LinkInv'
<1>1. /\ client \in ClientType /\ client' = destroy(connectionFailed(client))
      /\ breaks' = breaks /\ checks' = checks /\ breaks \in 0..MaxBreaks
      /\ conns[s] \in {"refused", "ended"}
      /\ conns' = [Close(conns, client.ws, "ended") EXCEPT ![s] = "closed"]
  BY DEF CloseFinal, LinkInv, Types
<1>2. conns' \in [Sockets -> Phases] /\ Used(conns') = Used(conns) /\ Broken(conns') \subseteq Broken(conns)
  BY <1>1, CloseEvent DEF LinkInv
<1>3. connectionFailed(client) \in ClientType /\ SameLink(client, connectionFailed(client))
  BY <1>1, FailedKeeps
<1>4. /\ client' \in ClientType /\ client'.isDestroyed /\ ~client'.reconnectTimer
      /\ client'.lostTimers = client.lostTimers /\ client'.reconnectCount = client.reconnectCount
      /\ client'.check = client.check
  BY <1>1, <1>3, DestroyKeeps DEF SameLink
<1>5. breaks' \in breaks..MaxBreaks
  BY <1>1, Bounds
<1> QED BY <1>1, <1>2, <1>4, <1>5, DestroyLink

(***************************************************************************)
(* A timer makes a new WebSocket: there is one left for it.                *)
(***************************************************************************)
LEMMA TimerLink ==
    ASSUME LinkInv, TimerFires
    PROVE  /\ LinkInv'
           /\ client'.waiting = client.waiting /\ client'.req = client.req
           /\ client'.result = client.result /\ client'.closed = client.closed
<1>1. /\ client \in ClientType /\ conns \in [Sockets -> Phases] /\ breaks' = breaks /\ checks' = checks
      /\ breaks \in 0..MaxBreaks /\ checks \in 0..MaxChecks
      /\ Cardinality(Used(conns)) + Cardinality(Broken(conns)) + Timers(client) + ChecksOut(client)
             <= 1 + breaks + checks
      /\ client.reconnectCount + 1 <= Cardinality(Used(conns))
  BY DEF LinkInv, Types, TimersAreCounted, TimerFires
<1>2. PICK c : /\ c \in {[client EXCEPT !.reconnectTimer = FALSE], [client EXCEPT !.lostTimers = client.lostTimers - 1]}
               /\ c = [client EXCEPT !.reconnectTimer = FALSE] => client.reconnectTimer
               /\ c # [client EXCEPT !.reconnectTimer = FALSE] => client.lostTimers > 0
               /\ Connect(c)
  <2>1. CASE client.reconnectTimer /\ Connect([client EXCEPT !.reconnectTimer = FALSE])
    BY <2>1
  <2>2. CASE client.lostTimers > 0 /\ Connect([client EXCEPT !.lostTimers = client.lostTimers - 1]) /\ ~client.reconnectTimer
    <3>1. [client EXCEPT !.lostTimers = client.lostTimers - 1] # [client EXCEPT !.reconnectTimer = FALSE]
      BY <1>1, <2>2 DEF ClientType
    <3> QED BY <2>2, <3>1
  <2>3. CASE client.lostTimers > 0 /\ Connect([client EXCEPT !.lostTimers = client.lostTimers - 1]) /\ client.reconnectTimer
    <3>1. [client EXCEPT !.lostTimers = client.lostTimers - 1] # [client EXCEPT !.reconnectTimer = FALSE]
      BY <1>1, <2>3 DEF ClientType
    <3> QED BY <2>3, <3>1
  <2>4. client.reconnectTimer \in BOOLEAN
    BY <1>1 DEF ClientType
  <2> QED BY <2>1, <2>2, <2>3, <2>4 DEF TimerFires
<1>3. /\ c \in ClientType /\ Timers(c) + 1 = Timers(client) /\ ChecksOut(c) = ChecksOut(client)
      /\ c.reconnectCount = client.reconnectCount /\ c.isDestroyed = client.isDestroyed
      /\ c.waiting = client.waiting /\ c.req = client.req
      /\ c.result = client.result /\ c.closed = client.closed
  <2>1. CASE c = [client EXCEPT !.reconnectTimer = FALSE]
    <3>1. c \in ClientType
      BY <1>1, <2>1, ClientUpdate
    <3>2. /\ c.lostTimers = client.lostTimers /\ ~c.reconnectTimer /\ c.check = client.check
          /\ c.reconnectCount = client.reconnectCount /\ c.isDestroyed = client.isDestroyed
          /\ c.waiting = client.waiting /\ c.req = client.req
          /\ c.result = client.result /\ c.closed = client.closed
          /\ client.reconnectTimer /\ client.lostTimers \in Nat
      BY <1>1, <1>2, <2>1 DEF ClientType
    <3>3. Timers(c) + 1 = Timers(client) /\ ChecksOut(c) = ChecksOut(client)
      BY <3>2 DEF Timers, ChecksOut
    <3> QED BY <3>1, <3>2, <3>3
  <2>2. CASE c # [client EXCEPT !.reconnectTimer = FALSE]
    <3>1. client.lostTimers \in Nat /\ client.lostTimers > 0 /\ c = [client EXCEPT !.lostTimers = client.lostTimers - 1]
      BY <1>1, <1>2, <2>2 DEF ClientType
    <3>2. client.lostTimers - 1 \in Nat
      BY <3>1
    <3>3. c \in ClientType
      BY <1>1, <3>1, <3>2, ClientUpdate
    <3>4. /\ c.lostTimers = client.lostTimers - 1 /\ c.reconnectTimer = client.reconnectTimer /\ c.check = client.check
          /\ c.reconnectCount = client.reconnectCount /\ c.isDestroyed = client.isDestroyed
          /\ c.waiting = client.waiting /\ c.req = client.req
          /\ c.result = client.result /\ c.closed = client.closed
          /\ client.reconnectTimer \in BOOLEAN
      BY <1>1, <3>1 DEF ClientType
    <3>5. Timers(c) + 1 = Timers(client) /\ ChecksOut(c) = ChecksOut(client)
      BY <3>1, <3>4 DEF Timers, ChecksOut
    <3> QED BY <3>3, <3>4, <3>5
  <2> QED BY <2>1, <2>2
<1>4. /\ IsFiniteSet(Used(conns)) /\ Cardinality(Used(conns)) \in 0..MaxSockets
      /\ Cardinality(Broken(conns)) \in Nat /\ Timers(client) \in Nat /\ ChecksOut(client) \in Nat
      /\ Timers(c) \in Nat /\ c.reconnectCount \in Nat
  BY <1>1, <1>3, Finite, CountTypes
<1>5. Cardinality(Used(conns)) < MaxSockets
  <2>1. MaxSockets = 1 + MaxBreaks + MaxChecks /\ MaxBreaks \in Nat /\ MaxChecks \in Nat
    BY Bounds DEF MaxSockets
  <2> QED BY <1>1, <1>3, <1>4, <2>1
<1>6. PICK s \in Sockets : /\ conns[s] = "unused" /\ conns' = [conns EXCEPT ![s] = "connecting"]
                           /\ client' = [c EXCEPT !.ws = s, !.reconnectCount = c.reconnectCount + 1]
  <2>1. \E x \in Sockets : conns[x] = "unused"
    BY <1>1, <1>5, Finite
  <2> QED BY <1>2, <2>1 DEF Connect
<1>7. /\ conns' \in [Sockets -> Phases] /\ Used(conns') = Used(conns) \cup {s} /\ Broken(conns') = Broken(conns)
      /\ Cardinality(Used(conns')) = Cardinality(Used(conns)) + 1
  <2>1. "connecting" \in Phases \ {"unused"}
    BY DEF Phases
  <2>2. s \notin Used(conns) /\ s \notin Broken(conns)
    BY <1>6 DEF Used, Broken
  <2>3. Broken(conns) \ {s} = Broken(conns)
    BY <2>2
  <2>4. /\ conns' \in [Sockets -> Phases] /\ Used(conns') = Used(conns) \cup {s} /\ Broken(conns') = Broken(conns)
    BY <1>1, <1>6, <2>1, <2>3, SocketChanges
  <2> QED BY <1>4, <2>2, <2>4, FS_AddElement
<1>8. /\ client' \in ClientType /\ Timers(client') = Timers(c) /\ ChecksOut(client') = ChecksOut(c)
      /\ client'.ws = s /\ client'.reconnectCount = c.reconnectCount + 1
      /\ client'.waiting = c.waiting /\ client'.req = c.req
      /\ client'.result = c.result /\ client'.closed = c.closed
  <2>1. [c EXCEPT !.ws = s] \in ClientType
    <3>1. s \in Sockets \union {NoSocket}
      OBVIOUS
    <3> QED BY <1>3, <3>1, ClientUpdate
  <2>2. client' = [[c EXCEPT !.ws = s] EXCEPT !.reconnectCount = c.reconnectCount + 1]
    BY <1>3, <1>6 DEF ClientType
  <2>3. c.reconnectCount + 1 \in Nat
    BY <1>4
  <2>4. client' \in ClientType
    BY <2>1, <2>2, <2>3, ClientUpdate
  <2> QED BY <1>3, <1>6, <2>4 DEF ClientType, Timers, ChecksOut
<1>9. Types'
  BY <1>1, <1>7, <1>8 DEF Types
<1>10. TimersAreCounted'
  <2>1. breaks \in Int /\ checks \in Int
    BY <1>1
  <2> QED BY <1>1, <1>3, <1>4, <1>7, <1>8, <2>1 DEF TimersAreCounted
<1>11. Connectable'
  <2>1. conns'[s] = "connecting" /\ s # NoSocket
    BY <1>1, <1>6 DEF Sockets, NoSocket
  <2> QED BY <1>8, <2>1 DEF Connectable
<1> QED BY <1>3, <1>8, <1>9, <1>10, <1>11 DEF LinkInv

-----------------------------------------------------------------------------
(* Messages                                                                *)

\* No message occurs twice in the sequence q.
Once(q) == \A i, j \in DOMAIN q : q[i] = q[j] /\ q[i] \in Messages => i = j

\* Each message is in one place at most, and only when it was given to send.
Separate(w, up, in, del, sent) ==
    /\ Once(w) /\ Once(in) /\ \A s \in Sockets : Once(up[s])
    /\ \A m \in Messages :
          /\ m \in Range(w) => /\ m \in sent /\ m \notin Range(in) /\ m \notin Range(del)
                               /\ \A s \in Sockets : m \notin Range(up[s])
          /\ \A s \in Sockets : m \in Range(up[s]) =>
                /\ m \in sent /\ m \notin Range(in) /\ m \notin Range(del)
                /\ \A t \in Sockets : m \in Range(up[t]) => s = t
          /\ m \in Range(in) => m \in sent /\ m \notin Range(del)
          /\ m \in Range(del) => m \in sent

Sent == {m \in Messages : client.req[m] # "idle"}

MessageTypes == /\ uplink \in [Sockets -> Seq(Item)]
                /\ inbox \in Seq(Messages) /\ delivered \in Seq(Messages)
                /\ replies \subseteq Messages /\ targetJoined \in BOOLEAN

\* A message is with the client, on one connection, at the target's session, or delivered:
\* no step can bring it to the target a second time.
MessagesInOnePlace ==
    /\ Separate(client.waiting, uplink, inbox, delivered, Sent)
    /\ replies \subseteq Range(delivered)
    /\ \A m \in Messages : client.req[m] # "settled" => client.result[m] = "none"

MessageInv == MessageTypes /\ MessagesInOnePlace

LEMMA SequencesJoin ==
    ASSUME NEW S, NEW q \in Seq(S), NEW r \in Seq(S)
    PROVE  /\ Range(q \o r) = Range(q) \cup Range(r)
           /\ Once(q) /\ Once(r) /\ (\A m \in Messages : m \in Range(q) => m \notin Range(r)) => Once(q \o r)
<1>1. /\ q \o r \in Seq(S) /\ Len(q \o r) = Len(q) + Len(r) /\ Len(q) \in Nat /\ Len(r) \in Nat
      /\ \A i \in 1..Len(q) : (q \o r)[i] = q[i]
      /\ \A i \in 1..Len(r) : (q \o r)[Len(q) + i] = r[i]
      /\ \A i \in 1..(Len(q) + Len(r)) : i \in 1..Len(q) \/ (i - Len(q) \in 1..Len(r) /\ (q \o r)[i] = r[i - Len(q)])
      /\ DOMAIN q = 1..Len(q) /\ DOMAIN r = 1..Len(r) /\ DOMAIN (q \o r) = 1..(Len(q) + Len(r))
  OBVIOUS
<1>2. Range(q \o r) = Range(q) \cup Range(r)
  <2>1. ASSUME NEW x \in Range(q \o r) PROVE x \in Range(q) \cup Range(r)
    BY <1>1, <2>1 DEF Range
  <2>2. ASSUME NEW x \in Range(q) PROVE x \in Range(q \o r)
    <3>1. PICK i \in 1..Len(q) : x = q[i]
      BY <1>1, <2>2 DEF Range
    <3> QED BY <1>1, <3>1 DEF Range
  <2>3. ASSUME NEW x \in Range(r) PROVE x \in Range(q \o r)
    <3>1. PICK i \in 1..Len(r) : x = r[i]
      BY <1>1, <2>3 DEF Range
    <3>2. Len(q) + i \in 1..(Len(q) + Len(r))
      BY <1>1
    <3> QED BY <1>1, <3>1, <3>2 DEF Range
  <2> QED BY <2>1, <2>2, <2>3
<1>3. ASSUME Once(q), Once(r), \A m \in Messages : m \in Range(q) => m \notin Range(r),
             NEW i \in DOMAIN (q \o r), NEW j \in DOMAIN (q \o r), (q \o r)[i] = (q \o r)[j], (q \o r)[i] \in Messages
      PROVE  i = j
  <2>1. ASSUME NEW k \in 1..Len(q) PROVE q[k] \in Range(q)
    BY <1>1 DEF Range
  <2>2. ASSUME NEW k \in 1..Len(r) PROVE r[k] \in Range(r)
    BY <1>1 DEF Range
  <2>3. CASE i \in 1..Len(q) /\ j \in 1..Len(q)
    BY <1>1, <1>3, <2>3 DEF Once
  <2>4. CASE i \in 1..Len(q) /\ j \notin 1..Len(q)
    BY <1>1, <1>3, <2>1, <2>2, <2>4
  <2>5. CASE i \notin 1..Len(q) /\ j \in 1..Len(q)
    BY <1>1, <1>3, <2>1, <2>2, <2>5
  <2>6. CASE i \notin 1..Len(q) /\ j \notin 1..Len(q)
    <3>1. i - Len(q) = j - Len(q)
      BY <1>1, <1>3, <2>6 DEF Once
    <3> QED BY <1>1, <3>1
  <2> QED BY <2>3, <2>4, <2>5, <2>6
<1> QED BY <1>2, <1>3 DEF Once

LEMMA SequenceHead ==
    ASSUME NEW S, NEW q \in Seq(S), q # << >>
    PROVE  /\ Head(q) \in S /\ Tail(q) \in Seq(S) /\ Head(q) \in Range(q)
           /\ \A x : x \in Range(Tail(q)) => x \in Range(q)
           /\ Once(q) => Once(Tail(q)) /\ (Head(q) \in Messages => Head(q) \notin Range(Tail(q)))
<1>1. /\ Len(q) \in Nat \ {0} /\ DOMAIN q = 1..Len(q) /\ Head(q) = q[1] /\ Head(q) \in S
      /\ Tail(q) \in Seq(S) /\ DOMAIN Tail(q) = 1..(Len(q) - 1)
      /\ \A i \in 1..(Len(q) - 1) : Tail(q)[i] = q[i + 1] /\ i + 1 \in 1..Len(q) /\ i + 1 # 1
  OBVIOUS
<1>2. Head(q) \in Range(q)
  BY <1>1 DEF Range
<1>3. ASSUME NEW x, x \in Range(Tail(q)) PROVE x \in Range(q)
  BY <1>1, <1>3 DEF Range
<1>4. ASSUME Once(q) PROVE Once(Tail(q)) /\ (Head(q) \in Messages => Head(q) \notin Range(Tail(q)))
  <2>1. ASSUME NEW i \in DOMAIN Tail(q), NEW j \in DOMAIN Tail(q), Tail(q)[i] = Tail(q)[j], Tail(q)[i] \in Messages
        PROVE  i = j
    <3>1. i + 1 = j + 1
      BY <1>1, <1>4, <2>1 DEF Once
    <3> QED BY <1>1, <3>1
  <2>2. ASSUME Head(q) \in Messages, Head(q) \in Range(Tail(q)) PROVE FALSE
    <3>1. PICK i \in 1..(Len(q) - 1) : Head(q) = Tail(q)[i]
      BY <1>1, <2>2 DEF Range
    <3>2. 1 \in DOMAIN q /\ i + 1 \in DOMAIN q /\ q[1] = q[i + 1] /\ q[1] \in Messages /\ i + 1 # 1
      BY <1>1, <2>2, <3>1
    <3> QED BY <1>4, <3>2 DEF Once
  <2> QED BY <2>1, <2>2 DEF Once
<1> QED BY <1>1, <1>2, <1>3, <1>4

LEMMA ShortSequences ==
    /\ Range(<< >>) = {} /\ Once(<< >>)
    /\ \A k : Range(<<k>>) = {k} /\ Once(<<k>>)
BY DEF Range, Once

(***************************************************************************)
(* What Separate allows: fewer messages, a message that is new, those that *)
(* waited on a connection.                                                 *)
(***************************************************************************)
LEMMA SeparateShrinks ==
    ASSUME NEW w, NEW up, NEW in, NEW del, NEW sent, NEW w2, NEW up2, NEW in2, NEW sent2,
           Separate(w, up, in, del, sent),
           w2 \in {w, << >>}, Once(in2), \A m \in Messages : m \in Range(in2) => m \in Range(in),
           \A s \in Sockets : Once(up2[s]) /\ \A m \in Messages : m \in Range(up2[s]) => m \in Range(up[s]),
           \A m \in Messages : m \in sent => m \in sent2
    PROVE  Separate(w2, up2, in2, del, sent2)
<1>1. Once(w2) /\ \A m \in Messages : m \in Range(w2) => m \in Range(w)
  BY ShortSequences DEF Separate
<1> QED BY <1>1 DEF Separate

LEMMA SeparateCarries ==
    ASSUME NEW w \in Seq(Item), NEW up \in [Sockets -> Seq(Item)], NEW in, NEW del, NEW sent, NEW sent2,
           Separate(w, up, in, del, sent), NEW k \in Item,
           k \in Messages => k \notin sent /\ k \in sent2,
           \A m \in Messages : m \in sent => m \in sent2
    PROVE  /\ Separate(w, up, in, del, sent2)
           /\ Separate(w \o <<k>>, up, in, del, sent2)
           /\ \A s \in Sockets : Separate(w, [up EXCEPT ![s] = @ \o <<k>>], in, del, sent2)
<1>1. <<k>> \in Seq(Item) /\ Range(<<k>>) = {k} /\ Once(<<k>>)
  BY ShortSequences
<1>2. Separate(w, up, in, del, sent2)
  BY DEF Separate
<1>3. Separate(w \o <<k>>, up, in, del, sent2)
  <2>1. \A m : m \in Range(w \o <<k>>) <=> m \in Range(w) \/ m = k
    <3>1. Range(w \o <<k>>) = Range(w) \cup Range(<<k>>)
      BY <1>1, SequencesJoin
    <3> QED BY <1>1, <3>1
  <2>2. \A m \in Messages : m \in Range(w) => m \notin Range(<<k>>)
    BY <1>1 DEF Separate
  <2>3. Once(w \o <<k>>)
    BY <1>1, <2>2, SequencesJoin DEF Separate
  <2> QED BY <2>1, <2>3 DEF Separate
<1>4. ASSUME NEW s \in Sockets
      PROVE  Separate(w, [up EXCEPT ![s] = @ \o <<k>>], in, del, sent2)
  <2> DEFINE up2 == [up EXCEPT ![s] = @ \o <<k>>]
  <2>1. up2[s] = up[s] \o <<k>> /\ \A t \in Sockets : t # s => up2[t] = up[t]
    OBVIOUS
  <2> HIDE DEF up2
  <2>2. \A m : m \in Range(up[s] \o <<k>>) <=> m \in Range(up[s]) \/ m = k
    <3>1. up[s] \in Seq(Item)
      OBVIOUS
    <3>2. Range(up[s] \o <<k>>) = Range(up[s]) \cup Range(<<k>>)
      BY <1>1, <3>1, SequencesJoin
    <3> QED BY <1>1, <3>2
  <2>3. \A m \in Messages : m \in Range(up[s]) => m \notin Range(<<k>>)
    BY <1>1 DEF Separate
  <2>4. Once(up[s] \o <<k>>)
    BY <1>1, <2>3, SequencesJoin DEF Separate
  <2>5. \A t \in Sockets : /\ Once(up2[t])
                           /\ \A m \in Messages : m \in Range(up2[t]) <=> m \in Range(up[t]) \/ (t = s /\ m = k)
    BY <2>1, <2>2, <2>4 DEF Separate
  <2>6. Separate(w, up2, in, del, sent2)
    BY <2>5 DEF Separate
  <2> QED BY <2>6 DEF up2
<1> QED BY <1>2, <1>3, <1>4

LEMMA SeparateFlushes ==
    ASSUME NEW w \in Seq(Item), NEW up \in [Sockets -> Seq(Item)], NEW in, NEW del, NEW sent,
           Separate(w, up, in, del, sent), NEW s \in Sockets
    PROVE  Separate(<< >>, [up EXCEPT ![s] = @ \o w], in, del, sent)
<1> DEFINE up2 == [up EXCEPT ![s] = @ \o w]
<1>1. up2[s] = up[s] \o w /\ \A t \in Sockets : t # s => up2[t] = up[t]
  OBVIOUS
<1> HIDE DEF up2
<1>2. Range(up[s] \o w) = Range(up[s]) \cup Range(w)
  BY SequencesJoin
<1>3. \A m \in Messages : m \in Range(up[s]) => m \notin Range(w)
  BY DEF Separate
<1>4. Once(up[s] \o w)
  BY <1>3, SequencesJoin DEF Separate
<1>5. Separate(<< >>, up2, in, del, sent)
  BY <1>1, <1>2, <1>4, ShortSequences DEF Separate
<1> QED BY <1>5 DEF up2

-----------------------------------------------------------------------------
(* Steps                                                                   *)

IInv == LinkInv /\ MessageInv

LEMMA WaitersBegun == IInv => Begun(client, Range(client.waiting))
BY DEF IInv, MessageInv, MessagesInOnePlace, Separate, Begun, Sent

\* The client goes on with its requests, and what waits stays, is given up or is written.
Passes ==
    /\ Progress(client, client')
    /\ UNCHANGED <<inbox, replies, delivered, targetJoined>>
    /\ \/ client'.waiting \in {<< >>, client.waiting} /\ uplink' = uplink
       \/ /\ client'.waiting = << >> /\ client.ws \in Sockets
          /\ uplink' = [uplink EXCEPT ![client.ws] = @ \o client.waiting]
       \/ client'.waiting = client.waiting \o <<Check>> /\ uplink' = uplink
       \/ /\ client'.waiting = client.waiting /\ client.ws \in Sockets
          /\ uplink' = [uplink EXCEPT ![client.ws] = @ \o <<Check>>]

LEMMA ProgressSettles ==
    ASSUME IInv, Progress(client, client'), UNCHANGED <<delivered, targetJoined>>
    PROVE  /\ Sent' = Sent
           /\ \A m \in Messages : client'.req[m] # "settled" => client'.result[m] = "none"
           /\ Transfer!Settle /\ UNCHANGED Sent
<1>1. Sent' = Sent
  BY DEF Progress, Sent
<1>2. \A m \in Messages : client.req[m] # "settled" => client.result[m] = "none"
  BY DEF IInv, MessageInv, MessagesInOnePlace
<1>3. \A m \in Messages : client'.req[m] # "settled" => client'.result[m] = "none"
  BY <1>2 DEF Progress
<1>4. \A m \in Messages : client'.result[m] # client.result[m] =>
          /\ client.result[m] = "none" /\ client'.req[m] # "idle"
          /\ client'.result[m] = "ok" => client.closed \/ ~targetJoined
  BY <1>2 DEF Progress
<1>5. (client.closed \/ ~targetJoined)' = (client.closed \/ ~targetJoined)
  BY DEF Progress
<1>6. Transfer!Settle
  BY <1>4, <1>5 DEF Transfer!Settle
<1> QED BY <1>1, <1>3, <1>6

LEMMA PassesKeeps ==
    ASSUME IInv, client' \in ClientType, Passes
    PROVE  MessageInv' /\ Transfer!Settle /\ UNCHANGED Sent
<1>1. /\ Sent' = Sent /\ Transfer!Settle /\ UNCHANGED Sent
      /\ \A m \in Messages : client'.req[m] # "settled" => client'.result[m] = "none"
  BY ProgressSettles DEF Passes
<1>2. /\ client.waiting \in Seq(Item) /\ uplink \in [Sockets -> Seq(Item)]
      /\ Separate(client.waiting, uplink, inbox, delivered, Sent)
      /\ Once(inbox) /\ \A s \in Sockets : Once(uplink[s])
  BY DEF IInv, LinkInv, Types, ClientType, MessageInv, MessageTypes, MessagesInOnePlace, Separate
<1>3. Check \in Item /\ Check \notin Messages /\ <<Check>> \in Seq(Item)
  BY SignalingAssumption DEF Item
<1>4. uplink' \in [Sockets -> Seq(Item)] /\ Separate(client'.waiting, uplink', inbox, delivered, Sent)
  <2>1. CASE client'.waiting \in {<< >>, client.waiting} /\ uplink' = uplink
    BY <1>2, <2>1, SeparateShrinks
  <2>2. CASE /\ client'.waiting = << >> /\ client.ws \in Sockets
             /\ uplink' = [uplink EXCEPT ![client.ws] = @ \o client.waiting]
    <3>1. uplink' \in [Sockets -> Seq(Item)]
      BY <1>2, <2>2
    <3>2. Separate(<< >>, [uplink EXCEPT ![client.ws] = @ \o client.waiting], inbox, delivered, Sent)
      BY <1>2, <2>2, SeparateFlushes
    <3> QED BY <2>2, <3>1, <3>2
  <2>3. CASE client'.waiting = client.waiting \o <<Check>> /\ uplink' = uplink
    BY <1>2, <1>3, <2>3, SeparateCarries
  <2>4. CASE /\ client'.waiting = client.waiting /\ client.ws \in Sockets
             /\ uplink' = [uplink EXCEPT ![client.ws] = @ \o <<Check>>]
    <3>1. uplink' \in [Sockets -> Seq(Item)]
      BY <1>2, <1>3, <2>4
    <3> QED BY <1>2, <1>3, <2>4, <3>1, SeparateCarries
  <2> QED BY <2>1, <2>2, <2>3, <2>4 DEF Passes
<1>5. MessageTypes'
  BY <1>4 DEF IInv, MessageInv, MessageTypes, Passes
<1>6. MessagesInOnePlace'
  BY <1>1, <1>4 DEF IInv, MessageInv, MessagesInOnePlace, Passes
<1> QED BY <1>1, <1>5, <1>6 DEF MessageInv

(***************************************************************************)
(* The steps of the client but send.                                       *)
(***************************************************************************)
LEMMA OpensStep ==
    ASSUME IInv, NEW s \in Sockets, Opens(s)
    PROVE  LinkInv' /\ Passes
<1>1. LinkInv'
  BY WaitersBegun, OpensLink DEF IInv
<1>2. /\ Progress(client, client')
      /\ \/ client'.waiting \in {<< >>, client.waiting} /\ uplink' = uplink
         \/ /\ client'.waiting = << >> /\ client.ws \in Sockets
            /\ uplink' = [uplink EXCEPT ![client.ws] = @ \o client.waiting]
  BY WaitersBegun, OpensKeeps DEF IInv, LinkInv
<1>3. UNCHANGED <<inbox, replies, delivered, targetJoined>>
  BY DEF Opens
<1> QED BY <1>1, <1>2, <1>3 DEF Passes

LEMMA AbnormalStep ==
    ASSUME IInv, NEW s \in Sockets, CloseAbnormal(s)
    PROVE  LinkInv' /\ Passes
<1>1. client \in ClientType /\ client' = reconnect(client) /\ UNCHANGED <<net, targetJoined>>
  BY DEF CloseAbnormal, IInv, LinkInv, Types
<1>2. client'.waiting \in {<< >>, client.waiting} /\ Progress(client, client')
  BY <1>1, WaitersBegun, ReconnectKeeps
<1> QED BY <1>1, <1>2, AbnormalLink DEF IInv, Passes, net

LEMMA FinalStep ==
    ASSUME IInv, NEW s \in Sockets, CloseFinal(s)
    PROVE  LinkInv' /\ Passes
<1> DEFINE failed == connectionFailed(client)
<1>1. client \in ClientType /\ client' = destroy(failed) /\ UNCHANGED <<net, targetJoined>>
  BY DEF CloseFinal, IInv, LinkInv, Types
<1>2. failed \in ClientType /\ Progress(client, failed)
  BY <1>1, WaitersBegun, FailedKeeps
<1> HIDE DEF failed
<1>3. client'.waiting = << >> /\ Progress(client, client')
  BY <1>1, <1>2, DestroyKeeps DEF Progress
<1> QED BY <1>1, <1>3, FinalLink DEF IInv, Passes, net

LEMMA TimerStep ==
    ASSUME IInv, TimerFires
    PROVE  LinkInv' /\ Passes
<1>1. /\ LinkInv'
      /\ client'.waiting = client.waiting /\ client'.req = client.req
      /\ client'.result = client.result /\ client'.closed = client.closed
  BY TimerLink DEF IInv
<1>2. UNCHANGED <<net, targetJoined>>
  BY DEF TimerFires
<1> QED BY <1>1, <1>2 DEF Progress, Passes, net

LEMMA TimeoutStep ==
    ASSUME IInv, ConnectTimeout
    PROVE  LinkInv' /\ Passes
<1>1. /\ client' = [client EXCEPT !.check = "off"] /\ client \in ClientType /\ client.check = "unstarted"
      /\ UNCHANGED <<conns, net, targetJoined, breaks, checks>>
  BY DEF ConnectTimeout, IInv, LinkInv, Types
<1>2. client' \in ClientType
  BY <1>1, ClientUpdate
<1>3. /\ client'.waiting = client.waiting /\ client'.req = client.req
      /\ client'.result = client.result /\ client'.closed = client.closed
      /\ client'.isDestroyed = client.isDestroyed /\ client'.ws = client.ws
      /\ client'.reconnectCount = client.reconnectCount
      /\ Timers(client') = Timers(client) /\ ChecksOut(client') = ChecksOut(client)
  BY <1>1 DEF ClientType, Timers, ChecksOut
<1>4. LinkInv'
  BY <1>1, <1>2, <1>3 DEF IInv, LinkInv, Types, TimersAreCounted, Connectable
<1> QED BY <1>1, <1>3, <1>4 DEF Progress, Passes, net

LEMMA CheckStep ==
    ASSUME IInv, CheckBegins
    PROVE  LinkInv' /\ Passes
<1> DEFINE c1 == [client EXCEPT !.check = "out"]
           c == [c1 EXCEPT !.checkOn = NoSocket]
<1>1. /\ client \in ClientType /\ client.check = "idle" /\ checks < MaxChecks /\ checks' = checks + 1
      /\ Write(c, Check)
      /\ UNCHANGED <<conns, inbox, replies, delivered, targetJoined, breaks>>
      /\ conns \in [Sockets -> Phases] /\ breaks \in 0..MaxBreaks /\ checks \in 0..MaxChecks
  BY DEF CheckBegins, IInv, LinkInv, Types, ClientType
<1>2. c1 \in ClientType
  BY <1>1, ClientUpdate
<1>3. c \in ClientType
  BY <1>2, ClientUpdate
<1>4. /\ c.waiting = client.waiting /\ c.req = client.req /\ c.result = client.result /\ c.closed = client.closed
      /\ c.isDestroyed = client.isDestroyed /\ c.ws = client.ws /\ c.reconnectCount = client.reconnectCount
      /\ c.reconnectTimer = client.reconnectTimer /\ c.lostTimers = client.lostTimers /\ c.check = "out"
  BY <1>1 DEF ClientType
<1> HIDE DEF c
<1>5. Check \in Item /\ Begun(c, {Check})
  BY SignalingAssumption DEF Item, Begun
<1>6. /\ client' \in ClientType /\ SameLink(c, client') /\ Progress(c, client')
      /\ Carried(c, <<Check>>)
  BY <1>1, <1>3, <1>5, WriteKeeps
<1>7. Progress(client, client')
  BY <1>4, <1>6 DEF Progress
<1>8. Passes
  BY <1>1, <1>4, <1>6, <1>7 DEF Carried, Passes
<1>9. /\ Timers(client') = Timers(client) /\ ChecksOut(client') = 1 /\ ChecksOut(client) = 0
      /\ client'.reconnectCount = client.reconnectCount
      /\ client'.isDestroyed = client.isDestroyed /\ client'.ws = client.ws
  BY <1>1, <1>4, <1>6 DEF SameLink, Timers, ChecksOut
<1>10. LinkInv'
  <2>1. checks' \in 0..MaxChecks
    BY <1>1, Bounds
  <2>2. Cardinality(Broken(conns)) \in Nat /\ Timers(client) \in Nat /\ breaks \in Int /\ checks \in Int
    BY <1>1, Finite, CountTypes
  <2>3. Cardinality(Broken(conns')) + Timers(client') + ChecksOut(client') - breaks' - checks'
            <= Cardinality(Broken(conns)) + Timers(client) + ChecksOut(client) - breaks - checks
    BY <1>1, <1>9, <2>2
  <2>4. Types' /\ TimersAreCounted'
    BY <1>1, <1>6, <1>9, <2>1, <2>3, CountsKeep DEF IInv, LinkInv
  <2>5. Connectable'
    BY <1>1, <1>9 DEF IInv, LinkInv, Connectable
  <2> QED BY <2>4, <2>5 DEF LinkInv
<1> QED BY <1>8, <1>10

\* A check that was answered too late, or not at all.
LEMMA CheckReconnects ==
    ASSUME IInv, client.check = "out", Reconnects([client EXCEPT !.check = "idle"]),
           UNCHANGED <<net, targetJoined, breaks, checks>>
    PROVE  LinkInv' /\ Passes
<1> DEFINE c == [client EXCEPT !.check = "idle"]
<1>1. /\ client \in ClientType /\ conns \in [Sockets -> Phases] /\ breaks \in 0..MaxBreaks
      /\ client' = reconnect(c) /\ conns' = Close(conns, c.ws, "replaced")
  BY DEF IInv, LinkInv, Types, Reconnects
<1>2. c \in ClientType
  BY <1>1, ClientUpdate
<1>3. /\ c.waiting = client.waiting /\ c.req = client.req /\ c.result = client.result /\ c.closed = client.closed
      /\ c.ws = client.ws /\ c.ws \in Sockets \cup {NoSocket} /\ c.check = "idle"
      /\ SameLink(client, [c EXCEPT !.check = client.check])
      /\ ChecksOut(c) = 0 /\ ChecksOut(client) = 1
  BY <1>1 DEF ClientType, SameLink, ChecksOut
<1> HIDE DEF c
<1>4. /\ conns' \in [Sockets -> Phases] /\ Used(conns') = Used(conns) /\ Broken(conns') = Broken(conns)
      /\ Cardinality(Broken(conns)) \in Nat
  BY <1>1, <1>3, CloseKeeps, Finite
<1>5. LinkInv'
  <2>1. /\ Cardinality(Broken(conns')) \in Nat /\ breaks' \in 0..MaxBreaks /\ breaks \in Int
        /\ Cardinality(Broken(conns')) + 1 + ChecksOut(c) - breaks' <= Cardinality(Broken(conns)) + ChecksOut(client) - breaks
    BY <1>1, <1>3, <1>4
  <2> QED BY <1>1, <1>2, <1>3, <1>4, <2>1, ReconnectLink DEF IInv
<1>6. Begun(c, Range(c.waiting))
  BY <1>3, WaitersBegun DEF Begun
<1>7. client'.waiting \in {<< >>, client.waiting} /\ Progress(c, client')
  BY <1>1, <1>2, <1>3, <1>6, ReconnectKeeps
<1>8. Progress(client, client')
  BY <1>3, <1>7 DEF Progress
<1> QED BY <1>5, <1>7, <1>8 DEF Passes, net

LEMMA AnswerStep ==
    ASSUME IInv, CheckAnswered
    PROVE  LinkInv' /\ Passes
<1> DEFINE c == [client EXCEPT !.check = "idle"]
<1>1. /\ client \in ClientType /\ client.check = "out" /\ UNCHANGED <<net, targetJoined, breaks, checks>>
      /\ (client' = c /\ UNCHANGED conns) \/ Reconnects(c)
  BY DEF CheckAnswered, IInv, LinkInv, Types
<1>2. CASE Reconnects(c)
  BY <1>1, <1>2, CheckReconnects
<1>3. CASE client' = c /\ UNCHANGED conns
  <2>1. c \in ClientType
    BY <1>1, ClientUpdate
  <2>2. /\ client'.waiting = client.waiting /\ client'.req = client.req
        /\ client'.result = client.result /\ client'.closed = client.closed
        /\ client'.isDestroyed = client.isDestroyed /\ client'.ws = client.ws
        /\ client'.reconnectCount = client.reconnectCount
        /\ Timers(client') = Timers(client) /\ ChecksOut(client') = 0 /\ ChecksOut(client) = 1
    BY <1>1, <1>3 DEF ClientType, Timers, ChecksOut
  <2>3. /\ conns \in [Sockets -> Phases] /\ breaks \in 0..MaxBreaks /\ checks \in 0..MaxChecks
        /\ Cardinality(Broken(conns)) \in Nat /\ Timers(client) \in Nat
    BY <1>1, Finite, CountTypes DEF IInv, LinkInv, Types
  <2>4. Cardinality(Broken(conns')) + Timers(client') + ChecksOut(client') - breaks' - checks'
            <= Cardinality(Broken(conns)) + Timers(client) + ChecksOut(client) - breaks - checks
    BY <1>1, <1>3, <2>2, <2>3
  <2>5. Types' /\ TimersAreCounted'
    BY <1>1, <1>3, <2>1, <2>2, <2>3, <2>4, CountsKeep DEF IInv, LinkInv
  <2>6. Connectable'
    BY <1>3, <2>2 DEF IInv, LinkInv, Connectable
  <2> QED BY <1>1, <2>2, <2>5, <2>6 DEF LinkInv, Progress, Passes, net
<1> QED BY <1>1, <1>2, <1>3

LEMMA FailureStep ==
    ASSUME IInv, NEW m \in Messages, RequestFails(m)
    PROVE  LinkInv' /\ Passes
<1>1. /\ client \in ClientType /\ client.req[m] \in {"waiting", "sent"} /\ client' = Reject(client, {m})
      /\ UNCHANGED <<conns, net, targetJoined, breaks, checks>>
  BY DEF RequestFails, IInv, LinkInv, Types
<1>2. Begun(client, {m})
  BY <1>1 DEF Begun
<1>3. /\ client' \in ClientType /\ SameLink(client, client') /\ client'.waiting = client.waiting
      /\ Progress(client, client')
  BY <1>1, <1>2, RejectKeeps
<1> QED BY <1>1, <1>3, SameLinkKeeps DEF IInv, Passes, net

LEMMA DisconnectStep ==
    ASSUME IInv, disconnect
    PROVE  /\ LinkInv' /\ MessageInv'
           /\ client'.closed /\ client'.result = client.result /\ Sent' = Sent /\ UNCHANGED delivered
<1> DEFINE d == destroy(client)
           d1 == [d EXCEPT !.closed = TRUE]
           d2 == [d1 EXCEPT !.check = "off"]
<1>1. /\ client \in ClientType /\ conns \in [Sockets -> Phases] /\ client.ws \in Sockets \cup {NoSocket}
      /\ client' = [d EXCEPT !.closed = TRUE, !.check = "off"]
      /\ conns' = Close(conns, client.ws, "ended")
      /\ breaks' = breaks /\ checks' = checks /\ breaks \in 0..MaxBreaks
      /\ UNCHANGED <<uplink, inbox, replies, delivered, targetJoined>>
  BY DEF disconnect, IInv, LinkInv, Types, ClientType, net
<1>2. /\ d \in ClientType /\ d.isDestroyed
      /\ d.ws = client.ws /\ d.reconnectCount = client.reconnectCount /\ ~d.reconnectTimer
      /\ d.lostTimers = client.lostTimers /\ d.waiting = << >> /\ d.req = client.req /\ d.result = client.result
  BY <1>1, DestroyKeeps
<1> HIDE DEF d
<1>3. d1 \in ClientType
  BY <1>2, ClientUpdate
<1>4. d2 \in ClientType
  BY <1>3, ClientUpdate
<1>5. client' = d2
  BY <1>1, <1>2 DEF ClientType
<1>6. /\ client' \in ClientType /\ client'.isDestroyed /\ client'.reconnectCount = client.reconnectCount
      /\ ~client'.reconnectTimer /\ client'.lostTimers = client.lostTimers /\ client'.check = "off"
      /\ client'.waiting = << >> /\ client'.req = client.req /\ client'.result = client.result /\ client'.closed
  BY <1>2, <1>4, <1>5 DEF ClientType
<1>7. LinkInv'
  <2>1. conns' \in [Sockets -> Phases] /\ Used(conns') = Used(conns) /\ Broken(conns') = Broken(conns)
    BY <1>1, CloseKeeps
  <2>2. breaks' \in breaks..MaxBreaks
    BY <1>1, Bounds
  <2> QED BY <1>1, <1>6, <2>1, <2>2, DestroyLink DEF IInv
<1>8. Sent' = Sent
  BY <1>6 DEF Sent
<1>9. Separate(client'.waiting, uplink', inbox, delivered, Sent)
  <2>1. /\ Separate(client.waiting, uplink, inbox, delivered, Sent)
        /\ Once(inbox) /\ \A s \in Sockets : Once(uplink[s])
    BY DEF IInv, MessageInv, MessagesInOnePlace, Separate
  <2> QED BY <1>1, <1>6, <2>1, SeparateShrinks
<1>10. MessageInv'
  BY <1>1, <1>6, <1>8, <1>9 DEF IInv, MessageInv, MessageTypes, MessagesInOnePlace
<1> QED BY <1>1, <1>6, <1>7, <1>8, <1>10

(***************************************************************************)
(* send begins a request for a message that is nowhere yet.                *)
(***************************************************************************)
LEMMA SendStep ==
    ASSUME IInv, NEW m \in Messages, send(m)
    PROVE  LinkInv' /\ MessageInv' /\ Transfer!Send(m) /\ Transfer!Settle
<1> DEFINE begun == [client EXCEPT !.req[m] = "waiting"]
<1>1. /\ client \in ClientType /\ client.req[m] = "idle"
      /\ UNCHANGED <<conns, inbox, replies, delivered, targetJoined, breaks, checks>>
      /\ \/ client' = Reject(begun, {m}) /\ uplink' = uplink
         \/ Write(begun, m)
  BY DEF send, IInv, LinkInv, Types
<1>2. begun \in ClientType
  <2>1. [client.req EXCEPT ![m] = "waiting"] \in [Messages -> {"idle", "waiting", "sent", "settled"}]
    BY <1>1 DEF ClientType
  <2>2. begun = [client EXCEPT !.req = [client.req EXCEPT ![m] = "waiting"]]
    BY <1>1 DEF ClientType
  <2> QED BY <1>1, <2>1, <2>2, ClientUpdate
<1>3. /\ SameLink(client, begun) /\ begun.waiting = client.waiting /\ begun.closed = client.closed
      /\ begun.result = client.result
      /\ begun.req[m] = "waiting" /\ \A n \in Messages \ {m} : begun.req[n] = client.req[n]
  BY <1>1 DEF ClientType, SameLink
<1> HIDE DEF begun
<1>4. Begun(begun, {m})
  BY <1>3 DEF Begun
<1>5. <<m>> \in Seq(Item) /\ m \in Item
  BY DEF Item
<1>6. /\ client' \in ClientType /\ SameLink(begun, client') /\ Progress(begun, client') /\ Carried(begun, <<m>>)
  <2>1. CASE client' = Reject(begun, {m}) /\ uplink' = uplink
    BY <1>2, <1>4, <2>1, RejectKeeps DEF Carried
  <2>2. CASE Write(begun, m)
    BY <1>2, <1>4, <1>5, <2>2, WriteKeeps
  <2> QED BY <1>1, <2>1, <2>2
<1>7. LinkInv'
  <2>1. SameLink(client, client')
    BY <1>3, <1>6 DEF SameLink
  <2> QED BY <1>1, <1>6, <2>1, SameLinkKeeps DEF IInv
<1>8. Sent' = Sent \cup {m} /\ m \notin Sent
  BY <1>1, <1>3, <1>6 DEF Sent, Progress
<1>9. /\ client.waiting \in Seq(Item) /\ uplink \in [Sockets -> Seq(Item)]
      /\ Separate(client.waiting, uplink, inbox, delivered, Sent)
      /\ client.ws \in Sockets \cup {NoSocket} /\ begun.ws = client.ws
  BY <1>1, <1>3 DEF IInv, ClientType, MessageInv, MessageTypes, MessagesInOnePlace, SameLink
<1>10. /\ Separate(client.waiting, uplink, inbox, delivered, Sent')
       /\ Separate(client.waiting \o <<m>>, uplink, inbox, delivered, Sent')
       /\ \A s \in Sockets : Separate(client.waiting, [uplink EXCEPT ![s] = @ \o <<m>>], inbox, delivered, Sent')
  <2>1. \A n \in Messages : n \in Sent => n \in Sent'
    BY <1>8
  <2>2. m \in Messages => m \notin Sent /\ m \in Sent'
    BY <1>8
  <2> HIDE DEF Sent
  <2> QED BY <1>5, <1>9, <2>1, <2>2, SeparateCarries
<1>11. uplink' \in [Sockets -> Seq(Item)] /\ Separate(client'.waiting, uplink', inbox, delivered, Sent')
  <2>1. \/ client'.waiting = client.waiting /\ uplink' = uplink
        \/ client'.waiting = client.waiting \o <<m>> /\ uplink' = uplink
        \/ client'.waiting = client.waiting /\ client.ws \in Sockets /\ uplink' = [uplink EXCEPT ![client.ws] = @ \o <<m>>]
    BY <1>3, <1>6, <1>9 DEF Carried
  <2>2. \A s \in Sockets : [uplink EXCEPT ![s] = @ \o <<m>>] \in [Sockets -> Seq(Item)]
    BY <1>5, <1>9
  <2> QED BY <1>9, <1>10, <2>1, <2>2
<1>12. \A n \in Messages : client.req[n] # "settled" => client.result[n] = "none"
  BY DEF IInv, MessageInv, MessagesInOnePlace
<1>13. \A n \in Messages : /\ client'.req[n] # "settled" => client'.result[n] = "none"
                           /\ client'.result[n] # client.result[n] =>
                                 /\ client.result[n] = "none" /\ n \in Sent'
                                 /\ client'.result[n] = "ok" => client.closed \/ ~targetJoined
  <2>1. ASSUME NEW n \in Messages
        PROVE  /\ begun.req[n] # "settled" => client.result[n] = "none"
               /\ client'.req[n] # "idle" => n \in Sent'
    BY <1>1, <1>3, <1>12 DEF Sent
  <2> QED BY <1>3, <1>6, <2>1 DEF Progress
<1>14. MessageInv'
  <2>1. MessageTypes'
    BY <1>1, <1>11 DEF IInv, MessageInv, MessageTypes
  <2>2. MessagesInOnePlace'
    BY <1>1, <1>11, <1>13 DEF IInv, MessageInv, MessagesInOnePlace
  <2> QED BY <2>1, <2>2 DEF MessageInv
<1>15. (client.closed \/ ~targetJoined)' = (client.closed \/ ~targetJoined) /\ delivered' = delivered
  BY <1>1, <1>3, <1>6 DEF Progress
<1>16. Transfer!Settle
  BY <1>13, <1>15 DEF Transfer!Settle, Sent
<1>17. Transfer!Send(m)
  BY <1>8, <1>15 DEF Transfer!Send, Sent
<1> QED BY <1>7, <1>14, <1>16, <1>17

(***************************************************************************)
(* A response settles the request of a message that was delivered.         *)
(***************************************************************************)
LEMMA ResponseStep ==
    ASSUME IInv, NEW m \in Messages, Response(m)
    PROVE  LinkInv' /\ MessageInv' /\ Transfer!Settle /\ UNCHANGED Sent
<1> DEFINE c1 == [client EXCEPT !.req = [client.req EXCEPT ![m] = "settled"]]
           c2 == [c1 EXCEPT !.result = [client.result EXCEPT ![m] = "ok"]]
<1>1. /\ client \in ClientType /\ m \in replies /\ replies' = replies \ {m}
      /\ UNCHANGED <<conns, uplink, inbox, delivered, targetJoined, breaks, checks>>
  BY DEF Response, IInv, LinkInv, Types
<1>2. m \in Range(delivered) /\ client.req[m] # "idle"
  BY <1>1 DEF IInv, MessageInv, MessagesInOnePlace, Separate, Sent
<1>3. client' = client \/ (client' = c2 /\ client.req[m] # "settled")
  BY <1>1 DEF Response, ClientType
<1>4. c2 \in ClientType
  <2>1. /\ [client.req EXCEPT ![m] = "settled"] \in [Messages -> {"idle", "waiting", "sent", "settled"}]
        /\ [client.result EXCEPT ![m] = "ok"] \in [Messages -> {"none", "ok", "failed"}]
    BY <1>1 DEF ClientType
  <2>2. c1 \in ClientType
    BY <1>1, <2>1, ClientUpdate
  <2> QED BY <2>1, <2>2, ClientUpdate
<1>5. /\ client' \in ClientType /\ SameLink(client, client')
      /\ client'.waiting = client.waiting /\ client'.closed = client.closed
      /\ \A n \in Messages : /\ client'.req[n] = "idle" <=> client.req[n] = "idle"
                             /\ n # m => client'.req[n] = client.req[n] /\ client'.result[n] = client.result[n]
      /\ client'.req[m] = "settled" \/ (client'.req[m] = client.req[m] /\ client'.result[m] = client.result[m])
      /\ client'.result[m] # client.result[m] => client.req[m] # "settled"
  <2>1. CASE client' = client
    BY <1>1, <2>1 DEF SameLink
  <2>2. CASE client' = c2 /\ client.req[m] # "settled"
    BY <1>1, <1>2, <1>4, <2>2 DEF SameLink, ClientType
  <2> QED BY <1>3, <2>1, <2>2
<1>6. LinkInv'
  BY <1>1, <1>5, SameLinkKeeps DEF IInv
<1>7. Sent' = Sent
  BY <1>5 DEF Sent
<1>8. \A n \in Messages : client.req[n] # "settled" => client.result[n] = "none"
  BY DEF IInv, MessageInv, MessagesInOnePlace
<1>9. \A n \in Messages : client'.req[n] # "settled" => client'.result[n] = "none"
  BY <1>5, <1>8
<1>10. MessageInv'
  <2>1. MessageTypes'
    BY <1>1 DEF IInv, MessageInv, MessageTypes
  <2>2. MessagesInOnePlace'
    <3>1. Separate(client.waiting, uplink, inbox, delivered, Sent) /\ replies \subseteq Range(delivered)
      BY DEF IInv, MessageInv, MessagesInOnePlace
    <3>2. Separate(client.waiting, uplink, inbox, delivered, Sent)' /\ (replies \subseteq Range(delivered))'
      BY <1>1, <1>5, <1>7, <3>1
    <3> QED BY <1>9, <3>2 DEF MessagesInOnePlace
  <2> QED BY <2>1, <2>2 DEF MessageInv
<1>11. Transfer!Settle
  <2>1. (client.closed \/ ~targetJoined)' = (client.closed \/ ~targetJoined) /\ delivered' = delivered
    BY <1>1, <1>5
  <2>2. \A n \in Messages : client'.result[n] # client.result[n] =>
            client.result[n] = "none" /\ client'.req[n] # "idle" /\ n \in Range(delivered)
    BY <1>2, <1>5, <1>8
  <2> QED BY <2>1, <2>2 DEF Transfer!Settle, Transfer!Range, Range
<1> QED BY <1>6, <1>7, <1>10, <1>11

(***************************************************************************)
(* The network, the server and the target.                                 *)
(***************************************************************************)
LEMMA QuietSteps ==
    ASSUME IInv, NEW s \in Sockets, Breaks(s) \/ ServerCloses(s) \/ CloseReplaced(s)
    PROVE  LinkInv' /\ UNCHANGED <<client, uplink, inbox, delivered, replies, targetJoined>>
<1>1. LinkInv'
  BY BreakLink, ReplacedLink DEF IInv
<1>2. UNCHANGED <<client, uplink, inbox, delivered, replies, targetJoined>>
  BY DEF Breaks, ServerCloses, CloseReplaced, net
<1> QED BY <1>1, <1>2

LEMMA ReadStep ==
    ASSUME IInv, NEW s \in Sockets, Forward(s) \/ Lose(s)
    PROVE  LinkInv' /\ MessageInv' /\ UNCHANGED <<client, delivered, targetJoined>>
<1>1. /\ uplink[s] # << >> /\ uplink' = [uplink EXCEPT ![s] = Tail(@)]
      /\ \/ inbox' = inbox
         \/ Head(uplink[s]) # Check /\ inbox' = Append(inbox, Head(uplink[s]))
      /\ UNCHANGED <<client, conns, replies, delivered, targetJoined, breaks, checks>>
  BY DEF Forward, Lose
<1>2. /\ client \in ClientType /\ uplink \in [Sockets -> Seq(Item)] /\ uplink[s] \in Seq(Item)
      /\ inbox \in Seq(Messages) /\ Once(inbox) /\ Once(uplink[s])
      /\ Separate(client.waiting, uplink, inbox, delivered, Sent)
  BY DEF IInv, LinkInv, Types, MessageInv, MessageTypes, MessagesInOnePlace, Separate
<1>3. LinkInv'
  <2>1. SameLink(client, client')
    BY <1>1 DEF SameLink
  <2> QED BY <1>1, <1>2, <2>1, SameLinkKeeps DEF IInv
<1> DEFINE h == Head(uplink[s])
<1>4. /\ h \in Item /\ Tail(uplink[s]) \in Seq(Item) /\ h \in Range(uplink[s])
      /\ \A x : x \in Range(Tail(uplink[s])) => x \in Range(uplink[s])
      /\ Once(Tail(uplink[s])) /\ (h \in Messages => h \notin Range(Tail(uplink[s])))
  BY <1>1, <1>2, SequenceHead
<1>5. /\ uplink' \in [Sockets -> Seq(Item)] /\ uplink'[s] = Tail(uplink[s])
      /\ \A t \in Sockets : t # s => uplink'[t] = uplink[t]
  BY <1>1, <1>2, <1>4
<1>6. \A t \in Sockets : Once(uplink'[t]) /\ \A m \in Messages : m \in Range(uplink'[t]) => m \in Range(uplink[t])
  BY <1>2, <1>4, <1>5 DEF Separate
<1>7. CASE inbox' = inbox
  <2>1. Separate(client.waiting, uplink', inbox, delivered, Sent)
    BY <1>2, <1>6, SeparateShrinks
  <2>2. Sent' = Sent
    BY <1>1 DEF Sent
  <2> QED BY <1>1, <1>3, <1>5, <1>7, <2>1, <2>2 DEF IInv, MessageInv, MessageTypes, MessagesInOnePlace
<1>8. CASE h # Check /\ inbox' = Append(inbox, h)
  <2>1. h \in Messages
    BY <1>4, <1>8 DEF Item
  <2>2. inbox' = inbox \o <<h>> /\ <<h>> \in Seq(Messages) /\ inbox' \in Seq(Messages)
    BY <1>2, <1>8, <2>1
  <2>3. h \in Sent /\ h \notin Range(inbox) /\ h \notin Range(delivered) /\ h \notin Range(client.waiting)
    BY <1>2, <1>4, <2>1 DEF Separate
  <2>4. \A m : m \in Range(inbox') <=> m \in Range(inbox) \/ m = h
    <3> DEFINE one == <<h>>
    <3>1. inbox \in Seq(Messages) /\ one \in Seq(Messages) /\ inbox' = inbox \o one
      BY <1>2, <2>2
    <3>2. \A x : x \in Range(one) <=> x = h
      BY ShortSequences
    <3> HIDE DEF one
    <3>3. Range(inbox \o one) = Range(inbox) \cup Range(one)
      BY <3>1, SequencesJoin
    <3> QED BY <3>1, <3>2, <3>3
  <2>5. Once(inbox')
    <3>1. Once(<<h>>) /\ \A m \in Messages : m \in Range(inbox) => m \notin Range(<<h>>)
      BY <2>3, ShortSequences
    <3> QED BY <1>2, <2>2, <3>1, SequencesJoin
  <2>6. \A t \in Sockets : h \notin Range(uplink'[t])
    BY <1>2, <1>4, <1>5, <2>1 DEF Separate
  <2> HIDE DEF h
  <2>7. Separate(client.waiting, uplink', inbox', delivered, Sent)
    BY <1>2, <1>6, <2>3, <2>4, <2>5, <2>6 DEF Separate
  <2>8. Sent' = Sent
    BY <1>1 DEF Sent
  <2> QED BY <1>1, <1>3, <1>5, <2>2, <2>7, <2>8 DEF IInv, MessageInv, MessageTypes, MessagesInOnePlace
<1> QED BY <1>1, <1>7, <1>8

LEMMA RequestedStep ==
    ASSUME IInv, Requested
    PROVE  LinkInv' /\ MessageInv' /\ \E m \in Messages : Transfer!Deliver(m)
<1> DEFINE h == Head(inbox)
<1>1. /\ inbox # << >> /\ inbox' = Tail(inbox) /\ delivered' = Append(delivered, h)
      /\ replies' = replies \cup {h}
      /\ UNCHANGED <<client, conns, uplink, targetJoined, breaks, checks>>
  BY DEF Requested
<1>2. /\ client \in ClientType /\ inbox \in Seq(Messages) /\ delivered \in Seq(Messages)
      /\ uplink \in [Sockets -> Seq(Item)] /\ replies \subseteq Range(delivered) /\ replies \subseteq Messages
      /\ targetJoined \in BOOLEAN
      /\ Separate(client.waiting, uplink, inbox, delivered, Sent) /\ Once(inbox)
      /\ \A m \in Messages : client.req[m] # "settled" => client.result[m] = "none"
  BY DEF IInv, LinkInv, Types, MessageInv, MessageTypes, MessagesInOnePlace, Separate
<1>3. LinkInv'
  <2>1. SameLink(client, client')
    BY <1>1 DEF SameLink
  <2> QED BY <1>1, <1>2, <2>1, SameLinkKeeps DEF IInv
<1>4. /\ h \in Messages /\ Tail(inbox) \in Seq(Messages) /\ h \in Range(inbox)
      /\ \A x : x \in Range(Tail(inbox)) => x \in Range(inbox)
      /\ Once(Tail(inbox)) /\ h \notin Range(Tail(inbox))
  BY <1>1, <1>2, SequenceHead
<1> HIDE DEF h
<1>5. delivered' = delivered \o <<h>> /\ <<h>> \in Seq(Messages) /\ delivered' \in Seq(Messages)
  BY <1>1, <1>2, <1>4
<1>6. \A m : m \in Range(delivered') <=> m \in Range(delivered) \/ m = h
  <2>1. \A r \in Seq(Messages) : Range(delivered \o r) = Range(delivered) \cup Range(r)
    BY <1>2, SequencesJoin
  <2>2. Range(delivered') = Range(delivered) \cup Range(<<h>>)
    BY <1>5, <2>1
  <2> QED BY <2>2, ShortSequences
<1>7. /\ h \in Sent /\ h \notin Range(delivered) /\ h \notin Range(client.waiting)
      /\ \A s \in Sockets : h \notin Range(uplink[s])
  BY <1>2, <1>4 DEF Separate
<1>8. Separate(client.waiting, uplink, inbox', delivered', Sent)
  BY <1>1, <1>2, <1>4, <1>6, <1>7 DEF Separate
<1>9. Sent' = Sent
  BY <1>1 DEF Sent
<1>10. MessageInv'
  <2>1. MessageTypes'
    BY <1>1, <1>2, <1>4, <1>5 DEF MessageTypes
  <2>2. replies' \subseteq Range(delivered')
    BY <1>1, <1>2, <1>6
  <2>3. MessagesInOnePlace'
    BY <1>1, <1>2, <1>8, <1>9, <2>2 DEF MessagesInOnePlace
  <2> QED BY <2>1, <2>3 DEF MessageInv
<1>11. Transfer!Deliver(h)
  BY <1>1, <1>4, <1>7 DEF Transfer!Deliver, Transfer!Range, Range, Sent
<1> QED BY <1>3, <1>4, <1>10, <1>11

LEMMA LeaveStep ==
    ASSUME IInv, TargetLeaves
    PROVE  LinkInv' /\ MessageInv' /\ UNCHANGED <<client, delivered>> /\ ~targetJoined'
<1>1. /\ inbox' = << >> /\ targetJoined' = FALSE
      /\ UNCHANGED <<client, conns, uplink, replies, delivered, breaks, checks>>
  BY DEF TargetLeaves
<1>2. /\ client \in ClientType /\ uplink \in [Sockets -> Seq(Item)]
      /\ Separate(client.waiting, uplink, inbox, delivered, Sent)
      /\ \A s \in Sockets : Once(uplink[s])
  BY DEF IInv, LinkInv, Types, MessageInv, MessageTypes, MessagesInOnePlace, Separate
<1>3. LinkInv'
  <2>1. SameLink(client, client')
    BY <1>1 DEF SameLink
  <2> QED BY <1>1, <1>2, <2>1, SameLinkKeeps DEF IInv
<1>4. Separate(client.waiting, uplink, << >>, delivered, Sent)
  BY <1>2, ShortSequences, SeparateShrinks
<1>5. Sent' = Sent
  BY <1>1 DEF Sent
<1>6. << >> \in Seq(Messages)
  OBVIOUS
<1>7. MessageInv'
  BY <1>1, <1>2, <1>4, <1>5, <1>6 DEF IInv, MessageInv, MessageTypes, MessagesInOnePlace
<1> QED BY <1>1, <1>3, <1>7

(***************************************************************************)
(* Every step of the client keeps the invariant and is a step, or none, of *)
(* MessageTransfer.                                                        *)
(***************************************************************************)
LEMMA StepKeeps ==
    ASSUME IInv, Next
    PROVE  IInv' /\ [Transfer!Next]_(Transfer!vars)
<1>1. ASSUME LinkInv', Passes PROVE IInv' /\ [Transfer!Next]_(Transfer!vars)
  <2>1. client' \in ClientType
    BY <1>1 DEF LinkInv, Types
  <2>2. MessageInv' /\ Transfer!Settle /\ UNCHANGED Sent
    BY <1>1, <2>1, PassesKeeps
  <2> QED BY <1>1, <2>2 DEF IInv, Transfer!Next, Sent
<1>2. ASSUME LinkInv', MessageInv', UNCHANGED <<client, delivered, targetJoined>>
      PROVE  IInv' /\ [Transfer!Next]_(Transfer!vars)
  BY <1>2 DEF IInv, Transfer!vars
<1>3. ASSUME NEW s \in Sockets, Opens(s) \/ CloseReplaced(s) \/ CloseAbnormal(s) \/ CloseFinal(s)
      PROVE  IInv' /\ [Transfer!Next]_(Transfer!vars)
  <2>1. CASE CloseReplaced(s)
    <3>1. LinkInv' /\ UNCHANGED <<client, uplink, inbox, delivered, replies, targetJoined>>
      BY <2>1, QuietSteps
    <3>2. MessageInv'
      BY <3>1 DEF IInv, MessageInv, MessageTypes, MessagesInOnePlace, Sent
    <3> QED BY <1>2, <3>1, <3>2
  <2> QED BY <1>1, <1>3, <2>1, OpensStep, AbnormalStep, FinalStep
<1>4. CASE TimerFires
  BY <1>1, <1>4, TimerStep
<1>5. ASSUME NEW s \in Sockets, Breaks(s) \/ ServerCloses(s)
      PROVE  IInv' /\ [Transfer!Next]_(Transfer!vars)
  <2>1. LinkInv' /\ UNCHANGED <<client, uplink, inbox, delivered, replies, targetJoined>>
    BY <1>5, QuietSteps
  <2>2. MessageInv'
    BY <2>1 DEF IInv, MessageInv, MessageTypes, MessagesInOnePlace, Sent
  <2> QED BY <1>2, <2>1, <2>2
<1>6. ASSUME NEW s \in Sockets, Forward(s) \/ Lose(s)
      PROVE  IInv' /\ [Transfer!Next]_(Transfer!vars)
  BY <1>2, <1>6, ReadStep
<1>7. CASE Requested
  BY <1>7, RequestedStep DEF IInv, Transfer!Next
<1>8. CASE TargetLeaves
  BY <1>8, LeaveStep DEF IInv, Transfer!Next, Transfer!Part
<1>9. CASE ConnectTimeout \/ CheckBegins \/ CheckAnswered \/ CheckExpires
  <2>1. CASE CheckExpires
    <3>1. client.check = "out" /\ Reconnects([client EXCEPT !.check = "idle"]) /\ UNCHANGED <<net, targetJoined, breaks, checks>>
      BY <2>1 DEF CheckExpires
    <3> QED BY <1>1, <3>1, CheckReconnects
  <2> QED BY <1>1, <1>9, <2>1, TimeoutStep, CheckStep, AnswerStep
<1>10. CASE disconnect
  <2>1. /\ LinkInv' /\ MessageInv'
        /\ client'.closed /\ client'.result = client.result /\ Sent' = Sent /\ UNCHANGED delivered
    BY <1>10, DisconnectStep
  <2>2. Transfer!Part
    BY <2>1 DEF Transfer!Part, Sent
  <2> QED BY <2>1, <2>2 DEF IInv, Transfer!Next
<1>11. ASSUME NEW m \in Messages, send(m) \/ Response(m) \/ RequestFails(m)
       PROVE  IInv' /\ [Transfer!Next]_(Transfer!vars)
  <2>1. CASE send(m)
    BY <2>1, SendStep DEF IInv, Transfer!Next
  <2>2. CASE Response(m)
    BY <2>2, ResponseStep DEF IInv, Transfer!Next, Sent
  <2>3. CASE RequestFails(m)
    BY <1>1, <2>3, FailureStep
  <2> QED BY <1>11, <2>1, <2>2, <2>3
<1> QED BY <1>3, <1>4, <1>5, <1>6, <1>7, <1>8, <1>9, <1>10, <1>11 DEF Next, Driven, Environment, Client

LEMMA InitLink == Init => LinkInv
<1> SUFFICES ASSUME Init PROVE LinkInv
  OBVIOUS
<1>1. 1 \in Sockets /\ NoSocket = 0
  BY Bounds DEF Sockets, NoSocket
<1>2. /\ << >> \in Seq(Item)
      /\ [m \in Messages |-> "idle"] \in [Messages -> {"idle", "waiting", "sent", "settled"}]
      /\ [m \in Messages |-> "none"] \in [Messages -> {"none", "ok", "failed"}]
  OBVIOUS
<1>3. client \in ClientType
  BY <1>1, <1>2 DEF Init, ClientType
<1>4. /\ conns \in [Sockets -> Phases] /\ conns[1] = "connecting" /\ client.ws = 1
      /\ Used(conns) = {1} /\ Broken(conns) = {}
  BY <1>1 DEF Init, Phases, Used, Broken
<1>5. Cardinality(Used(conns)) = 1 /\ Cardinality(Broken(conns)) = 0
  BY <1>4, FS_Singleton, FS_EmptySet
<1>6. Timers(client) = 0 /\ ChecksOut(client) = 0 /\ client.reconnectCount = 0 /\ breaks = 0 /\ checks = 0
  BY DEF Init, Timers, ChecksOut
<1>7. Types
  BY <1>3, <1>4, <1>6, Bounds DEF Types
<1>8. TimersAreCounted
  BY <1>5, <1>6 DEF TimersAreCounted
<1>9. Connectable
  BY <1>1, <1>4 DEF Connectable
<1> QED BY <1>7, <1>8, <1>9 DEF LinkInv

LEMMA InitKeeps == Init => IInv /\ Transfer!Init
<1> SUFFICES ASSUME Init PROVE IInv /\ Transfer!Init
  OBVIOUS
<1>1. << >> \in Seq(Item) /\ << >> \in Seq(Messages)
  OBVIOUS
<1>2. Sent = {}
  BY DEF Init, Sent
<1>3. /\ client.waiting = << >> /\ \A s \in Sockets : uplink[s] = << >>
      /\ inbox = << >> /\ delivered = << >> /\ replies = {} /\ targetJoined = TRUE
      /\ uplink \in [Sockets -> Seq(Item)]
      /\ client.result = [m \in Messages |-> "none"] /\ client.closed = FALSE
  BY <1>1 DEF Init
<1>4. Separate(client.waiting, uplink, inbox, delivered, Sent)
  BY <1>3, ShortSequences DEF Separate
<1>5. MessageInv
  BY <1>1, <1>3, <1>4 DEF MessageInv, MessageTypes, MessagesInOnePlace
<1>6. Transfer!Init
  BY <1>2, <1>3 DEF Transfer!Init, Sent
<1> QED BY <1>5, <1>6, InitLink DEF IInv

-----------------------------------------------------------------------------
(* Theorems                                                                *)

\* The connections are counted and the messages are in one place, in every reachable state.
THEOREM Invariance == Spec => []IInv
<1>1. IInv /\ [Next]_vars => IInv'
  <2>1. ASSUME IInv, UNCHANGED vars PROVE IInv'
    BY <2>1 DEF vars, IInv, LinkInv, Types, TimersAreCounted, Connectable,
                MessageInv, MessageTypes, MessagesInOnePlace, Sent
  <2> QED BY <2>1, StepKeeps
<1> QED BY <1>1, InitKeeps, PTL DEF Spec

LEMMA LinkIsConnectable == IInv => NeverStranded
<1> SUFFICES ASSUME IInv PROVE NeverStranded
  OBVIOUS
<1>1. /\ client \in ClientType /\ conns \in [Sockets -> Phases]
      /\ breaks \in 0..MaxBreaks /\ checks \in 0..MaxChecks
      /\ Cardinality(Used(conns)) + Cardinality(Broken(conns)) + Timers(client) + ChecksOut(client)
             <= 1 + breaks + checks
      /\ client.reconnectCount + 1 <= Cardinality(Used(conns))
      /\ Connectable /\ MessageTypes
  BY DEF IInv, LinkInv, Types, TimersAreCounted, MessageInv
<1>2. /\ Cardinality(Used(conns)) \in 0..MaxSockets /\ Cardinality(Broken(conns)) \in Nat
      /\ Timers(client) \in Nat /\ ChecksOut(client) \in Nat /\ client.reconnectCount \in Nat
      /\ Timers(client) > 0 <=> client.reconnectTimer \/ client.lostTimers > 0
  BY <1>1, Finite, CountTypes
<1>3. client.lostTimers \in Nat /\ client.lostTimers <= Timers(client)
  BY <1>1 DEF ClientType, Timers
<1>4. MaxSockets = 1 + MaxBreaks + MaxChecks /\ MaxBreaks \in Nat /\ MaxChecks \in Nat
  BY Bounds DEF MaxSockets
<1>5. client.lostTimers \in 0..MaxSockets /\ client.reconnectCount \in 0..MaxSockets
  BY <1>1, <1>2, <1>3, <1>4
<1>6. TypeOK
  <2>1. client \in [ws : Sockets \union {NoSocket}, isOpen : BOOLEAN, isDestroyed : BOOLEAN,
                    reconnectCount : 0..MaxSockets, reconnectTimer : BOOLEAN, lostTimers : 0..MaxSockets,
                    connectionState : {"closed", "reconnecting", "connected"},
                    waiting : Seq(Messages \union {Check}),
                    check : {"unstarted", "off", "idle", "out"}, checkOn : Sockets \union {NoSocket},
                    closed : BOOLEAN, hung : BOOLEAN,
                    req : [Messages -> {"idle", "waiting", "sent", "settled"}],
                    result : [Messages -> {"none", "ok", "failed"}]]
    BY <1>1, <1>5 DEF ClientType, Item
  <2> QED BY <1>1, <2>1 DEF TypeOK, MessageTypes, Item
<1> QED BY <1>1, <1>2, <1>6 DEF Connectable, NeverStranded

\* A client that was not given up always has a connection, or something that will bring it
\* one: no order of close events, timers and connectivity checks leaves it with neither.
THEOREM ClientAlwaysReconnects == Spec => []NeverStranded
BY Invariance, LinkIsConnectable, PTL

\* The session implements MessageTransfer: a message reaches the target once or never, and a
\* send that ends well while both ends are there was a delivery.
THEOREM SessionTransfersMessages == Spec => TransfersMessages
<1>1. Init => Transfer!Init
  BY InitKeeps
<1>2. IInv /\ [Next]_vars => [Transfer!Next]_(Transfer!vars)
  <2>1. ASSUME UNCHANGED vars PROVE UNCHANGED Transfer!vars
    BY <2>1 DEF vars, Transfer!vars
  <2> QED BY <2>1, StepKeeps
<1> QED BY <1>1, <1>2, Invariance, PTL DEF Spec, TransfersMessages, Transfer!Spec
=============================================================================
