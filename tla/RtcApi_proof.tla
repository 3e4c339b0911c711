---------------------------- MODULE RtcApi_proof ----------------------------
(***************************************************************************)
(* Proofs about the two halves of the connection to the RTC API server.    *)
(*                                                                         *)
(* EventJitterBuffer, for every initial version, every bound and every     *)
(* failure the model allows: the buffer never holds a deliverable event, a *)
(* held event is always watched by a timer, and the listener sees exactly  *)
(* what OrderedDelivery promises.                                          *)
(*                                                                         *)
(* RtcRpcClient: its type invariant, that no request waits for a           *)
(* connection that nobody makes, and that there is one connection at a     *)
(* time.  One lemma for each operator on the client, then one step for     *)
(* each action.                                                            *)
(***************************************************************************)
EXTENDS EventJitterBuffer, RtcRpcClient, FiniteSetTheorems, SequenceTheorems, TLAPS

(***************************************************************************)
(* The inductive invariant.  What was emitted is determined by             *)
(* presentVersion; everything held was published and lies beyond the gap.  *)
(***************************************************************************)
EmittedUpToPresent == emitted = VersionsBetween(InitVersion, presentVersion)

ObserverIInv ==
    /\ ObserverTypeOK
    /\ HeldBeyondGap
    /\ GapIsWatched
    /\ EmittedUpToPresent

-----------------------------------------------------------------------------
(* Lemmas about the helpers                                                *)

(***************************************************************************)
(* Runs of versions that meet concatenate: emitting what was resolved      *)
(* extends what was emitted before (resolveEvents).                        *)
(***************************************************************************)
LEMMA VersionsConcat ==
    ASSUME NEW a \in Nat, NEW b \in Nat, NEW c \in Nat, a <= b, b <= c
    PROVE  VersionsBetween(a, b) \o VersionsBetween(b, c) = VersionsBetween(a, c)
<1> DEFINE s == VersionsBetween(a, b)
           t == VersionsBetween(b, c)
           u == VersionsBetween(a, c)
<1>1. /\ s \in Seq(Nat) /\ Len(s) = b - a /\ \A i \in 1..(b - a) : s[i] = a + i
      /\ t \in Seq(Nat) /\ Len(t) = c - b /\ \A i \in 1..(c - b) : t[i] = b + i
      /\ u \in Seq(Nat) /\ Len(u) = c - a /\ \A i \in 1..(c - a) : u[i] = a + i
  BY DEF VersionsBetween
<1> HIDE DEF s, t, u
<1>2. /\ s \o t \in Seq(Nat)
      /\ Len(s \o t) = Len(s) + Len(t)
      /\ \A i \in 1..(Len(s) + Len(t)) :
            (s \o t)[i] = IF i <= Len(s) THEN s[i] ELSE t[i - Len(s)]
  BY <1>1, ConcatProperties
<1>3. Len(s \o t) = Len(u)
  BY <1>1, <1>2
<1>4. \A i \in 1..Len(s \o t) : (s \o t)[i] = u[i]
  <2> TAKE i \in 1..Len(s \o t)
  <2>0. i \in 1..(c - a)
    BY <1>1, <1>3
  <2>1. CASE i <= b - a
    BY <2>0, <2>1, <1>1, <1>2
  <2>2. CASE i > b - a
    <3>1. i - (b - a) \in 1..(c - b)
      BY <2>0, <2>2
    <3>2. (s \o t)[i] = t[i - (b - a)]
      <4>1. Len(s) = b - a /\ ~(i <= Len(s)) /\ i \in 1..(Len(s) + Len(t))
        BY ONLY <2>0, <2>2, <1>1, a \in Nat, b \in Nat, c \in Nat
      <4> QED BY ONLY <4>1, <1>2
    <3>3. t[i - (b - a)] = b + (i - (b - a)) /\ u[i] = a + i
      BY <2>0, <3>1, <1>1
    <3> QED BY ONLY <2>0, <3>2, <3>3, a \in Nat, b \in Nat, c \in Nat
  <2> QED BY <2>0, <2>1, <2>2
<1>5. s \o t = u
  BY <1>1, <1>2, <1>3, <1>4, SeqEqual
<1> QED BY <1>5 DEF s, t, u

LEMMA VersionsType ==
    ASSUME NEW a \in Nat, NEW b \in Nat, a <= b
    PROVE  /\ VersionsBetween(a, b) \in Seq(Nat)
           /\ Len(VersionsBetween(a, b)) = b - a
BY DEF VersionsBetween

(***************************************************************************)
(* Whatever the text order of the keys picks, it picks a held version, and *)
(* a non-empty buffer never leaves handlePacketLifetime without a timer.   *)
(***************************************************************************)
LEMMA LifetimeArms ==
    ASSUME NEW held \in SUBSET Nat, NEW timer \in [phase : TimerPhases, version : Nat],
           handlePacketLifetime(held, timer)
    PROVE  /\ packetLifeTimer' \in [phase : TimerPhases, version : Nat]
           /\ held # {} => packetLifeTimer'.phase # "none"
           /\ \/ packetLifeTimer' = timer
              \/ packetLifeTimer'.phase = "armed" /\ packetLifeTimer'.version \in held
<1>1. CASE timer.phase = "none" /\ held # {}
  <2>1. PICK v \in oldestBufferedEvents(held) : packetLifeTimer' = Timer("armed", v)
    BY <1>1 DEF handlePacketLifetime
  <2>2. v \in Nat /\ v \in held
    BY <2>1 DEF oldestBufferedEvents
  <2> QED BY <2>1, <2>2 DEF Timer, TimerPhases
<1>2. CASE ~(timer.phase = "none" /\ held # {})
  BY <1>2 DEF handlePacketLifetime
<1> QED BY <1>1, <1>2

-----------------------------------------------------------------------------
(* The inductive invariant holds                                           *)

LEMMA ObserverInitIInv == ObserverInit => ObserverIInv
<1> SUFFICES ASSUME ObserverInit PROVE ObserverIInv
  OBVIOUS
<1>1. VersionsBetween(InitVersion, InitVersion) = <<>>
  BY InitVersionIsNat DEF VersionsBetween
<1>2. ObserverTypeOK
  <2>1. NoTimer \in [phase : TimerPhases, version : Nat]
    BY DEF NoTimer, Timer, TimerPhases
  <2>2. emitted \in Seq(Nat)
    BY EmptySeq DEF ObserverInit
  <2>3. presentVersion \in InitVersion..published /\ published \in Nat
    BY InitVersionIsNat DEF ObserverInit
  <2> QED BY <2>1, <2>2, <2>3 DEF ObserverInit, ObserverTypeOK
<1>3. EmittedUpToPresent
  BY <1>1 DEF ObserverInit, EmittedUpToPresent
<1> QED BY <1>2, <1>3, InitVersionIsNat DEF ObserverInit, ObserverIInv,
       HeldBeyondGap, GapIsWatched

(***************************************************************************)
(* push with the expected version resolves a run of held versions: the     *)
(* listener gets exactly the versions up to the new presentVersion, which  *)
(* is the step Deliver of the abstract specification.                      *)
(***************************************************************************)
LEMMA ExpectedDelivers ==
    ASSUME ObserverIInv, NEW v \in inFlight \cup resent, ReceiveExpected(v)
    PROVE  /\ presentVersion' \in v..published
           /\ EmittedUpToPresent'
           /\ eventBuffer' \subseteq eventBuffer
           /\ HeldBeyondGap'
<1> USE DEF ObserverIInv, ObserverTypeOK
<1>1. PICK n \in v..MaxVersion :
         /\ (v..n \subseteq eventBuffer \cup {v}) /\ n + 1 \notin eventBuffer \cup {v}
         /\ presentVersion' = n
         /\ eventBuffer' = (eventBuffer \cup {v}) \ (v..n)
         /\ emitted' = emitted \o VersionsBetween(presentVersion, n)
  BY DEF ReceiveExpected, resolveEvents, RunsUpTo
<1>2. v \in 1..published /\ v = presentVersion + 1 /\ n \in Nat /\ n >= v
  BY <1>1, BoundsAreNat DEF ReceiveExpected, expectNextVersion
<1>3. n \in eventBuffer \cup {v} /\ n <= published
  BY <1>1, <1>2
<1>4. EmittedUpToPresent'
  <2>1. VersionsBetween(InitVersion, presentVersion) \o VersionsBetween(presentVersion, n)
           = VersionsBetween(InitVersion, n)
    <3>1. /\ InitVersion \in Nat /\ presentVersion \in Nat /\ n \in Nat
          /\ InitVersion <= presentVersion /\ presentVersion <= n
      BY <1>2, InitVersionIsNat
    <3> QED BY ONLY <3>1, VersionsConcat
  <2> QED BY <1>1, <2>1 DEF EmittedUpToPresent
<1>5. HeldBeyondGap'
  <2> SUFFICES ASSUME NEW w \in eventBuffer' PROVE w > presentVersion' + 1
    BY DEF HeldBeyondGap, expectNextVersion
  <2>1. w \in eventBuffer /\ w \in Nat /\ w \notin v..n
    BY <1>1, <1>2
  <2>2. w > v
    BY <2>1, <1>2 DEF HeldBeyondGap, expectNextVersion
  <2>3. w # n + 1
    BY <1>1, <2>1
  <2> QED BY <1>1, <1>2, <2>1, <2>2, <2>3
<1> QED BY <1>1, <1>2, <1>3, <1>4, <1>5

LEMMA ArrivesType ==
    ASSUME ObserverIInv, NEW v, Arrives(v)
    PROVE  /\ published' = published /\ losses' = losses
           /\ inFlight' \subseteq 1..published' /\ resent' \subseteq 1..published'
BY DEF Arrives, ObserverIInv, ObserverTypeOK

LEMMA ObserverNextIInv == ObserverIInv /\ [ObserverNext]_observerVars => ObserverIInv'
<1> SUFFICES ASSUME ObserverIInv, [ObserverNext]_observerVars PROVE ObserverIInv'
  OBVIOUS
<1> USE DEF ObserverIInv, ObserverTypeOK
<1>1. CASE Publish
  BY <1>1 DEF Publish, buffer, HeldBeyondGap, expectNextVersion,
       GapIsWatched, EmittedUpToPresent
<1>2. ASSUME NEW v \in inFlight, Lose(v) PROVE ObserverIInv'
  BY <1>2 DEF Lose, buffer, HeldBeyondGap, expectNextVersion,
       GapIsWatched, EmittedUpToPresent
<1>3. ASSUME NEW v \in inFlight \cup resent, ReceiveStale(v) PROVE ObserverIInv'
  BY <1>3, ArrivesType DEF ReceiveStale, buffer, HeldBeyondGap,
       expectNextVersion, GapIsWatched, EmittedUpToPresent
<1>4. ASSUME NEW v \in inFlight \cup resent, ReceiveEarly(v) PROVE ObserverIInv'
  <2>1. /\ packetLifeTimer' \in [phase : TimerPhases, version : Nat]
        /\ packetLifeTimer'.phase # "none"
    <3>1. eventBuffer \cup {v} \in SUBSET Nat
      OBVIOUS
    <3> QED BY <1>4, <3>1, LifetimeArms DEF ReceiveEarly
  <2>2. /\ published' = published /\ losses' = losses
        /\ inFlight' \subseteq 1..published' /\ resent' \subseteq 1..published'
    BY <1>4, ArrivesType DEF ReceiveEarly
  <2>3. /\ v \in 1..published /\ v > presentVersion + 1
        /\ eventBuffer' = eventBuffer \cup {v}
        /\ UNCHANGED <<presentVersion, packetLostHappened, disposed, emitted, spoilt>>
    BY <1>4 DEF ReceiveEarly, expectNextVersion
  <2>4. ObserverTypeOK'
    BY <2>1, <2>2, <2>3
  <2>5. EmittedUpToPresent'
    BY <2>2, <2>3 DEF EmittedUpToPresent
  <2>6. HeldBeyondGap'
    BY <2>3 DEF HeldBeyondGap, expectNextVersion
  <2>7. GapIsWatched'
    BY <2>1 DEF GapIsWatched
  <2> QED BY <2>2, <2>3, <2>4, <2>5, <2>6, <2>7
<1>5. ASSUME NEW v \in inFlight \cup resent, ReceiveExpected(v) PROVE ObserverIInv'
  <2>1. /\ presentVersion' \in v..published /\ eventBuffer' \subseteq eventBuffer
        /\ EmittedUpToPresent' /\ HeldBeyondGap' /\ v = presentVersion + 1
    BY <1>5, ExpectedDelivers DEF ReceiveExpected, expectNextVersion
  <2>2. emitted' \in Seq(Nat)
    <3>1. /\ InitVersion \in Nat /\ presentVersion' \in Nat /\ InitVersion <= presentVersion'
          /\ emitted' = VersionsBetween(InitVersion, presentVersion')
      BY <2>1, InitVersionIsNat DEF EmittedUpToPresent
    <3> QED BY ONLY <3>1, VersionsType
  <2>3. /\ published' = published /\ losses' = losses
        /\ inFlight' \subseteq 1..published' /\ resent' \subseteq 1..published'
    BY <1>5, ArrivesType DEF ReceiveExpected
  <2>4. /\ packetLostHappened' = FALSE
        /\ UNCHANGED <<packetLifeTimer, disposed, spoilt>>
    BY <1>5 DEF ReceiveExpected
  <2>5. presentVersion' \in InitVersion..published' /\ eventBuffer' \subseteq 1..published'
    BY <2>1, <2>3, InitVersionIsNat
  <2>6. ObserverTypeOK'
    BY <2>2, <2>3, <2>4, <2>5
  <2>8. GapIsWatched'
    BY <2>1, <2>4 DEF GapIsWatched
  <2> QED BY <2>1, <2>6, <2>8
<1>6. ASSUME NEW v \in inFlight \cup resent, Ignore(v) PROVE ObserverIInv'
  BY <1>6, ArrivesType DEF Ignore, buffer, HeldBeyondGap,
       expectNextVersion, GapIsWatched, EmittedUpToPresent
<1>7. NoTimer \in [phase : TimerPhases, version : Nat] /\ eventBuffer \in SUBSET Nat
  <2>1. eventBuffer \subseteq 1..published /\ published \in Nat
    BY DEF ObserverIInv, ObserverTypeOK
  <2> QED BY <2>1 DEF NoTimer, Timer, TimerPhases
<1>8. CASE GapClosed
  <2>1. handlePacketLifetime(eventBuffer, NoTimer)
    BY <1>8 DEF GapClosed
  <2>2. /\ packetLifeTimer' \in [phase : TimerPhases, version : Nat]
        /\ eventBuffer # {} => packetLifeTimer'.phase # "none"
    BY <1>7, <2>1, LifetimeArms
  <2> QED BY <1>8, <2>2 DEF GapClosed, TimerFires, network, HeldBeyondGap,
         expectNextVersion, GapIsWatched, EmittedUpToPresent
<1>9. CASE PacketLost
  BY <1>9, InitVersionIsNat DEF PacketLost, TimerFires, network, Timer, TimerPhases,
       HeldBeyondGap, expectNextVersion, GapIsWatched, EmittedUpToPresent
<1>10. CASE PacketLostAgain
  BY <1>10 DEF PacketLostAgain, TimerFires, network, Timer, TimerPhases,
       HeldBeyondGap, expectNextVersion, GapIsWatched, EmittedUpToPresent
<1>11. CASE Subscribed
  BY <1>11 DEF Subscribed, Repeat, Timer, TimerPhases,
       HeldBeyondGap, expectNextVersion, GapIsWatched, EmittedUpToPresent
<1>12. CASE SubscribeFails
  BY <1>12 DEF SubscribeFails, Repeat, Timer, TimerPhases,
       HeldBeyondGap, expectNextVersion, GapIsWatched, EmittedUpToPresent
<1>13. CASE WaitElapsed
  <2>1. handlePacketLifetime(eventBuffer, NoTimer)
    BY <1>13 DEF WaitElapsed
  <2>2. /\ packetLifeTimer' \in [phase : TimerPhases, version : Nat]
        /\ eventBuffer # {} => packetLifeTimer'.phase # "none"
    BY <1>7, <2>1, LifetimeArms
  <2> QED BY <1>13, <2>2 DEF WaitElapsed, network, HeldBeyondGap,
         expectNextVersion, GapIsWatched, EmittedUpToPresent
<1>14. CASE dispose
  BY <1>14 DEF dispose, network, buffer, HeldBeyondGap,
       expectNextVersion, GapIsWatched, EmittedUpToPresent
<1>15. CASE UNCHANGED observerVars
  BY <1>15 DEF observerVars, network, buffer, HeldBeyondGap,
       expectNextVersion, GapIsWatched, EmittedUpToPresent
<1> QED BY <1>1, <1>2, <1>3, <1>4, <1>5, <1>6, <1>8, <1>9, <1>10, <1>11, <1>12, <1>13,
       <1>14, <1>15 DEF ObserverNext, Receive

LEMMA ObserverInvariance == ObserverSpec => []ObserverIInv
BY ObserverInitIInv, ObserverNextIInv, PTL DEF ObserverSpec

-----------------------------------------------------------------------------
(* What follows                                                            *)

(***************************************************************************)
(* Every variable keeps its type; in particular the connection only ever   *)
(* carries versions that were published.                                   *)
(***************************************************************************)
THEOREM ObserverTypeCorrect == ObserverSpec => []ObserverTypeOK
<1>1. ObserverIInv => ObserverTypeOK
  BY DEF ObserverIInv
<1> QED BY <1>1, ObserverInvariance, PTL

(***************************************************************************)
(* The buffer never sits on an event it could deliver, however frames are  *)
(* lost, repeated or reordered.                                            *)
(***************************************************************************)
THEOREM HeldAlwaysBeyondGap == ObserverSpec => []HeldBeyondGap
<1>1. ObserverIInv => HeldBeyondGap
  BY DEF ObserverIInv
<1> QED BY <1>1, ObserverInvariance, PTL

(***************************************************************************)
(* An event held back is never forgotten by handlePacketLifetime.          *)
(***************************************************************************)
THEOREM GapAlwaysWatched == ObserverSpec => []GapIsWatched
<1>1. ObserverIInv => GapIsWatched
  BY DEF ObserverIInv
<1> QED BY <1>1, ObserverInvariance, PTL

(***************************************************************************)
(* The observer with its jitter buffer implements ordered delivery.        *)
(***************************************************************************)
THEOREM ImplementsOrderedDelivery == ObserverSpec => DeliveryInOrder
<1>1. ObserverInit => Delivery!Init
  BY DEF ObserverInit, Delivery!Init
<1>2. ObserverIInv /\ [ObserverNext]_observerVars => [Delivery!Next]_(Delivery!vars)
  <2> SUFFICES ASSUME ObserverIInv, [ObserverNext]_observerVars
               PROVE  [Delivery!Next]_(Delivery!vars)
    OBVIOUS
  <2> USE DEF Delivery!vars
  <2>1. CASE Publish
    BY <2>1 DEF Publish, Delivery!Next, Delivery!Publish
  <2>2. ASSUME NEW v \in inFlight \cup resent, ReceiveExpected(v)
        PROVE  [Delivery!Next]_(Delivery!vars)
    <3>1. /\ presentVersion' \in v..published /\ v = presentVersion + 1
          /\ emitted' = VersionsBetween(InitVersion, presentVersion')
      BY <2>2, ExpectedDelivers DEF ReceiveExpected, expectNextVersion, EmittedUpToPresent
    <3>2. InitVersion + Len(emitted) = presentVersion
      BY InitVersionIsNat DEF ObserverIInv, ObserverTypeOK, EmittedUpToPresent, VersionsBetween
    <3>3. published' = published
      BY <2>2 DEF ReceiveExpected, Arrives
    <3>4. presentVersion' \in (InitVersion + Len(emitted) + 1)..published
      BY <3>1, <3>2
    <3>5. Delivery!Deliver
      BY <3>1, <3>3, <3>4 DEF Delivery!Deliver, Delivery!VersionsBetween, VersionsBetween
    <3> QED BY <3>5 DEF Delivery!Next
  <2>3. CASE \E v \in inFlight \cup resent : ReceiveStale(v) \/ ReceiveEarly(v) \/ Ignore(v)
    BY <2>3 DEF ReceiveStale, ReceiveEarly, Ignore, Arrives
  <2>4. CASE \/ \E v \in inFlight : Lose(v)
             \/ dispose \/ Subscribed \/ SubscribeFails
    BY <2>4 DEF Lose, dispose, Subscribed, SubscribeFails, network
  <2>5. CASE GapClosed \/ PacketLost \/ PacketLostAgain \/ WaitElapsed
    BY <2>5 DEF GapClosed, PacketLost, PacketLostAgain, WaitElapsed, TimerFires, network
  <2>6. CASE UNCHANGED observerVars
    BY <2>6 DEF observerVars, network
  <2> QED BY <2>1, <2>2, <2>3, <2>4, <2>5, <2>6 DEF ObserverNext, Receive
<1>3. ObserverSpec => []ObserverIInv
  BY ObserverInvariance
<1> QED BY <1>1, <1>2, <1>3, PTL DEF ObserverSpec, DeliveryInOrder, Delivery!Spec

-----------------------------------------------------------------------------
(* Loss detection and recovery                                             *)

(***************************************************************************)
(* While a loss is reported open, the recovery that will close it is under *)
(* way: the request for exactly the missing version is out, or the frame   *)
(* with it is.  Needed because DetectionSurvives alone does not say why    *)
(* the timer never fires with packetLostHappened set.                      *)
(***************************************************************************)
RecoveryInv ==
    /\ packetLifeTimer.phase = "armed" => packetLifeTimer.version <= published
    /\ DetectionSurvives
    /\ packetLostHappened /\ ~disposed /\ ~spoilt =>
          \/ /\ packetLifeTimer.phase = "subscribing"
             /\ packetLifeTimer.version = expectNextVersion
             /\ expectNextVersion <= published
          \/ /\ packetLifeTimer.phase = "waiting"
             /\ expectNextVersion \in resent

LEMMA NextRecoveryInv ==
    ASSUME ObserverIInv, RecoveryInv, [ObserverNext]_observerVars
    PROVE  RecoveryInv'
<1> USE DEF RecoveryInv, DetectionSurvives, expectNextVersion
<1>0. /\ published \in Nat /\ presentVersion \in Nat /\ resent \subseteq 1..published
      /\ packetLifeTimer \in [phase : TimerPhases, version : Nat]
      /\ eventBuffer \in SUBSET (1..published) /\ eventBuffer \in SUBSET Nat
      /\ packetLostHappened \in BOOLEAN /\ disposed \in BOOLEAN /\ spoilt \in BOOLEAN
  <2>1. ObserverTypeOK
    BY DEF ObserverIInv
  <2>2. eventBuffer \in SUBSET (1..published) /\ published \in Nat
    BY <2>1 DEF ObserverTypeOK
  <2>3. eventBuffer \in SUBSET Nat /\ presentVersion \in Nat
    BY <2>1, <2>2, InitVersionIsNat DEF ObserverTypeOK
  <2> QED BY <2>1, <2>2, <2>3 DEF ObserverTypeOK
<1>1. CASE Publish
  BY <1>0, <1>1 DEF Publish, buffer
<1>2. ASSUME NEW v \in inFlight, Lose(v) PROVE RecoveryInv'
  BY <1>2 DEF Lose, buffer
<1>3. ASSUME NEW v \in inFlight \cup resent, ReceiveStale(v) PROVE RecoveryInv'
  BY <1>0, <1>3 DEF ReceiveStale, Arrives, buffer
<1>4. ASSUME NEW v \in inFlight \cup resent, ReceiveEarly(v) PROVE RecoveryInv'
  <2>1. v \in 1..published
    BY DEF ObserverIInv, ObserverTypeOK
  <2>2. /\ eventBuffer \cup {v} \in SUBSET Nat
        /\ handlePacketLifetime(eventBuffer \cup {v}, packetLifeTimer)
    BY <1>0, <1>4, <2>1 DEF ReceiveEarly
  <2>3. \/ packetLifeTimer' = packetLifeTimer
        \/ /\ packetLifeTimer.phase = "none"
           /\ packetLifeTimer'.phase = "armed"
           /\ packetLifeTimer'.version \in eventBuffer \cup {v}
    BY <1>0, <2>2, LifetimeArms DEF handlePacketLifetime
  <2>4. /\ published' = published
        /\ v > expectNextVersion
        /\ resent' = resent \/ resent' = resent \ {v}
        /\ UNCHANGED <<presentVersion, packetLostHappened, disposed, spoilt>>
    BY <1>4 DEF ReceiveEarly, Arrives
  <2>5. CASE packetLifeTimer' = packetLifeTimer
    <3>1. expectNextVersion \in resent => expectNextVersion \in resent'
      BY <1>0, <2>1, <2>4
    <3>2. expectNextVersion' = expectNextVersion /\ published' = published
      BY <2>4
    <3>3. (packetLifeTimer'.phase = "armed" => packetLifeTimer'.version <= published')
             /\ DetectionSurvives'
      BY <2>4, <2>5, <3>2
    <3>4. ASSUME packetLostHappened', ~disposed', ~spoilt'
          PROVE  \/ /\ packetLifeTimer'.phase = "subscribing"
                    /\ packetLifeTimer'.version = expectNextVersion'
                    /\ expectNextVersion' <= published'
                 \/ /\ packetLifeTimer'.phase = "waiting"
                    /\ expectNextVersion' \in resent'
      <4>1. packetLostHappened /\ ~disposed /\ ~spoilt
        BY <2>4, <3>4
      <4> QED BY <2>5, <3>1, <3>2, <4>1
    <3> QED BY <3>3, <3>4
  <2>6. CASE /\ packetLifeTimer.phase = "none"
             /\ packetLifeTimer'.phase = "armed"
             /\ packetLifeTimer'.version \in eventBuffer \cup {v}
    <3>1. packetLifeTimer'.version <= published'
      <4>1. eventBuffer \cup {v} \subseteq 1..published
        BY <1>0, <2>1
      <4>2. packetLifeTimer'.version \in 1..published
        BY <2>6, <4>1
      <4> QED BY ONLY <1>0, <2>4, <4>2
    <3> QED BY <1>0, <2>4, <2>6, <3>1
  <2> QED BY <2>3, <2>5, <2>6
<1>5. ASSUME NEW v \in inFlight \cup resent, ReceiveExpected(v) PROVE RecoveryInv'
  BY <1>0, <1>5 DEF ReceiveExpected, Arrives
<1>6. ASSUME NEW v \in inFlight \cup resent, Ignore(v) PROVE RecoveryInv'
  BY <1>0, <1>6 DEF Ignore, Arrives, buffer
<1>7. NoTimer \in [phase : TimerPhases, version : Nat] /\ NoTimer.phase = "none"
  BY DEF NoTimer, Timer, TimerPhases
<1>8. CASE GapClosed
  <2>1. handlePacketLifetime(eventBuffer, NoTimer) /\ packetLifeTimer.phase = "armed"
    BY <1>8 DEF GapClosed, TimerFires
  <2>2. eventBuffer \in SUBSET Nat /\ eventBuffer \subseteq 1..published
    BY <1>0
  <2>3. \/ packetLifeTimer' = NoTimer
        \/ packetLifeTimer'.phase = "armed" /\ packetLifeTimer'.version \in eventBuffer
    BY ONLY <1>7, <2>1, <2>2, LifetimeArms
  <2>4. UNCHANGED <<published, presentVersion, packetLostHappened, disposed, spoilt>>
    BY <1>8 DEF GapClosed, TimerFires, network
  <2>5. ~(packetLostHappened' /\ ~disposed' /\ ~spoilt')
    BY <2>1, <2>4
  <2>6. packetLifeTimer'.phase \in {"none", "armed"}
    BY <1>7, <2>3
  <2>7. packetLifeTimer'.phase = "armed" => packetLifeTimer'.version <= published'
    <3> SUFFICES ASSUME packetLifeTimer'.phase = "armed"
                 PROVE  packetLifeTimer'.version <= published'
      OBVIOUS
    <3>1. packetLifeTimer'.version \in eventBuffer
      BY <1>7, <2>3
    <3>2. packetLifeTimer'.version \in 1..published
      BY ONLY <2>2, <3>1
    <3>3. published \in Nat /\ published' = published
      BY <1>0, <2>4
    <3> QED BY ONLY <3>2, <3>3
  <2>8. packetLifeTimer'.phase # "dead"
    BY ONLY <2>6
  <2> QED BY ONLY <2>5, <2>7, <2>8 DEF RecoveryInv, DetectionSurvives
<1>9. CASE PacketLost
  BY <1>0, <1>9 DEF PacketLost, TimerFires, network, Timer
<1>10. CASE PacketLostAgain
  BY <1>0, <1>10 DEF PacketLostAgain, TimerFires, network, Timer
<1>11. CASE Subscribed
  BY <1>0, <1>11 DEF Subscribed, Repeat, Timer
<1>12. CASE SubscribeFails
  BY <1>0, <1>12 DEF SubscribeFails, Timer
<1>13. CASE WaitElapsed
  BY <1>0, <1>7, <1>13, LifetimeArms DEF WaitElapsed, network
<1>14. CASE dispose
  BY <1>14 DEF dispose, network, buffer
<1>15. CASE UNCHANGED observerVars
  BY <1>15 DEF observerVars, network, buffer
<1> QED BY <1>1, <1>2, <1>3, <1>4, <1>5, <1>6, <1>8, <1>9, <1>10, <1>11, <1>12, <1>13,
       <1>14, <1>15 DEF ObserverNext, Receive

(***************************************************************************)
(* While re-subscriptions neither fail nor come late, loss detection stays *)
(* alive for the observer's whole life.                                    *)
(***************************************************************************)
THEOREM TimelyRecoveryKeepsDetection == ObserverSpec => []DetectionSurvives
<1>1. ObserverInit => RecoveryInv
  BY DEF ObserverInit, RecoveryInv, DetectionSurvives, NoTimer, Timer
<1>2. ObserverIInv /\ RecoveryInv /\ [ObserverNext]_observerVars => RecoveryInv'
  BY NextRecoveryInv
<1>3. RecoveryInv => DetectionSurvives
  BY DEF RecoveryInv
<1> QED BY <1>1, <1>2, <1>3, ObserverInvariance, PTL DEF ObserverSpec

-----------------------------------------------------------------------------
(* RtcRpcClient                                                            *)

\* The client's part of TypeOK.
Typed(c) == c \in ClientType /\ Len(c.sockets) \in 1..MaxSockets

\* WaitingMeansReconnecting of a client c.
Waits(c) == c.pendingRequests # {} => c.closed \/ c.reconnecting

-----------------------------------------------------------------------------
(* The operators keep the type, and what they do to a waiting request      *)

(***************************************************************************)
(* SetStatus touches nothing but the status of requests.                   *)
(***************************************************************************)
LEMMA SetStatusKeeps ==
    ASSUME NEW c, Typed(c), NEW reqs, NEW st \in {"none", "failed"} \cup Unsettled
    PROVE  /\ Typed(SetStatus(c, reqs, st))
           /\ SetStatus(c, reqs, st).sockets = c.sockets
           /\ SetStatus(c, reqs, st).loops = c.loops
           /\ SetStatus(c, reqs, st).closed = c.closed
           /\ SetStatus(c, reqs, st).reconnecting = c.reconnecting
           /\ SetStatus(c, reqs, st).pendingRequests = c.pendingRequests
  BY DEF SetStatus, Typed, ClientType

(***************************************************************************)
(* A closed socket stays in the sequence, so no number is used twice.      *)
(***************************************************************************)
LEMMA CloseSocketKeeps ==
    ASSUME NEW c, Typed(c), NEW i \in 1..Len(c.sockets)
    PROVE  /\ Typed(CloseSocket(c, i))
           /\ CloseSocket(c, i).closed = c.closed
           /\ CloseSocket(c, i).reconnecting = c.reconnecting
           /\ CloseSocket(c, i).pendingRequests = c.pendingRequests
  <1> DEFINE Socket == {"connecting", "open", "closed"}
             sockets == [c.sockets EXCEPT ![i] = "closed"]
             sentOn == [r \in Req |-> c.sentOn[r] \ {i}]
  <1>1. c.sockets \in Seq(Socket)
    BY DEF Typed, ClientType
  <1>2. sockets \in Seq(Socket) /\ Len(sockets) = Len(c.sockets)
    BY <1>1, ExceptSeq
  <1>3. sentOn \in [Req -> SUBSET (1..MaxSockets)]
    BY DEF Typed, ClientType
  <1>4. CloseSocket(c, i) = [c EXCEPT !.sockets = sockets, !.sentOn = sentOn]
    BY DEF CloseSocket, Typed, ClientType
  <1> HIDE DEF sockets, sentOn
  <1> QED
    BY <1>2, <1>3, <1>4 DEF Typed, ClientType

(***************************************************************************)
(* send only notes where an answer may come from.                          *)
(***************************************************************************)
LEMMA SendKeeps ==
    ASSUME NEW c, Typed(c), NEW reqs
    PROVE  /\ Typed(send(c, reqs))
           /\ send(c, reqs).closed = c.closed
           /\ send(c, reqs).reconnecting = c.reconnecting
           /\ send(c, reqs).pendingRequests = c.pendingRequests
  <1> DEFINE sentOn == [r \in Req |-> IF r \in reqs THEN c.sentOn[r] \cup {ws(c)} ELSE c.sentOn[r]]
  <1>1. ws(c) \in 1..MaxSockets
    BY DEF ws, Typed
  <1>2. sentOn \in [Req -> SUBSET (1..MaxSockets)]
    BY <1>1 DEF Typed, ClientType
  <1>3. send(c, reqs) \in {c, [c EXCEPT !.sentOn = sentOn]}
    BY DEF send, Typed, ClientType
  <1> HIDE DEF sentOn
  <1> QED
    BY <1>2, <1>3 DEF Typed, ClientType

(***************************************************************************)
(* A request is queued only while reconnecting.                            *)
(***************************************************************************)
LEMMA RequestKeeps ==
    ASSUME NEW c, Typed(c), NEW reqs, reqs \subseteq Req
    PROVE  /\ Typed(request(c, reqs))
           /\ request(c, reqs).closed = c.closed
           /\ request(c, reqs).reconnecting = c.reconnecting
           /\ Waits(c) => Waits(request(c, reqs))
  <1>1. CASE c.closed
    BY <1>1, SetStatusKeeps DEF request, Waits
  <1>2. CASE ~c.closed /\ c.reconnecting
    <2> DEFINE s == SetStatus(c, reqs, "queued")
    <2>1. /\ Typed(s)
          /\ s.closed = c.closed
          /\ s.reconnecting = c.reconnecting
          /\ s.pendingRequests = c.pendingRequests
      BY SetStatusKeeps DEF Unsettled
    <2>2. request(c, reqs) = [s EXCEPT !.pendingRequests = s.pendingRequests \cup reqs]
      BY <1>2 DEF request
    <2> HIDE DEF s
    <2> QED
      BY <1>2, <2>1, <2>2 DEF Typed, ClientType, Waits
  <1>3. CASE ~c.closed /\ ~c.reconnecting
    <2> DEFINE s == SetStatus(c, reqs, "watching")
    <2>1. /\ Typed(s)
          /\ s.closed = c.closed
          /\ s.reconnecting = c.reconnecting
          /\ s.pendingRequests = c.pendingRequests
      BY SetStatusKeeps DEF Unsettled
    <2>2. request(c, reqs) = send(s, reqs)
      BY <1>3 DEF request
    <2> HIDE DEF s
    <2> QED
      BY <1>3, <2>1, <2>2, SendKeeps DEF Waits
  <1> QED
    BY <1>1, <1>2, <1>3

(***************************************************************************)
(* After resolvePendingRequests nothing waits.                             *)
(***************************************************************************)
LEMMA ResolveKeeps ==
    ASSUME NEW c, Typed(c)
    PROVE  /\ Typed(resolvePendingRequests(c))
           /\ resolvePendingRequests(c).pendingRequests = {}
           /\ resolvePendingRequests(c).subscribing \subseteq Channels
  <1> DEFINE s == send(c, c.pendingRequests)
  <1>1. Typed(s)
    BY SendKeeps
  <1>2. resolvePendingRequests(c) = [s EXCEPT !.pendingRequests = {}]
    BY DEF resolvePendingRequests
  <1> HIDE DEF s
  <1> QED
    BY <1>1, <1>2 DEF Typed, ClientType

(***************************************************************************)
(* close leaves a client that is closed.                                   *)
(***************************************************************************)
LEMMA CloseKeeps ==
    ASSUME NEW c, Typed(c)
    PROVE  Typed(close(c)) /\ close(c).closed
  <1>1. CASE c.closed
    BY <1>1 DEF close
  <1>2. CASE ~c.closed
    <2> DEFINE s == CloseSocket(c, ws(c))
               d == [s EXCEPT !.closed = TRUE]
    <2>1. Typed(s)
      BY CloseSocketKeeps DEF ws, Typed
    <2>2. Typed(d) /\ d.closed
      BY <2>1 DEF Typed, ClientType
    <2>3. close(c) = SetStatus(d, InStatus(c, {"watching", "resending"}), "failed")
      BY <1>2 DEF close
    <2> HIDE DEF d
    <2> QED
      BY <2>2, <2>3, SetStatusKeeps
  <1> QED
    BY <1>1, <1>2

(***************************************************************************)
(* And so does a fatal error.                                              *)
(***************************************************************************)
LEMMA FatalErrorKeeps ==
    ASSUME NEW c, Typed(c)
    PROVE  Typed(fatalError(c)) /\ fatalError(c).closed
  <1>1. CASE c.closed
    BY <1>1 DEF fatalError
  <1>2. CASE ~c.closed
    BY <1>2, SetStatusKeeps, CloseKeeps DEF fatalError
  <1> QED
    BY <1>1, <1>2

(***************************************************************************)
(* _reconnect reconnects, or gives up and closes.                          *)
(***************************************************************************)
LEMMA ReconnectKeeps ==
    ASSUME NEW c, Typed(c), NEW l
    PROVE  /\ Typed(reconnect(c, l))
           /\ reconnect(c, l).closed \/ reconnect(c, l).reconnecting
  <1> DEFINE idle == [c EXCEPT !.loops[l] = Idle]
             loops == [c.loops EXCEPT ![l] = Loop("backoff", 0)]
  <1>1. Typed(idle)
    <2> DEFINE ls == [c.loops EXCEPT ![l] = Idle]
    <2>0. Idle \in [phase : Phases, socket : 0..MaxSockets]
      BY LimitsAreNat DEF Idle, Loop, Phases
    <2>1. ls \in [Loops -> [phase : Phases, socket : 0..MaxSockets]]
      BY <2>0 DEF Typed, ClientType
    <2>2. idle = [c EXCEPT !.loops = ls]
      OBVIOUS
    <2> HIDE DEF ls, idle
    <2> QED
      BY <2>1, <2>2 DEF Typed, ClientType
  <1>2. CASE c.reconnectCount >= MaxRetry
    BY <1>1, <1>2, FatalErrorKeeps DEF reconnect
  <1>3. CASE ~(c.reconnectCount >= MaxRetry)
    <2>0. Loop("backoff", 0) \in [phase : Phases, socket : 0..MaxSockets]
      BY LimitsAreNat DEF Loop, Phases
    <2>1. loops \in [Loops -> [phase : Phases, socket : 0..MaxSockets]]
      BY <2>0 DEF Typed, ClientType
    <2>2. c.reconnectCount + 1 \in 0..MaxRetry
      BY <1>3, LimitsAreNat DEF Typed, ClientType
    <2>3. reconnect(c, l) = [c EXCEPT !.reconnecting = TRUE,
                                      !.reconnectCount = c.reconnectCount + 1,
                                      !.loops = loops]
      BY <1>3 DEF reconnect, Typed, ClientType
    <2> HIDE DEF loops
    <2> QED
      BY <2>1, <2>2, <2>3 DEF Typed, ClientType
  <1> QED
    BY <1>2, <1>3

(***************************************************************************)
(* Requeue lets requests wait and changes nothing else of the connection.  *)
(***************************************************************************)
LEMMA RequeueKeeps ==
    ASSUME NEW c, Typed(c)
    PROVE  /\ Typed(Requeue(c))
           /\ Requeue(c).closed = c.closed
           /\ Requeue(c).reconnecting = c.reconnecting
  <1> DEFINE reqs == InStatus(c, {"watching"})
             s == SetStatus(c, reqs, "resending")
  <1>1. reqs \subseteq Req
    BY DEF InStatus
  <1>2. /\ Typed(s)
        /\ s.closed = c.closed
        /\ s.reconnecting = c.reconnecting
    BY SetStatusKeeps DEF Unsettled
  <1>3. Requeue(c) = [s EXCEPT !.pendingRequests = s.pendingRequests \cup reqs]
    BY DEF Requeue
  <1> HIDE DEF reqs, s
  <1> QED
    BY <1>1, <1>2, <1>3 DEF Typed, ClientType

(***************************************************************************)
(* onDisconnected: requests wait, and a connection is being made.          *)
(***************************************************************************)
LEMMA DisconnectedKeeps ==
    ASSUME NEW c, Typed(c)
    PROVE  Typed(disconnected(c)) /\ Waits(disconnected(c))
  <1>1. CASE c.closed
    BY <1>1 DEF disconnected, Waits
  <1>2. CASE ~c.closed /\ c.reconnecting
    BY <1>2, RequeueKeeps DEF disconnected, Waits
  <1>3. CASE ~c.closed /\ ~c.reconnecting
    <2> DEFINE d == reconnect(c, CHOOSE l \in FreeLoops(c) : TRUE)
    <2>1. Typed(d) /\ (d.closed \/ d.reconnecting)
      BY ReconnectKeeps
    <2>2. disconnected(c) = Requeue(d)
      BY <1>3 DEF disconnected
    <2> HIDE DEF d
    <2> QED
      BY <2>1, <2>2, RequeueKeeps DEF Waits
  <1> QED
    BY <1>1, <1>2, <1>3

(***************************************************************************)
(* connected resends what waits before the flag could mislead anyone.      *)
(***************************************************************************)
LEMMA ConnectedKeeps ==
    ASSUME NEW c, Typed(c), NEW l \in Loops
    PROVE  Typed(connected(c, l)) /\ Waits(connected(c, l))
  <1> DEFINE loops == [c.loops EXCEPT ![l].phase = "subscribing"]
             d == [c EXCEPT !.reconnecting = FALSE,
                            !.reconnectCount = 0,
                            !.loops[l].phase = "subscribing"]
             e == resolvePendingRequests(d)
  <1>1. loops \in [Loops -> [phase : Phases, socket : 0..MaxSockets]]
    BY DEF Typed, ClientType, Phases
  <1>2. d = [c EXCEPT !.reconnecting = FALSE, !.reconnectCount = 0, !.loops = loops]
    BY DEF Typed, ClientType
  <1> HIDE DEF loops, d
  <1>3. Typed(d)
    <2>1. 0 \in 0..MaxRetry
      BY LimitsAreNat
    <2> QED
      BY <1>1, <1>2, <2>1 DEF Typed, ClientType
  <1>4. Typed(e) /\ e.pendingRequests = {}
    BY <1>3, ResolveKeeps
  <1>5. {l} \X c.subscribing \subseteq Req
    BY DEF Typed, ClientType, Req
  <1>6. connected(c, l) = request(e, {l} \X c.subscribing)
    BY DEF connected, subscribeChannelEvents, d
  <1> HIDE DEF e
  <1> QED
    BY <1>4, <1>5, <1>6, RequestKeeps DEF Waits

(***************************************************************************)
(* A channel more is subscribed, which changes nothing else.               *)
(***************************************************************************)
LEMMA ChannelSubscribedKeeps ==
    ASSUME NEW c, Typed(c), Waits(c), NEW ch \in Channels
    PROVE  Typed(channelSubscribed(c, ch)) /\ Waits(channelSubscribed(c, ch))
  BY DEF channelSubscribed, Typed, ClientType, Waits

(***************************************************************************)
(* getChannel's next request waits under the same condition.               *)
(***************************************************************************)
LEMMA GotChannelKeeps ==
    ASSUME NEW c, Typed(c), Waits(c), NEW ch \in Channels
    PROVE  Typed(gotChannel(c, ch)) /\ Waits(gotChannel(c, ch))
  <1> DEFINE d == [c EXCEPT !.subscribing = @ \cup {ch}]
             reqs == {<<"sub", ch>>}
  <1>1. Typed(d) /\ Waits(d)
    BY DEF Typed, ClientType, Waits
  <1>2. reqs \subseteq Req
    BY DEF Req
  <1>3. gotChannel(c, ch) \in {c, request(d, reqs)}
    BY DEF gotChannel, subscribeChannelEvents
  <1> HIDE DEF d, reqs
  <1> QED
    BY <1>1, <1>2, <1>3, RequestKeeps

(***************************************************************************)
(* Whatever the caller makes of an answer.                                 *)
(***************************************************************************)
LEMMA AfterAnswerKeeps ==
    ASSUME NEW c, Typed(c), Waits(c), NEW r \in Req, NEW d \in afterAnswer(c, r)
    PROVE  Typed(d) /\ Waits(d)
  <1> DEFINE ch == Channel(r)
             reqs == {<<"get", ch>>}
             e == channelSubscribed(c, ch)
  <1>1. ch \in Channels /\ reqs \subseteq Req
    BY DEF Req, Channel
  <1>2. Typed(e) /\ Waits(e)
    BY <1>1, ChannelSubscribedKeeps
  <1>3. d \in {c, gotChannel(c, ch), e, request(e, reqs)}
    BY DEF afterAnswer
  <1> HIDE DEF ch, reqs, e
  <1> QED
    BY <1>1, <1>2, <1>3, GotChannelKeeps, RequestKeeps

(***************************************************************************)
(* And of a refusal.                                                       *)
(***************************************************************************)
LEMMA AfterRefusalKeeps ==
    ASSUME NEW c, Typed(c), Waits(c), NEW r \in Req, NEW d \in afterRefusal(c, r)
    PROVE  Typed(d) /\ Waits(d)
  <1> DEFINE reqs == {<<"get", Channel(r)>>}
  <1>1. reqs \subseteq Req
    BY DEF Req, Channel
  <1>2. d \in {c, request(c, reqs)}
    BY DEF afterRefusal
  <1> HIDE DEF reqs
  <1> QED
    BY <1>1, <1>2, RequestKeeps

-----------------------------------------------------------------------------
(* The specification                                                       *)

(***************************************************************************)
(* The inductive invariant is the type and WaitingMeansReconnecting: no    *)
(* strengthening is needed, because every operator above keeps both.       *)
(***************************************************************************)
IInv == TypeOK /\ WaitingMeansReconnecting

(***************************************************************************)
(* The client starts connected, with nothing asked for.                    *)
(***************************************************************************)
LEMMA InitIInv == Init => IInv
  <1> SUFFICES ASSUME Init PROVE IInv
    OBVIOUS
  <1>1. <<"open">> \in Seq({"connecting", "open", "closed"}) /\ Len(<<"open">>) = 1
    OBVIOUS
  <1>2. Idle \in [phase : Phases, socket : 0..MaxSockets]
    BY LimitsAreNat DEF Idle, Loop, Phases
  <1>3. 0 \in 0..MaxRetry /\ 1 \in 1..MaxSockets
    BY LimitsAreNat
  <1>4. Typed(client)
    BY <1>1, <1>2, <1>3 DEF Init, Typed, ClientType
  <1> QED
    BY <1>4 DEF Init, IInv, TypeOK, Typed, WaitingMeansReconnecting

(***************************************************************************)
(* Every step keeps it.                                                    *)
(***************************************************************************)
LEMMA NextIInv == IInv /\ [Next]_vars => IInv'
  <1> SUFFICES ASSUME IInv, [Next]_vars PROVE IInv'
    OBVIOUS
  <1> USE DEF Sockets
  <1>0. /\ Typed(client) /\ Waits(client)
        /\ subs \subseteq (1..MaxSockets) \X Channels
        /\ known \subseteq Channels
        /\ faults \in Nat
        /\ abandoned \in BOOLEAN
    BY DEF IInv, TypeOK, Typed, WaitingMeansReconnecting, Waits
  <1> SUFFICES /\ Typed(client') /\ Waits(client')
               /\ subs' \subseteq (1..MaxSockets) \X Channels
               /\ known' \subseteq Channels
               /\ faults' \in Nat
               /\ abandoned' \in BOOLEAN
    BY DEF IInv, TypeOK, Typed, WaitingMeansReconnecting, Waits
  <1>1. ASSUME NEW i \in Sockets, Disconnect(i)
        PROVE  Typed(client') /\ Waits(client')
    <2>1. Typed(CloseSocket(client, i))
      BY <1>0, CloseSocketKeeps
    <2>2. ASSUME NEW l PROVE Typed(reconnect(CloseSocket(client, i), l))
      BY <2>1, ReconnectKeeps
    <2> QED
      BY <1>1, <2>1, <2>2, DisconnectedKeeps DEF Disconnect
  <1>2. ASSUME NEW i \in Sockets, UsageLimitExceeded(i)
        PROVE  Typed(client') /\ Waits(client')
    BY <1>0, <1>2, CloseSocketKeeps, CloseKeeps DEF UsageLimitExceeded, Waits
  <1>3. ASSUME NEW i \in Sockets, Opens(i)
        PROVE  Typed(client') /\ Waits(client')
    <2> DEFINE c == [client EXCEPT !.sockets[i] = "open"]
               sockets == [client.sockets EXCEPT ![i] = "open"]
    <2>1. client.sockets \in Seq({"connecting", "open", "closed"})
      BY <1>0 DEF Typed, ClientType
    <2>2. /\ sockets \in Seq({"connecting", "open", "closed"})
          /\ Len(sockets) = Len(client.sockets)
      BY <2>1, ExceptSeq
    <2>3. c = [client EXCEPT !.sockets = sockets]
      BY <1>0 DEF Typed, ClientType
    <2>4. client' = c \/ \E l \in Loops : client' = connected(c, l)
      BY <1>3 DEF Opens, Connecting
    <2> HIDE DEF sockets, c
    <2>5. Typed(c) /\ Waits(c)
      BY <1>0, <2>2, <2>3 DEF Typed, ClientType, Waits
    <2> QED
      BY <2>4, <2>5, ConnectedKeeps
  <1>4. ASSUME NEW r \in Req, NEW i \in Sockets, Answer(r, i)
        PROVE  Typed(client') /\ Waits(client')
    <2> DEFINE c == [client EXCEPT !.sentOn[r] = @ \ {i}]
    <2>1. Typed(c) /\ Waits(c)
      BY <1>0 DEF Typed, ClientType, Waits
    <2>2. client' \in {c} \cup afterAnswer(SetStatus(c, {r}, "none"), r)
      BY <1>4 DEF Answer
    <2> HIDE DEF c
    <2>3. Typed(SetStatus(c, {r}, "none")) /\ Waits(SetStatus(c, {r}, "none"))
      BY <2>1, SetStatusKeeps DEF Waits
    <2> QED
      BY <2>1, <2>2, <2>3, AfterAnswerKeeps
  <1>5. ASSUME NEW r \in Req, NEW i \in Sockets, Refuse(r, i)
        PROVE  Typed(client') /\ Waits(client')
    <2> DEFINE c == [client EXCEPT !.sentOn[r] = @ \ {i}]
    <2>1. Typed(c) /\ Waits(c)
      BY <1>0 DEF Typed, ClientType, Waits
    <2>2. client' \in {c} \cup afterRefusal(SetStatus(c, {r}, "failed"), r)
      BY <1>5 DEF Refuse
    <2> HIDE DEF c
    <2>3. Typed(SetStatus(c, {r}, "failed")) /\ Waits(SetStatus(c, {r}, "failed"))
      BY <2>1, SetStatusKeeps DEF Waits
    <2> QED
      BY <2>1, <2>2, <2>3, AfterRefusalKeeps
  <1>6. ASSUME NEW r \in Req, Timeout(r)
        PROVE  Typed(client') /\ Waits(client')
    BY <1>0, <1>6, SetStatusKeeps DEF Timeout, Waits
  <1>7. ASSUME NEW l \in Loops, BackoffOver(l)
        PROVE  Typed(client') /\ Waits(client')
    <2> DEFINE n == Len(client.sockets) + 1
               sockets == Append(client.sockets, "connecting")
               loops == [client.loops EXCEPT ![l] = Loop("connecting", n)]
    <2>1. client.sockets \in Seq({"connecting", "open", "closed"}) /\ n \in 1..MaxSockets
      BY <1>0, <1>7, LimitsAreNat DEF BackoffOver, Typed, ClientType
    <2>2. sockets \in Seq({"connecting", "open", "closed"}) /\ Len(sockets) = n
      BY <2>1
    <2>3. Loop("connecting", n) \in [phase : Phases, socket : 0..MaxSockets]
      BY <2>1, LimitsAreNat DEF Loop, Phases
    <2>4. loops \in [Loops -> [phase : Phases, socket : 0..MaxSockets]]
      BY <1>0, <2>3 DEF Typed, ClientType
    <2>5. client' = [client EXCEPT !.sockets = sockets, !.loops = loops]
      BY <1>0, <1>7 DEF BackoffOver, Typed, ClientType
    <2> HIDE DEF n, sockets, loops
    <2> QED
      BY <1>0, <2>1, <2>2, <2>4, <2>5 DEF Typed, ClientType, Waits
  <1>8. ASSUME NEW l \in Loops, ConnectTimeout(l) \/ ConnectRejected(l) \/ ResubscribeFails(l)
        PROVE  Typed(client') /\ Waits(client')
    <2>1. client' = reconnect(client, l)
      BY <1>8 DEF ConnectTimeout, ConnectRejected, ResubscribeFails
    <2> QED
      BY <1>0, <2>1, ReconnectKeeps DEF Waits
  <1>9. ASSUME NEW l \in Loops, Resubscribed(l)
        PROVE  Typed(client') /\ Waits(client')
    <2> DEFINE loops == [client.loops EXCEPT ![l] = Idle]
    <2>1. Idle \in [phase : Phases, socket : 0..MaxSockets]
      BY LimitsAreNat DEF Idle, Loop, Phases
    <2>2. loops \in [Loops -> [phase : Phases, socket : 0..MaxSockets]]
      BY <1>0, <2>1 DEF Typed, ClientType
    <2>3. client' = [client EXCEPT !.loops = loops]
      BY <1>9 DEF Resubscribed
    <2> HIDE DEF loops
    <2> QED
      BY <1>0, <2>2, <2>3 DEF Typed, ClientType, Waits
  <1>10. ASSUME NEW ch \in Channels, getChannel(ch) \/ createChannel(ch)
         PROVE  Typed(client') /\ Waits(client')
    <2>1. PICK kind \in {"get", "create"} : client' = request(client, {<<kind, ch>>})
      BY <1>10 DEF getChannel, createChannel
    <2>2. {<<kind, ch>>} \subseteq Req
      BY DEF Req
    <2> QED
      BY <1>0, <2>1, <2>2, RequestKeeps
  <1>11. ASSUME closeClient
         PROVE  Typed(client') /\ Waits(client')
    BY <1>0, <1>11, CloseKeeps DEF closeClient, Waits
  <1>12. Typed(client') /\ Waits(client')
    <2>1. CASE UNCHANGED vars
      BY <1>0, <2>1 DEF vars
    <2>2. CASE Next
      BY <2>2, <1>1, <1>2, <1>3, <1>4, <1>5, <1>6, <1>7, <1>8, <1>9, <1>10, <1>11 DEF Next
    <2> QED
      BY <2>1, <2>2
  <1>13. /\ subs' \subseteq (1..MaxSockets) \X Channels
         /\ known' \subseteq Channels
         /\ faults' \in Nat
         /\ abandoned' \in BOOLEAN
    <2>1. ASSUME NEW r \in Req, NEW i \in Sockets, Answer(r, i)
          PROVE  /\ subs' \subseteq (1..MaxSockets) \X Channels
                 /\ known' \subseteq Channels
                 /\ UNCHANGED <<faults, abandoned>>
      <3>1. Channel(r) \in Channels
        BY DEF Req, Channel
      <3>2. i \in 1..MaxSockets
        BY <1>0, LimitsAreNat DEF Typed
      <3>3. subs' \subseteq subs \cup {<<i, Channel(r)>>}
        BY <2>1 DEF Answer
      <3>4. client'.subscribing \subseteq Channels
        BY <1>12 DEF Typed, ClientType
      <3>5. known' \subseteq known \cup client'.subscribing
        BY <2>1 DEF Answer
      <3> QED
        BY <1>0, <2>1, <3>1, <3>2, <3>3, <3>4, <3>5 DEF Answer
    <2>2. CASE Next /\ ~\E r \in Req : \E i \in Sockets : Answer(r, i)
      <3>1. subs' \subseteq subs /\ UNCHANGED known /\ faults' \in {faults, faults + 1}
        BY <2>2
           DEF Next, Disconnect, UsageLimitExceeded, Opens, Timeout, Refuse, BackoffOver,
               ConnectTimeout, ConnectRejected, Resubscribed, ResubscribeFails, getChannel,
               createChannel, closeClient, Fault, Drop
      <3>2. abandoned' \in {abandoned, TRUE}
        BY <2>2
           DEF Next, Disconnect, UsageLimitExceeded, Opens, Timeout, Refuse, BackoffOver,
               ConnectTimeout, ConnectRejected, Resubscribed, ResubscribeFails, getChannel,
               createChannel, closeClient
      <3>3. faults' \in Nat
        BY <1>0, <3>1
      <3>4. abandoned' \in BOOLEAN
        BY <1>0, <3>2
      <3> QED
        BY <1>0, <3>1, <3>3, <3>4
    <2>3. CASE UNCHANGED vars
      BY <1>0, <2>3 DEF vars
    <2> QED
      BY <1>0, <2>1, <2>2, <2>3
  <1> QED
    BY <1>12, <1>13

(***************************************************************************)
(* The client keeps its type, for every number of channels, concurrent     *)
(* reconnections, retries, faults and sockets.                             *)
(***************************************************************************)
THEOREM TypeCorrect == Spec => []TypeOK
  <1>1. IInv => TypeOK
    BY DEF IInv
  <1> QED
    BY <1>1, InitIInv, NextIInv, PTL DEF Spec

(***************************************************************************)
(* A request waits for the next connection only while one is being made    *)
(* or the client is closed (_reconnect, onDisconnected, RPC.request).      *)
(***************************************************************************)
THEOREM NobodyWaitsInVain == Spec => []WaitingMeansReconnecting
  <1>1. IInv => WaitingMeansReconnecting
    BY DEF IInv
  <1> QED
    BY <1>1, InitIInv, NextIInv, PTL DEF Spec

-----------------------------------------------------------------------------
(* One connection at a time                                                *)

\* The calls of _reconnect on their way to the next connection.
Connectors(c) == {l \in Loops : c.loops[l].phase \in {"backoff", "connecting"}}

(***************************************************************************)
(* The strengthening of OneConnection: a call that backs off has no socket *)
(* beside it, one that connects waits for the last socket, and when there  *)
(* is none, the last socket is open.                                       *)
(***************************************************************************)
Connects(c) ==
    IF c.reconnecting
    THEN \E l \in Loops : /\ Connectors(c) = {l}
                          /\ \/ c.loops[l].phase = "backoff" /\ Live(c) = {}
                             \/ /\ c.loops[l] = Loop("connecting", ws(c))
                                /\ Live(c) = {ws(c)} /\ c.sockets[ws(c)] = "connecting"
    ELSE Connectors(c) = {} /\ Live(c) = {ws(c)} /\ c.sockets[ws(c)] = "open"

Connection == client.closed \/ abandoned \/ Connects(client)

\* d has the connection of c.
SameConnection(c, d) == /\ d.sockets = c.sockets
                        /\ d.loops = c.loops
                        /\ d.closed = c.closed
                        /\ d.reconnecting = c.reconnecting

LEMMA SameConnects ==
    ASSUME NEW c, NEW d, SameConnection(c, d)
    PROVE  (d.closed \/ Connects(d)) <=> (c.closed \/ Connects(c))
  BY DEF SameConnection, Connects, Connectors, Live, ws

(***************************************************************************)
(* Requests do not touch the connection.                                   *)
(***************************************************************************)
LEMMA RequestConnection ==
    ASSUME NEW c, Typed(c), NEW reqs
    PROVE  /\ SameConnection(c, send(c, reqs))
           /\ SameConnection(c, request(c, reqs))
  <1>1. ASSUME NEW d, Typed(d) PROVE SameConnection(d, send(d, reqs))
    <2> DEFINE sentOn == [r \in Req |-> IF r \in reqs THEN d.sentOn[r] \cup {ws(d)} ELSE d.sentOn[r]]
    <2>1. send(d, reqs) \in {d, [d EXCEPT !.sentOn = sentOn]}
      BY <1>1 DEF send, Typed, ClientType
    <2> HIDE DEF sentOn
    <2> QED
      BY <1>1, <2>1 DEF SameConnection, Typed, ClientType
  <1>2. CASE c.closed
    <2>1. request(c, reqs) = SetStatus(c, reqs, "failed")
      BY <1>2 DEF request
    <2>2. SameConnection(c, SetStatus(c, reqs, "failed"))
      BY SetStatusKeeps DEF SameConnection
    <2> QED
      BY <1>1, <2>1, <2>2
  <1>3. CASE ~c.closed /\ c.reconnecting
    <2> DEFINE s == SetStatus(c, reqs, "queued")
    <2>1. Typed(s) /\ SameConnection(c, s)
      BY SetStatusKeeps DEF Unsettled, SameConnection
    <2>2. request(c, reqs) = [s EXCEPT !.pendingRequests = s.pendingRequests \cup reqs]
      BY <1>3 DEF request
    <2> HIDE DEF s
    <2> QED
      BY <1>1, <2>1, <2>2 DEF Typed, ClientType, SameConnection
  <1>4. CASE ~c.closed /\ ~c.reconnecting
    <2> DEFINE s == SetStatus(c, reqs, "watching")
    <2>1. Typed(s) /\ SameConnection(c, s)
      BY SetStatusKeeps DEF Unsettled, SameConnection
    <2>2. request(c, reqs) = send(s, reqs)
      BY <1>4 DEF request
    <2> HIDE DEF s
    <2> QED
      BY <1>1, <2>1, <2>2 DEF SameConnection
  <1>5. SameConnection(c, send(c, reqs))
    BY <1>1
  <1> QED
    BY <1>2, <1>3, <1>4, <1>5

LEMMA AnswerConnection ==
    ASSUME NEW c, Typed(c), NEW r \in Req
    PROVE  \A d \in afterAnswer(c, r) \cup afterRefusal(c, r) : SameConnection(c, d)
  <1> DEFINE ch == Channel(r)
             e == channelSubscribed(c, ch)
             d == [c EXCEPT !.subscribing = @ \cup {ch}]
  <1>1. ch \in Channels
    BY DEF Req, Channel
  <1>2. /\ Typed(e) /\ SameConnection(c, e)
        /\ Typed(d) /\ SameConnection(c, d)
    BY <1>1 DEF channelSubscribed, Typed, ClientType, SameConnection
  <1>3. gotChannel(c, ch) \in {c, request(d, {<<"sub", ch>>})}
    BY DEF gotChannel, subscribeChannelEvents
  <1>4. /\ afterAnswer(c, r) \subseteq {c, gotChannel(c, ch), e, request(e, {<<"get", ch>>})}
        /\ afterRefusal(c, r) \subseteq {c, request(c, {<<"get", ch>>})}
    BY DEF afterAnswer, afterRefusal
  <1> HIDE DEF ch, e, d
  <1>5. /\ SameConnection(c, c)
        /\ SameConnection(c, request(c, {<<"get", ch>>}))
        /\ SameConnection(c, request(d, {<<"sub", ch>>}))
        /\ SameConnection(c, request(e, {<<"get", ch>>}))
    BY <1>2, RequestConnection DEF SameConnection
  <1>6. SameConnection(c, gotChannel(c, ch)) /\ SameConnection(c, e)
    BY <1>2, <1>3, <1>5
  <1> QED
    BY <1>4, <1>5, <1>6

(***************************************************************************)
(* The only socket of a client that is not closed is lost.                 *)
(***************************************************************************)
LEMMA SocketLost ==
    ASSUME NEW c, Typed(c), NEW i \in Live(c), Live(c) \subseteq {ws(c)}
    PROVE  /\ Typed(CloseSocket(c, i)) /\ Live(CloseSocket(c, i)) = {}
           /\ CloseSocket(c, i).loops = c.loops
           /\ CloseSocket(c, i).closed = c.closed
           /\ CloseSocket(c, i).reconnecting = c.reconnecting
  <1> DEFINE Socket == {"connecting", "open", "closed"}
             sockets == [c.sockets EXCEPT ![i] = "closed"]
             sentOn == [r \in Req |-> c.sentOn[r] \ {i}]
             d == [c EXCEPT !.sockets = sockets, !.sentOn = sentOn]
  <1>1. c.sockets \in Seq(Socket) /\ i \in 1..Len(c.sockets)
    BY DEF Typed, ClientType, Live
  <1>2. CloseSocket(c, i) = d
    BY DEF CloseSocket, Typed, ClientType
  <1>3. /\ Len(sockets) = Len(c.sockets) /\ sockets[i] = "closed"
        /\ \A k \in 1..Len(c.sockets) : k # i => sockets[k] = c.sockets[k]
    BY <1>1, ExceptSeq
  <1> HIDE DEF sockets, sentOn
  <1>4. d.sockets = sockets /\ d.loops = c.loops /\ d.closed = c.closed /\ d.reconnecting = c.reconnecting
    BY DEF Typed, ClientType
  <1>5. Live(d) = {}
    BY <1>3, <1>4 DEF Live
  <1> QED
    BY <1>1, <1>2, <1>4, <1>5, CloseSocketKeeps

(***************************************************************************)
(* _reconnect, of a client without a socket, is the only call.             *)
(***************************************************************************)
LEMMA ReconnectConnects ==
    ASSUME NEW c, Typed(c), NEW l \in Loops, Live(c) = {}, Connectors(c) \subseteq {l}
    PROVE  LET d == reconnect(c, l)
           IN  d.closed \/ (d.reconnecting /\ Connects(d))
  <1>1. CASE c.reconnectCount >= MaxRetry
    <2>1. Typed([c EXCEPT !.loops[l] = Idle])
      <3> DEFINE ls == [c.loops EXCEPT ![l] = Idle]
      <3>0. Idle \in [phase : Phases, socket : 0..MaxSockets]
        BY LimitsAreNat DEF Idle, Loop, Phases
      <3>1. ls \in [Loops -> [phase : Phases, socket : 0..MaxSockets]]
        BY <3>0 DEF Typed, ClientType
      <3> HIDE DEF ls
      <3>2. Typed([c EXCEPT !.loops = ls])
        BY <3>1 DEF Typed, ClientType
      <3> QED
        BY <3>2 DEF ls
    <2> QED
      BY <1>1, <2>1, FatalErrorKeeps DEF reconnect
  <1>2. CASE ~(c.reconnectCount >= MaxRetry)
    <2> DEFINE loops == [c.loops EXCEPT ![l] = Loop("backoff", 0)]
               d == [c EXCEPT !.reconnecting = TRUE,
                              !.reconnectCount = c.reconnectCount + 1,
                              !.loops = loops]
    <2>1. reconnect(c, l) = d
      BY <1>2 DEF reconnect, Typed, ClientType
    <2>2. loops[l].phase = "backoff" /\ \A k \in Loops \ {l} : loops[k] = c.loops[k]
      BY DEF Typed, ClientType, Loop
    <2> HIDE DEF loops
    <2>3. d.reconnecting /\ d.loops = loops /\ d.sockets = c.sockets
      BY DEF Typed, ClientType
    <2>4. Connectors(d) = {l}
      BY <2>2, <2>3 DEF Connectors
    <2>5. Live(d) = {}
      BY <2>3 DEF Live
    <2> HIDE DEF d
    <2> QED
      BY <2>1, <2>2, <2>3, <2>4, <2>5 DEF Connects
  <1> QED
    BY <1>1, <1>2

LEMMA RequeueConnection ==
    ASSUME NEW c, Typed(c)
    PROVE  SameConnection(c, Requeue(c))
  <1> DEFINE reqs == InStatus(c, {"watching"})
             s == SetStatus(c, reqs, "resending")
  <1>1. Typed(s) /\ SameConnection(c, s)
    BY SetStatusKeeps DEF Unsettled, SameConnection
  <1>2. Requeue(c) = [s EXCEPT !.pendingRequests = s.pendingRequests \cup reqs]
    BY DEF Requeue
  <1> HIDE DEF reqs, s
  <1> QED
    BY <1>1, <1>2 DEF Typed, ClientType, SameConnection

(***************************************************************************)
(* A client that is closed stays closed.                                   *)
(***************************************************************************)
LEMMA ClosedStays ==
    ASSUME NEW c, Typed(c), c.closed, NEW l \in Loops
    PROVE  reconnect(c, l).closed /\ connected(c, l).closed
  <1>1. reconnect(c, l).closed
    <2>1. [c EXCEPT !.loops[l] = Idle].closed
      BY DEF Typed, ClientType
    <2>2. [c EXCEPT !.reconnecting = TRUE, !.reconnectCount = @ + 1, !.loops[l] = Loop("backoff", 0)].closed
      BY DEF Typed, ClientType
    <2> QED
      BY <2>1, <2>2 DEF reconnect, fatalError
  <1>2. connected(c, l).closed
    <2> DEFINE loops == [c.loops EXCEPT ![l].phase = "subscribing"]
               d == [c EXCEPT !.reconnecting = FALSE, !.reconnectCount = 0,
                              !.loops[l].phase = "subscribing"]
               s == send(d, d.pendingRequests)
               e == [s EXCEPT !.pendingRequests = {}]
    <2>1. Typed(d) /\ d.closed
      <3>1. 0 \in 0..MaxRetry /\ loops \in [Loops -> [phase : Phases, socket : 0..MaxSockets]]
        <4>1. c.loops \in [Loops -> [phase : Phases, socket : 0..MaxSockets]]
          BY DEF Typed, ClientType
        <4>2. "subscribing" \in Phases
          BY DEF Phases
        <4> QED
          BY ONLY <4>1, <4>2, LimitsAreNat, l \in Loops DEF loops
      <3>2. d = [c EXCEPT !.reconnecting = FALSE, !.reconnectCount = 0, !.loops = loops]
        BY DEF Typed, ClientType
      <3> HIDE DEF loops
      <3> QED
        BY <3>1, <3>2 DEF Typed, ClientType
    <2> HIDE DEF d
    <2>2. Typed(s) /\ s.closed
      BY <2>1, SendKeeps
    <2> HIDE DEF s
    <2>3. Typed(e) /\ e.closed
      BY <2>2 DEF Typed, ClientType
    <2>4. connected(c, l) = request(e, {l} \X c.subscribing)
      BY DEF connected, resolvePendingRequests, subscribeChannelEvents, d, s
    <2> HIDE DEF e
    <2> QED
      BY <2>3, <2>4, RequestConnection DEF SameConnection
  <1> QED
    BY <1>1, <1>2

(***************************************************************************)
(* A call that connected leaves none behind, and an open socket.           *)
(***************************************************************************)
LEMMA ConnectedConnects ==
    ASSUME NEW c, Typed(c), NEW l \in Loops, Connectors(c) = {l},
           Live(c) = {ws(c)}, c.sockets[ws(c)] = "open"
    PROVE  connected(c, l).closed \/ Connects(connected(c, l))
  <1> DEFINE loops == [c.loops EXCEPT ![l].phase = "subscribing"]
             d == [c EXCEPT !.reconnecting = FALSE,
                            !.reconnectCount = 0,
                            !.loops[l].phase = "subscribing"]
             s == send(d, d.pendingRequests)
             e == [s EXCEPT !.pendingRequests = {}]
  <1>1. /\ loops \in [Loops -> [phase : Phases, socket : 0..MaxSockets]]
        /\ loops[l].phase = "subscribing" /\ \A k \in Loops \ {l} : loops[k] = c.loops[k]
    BY DEF Typed, ClientType, Phases
  <1>2. d = [c EXCEPT !.reconnecting = FALSE, !.reconnectCount = 0, !.loops = loops]
    BY DEF Typed, ClientType
  <1> HIDE DEF loops
  <1>3. Typed(d) /\ d.loops = loops /\ d.sockets = c.sockets /\ ~d.reconnecting
    <2>1. 0 \in 0..MaxRetry
      BY LimitsAreNat
    <2> QED
      BY <1>1, <1>2, <2>1 DEF Typed, ClientType
  <1> HIDE DEF d
  <1>4. Connectors(d) = {}
    BY <1>1, <1>3 DEF Connectors
  <1>5. Connects(d)
    BY <1>3, <1>4 DEF Connects, Live, ws
  <1>6. Typed(s) /\ SameConnection(d, s)
    BY <1>3, SendKeeps, RequestConnection
  <1> HIDE DEF s
  <1>7. Typed(e) /\ SameConnection(d, e)
    BY <1>6 DEF Typed, ClientType, SameConnection
  <1>8. connected(c, l) = request(e, {l} \X c.subscribing)
    BY DEF connected, resolvePendingRequests, subscribeChannelEvents, d, s
  <1> HIDE DEF e
  <1>9. SameConnection(d, connected(c, l))
    BY <1>7, <1>8, RequestConnection DEF SameConnection
  <1> QED
    BY <1>5, <1>9, SameConnects

(***************************************************************************)
(* Every step keeps the connection one.                                    *)
(***************************************************************************)
LEMMA NextConnection == TypeOK /\ Connection /\ [Next]_vars => Connection'
  <1> SUFFICES ASSUME TypeOK, Connection, [Next]_vars PROVE Connection'
    OBVIOUS
  <1> USE DEF Sockets
  <1>1. Typed(client) /\ (abandoned' = abandoned \/ abandoned')
    BY DEF TypeOK, Typed, Next, Disconnect, UsageLimitExceeded, Opens, Timeout, Answer, Refuse, BackoffOver,
           ConnectTimeout, ConnectRejected, Resubscribed, ResubscribeFails, getChannel, createChannel,
           closeClient, vars
  <1>2. SUFFICES ASSUME ~abandoned' PROVE client'.closed \/ Connects(client')
    BY DEF Connection
  <1>3. ~abandoned /\ (client.closed \/ Connects(client))
    BY <1>1, <1>2 DEF Connection
  <1>4. ASSUME SameConnection(client, client')
        PROVE  client'.closed \/ Connects(client')
    BY <1>3, <1>4, SameConnects
  <1>5. ASSUME NEW i \in Sockets, Disconnect(i)
        PROVE  client'.closed \/ Connects(client')
    <2> DEFINE c == CloseSocket(client, i)
    <2>1. /\ i \in Live(client)
          /\ Connecting(i) = {} /\ ~client.reconnecting => FreeLoops(client) # {}
          /\ \/ Connecting(i) = {} /\ client' = disconnected(c)
             \/ \E l \in Connecting(i) : client' = disconnected(reconnect(c, l))
      BY <1>5 DEF Disconnect
    <2>2. Typed(c) /\ c.closed = client.closed
      BY <1>1, CloseSocketKeeps
    <2>3. CASE client.closed
      <3>1. \A l \in Connecting(i) : reconnect(c, l).closed
        BY <2>2, <2>3, ClosedStays DEF Connecting
      <3> HIDE DEF c
      <3> QED
        BY <2>1, <2>2, <2>3, <3>1 DEF disconnected
    <2>4. CASE ~client.closed
      <3>1. Live(client) = {ws(client)} /\ i = ws(client)
        BY <1>3, <2>1, <2>4 DEF Connects
      <3>2. /\ Live(c) = {} /\ c.loops = client.loops /\ c.closed = client.closed
            /\ c.reconnecting = client.reconnecting
        BY <1>1, <2>1, <3>1, SocketLost
      <3> HIDE DEF c
      <3>3. Connectors(c) = Connectors(client)
        BY <3>2 DEF Connectors
      <3>4. ASSUME NEW l \in Loops, Connectors(client) \subseteq {l},
                   client' = disconnected(reconnect(c, l)) \/ client' = Requeue(reconnect(c, l))
            PROVE  client'.closed \/ Connects(client')
        <4> DEFINE d == reconnect(c, l)
        <4>1. d.closed \/ (d.reconnecting /\ Connects(d))
          BY <2>2, <3>2, <3>3, <3>4, ReconnectConnects
        <4>2. Typed(d)
          BY <2>2, ReconnectKeeps
        <4>3. client' = disconnected(d) \/ client' = Requeue(d)
          BY <3>4
        <4> HIDE DEF d
        <4>4. client' = d \/ client' = Requeue(d)
          BY <4>1, <4>3 DEF disconnected
        <4> QED
          BY <4>1, <4>2, <4>4, RequeueConnection, SameConnects
      <3>5. CASE client.reconnecting
        <4>1. PICK l \in Loops : Connectors(client) = {l} /\ client.loops[l] = Loop("connecting", i)
          BY <1>3, <2>4, <3>1, <3>5 DEF Connects
        <4>2. \A k \in Loops : client.loops[k] = Loop("connecting", i) => k \in Connectors(client)
          BY DEF Connectors, Loop
        <4>3. Connecting(i) = {l}
          BY <4>1, <4>2 DEF Connecting
        <4> QED
          BY <2>1, <3>4, <4>1, <4>3
      <3>6. CASE ~client.reconnecting
        <4>1. Connectors(client) = {}
          BY <1>3, <2>4, <3>6 DEF Connects
        <4>2. Connecting(i) = {}
          BY <4>1 DEF Connecting, Connectors, Loop
        <4>3. client' = Requeue(reconnect(c, CHOOSE l \in FreeLoops(c) : TRUE))
          BY <2>1, <2>4, <3>2, <3>6, <4>2 DEF disconnected
        <4>4. FreeLoops(c) # {} /\ FreeLoops(c) \subseteq Loops
          BY <2>1, <3>2, <3>6, <4>2 DEF FreeLoops
        <4>5. (CHOOSE l \in FreeLoops(c) : TRUE) \in Loops
          BY <4>4
        <4> QED
          BY <3>4, <4>1, <4>3, <4>5
      <3> QED
        BY <3>5, <3>6
    <2> QED
      BY <2>3, <2>4
  <1>6. ASSUME NEW i \in Sockets, UsageLimitExceeded(i)
        PROVE  client'.closed
    BY <1>1, <1>6, CloseSocketKeeps, CloseKeeps DEF UsageLimitExceeded
  <1>7. ASSUME NEW i \in Sockets, Opens(i)
        PROVE  client'.closed \/ Connects(client')
    <2> DEFINE c == [client EXCEPT !.sockets[i] = "open"]
               sockets == [client.sockets EXCEPT ![i] = "open"]
    <2>1. client.sockets \in Seq({"connecting", "open", "closed"}) /\ client.sockets[i] = "connecting"
      BY <1>1, <1>7 DEF Opens, Typed, ClientType
    <2>2. /\ sockets \in Seq({"connecting", "open", "closed"})
          /\ Len(sockets) = Len(client.sockets)
          /\ sockets[i] = "open" /\ \A k \in 1..Len(client.sockets) : k # i => sockets[k] = client.sockets[k]
      BY <2>1, ExceptSeq
    <2>3. c = [client EXCEPT !.sockets = sockets]
      BY <1>1 DEF Typed, ClientType
    <2>4. \/ Connecting(i) = {} /\ client' = c
          \/ \E l \in Connecting(i) : client' = connected(c, l)
      BY <1>7 DEF Opens
    <2> HIDE DEF sockets, c
    <2>5. /\ Typed(c) /\ c.sockets = sockets /\ c.loops = client.loops
          /\ c.closed = client.closed /\ c.reconnecting = client.reconnecting
      BY <1>1, <2>2, <2>3 DEF Typed, ClientType
    <2>6. CASE client.closed
      BY <2>4, <2>5, <2>6, ClosedStays DEF Connecting
    <2>7. CASE ~client.closed
      <3>1. i \in Live(client)
        BY <2>1 DEF Live
      <3>2. PICK l \in Loops : /\ Connectors(client) = {l} /\ client.loops[l] = Loop("connecting", ws(client))
                               /\ Live(client) = {ws(client)}
        BY <1>3, <2>1, <2>7, <3>1 DEF Connects
      <3>3. i = ws(client)
        BY <3>1, <3>2
      <3>4. l \in Connecting(i) /\ \A k \in Connecting(i) : k = l
        <4>1. \A k \in Loops : client.loops[k] = Loop("connecting", i) => k \in Connectors(client)
          BY DEF Connectors, Loop
        <4> QED
          BY <3>2, <3>3, <4>1 DEF Connecting
      <3>5. client' = connected(c, l)
        BY <2>4, <3>4
      <3>6. Connectors(c) = {l} /\ ws(c) = i
        BY <2>2, <2>5, <3>2, <3>3 DEF Connectors, ws
      <3>7. Live(c) = {i}
        <4>1. \A k \in 1..Len(client.sockets) : k # i => client.sockets[k] = "closed"
          BY <3>2, <3>3 DEF Live
        <4> QED
          BY <2>2, <2>5, <4>1 DEF Live
      <3>8. c.sockets[i] = "open"
        BY <2>2, <2>5
      <3> QED
        BY <2>5, <3>5, <3>6, <3>7, <3>8, ConnectedConnects
    <2> QED
      BY <2>6, <2>7
  <1>8. ASSUME NEW r \in Req, NEW i \in Sockets, Answer(r, i) \/ Refuse(r, i)
        PROVE  SameConnection(client, client')
    <2> DEFINE c == [client EXCEPT !.sentOn[r] = @ \ {i}]
    <2>1. Typed(c) /\ SameConnection(client, c)
      BY <1>1 DEF Typed, ClientType, SameConnection
    <2>2. \E st \in {"none", "failed"} :
              client' \in {c} \cup afterAnswer(SetStatus(c, {r}, st), r) \cup afterRefusal(SetStatus(c, {r}, st), r)
      BY <1>8 DEF Answer, Refuse
    <2> HIDE DEF c
    <2>3. ASSUME NEW st \in {"none", "failed"}
          PROVE  Typed(SetStatus(c, {r}, st)) /\ SameConnection(c, SetStatus(c, {r}, st))
      BY <2>1, SetStatusKeeps DEF SameConnection
    <2> QED
      BY <2>1, <2>2, <2>3, AnswerConnection DEF SameConnection
  <1>9. ASSUME NEW r \in Req, Timeout(r)
        PROVE  SameConnection(client, client')
    BY <1>1, <1>9, SetStatusKeeps DEF Timeout, SameConnection
  <1>10. ASSUME NEW l \in Loops, BackoffOver(l)
         PROVE  client'.closed \/ Connects(client')
    <2> DEFINE n == Len(client.sockets) + 1
               sockets == Append(client.sockets, "connecting")
               loops == [client.loops EXCEPT ![l] = Loop("connecting", n)]
    <2>1. client.sockets \in Seq({"connecting", "open", "closed"}) /\ n \in Nat
      BY <1>1 DEF Typed, ClientType
    <2>2. /\ Len(sockets) = n /\ sockets[n] = "connecting"
          /\ \A k \in 1..Len(client.sockets) : sockets[k] = client.sockets[k]
      BY <2>1
    <2>3. loops[l] = Loop("connecting", n) /\ \A k \in Loops \ {l} : loops[k] = client.loops[k]
      BY <1>1 DEF Typed, ClientType
    <2>4. client' = [client EXCEPT !.sockets = sockets, !.loops = loops]
      BY <1>1, <1>10 DEF BackoffOver, Typed, ClientType
    <2> HIDE DEF sockets, loops
    <2>5. /\ client'.sockets = sockets /\ client'.loops = loops
          /\ client'.closed = client.closed /\ client'.reconnecting = client.reconnecting
      BY <1>1, <2>4 DEF Typed, ClientType
    <2>6. CASE client.closed
      BY <2>5, <2>6
    <2>7. CASE ~client.closed
      <3>1. l \in Connectors(client) /\ client.loops[l].phase = "backoff"
        BY <1>10 DEF BackoffOver, Connectors
      <3>2. client.reconnecting /\ Connectors(client) = {l} /\ Live(client) = {}
        BY <1>3, <2>7, <3>1 DEF Connects, Loop
      <3>3. Connectors(client') = {l}
        BY <2>3, <2>5, <3>2 DEF Connectors, Loop
      <3>4. Live(client') = {n} /\ ws(client') = n
        BY <2>1, <2>2, <2>5, <3>2 DEF Live, ws
      <3> QED
        BY <2>2, <2>3, <2>5, <3>2, <3>3, <3>4 DEF Connects
    <2> QED
      BY <2>6, <2>7
  <1>11. ASSUME NEW l \in Loops, ConnectTimeout(l) \/ ConnectRejected(l) \/ ResubscribeFails(l)
         PROVE  client'.closed
    <2>1. ConnectRejected(l)
      BY <1>2, <1>11 DEF ConnectTimeout, ResubscribeFails
    <2>2. client.closed
      <3>1. SUFFICES ASSUME ~client.closed PROVE FALSE
        OBVIOUS
      <3>2. l \in Connectors(client) /\ client.loops[l].phase = "connecting"
        BY <2>1 DEF ConnectRejected, Connectors
      <3>3. client.loops[l] = Loop("connecting", ws(client)) /\ client.sockets[ws(client)] = "connecting"
        BY <1>3, <3>1, <3>2 DEF Connects
      <3> QED
        BY <2>1, <3>3 DEF ConnectRejected, Loop
    <2> QED
      BY <1>1, <2>1, <2>2, ClosedStays DEF ConnectRejected
  <1>12. ASSUME NEW l \in Loops, Resubscribed(l)
         PROVE  client'.closed \/ Connects(client')
    <2> DEFINE loops == [client.loops EXCEPT ![l] = Idle]
    <2>1. loops[l].phase = "idle" /\ \A k \in Loops \ {l} : loops[k] = client.loops[k]
      BY <1>1 DEF Idle, Loop, Typed, ClientType
    <2>2. client' = [client EXCEPT !.loops = loops] /\ client.loops[l].phase = "subscribing"
      BY <1>12 DEF Resubscribed
    <2> HIDE DEF loops
    <2>3. /\ client'.sockets = client.sockets /\ client'.loops = loops
          /\ client'.closed = client.closed /\ client'.reconnecting = client.reconnecting
      BY <1>1, <2>2 DEF Typed, ClientType
    <2>4. Connectors(client') = Connectors(client) /\ l \notin Connectors(client)
      BY <2>1, <2>2, <2>3 DEF Connectors
    <2>5. Live(client') = Live(client) /\ ws(client') = ws(client)
      BY <2>3 DEF Live, ws
    <2>6. \A k \in Loops : Connectors(client) = {k} => client'.loops[k] = client.loops[k]
      BY <2>1, <2>3, <2>4
    <2> QED
      BY <1>3, <2>3, <2>4, <2>5, <2>6 DEF Connects
  <1>13. ASSUME NEW ch \in Channels, getChannel(ch) \/ createChannel(ch)
         PROVE  SameConnection(client, client')
    BY <1>1, <1>13, RequestConnection DEF getChannel, createChannel
  <1>14. ASSUME closeClient
         PROVE  client'.closed
    BY <1>1, <1>14, CloseKeeps DEF closeClient
  <1>15. CASE UNCHANGED vars
    BY <1>3, <1>15 DEF vars
  <1> QED
    BY <1>4, <1>5, <1>6, <1>7, <1>8, <1>9, <1>10, <1>11, <1>12, <1>13, <1>14, <1>15 DEF Next

LEMMA InitConnection == Init => Connection
  <1> SUFFICES ASSUME Init PROVE Connection
    OBVIOUS
  <1>1. Len(<<"open">>) = 1 /\ <<"open">>[1] = "open"
    OBVIOUS
  <1>2. Live(client) = {1} /\ ws(client) = 1 /\ client.sockets[1] = "open" /\ ~client.reconnecting
    BY <1>1 DEF Init, Live, ws
  <1>3. Connectors(client) = {}
    BY DEF Init, Connectors, Idle, Loop
  <1> QED
    BY <1>2, <1>3 DEF Connection, Connects

(***************************************************************************)
(* While reconnecting is set exactly one call of _reconnect makes the next *)
(* connection, and no socket lives beside _ws, until the client is closed  *)
(* or a call gives a socket up (_reconnect, onDisconnected, connect).      *)
(***************************************************************************)
THEOREM ConnectionIsOne == Spec => []OneConnection
  <1>1. Connection => OneConnection
    <2> SUFFICES ASSUME Connection, ~client.closed, ~abandoned
                 PROVE  /\ Cardinality(Connectors(client)) = (IF client.reconnecting THEN 1 ELSE 0)
                        /\ Live(client) \subseteq {ws(client)}
      BY DEF OneConnection, Connectors
    <2>1. Cardinality({}) = 0 /\ \A l \in Loops : Cardinality({l}) = 1
      BY FS_EmptySet, FS_Singleton
    <2> QED
      BY <2>1 DEF Connection, Connects
  <1> QED
    BY <1>1, InitConnection, NextConnection, TypeCorrect, PTL DEF Spec
=============================================================================
