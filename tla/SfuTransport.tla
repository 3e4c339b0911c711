---------------------------- MODULE SfuTransport ----------------------------
(***************************************************************************)
(* SfuTransport of sfu-bot: one mediasoup transport, the connection state  *)
(* it shows to the streams it carries, and restartIce, which several       *)
(* callbacks may run beside each other on the same BackOff.                *)
(*                                                                         *)
(* A restart is a chain of awaits: the backoff, new ICE parameters, the    *)
(* restart at the SFU, the wait for the connection.  restartIce calls      *)
(* itself at its end, and, when the SFU refuses, in its middle: the outer  *)
(* call then goes on to its own wait when the inner one has returned.      *)
(***************************************************************************)
EXTENDS Naturals, FiniteSets

CONSTANTS
    MaxRestarts,  \* BackOff.times (8 in the code)
    MaxBreaks     \* bound: disconnected and failed events of the transport

Loops == 1..MaxBreaks

VARIABLES
    ms,        \* msTransport.connectionState
    state,     \* _connectionState
    count,     \* _backoffIceRestart.count
    watching,  \* handlers of a loss that still give the connection time to come back
    loops,     \* the calls of restartIce under way
    bot,       \* _bot: its state, and its option disableRestartIce
    breaks     \* how many losses there were

vars == <<ms, state, count, watching, loops, bot, breaks>>

Loop == [id : Loops, phase : {"backoff", "params", "restart", "wait"}, outer : 0..(MaxRestarts * (MaxBreaks + 1))]

TypeOK ==
    /\ ms \in {"new", "connecting", "connected", "disconnected", "failed", "closed"}
    /\ state \in {"new", "connecting", "connected", "reconnecting", "disconnected"}
    /\ count \in 0..MaxRestarts
    /\ watching \in 0..MaxBreaks
    /\ loops \subseteq Loop
    /\ \A l, k \in loops : l.id = k.id => l = k
    /\ bot \in [state : {"joined", "left"}, disableRestartIce : BOOLEAN]
    /\ breaks \in 0..MaxBreaks

----------------------------------------------------------------------------
(* What a call of restartIce makes of t, the state of the transport without it. *)

Without(l) == [state |-> state, count |-> count, loops |-> loops \ {l}]

goesOn(t, l, phase) == [t EXCEPT !.loops = @ \cup {[l EXCEPT !.phase = phase]}]

\* The call returns; an outer call of _mediasoupRestartIce goes on to its wait.
returned(t, l) ==
    IF l.outer = 0 THEN t ELSE goesOn(t, [l EXCEPT !.outer = @ - 1], "wait")

\* Faulty variant: giving up is not shown.
restartIceQuietly(t, l) ==
    IF t.count >= MaxRestarts THEN returned(t, l)
    ELSE goesOn([t EXCEPT !.state = "reconnecting", !.count = @ + 1], l, "backoff")

\* restartIce up to the backoff; BackOff.wait counts first.
restartIce(t, l) ==
    IF t.count >= MaxRestarts THEN returned([t EXCEPT !.state = "disconnected"], l)
    ELSE goesOn([t EXCEPT !.state = "reconnecting", !.count = @ + 1], l, "backoff")

\* checkNeedEnd, or on to phase.  When the transport is connected the waits of the
\* outer calls are over as well.
checkNeedEnd(t, l, phase) ==
    CASE bot.state = "left" /\ ms = "connected" -> [t EXCEPT !.state = "disconnected"]
      [] bot.state = "left" /\ ms # "connected" -> returned([t EXCEPT !.state = "disconnected"], l)
      [] bot.state # "left" /\ ms = "connected" -> [t EXCEPT !.state = "connected", !.count = 0]
      [] OTHER -> goesOn(t, l, phase)

Becomes(t) ==
    /\ state' = t.state
    /\ count' = t.count
    /\ loops' = t.loops

----------------------------------------------------------------------------
(* The steps of a restart.                                                 *)

BackoffOver(l) ==
    /\ l.phase = "backoff"
    /\ Becomes(checkNeedEnd(Without(l), l, "params"))

\* IceManager.updateIceParams fails, after its own retries.
ParamsFail(l) ==
    /\ l.phase = "params"
    /\ Becomes(restartIce(Without(l), l))

\* A transport that was closed throws, and every call of the chain with it.
ParamsUpdated(l) ==
    /\ l.phase = "params"
    /\ Becomes(IF ms = "closed" THEN Without(l) ELSE checkNeedEnd(Without(l), l, "restart"))

RestartFails(l) ==
    /\ l.phase = "restart"
    /\ Becomes(restartIce(Without(l), [l EXCEPT !.outer = @ + 1]))

Restarted(l) ==
    /\ l.phase = "restart"
    /\ Becomes(CASE ms = "closed" -> Without(l)
                 [] ms = "connected" -> checkNeedEnd(Without(l), l, "wait")
                 [] OTHER -> goesOn(Without(l), l, "wait"))

\* _waitForMsConnectionState rejects after iceDisconnectBufferTimeout.
WaitExpires(l) ==
    /\ l.phase = "wait"
    /\ Becomes(restartIce(Without(l), l))

----------------------------------------------------------------------------
(* The events of the mediasoup transport.                                  *)

\* The transport begins to connect: at first, or because ICE was restarted.
MsConnecting ==
    /\ ms = "new" \/ (ms \in {"disconnected", "failed"} /\ \E l \in loops : l.phase = "wait")
    /\ ms' = "connecting"
    /\ state' = "connecting"
    /\ UNCHANGED <<count, watching, loops, bot, breaks>>

\* Those who wait for it go on: the handlers of a loss end, the restarts that wait too.
MsConnected ==
    /\ ms \in {"connecting", "disconnected"}
    /\ ms' = "connected"
    /\ watching' = 0
    /\ LET ended == {l \in loops : l.phase = "wait"}
       IN  /\ loops' = loops \ ended
           /\ state' = IF ended # {} /\ bot.state = "left" THEN "disconnected" ELSE "connected"
           /\ count' = IF ended # {} /\ bot.state # "left" THEN 0 ELSE count
    /\ UNCHANGED <<bot, breaks>>

\* disconnected or failed: ignored during a restart, else given some time.
MsBreaks ==
    /\ breaks < MaxBreaks
    /\ breaks' = breaks + 1
    /\ \/ ms \in {"connecting", "connected"} /\ ms' \in {"disconnected", "failed"}
       \/ ms = "disconnected" /\ ms' = "failed"
    /\ watching' = IF state = "reconnecting" THEN watching ELSE watching + 1
    /\ UNCHANGED <<state, count, loops, bot>>

\* The time is over and the connection has not come back: ICE is restarted, unless that
\* is under way or the bot was made not to.
LossConfirmed ==
    /\ watching > 0
    /\ watching' = watching - 1
    /\ LET l == [id |-> CHOOSE i \in Loops : i \notin {k.id : k \in loops},
                 phase |-> "backoff", outer |-> 0]
       IN  IF state = "reconnecting" \/ bot.disableRestartIce THEN UNCHANGED <<state, count, loops>>
           ELSE Becomes(restartIce([state |-> state, count |-> count, loops |-> loops], l))
    /\ UNCHANGED <<ms, bot, breaks>>

\* TransportRepository.deleteTransports: the local person is disposed.
close ==
    /\ ms # "closed"
    /\ ms' = "closed"
    /\ state' = "disconnected"
    /\ UNCHANGED <<count, watching, loops, bot, breaks>>

BotLeaves ==
    /\ bot.state = "joined"
    /\ bot' = [bot EXCEPT !.state = "left"]
    /\ UNCHANGED <<ms, state, count, watching, loops, breaks>>

----------------------------------------------------------------------------
Init ==
    /\ ms = "new"
    /\ state = "new"
    /\ count = 0
    /\ watching = 0
    /\ loops = {}
    /\ bot \in [state : {"joined"}, disableRestartIce : BOOLEAN]
    /\ breaks = 0

Advance(i) ==
    /\ \E l \in loops :
          /\ l.id = i
          /\ \/ BackoffOver(l) \/ ParamsFail(l) \/ ParamsUpdated(l)
             \/ RestartFails(l) \/ Restarted(l) \/ WaitExpires(l)
    /\ UNCHANGED <<ms, watching, bot, breaks>>

Next ==
    \/ \E i \in Loops : Advance(i)
    \/ LossConfirmed
    \/ MsConnecting \/ MsConnected \/ MsBreaks
    \/ close
    \/ BotLeaves

\* Requests are answered or fail, and timers fire.
Fairness == WF_vars(LossConfirmed \/ \E i \in Loops : Advance(i))

Spec == Init /\ [][Next]_vars /\ Fairness

----------------------------------------------------------------------------
(* Properties.                                                             *)

Closed == ms = "closed"

\* However the restarts overlap: when none is under way, the state that is shown is the
\* one the transport is in, a loss nobody repairs any more is shown as disconnected, and
\* the next loss has all its attempts.  Only after the attempts were used up a
\* connection that comes back by itself may be shown wrongly, and has none; and a bot
\* that was made not to restart ICE goes on showing what was lost.
SfuAgreesAtRest ==
    /\ TypeOK
    /\ loops = {} /\ watching = 0 /\ bot.state = "joined" /\ ~Closed =>
          /\ ms = "connected" => (state = "connected" /\ count = 0) \/ count = MaxRestarts
          /\ ms \in {"disconnected", "failed"} => state = "disconnected" \/ bot.disableRestartIce

\* It shows that it reconnects.
Reconnecting == state = "reconnecting" /\ ~Closed
=============================================================================
