---------------------------- MODULE MCTransports ----------------------------
(***************************************************************************)
(* The transports of the two kinds of connections, which never meet: a     *)
(* behaviour is one of P2PTransport or one of SfuTransport, while the      *)
(* other has not begun.                                                    *)
(***************************************************************************)
EXTENDS P2PTransport

CONSTANTS SfuRestarts, SfuBreaks   \* MaxRestarts and MaxBreaks of SfuTransport

ASSUME SfuAssumption == SfuRestarts \in Nat /\ SfuBreaks \in Nat

VARIABLES ms, state, count, watching, loops, bot, sfuBreaks

sfuVars == <<ms, state, count, watching, loops, bot, sfuBreaks>>

Sfu == INSTANCE SfuTransport WITH MaxRestarts <- SfuRestarts, MaxBreaks <- SfuBreaks, breaks <- sfuBreaks

\* The P2P connection has not begun: this is Init.
Fresh == sender.local = 0 /\ endpoint = "joined" /\ \A side \in Peers : peers[side].pc = "new"

\* The bot's option is nothing to a P2P connection, which is there once for both.
MCNext ==
    \/ Sfu!Init /\ ~bot.disableRestartIce /\ Next /\ UNCHANGED sfuVars
    \/ Fresh /\ Sfu!Next /\ UNCHANGED vars

MCInit == Init /\ Sfu!Init

MCSpec == MCInit /\ [][MCNext]_<<vars, sfuVars>> /\ Fairness /\ Sfu!Fairness

\* What SfuTransport promises: however its restarts overlap, the state shown is that of
\* the transport when they are over.
SfuAgreesAtRest == Sfu!SfuAgreesAtRest

\* A reconnection ends, with a connection, a new loss or the connection given up (restartIce
\* of the Sender and of SfuTransport).
ReconnectionEnds ==
    (Reconnecting \/ Sfu!Reconnecting) ~> (~Reconnecting /\ ~Sfu!Reconnecting) \/ CutShort
=============================================================================
