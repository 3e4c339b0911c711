------------------------- MODULE MCAnalyticsClient -------------------------
(* Two Sockets, three WebSockets, two reports, two tokens, two calls and two troubles.  *)
EXTENDS AnalyticsClient
=============================================================================
