--------------------------- MODULE MCRtcRpcClient ---------------------------
(* Small instances of RtcRpcClient: one or two channels, and as many loops *)
(* as breaks can start.                                                    *)
EXTENDS RtcRpcClient
=============================================================================
