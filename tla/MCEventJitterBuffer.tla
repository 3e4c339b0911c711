----------------------- MODULE MCEventJitterBuffer -----------------------
(* Small instances of EventJitterBuffer.  The versions run across 9 and    *)
(* 10, where the text order of the buffer's keys differs from their        *)
(* numeric order.                                                          *)
EXTENDS EventJitterBuffer
=============================================================================
