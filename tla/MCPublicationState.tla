------------------------- MODULE MCPublicationState -------------------------
(* One publication whose stream may be replaced once, three calls in any   *)
(* order and one thing that goes wrong.                                    *)
EXTENDS PublicationState
=============================================================================
