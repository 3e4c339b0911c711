------------------------- MODULE MCP2PNegotiation -------------------------
(* Small instances of P2PNegotiation: two media publications that are      *)
(* interchangeable, and one data publication.                              *)
EXTENDS P2PNegotiation, TLC

MediaSymmetry == Permutations(MediaPubs)
=============================================================================
