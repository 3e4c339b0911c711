------------------------- MODULE MCPersonRendezvous -------------------------
EXTENDS PersonRendezvous

\* Each of two persons has a publication, and one of them a second one.
CONSTANTS alice, bob, pa1, pa2, pb

MCPubsOf(x) == IF x = alice THEN {pa1, pa2} ELSE {pb}
=============================================================================
