-------------------------- MODULE MCSfuForwarding --------------------------
EXTENDS SfuForwarding

\* Two publications to forward and two forwarded publications to receive.
CONSTANTS p1, p2, s1, s2
=============================================================================
