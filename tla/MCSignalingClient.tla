------------------------- MODULE MCSignalingClient -------------------------
EXTENDS SignalingClient

\* A message that fits, one that does not, and the connectivity check.
CONSTANTS m1, big, check
=============================================================================
