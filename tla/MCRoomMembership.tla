--------------------------- MODULE MCRoomMembership ---------------------------
(* Two rooms; a publication of others and one of the member in the first,  *)
(* where the member may be from the start or move to, and two             *)
(* subscriptions.                                                          *)
EXTENDS RoomMembership, TLC
MCSource == [s \in Subscriptions |-> "theirs"]
Interchangeable == Permutations(Subscriptions)
MCPlace == [p \in {"mine", "theirs"} |-> 1]
===============================================================================
