-------------------------- MODULE MessageTransfer --------------------------
(***************************************************************************)
(* What SignalingSession promises to the P2P connections that use it: a    *)
(* message reaches the target once or never, only after it was sent, and a *)
(* send that ends without an error while both ends are there was a         *)
(* delivery.  A send that failed says nothing: the message may have        *)
(* arrived, or may still arrive.                                           *)
(***************************************************************************)
EXTENDS Naturals, Sequences, Functions

CONSTANT Messages

VARIABLES
    sent,      \* the messages given to send
    delivered, \* the messages the target has seen, in order
    result,    \* what the caller of send was told: none, ok or failed
    parted     \* the session was closed or the target has left

vars == <<sent, delivered, result, parted>>

Init ==
    /\ sent = {}
    /\ delivered = <<>>
    /\ result = [m \in Messages |-> "none"]
    /\ parted = FALSE

Send(m) ==
    /\ m \notin sent
    /\ sent' = sent \union {m}
    /\ UNCHANGED <<delivered, parted>>

Deliver(m) ==
    /\ m \in sent \ Range(delivered)
    /\ delivered' = Append(delivered, m)
    /\ UNCHANGED <<sent, result, parted>>

\* Several callers may be told at once, when the connection is given up.
Settle ==
    /\ \A m \in Messages : result'[m] # result[m] =>
           /\ result[m] = "none"
           /\ m \in sent'
           /\ result'[m] = "ok" => m \in Range(delivered) \/ parted
    /\ UNCHANGED <<delivered, parted>>

Part ==
    /\ parted' = TRUE
    /\ UNCHANGED <<sent, delivered, result>>

Next ==
    \/ \E m \in Messages : Send(m) /\ Settle
    \/ \E m \in Messages : Deliver(m)
    \/ Settle /\ UNCHANGED sent
    \/ Part

Spec == Init /\ [][Next]_vars
=============================================================================
