CONSTANTS
    me = me
    r = r
    p = p
    q = q
    s = s
    Members = {me, r}
    Publications = {p, q}
    Subscriptions = {s}
    LocalMembers = {me}
    Owner <- MCOwner
    Source <- MCSource
    Snapshot <- MCSnapshot
    MaxLag = 1
SPECIFICATION FairSpec
INVARIANTS ReplicaIsState GhostsWereOvertaken NoMissedEvent
PROPERTIES RequestsSettle
CHECK_DEADLOCK FALSE
