SPECIFICATION ForwardingSpec
CONSTANTS
    p1 = p1
    p2 = p2
    s1 = s1
    s2 = s2
    Pubs = {p1, p2}
    Subs = {s1, s2}
    MaxStarts = 2
    MaxCalls = 2
    MaxTroubles = 2
INVARIANTS
    NothingLeaks
    StartedIsFed
    TransportsAreFound
PROPERTIES
    StartSettles
CHECK_DEADLOCK FALSE
