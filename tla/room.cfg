SPECIFICATION Spec
CONSTANTS
    s1 = s1
    s2 = s2
    Rooms = {1, 2}
    Mine = {"mine"}
    Theirs = {"theirs"}
    Subscriptions = {s1, s2}
    Source <- MCSource
    Place <- MCPlace
    MaxCalls = 4
    MaxLag = 2
    MaxTroubles = 1
SYMMETRY Interchangeable
INVARIANTS
    RoomShowsChannel
    CallsTellTruth
    NobodyWaitsInVain
CHECK_DEADLOCK FALSE
