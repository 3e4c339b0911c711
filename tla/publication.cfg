SPECIFICATION PublicationSpec
CONSTANTS
    MaxCalls = 3
    MaxStreams = 2
    MaxTroubles = 1
INVARIANTS
    StatesAgree
    StreamFollowsState
    NoCallForgotten
CHECK_DEADLOCK FALSE
