SPECIFICATION MCSpec
CONSTANTS
    MaxRestarts = 2
    MaxBreaks = 2
    MaxOffers = 3
    MaxLost = 1
    SfuRestarts = 3
    SfuBreaks = 4
INVARIANTS
    CandidatesReachDescription
    StatesAgree
    SfuAgreesAtRest
PROPERTIES
    ReconnectionEnds
CHECK_DEADLOCK FALSE
