SPECIFICATION FairSpec
CONSTANTS
    Channels = {ch1}
    Loops = {"r1", "r2"}
    MaxRetry = 2
    MaxFaults = 4
    MaxSockets = 3
    ch1 = ch1
INVARIANTS
    TypeOK
    WaitingMeansReconnecting
    OneConnection
PROPERTIES
    SubscriptionSurvives
CHECK_DEADLOCK FALSE
