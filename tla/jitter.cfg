SPECIFICATION ObserverFairSpec
CONSTANTS
    InitVersion = 7
    MaxVersion = 11
    MaxLoss = 2
INVARIANTS
    ObserverTypeOK
    GapIsWatched
    DetectionSurvives
PROPERTIES
    DeliveryInOrder
    HeldIsDelivered
CHECK_DEADLOCK FALSE
