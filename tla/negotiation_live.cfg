SPECIFICATION FairSpec
CONSTANTS
    MediaPubs = {a, b}
    DataPubs = {}
    MaxStarts = 3
    MaxRestarts = 1
    MaxLost = 0
    a = a
    b = b
PROPERTIES
    WaitingIsProduced
CHECK_DEADLOCK FALSE
