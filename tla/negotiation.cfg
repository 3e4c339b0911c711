SPECIFICATION Spec
CONSTANTS
    MediaPubs = {a, b}
    DataPubs = {d}
    MaxStarts = 3
    MaxRestarts = 1
    MaxLost = 1
    a = a
    b = b
    d = d
SYMMETRY MediaSymmetry
INVARIANTS
    AgreementAtRest
    TracksAreKnown
    CrossedOnlyByRestart
CHECK_DEADLOCK FALSE
