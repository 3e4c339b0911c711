SPECIFICATION Spec
CONSTANTS
    m1 = m1
    big = big
    check = check
    Messages = {m1, big}
    Large = {big}
    Check = check
    MaxReconnects = 2
    MaxBreaks = 3
    MaxChecks = 1
INVARIANTS
    NeverStranded
PROPERTIES
    TransfersMessages
    Recovers
CHECK_DEADLOCK FALSE
