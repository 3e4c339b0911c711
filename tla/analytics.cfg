SPECIFICATION Spec
CONSTANTS
    MaxSockets = 2
    MaxWs = 3
    MaxReports = 2
    MaxTokens = 2
    MaxLogs = 2
    MaxAttempts = 1
    MaxTries = 2
    MaxCalls = 2
    MaxTroubles = 2
INVARIANTS
    StateIsTrue
    NoReportForgotten
    ExpiryIsWatched
CHECK_DEADLOCK FALSE
