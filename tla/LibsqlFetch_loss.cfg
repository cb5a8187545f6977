CONSTANTS
    NumRows = 2
    FetchAttempts = 4
    MaxLosses = 3
SPECIFICATION FetchSpec
CHECK_DEADLOCK FALSE
INVARIANT OneLossIsRecovered
