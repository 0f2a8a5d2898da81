SPECIFICATION FairSpec
CONSTANTS
    MaxConn = 2
    MaxText = 3
    PartsOfText = 1
    DateSize = 2
    LogMayFail = FALSE
    MayBeSilent = TRUE
PROPERTY TryingAgainConnects
\* The host may have ended for the last time, and nothing is left to read.
CHECK_DEADLOCK FALSE
