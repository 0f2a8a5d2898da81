SPECIFICATION FairSpec
CONSTANTS
    MaxConn = 2
    MaxText = 2
    PartsOfText = 2
    DateSize = 3
    LogMayFail = TRUE
    MayBeSilent = TRUE
INVARIANTS TypeOK PacedIsExact MixedByClockOnly InOrder
PROPERTY EventuallyAnswered
\* The host may have ended for the last time, and nothing is left to read.
CHECK_DEADLOCK FALSE
