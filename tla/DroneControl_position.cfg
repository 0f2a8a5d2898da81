SPECIFICATION Spec
CONSTANTS
    H = 4
    StopMax = 2
    Headings <- MCHeadings
    AvoidAngles <- MCAvoidAngles
    Places <- MCPlaces
    LogMayFail = FALSE
INVARIANT PositionAlwaysUsed
\* A service may refuse, and the program then ends.
CHECK_DEADLOCK FALSE
