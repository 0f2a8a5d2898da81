SPECIFICATION FairSpec
CONSTANTS
    H = 4
    Tolerance = 1
    StopMax = 3
    TurnMax = 2
    StopBefore = 1
    Headings <- MCHeadings
    AvoidAngles <- MCAvoidAngles
INVARIANTS TypeOK PausesBeforeFlight
PROPERTIES TurnsEndAligned TurnEndsOnceAligned
\* main returns.
CHECK_DEADLOCK FALSE
