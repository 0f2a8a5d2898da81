SPECIFICATION FairSpec
CONSTANTS
    H = 4
    StopMax = 2
    Headings <- MCHeadings
    AvoidAngles <- MCAvoidAngles
    Places <- MCPlaces
    LogMayFail = TRUE
INVARIANT TypeOK
PROPERTIES HoverIsWhole OutsideMovesHomeward UTurnEnds
\* A service may refuse, and the program then ends.
CHECK_DEADLOCK FALSE
