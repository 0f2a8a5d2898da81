SPECIFICATION Spec
CONSTANTS
    NoP = 3
    MesNum = 1
    MaxSession = 1
    MaxHostRuns = 1
    MaxSwallowed = 0
    Faults = {}
INVARIANT NothingFromEarlierSession
\* The programs end: the launcher after its run, the host at its bound of starts.
CHECK_DEADLOCK FALSE
