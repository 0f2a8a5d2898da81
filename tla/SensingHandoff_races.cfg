SPECIFICATION FairSpec
CONSTANTS
    NoP = 4
    MesNum = 1
    MaxSession = 2
    MaxHostRuns = 2
    MaxSwallowed = 0
    Faults = {"abort", "interrupt"}
INVARIANTS TypeOK FinalPingNotLost AtMostThrice
PROPERTY HostCatchesLastPing
\* The programs end: the launcher after its run, the host at its bound of starts.
CHECK_DEADLOCK FALSE
