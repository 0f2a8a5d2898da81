SPECIFICATION Spec
CONSTANTS
    NoP = 3
    MesNum = 2
    MaxSession = 1
    MaxHostRuns = 2
    MaxSwallowed = 2
    Faults = {"acquire", "logOpen", "flgOpen", "hostFlgOpen", "exit", "send", "abort", "interrupt"}
INVARIANT BoundedAge
PROPERTY FeedSpec
\* The programs end: the launcher after its run, the host at its bound of starts.
CHECK_DEADLOCK FALSE
