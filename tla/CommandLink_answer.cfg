SPECIFICATION Spec
CONSTANTS
    MaxLen = 2
    Callback = {1, 2}
    Cleared = cleared
    Registered = {1, 2}
    Caller = {k1}
    LastSlot = 3
    LastEntry = 2
    Retry = 2
    MaxCmd = 2
INVARIANT AnswerIsOwn
\* The bound on the commands may be reached.
CHECK_DEADLOCK FALSE
