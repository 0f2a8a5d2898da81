SPECIFICATION FairSpec
CONSTANTS
    MaxLen = 3
    Callback = {1, 2, 3}
    Cleared = cleared
    Registered = {1, 2, 3}
    Caller = {k1}
    LastSlot = 3
    LastEntry = 2
    Retry = 2
    MaxCmd = 3
INVARIANTS CallbacksInOrder NoNullCallback TypeOK SessionsOwnMemory AnswersMatch BoundedRetries LateResendOnce AnswerIsNewest
PROPERTIES CallsReturnOrAskAgain 
\* The bound on the commands may be reached.
CHECK_DEADLOCK FALSE
