SPECIFICATION FairSpec
CONSTANTS
    Callers = {c1, c2}
    MaxCalls = 2
    NoThread = NoThread
INVARIANTS TypeOK OnlyFailuresAreLeft SleepersAreNotified ReturnedMatchPushes LoopIsBlockedBy
PROPERTY ResolvedCallsEnd
CHECK_DEADLOCK FALSE
