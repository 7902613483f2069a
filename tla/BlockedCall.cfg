SPECIFICATION FairSpec
CONSTANTS
    Callers = {c1, c2}
    MaxCalls = 2
    NoThread = NoThread
PROPERTY BlocksUntilResolution
CHECK_DEADLOCK FALSE
