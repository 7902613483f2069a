SPECIFICATION Spec
CONSTANTS
    Callers = {c1, c2}
    MaxCalls = 2
    NoThread = NoThread
INVARIANT OwnResult
CHECK_DEADLOCK FALSE
