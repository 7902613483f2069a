SPECIFICATION Spec
CONSTANTS
    Main = main
    Targets = {main}
    NoHook = NoHook
    ClientRefs = {}
    ClientPromises = {}
    MaxPush = 3
    MaxNeg = 1
    MaxCalls = 0
    Drains = FALSE
    MaxRc = 1
    MaxRefs = 0
    Subjects = {0}
    Pipes <- WithFirst
    Returned <- ValueOrPromise
INVARIANTS PullFindsOutcome ReferencesAreReady EarlyRunsAreRetries
