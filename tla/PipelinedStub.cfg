SPECIFICATION Spec
CONSTANTS
    Main = main
    Targets = {main, other}
    NoHook = NoHook
    ClientRefs = {}
    ClientPromises = {}
    MaxPush = 2
    MaxNeg = 1
    MaxCalls = 0
    Drains = TRUE
    MaxRc = 1
    MaxRefs = 0
    Subjects <- AnySubject
    Pipes <- OnePipe
    Returned <- Returns
INVARIANT PipelinedCallsReachTheStub
