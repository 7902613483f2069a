SPECIFICATION Spec
CONSTANTS
    Main = main
    Targets = {main}
    NoHook = NoHook
    ClientRefs = {p1}
    ClientPromises = {p1}
    MaxPush = 1
    MaxNeg = 1
    MaxCalls = 0
    Drains = TRUE
    MaxRc = 1
    MaxRefs = 1
    Subjects <- AnySubject
    Pipes <- OnePipe
    Returned <- Returns
INVARIANT NeverOverReleased
