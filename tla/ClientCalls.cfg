SPECIFICATION Spec
CONSTANTS
    Main = main
    Targets = {main}
    NoHook = NoHook
    ClientRefs = {r1, p1}
    ClientPromises = {p1}
    MaxPush = 1
    MaxNeg = 3
    MaxCalls = 2
    Drains = TRUE
    MaxRc = 1
    MaxRefs = 1
    Subjects <- AnySubject
    Pipes <- OnePipe
    Returned <- Returns
INVARIANTS ReferenceAccounts CallsStayLinked
PROPERTIES SettledOnce LinksEndAnswered
