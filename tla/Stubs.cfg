SPECIFICATION FairSpec
CONSTANTS
    Main = main
    Targets = {main, other}
    NoHook = NoHook
    ClientRefs = {}
    ClientPromises = {}
    MaxPush = 2
    MaxNeg = 3
    MaxCalls = 0
    Drains = TRUE
    MaxRc = 2
    MaxRefs = 0
    Subjects <- AnySubject
    Pipes <- OnePipe
    Returned <- ValueOrStub
INVARIANTS TypeOK StubIdentity StubsAreCounted
PROPERTIES RecordedOnce HandlersShrink HandlersEnd ImplementsService
