SPECIFICATION Spec
CONSTANTS
    Conns = {c1, c2, c3}
    NoConn = NoConn
    Hosts = {"endpoint", "callback"}
    MaxPush = 2
SYMMETRY ConnSymmetry
INVARIANTS TypeOK TasksHaveConnections PullsAreAnswered
PROPERTIES FramesGoToTheCaller OthersKeepTheirCalls ImplementsServices
