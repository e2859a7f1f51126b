SPECIFICATION FairSpec
CONSTANTS
    c1 = c1
    s1 = s1
    s2 = s2
    k1 = k1
    k2 = k2
    w1 = w1
    w2 = w2
    Client <- MCClient
    Sock <- MCSock
    Key <- OneKey
    Worker <- OneWorker
    Owner <- MCOwner
    NoKey = NoKey
    Listener = Listener
    SendMax <- TwoAndOne
    Stalling = FALSE
    FdLimits = {2}
    Faults = {"reset", "odd"}
PROPERTIES
    ReportReads
    ReportAccepts
    LoopReturns
CHECK_DEADLOCK FALSE
