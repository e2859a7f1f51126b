SPECIFICATION Spec
CONSTANTS
    c1 = c1
    s1 = s1
    s2 = s2
    k1 = k1
    k2 = k2
    w1 = w1
    w2 = w2
    Client <- MCClient
    Sock <- MCSock
    Key <- MCKey
    Worker <- MCWorker
    Owner <- MCOwner
    NoKey = NoKey
    Listener = Listener
    SendMax <- ThreeAndTwo
    Stalling = TRUE
    FdLimits = {1, 2}
    Faults = {"race"}
SYMMETRY Alike
INVARIANTS
    KeysApart
    AnswerReadable
    DropExplained
    AnswerReachesAsker
CHECK_DEADLOCK FALSE
