\* Starts, stops and restarts of the server.
SPECIFICATION FairSpec
CONSTANTS
    t1 = t1  t2 = t2
    Task <- TwoTasks
    Capacity = 2
    LivesMax = 2
    Faults = {"conf", "socket", "grow", "erase", "throw", "slow"}
INVARIANTS
    
    NothingGoesEarly
    ExitIsClean
    PortExplained
PROPERTIES
    StopEnds
CHECK_DEADLOCK FALSE
