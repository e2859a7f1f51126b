\* An elastic pool that shrinks.
SPECIFICATION Spec
CONSTANTS
    t1 = t1  t2 = t2  t3 = t3
    w1 = w1  w2 = w2  w3 = w3
    NoTask = NoTask
    Kind = "NORMAL"
    Priority <- MCPriority
    Threads <- ThreeThreads
    Task <- TwoTasks
    Throwing <- NoneThrows
    ThreadMin = 1
    ThreadMax = 2
    QueueMax = 2
    RetireMax = 2
INVARIANTS
    ShrinkingSurvives
CHECK_DEADLOCK FALSE
