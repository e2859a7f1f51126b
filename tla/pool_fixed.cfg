\* A pool whose size never changes: what it promises about every task, and
\* about its end.
SPECIFICATION FairSpec
CONSTANTS
    t1 = t1  t2 = t2  t3 = t3
    w1 = w1  w2 = w2  w3 = w3
    NoTask = NoTask
    Kind = "NORMAL"
    Priority <- MCPriority
    Threads <- TwoThreads
    Task <- ThreeTasks
    Throwing <- NoneThrows
    ThreadMin = 2
    ThreadMax = 2
    QueueMax = 3
    RetireMax = 2
INVARIANTS
    FixedPoolSurvives
PROPERTIES
    EveryTaskRuns
    ShutdownCompletes
