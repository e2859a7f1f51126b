\* A pool that grows from one worker to two and shrinks back, is closed at any
\* moment, and has a task that throws.  The tasks have priorities.
SPECIFICATION Spec
CONSTANTS
    t1 = t1  t2 = t2  t3 = t3
    w1 = w1  w2 = w2  w3 = w3
    NoTask = NoTask
    Kind = "PRIORITY"
    Priority <- MCPriority
    Threads <- ThreeThreads
    Task <- ThreeTasks
    Throwing <- OneThrows
    ThreadMin = 1
    ThreadMax = 2
    QueueMax = 2
    RetireMax = 2
SYMMETRY ThreadSymmetry
INVARIANTS
    TypeOK
    TokenBalance
    LostWakeups
    NoEmptyFetch
    ThreadSizeExact
    StrandedAtMostOne
    NoneOutlives
PROPERTIES
    Service
    LowestFirst
\* A worker created but not counted when the pool closes sleeps for ever, and
\* the destructor with it.
CHECK_DEADLOCK FALSE
