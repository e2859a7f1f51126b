SPECIFICATION Spec
CONSTANTS
    t1 = t1
    t2 = t2
    Thread <- TwoThreads
    Name <- MCName
    Fold <- MCFold
    Short <- MCShort
    Password = {"p", "q"}
    Device = {"d"}
    Request <- Mixed
    Budget = 5
    Faults = {"db", "memory", "disk", "types"}
SYMMETRY Symmetry
INVARIANTS
    CheckStillGood
    CrashExplained
PROPERTIES
    CommentKept
