SPECIFICATION Spec
CONSTANTS
    t1 = t1
    t2 = t2
    Thread <- OneThread
    Name <- MCName
    Fold <- MCFold
    Short <- MCShort
    Password = {"p", "q"}
    Device = {"d"}
    Request <- Renames
    Budget = 5
    Faults = {}
INVARIANTS
    RollbackRestores
