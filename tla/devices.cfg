SPECIFICATION Spec
CONSTANTS
    t1 = t1
    t2 = t2
    t3 = t3
    Thread <- MCThread
    FirstId = 3
    LastId = 6
    Encode <- MCEncode
    Faults = {"db"}
SYMMETRY Symmetry
INVARIANTS
    CodesDistinct
    RefusedOnlyInRace
