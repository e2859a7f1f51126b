SPECIFICATION Spec
CONSTANTS
    w1 = w1
    w2 = w2
    Worker <- MCWorker
    ChunkSize = 2
    MaxBlocks = 2
    MaxFile = 4
    MaxAsked = 2
    Wrap = 4
    Patient = TRUE
    Faults = {"rewrite", "leave", "open", "short"}
INVARIANTS
    Reassembles
    ShortAnswersHarmless
CHECK_DEADLOCK FALSE
