SPECIFICATION Spec
CONSTANTS
    Batch = 2
    MaxAge = 2
    MaxPatches = 4
    Faults = {"answer", "store", "crash"}
INVARIANTS
    TypeOK
    NothingForgotten
PROPERTIES
    PatchesSaved
CHECK_DEADLOCK FALSE
