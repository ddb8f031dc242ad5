SPECIFICATION Spec
CONSTANTS
    p1 = p1
    p2 = p2
    p3 = p3
    Invocations <- Stored
    NoStore <- None
    NTasks = 2
    Repeats = 1
    Sandboxed <- SecondTask
    GraderVerdicts <- OnlyPass
    MaxCrashes = 1
    MaxInterrupts = 2
INVARIANTS TypeOK RowsMatchResults NewestFirst AtMostOneLost
SYMMETRY InvocationSymmetry
