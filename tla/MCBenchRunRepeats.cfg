SPECIFICATION FairSpecApart
CONSTANTS
    p1 = p1
    p2 = p2
    p3 = p3
    Invocations <- OneAndUnstored
    NoStore <- Unstored
    NTasks = 2
    Repeats = 2
    Sandboxed <- SecondTask
    GraderVerdicts <- PassOrFault
    MaxCrashes = 1
    MaxInterrupts = 2
INVARIANTS DoneIsComplete WorkspacesAccounted
PROPERTIES ImplementsJournal RunEnds
