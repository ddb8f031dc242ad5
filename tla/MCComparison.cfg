SPECIFICATION Spec
CONSTANTS
    NFiles = 2
    NModels = 2
    Schedules <- TwoSuites
    SuiteOf <- SuiteOfTask
    MaxRuns = 2
CHECK_DEADLOCK FALSE
INVARIANTS TypeOK EveryStoredRowCountedOnce IncompleteNeverOnTop PublishedNumbersAgree
