SPECIFICATION FairSpec
CONSTANTS
    Coding = "coding"
    ExtraSuites <- MCExtraSuites
    TaskOrder <- MCTaskOrder
    DirOrder <- MCDirOrder
    NameOrder <- MCNameOrder
    OtherName = "other"
    None = None
    Versions <- MCVersions
    DefinitionEdits <- MCDefinitionEdits
    FileEdits <- MCFileEdits
    Wanted <- MCWanted
    Selections <- MCSelections
    MaxEdits = 1
    MaxDeaths = 1
INVARIANTS TypeOK FinishedBuildIsGood LoadsAllOrNamesTheError SchedulesProper
PROPERTY TornFilesHeal
