SPECIFICATION FairSpec
CONSTANTS
    WallCap = 5
    ConfigCap = 2
    h1 = h1
    h2 = h2
    Helpers <- TwoHelpers
    MaxSignals = 3
INVARIANTS TypeOK PassingTestsNeverCountWrong
PROPERTIES DirectoriesRemoved GradingEnds
