SPECIFICATION Spec
CONSTANTS
    Corpus <- TwoModels
    Stored <- FewOrAny
    Wanted <- AllPolicies
    TestPaths <- TestFiles
    Target <- TargetOf
    Fixture <- FixtureOf
    Source <- SourceOf
    NoReply = NoReply
INVARIANTS FlipsComeFromChanges StrictIsShipped DeltaIsDifference
