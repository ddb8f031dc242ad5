SPECIFICATION Spec
CONSTANTS
    Corpus <- Repeated
    Stored <- Few
    Wanted <- AllPolicies
    TestPaths <- TestFiles
    Target <- TargetOf
    Fixture <- FixtureOf
    Source <- SourceOf
    NoReply = NoReply
INVARIANTS BaselineDeltaZero
