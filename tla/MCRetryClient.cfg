SPECIFICATION Spec
CONSTANTS
    MaxRetries = 3
    Multiplier = 3
    MinWait = 4
    MaxWait = 5
    NoHeader = NoHeader
    RetryAfters <- MCRetryAfters
    MaxCalls = 2
    MaxDeltas = 2
INVARIANTS TypeOK RetryLogExact DuplicatesAreLogged SleepBounded
           StreamsWhole ConnectionsAccounted
PROPERTIES ImplementsChat
