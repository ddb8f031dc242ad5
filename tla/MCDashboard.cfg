SPECIFICATION FairSpec
CONSTANTS
    Models <- MCModels
    Suffixed <- MCSuffixed
    Shipped <- AllFree
    Catalogs <- MCCatalogs
    NoModel = NoModel
    Key <- EitherKey
    MaxPrompts = 2
    MaxToggles = 1
    MaxChanges = 1
INVARIANTS TypeOK AnswersInTheirBubble SendComesBack FreeModeNeverPays
PROPERTIES EveryPromptAnswered
CHECK_DEADLOCK FALSE
