SPECIFICATION Spec
CONSTANTS
    Models <- MCModels
    Suffixed <- MCSuffixed
    Shipped <- OnePaid
    Catalogs <- MCCatalogs
    NoModel = NoModel
    Key <- WithKey
    MaxPrompts = 0
    MaxToggles = 1
    MaxChanges = 0
INVARIANTS ListFollowsToggle
CHECK_DEADLOCK FALSE
