SPECIFICATION FairSpec
CONSTANTS
    o1 = o1
    o2 = o2
    Openers <- BothOpeners
    Tables <- MCTables
    Columns <- MCColumns
    NotNull <- MCNotNull
    Defaulted <- MCDefaulted
    Indexed <- MCIndexed
    Schemas <- AllSchemas
    MaxInterrupts = 1
    MaxRows = 2
INVARIANTS TypeOK OpenedHasSchema RowsKeepType
PROPERTY EventuallyOpen
