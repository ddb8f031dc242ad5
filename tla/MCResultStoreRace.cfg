SPECIFICATION Spec
CONSTANTS
    o1 = o1
    o2 = o2
    Openers <- BothOpeners
    Tables <- MCTables
    Columns <- MCColumns
    NotNull <- MCNotNull
    Defaulted <- MCDefaulted
    Indexed <- MCIndexed
    Schemas <- OldSchema
    MaxInterrupts = 0
    MaxRows = 2
INVARIANT OpenNeverFails

