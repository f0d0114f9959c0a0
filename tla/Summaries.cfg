CONSTANTS
    Keys = {a, b}
    NoText = NoText
    Calls = {c1, c2, c3}
    MaxItems = 2
    Limit = 4
    MaxText = 9
SPECIFICATION MCSpec
INVARIANTS
    TypeOK
    ListedItemsExist
    OrderlyCallsAreExact
    ChunksKeepText
PROPERTY CompletedIsKept
CHECK_DEADLOCK FALSE
