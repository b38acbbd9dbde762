CONSTANTS
    Numbers = {1, 2}
    Old = {1}
    Columns = {"first", "last"}
    DefaultColumn = "first"
    LastColumn = "last"
    AutoAssign = {"last"}
    AutoClose = {}
    BrowserLists <- AllLists
    Forces = {TRUE}
    MaxClosings = 0
SPECIFICATION Spec
INVARIANTS
    OrderHasNoDuplicates
    ColumnShowsItsCards
PROPERTY ForcedMoveComesFirst
