SPECIFICATION Spec
CONSTANTS
    Bad = "bad"
    RowLists <- MCRowLists
    Bodies <- MCBodies
    Thens <- MCThens
    Programs <- MCPrograms
    MaxWindows = 2
    MaxTasks = 4
INVARIANTS
    PageShowsState
    IdleIsClean
    HandlersAsNested
    CalledAsPromised
CHECK_DEADLOCK FALSE
