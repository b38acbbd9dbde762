CONSTANTS
    Numbers = {1}
    Old = {1}
    Columns = {"first", "last"}
    DefaultColumn = "first"
    LastColumn = "last"
    AutoAssign = {}
    AutoClose = {}
    BrowserLists = {}
    Forces = {FALSE}
    MaxClosings = 1
    Procs = {p1, p2}
    Kinds = {"move", "archive", "unarchive", "toggle_ready", "synchronize"}
    Threads = 1
    MaxCrashes = 1
SPECIFICATION ReqSpec
SYMMETRY AllProcs
INVARIANTS
    ReqTypeOK
    OpenLifetimesBounded
PROPERTIES
    LoneMoveHeals
    ImplementsCardBoard
