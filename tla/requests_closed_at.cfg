CONSTANTS
    Numbers = {1}
    Old = {}
    Columns = {"first", "last"}
    DefaultColumn = "first"
    LastColumn = "last"
    AutoAssign = {}
    AutoClose = {}
    BrowserLists = {}
    Forces = {FALSE}
    MaxClosings = 3
    Procs = {p1, p2, p3}
    Kinds = {"create", "close", "reopen", "assign", "sync_stats"}
    Threads = 1
    MaxCrashes = 0
SPECIFICATION ReqSpec
SYMMETRY AllProcs
INVARIANT QuietClosedAtAgrees
