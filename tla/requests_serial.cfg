CONSTANTS
    Numbers = {1}
    Old = {}
    Columns = {"first", "middle", "last"}
    DefaultColumn = "first"
    LastColumn = "last"
    AutoAssign = {"first", "middle"}
    AutoClose = {"last"}
    BrowserLists <- AllLists
    Forces = {TRUE, FALSE}
    MaxClosings = 2
    Procs = {p}
    Kinds = {"create", "move", "close", "reopen", "archive", "unarchive",
             "toggle_ready", "assign", "sync_stats", "synchronize"}
    Threads = 1
    MaxCrashes = 0
SPECIFICATION SerialSpec
PROPERTY ImplementsLifecycle
CHECK_DEADLOCK FALSE
