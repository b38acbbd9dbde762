CONSTANTS
    Numbers = {1, 2}
    Old = {1}
    Columns = {"first", "last"}
    DefaultColumn = "first"
    LastColumn = "last"
    AutoAssign = {}
    AutoClose = {"last"}
    BrowserLists = {}
    Forces = {FALSE}
    MaxClosings = 1
SPECIFICATION FairSpec
INVARIANTS
    TypeOK
    CurrentLifetimeInColumn
    LifetimeLeakBounded
    ClosedAtDriftsOnGithubOnly
PROPERTIES
    MoveRestartsStage
    ImplementsCardBoard
    StatsJobRepairsClosedAt
