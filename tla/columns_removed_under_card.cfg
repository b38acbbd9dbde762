SPECIFICATION Spec
CONSTANTS
    Ids = {"a", "b"}
    Initial <- TwoColumns
    NoColumn = "nil"
    Cards = {n1}
    Procs = {p1, p2}
    MaxCrashes = 0
INVARIANTS
    CardsStandInColumns
CHECK_DEADLOCK FALSE
