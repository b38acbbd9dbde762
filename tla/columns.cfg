SPECIFICATION Spec
CONSTANTS
    Ids = {"a", "b", "c"}
    Initial <- TwoColumns
    NoColumn = "nil"
    Cards = {n1}
    Procs = {p1, p2}
    MaxCrashes = 1
SYMMETRY AllProcs
INVARIANTS
    ColumnsTypeOK
    SerialCardsStandInColumns
PROPERTIES
    
    LoneTransportRenumbers
    DenseTransportSwaps
    SerialImplementsColumnList
CHECK_DEADLOCK FALSE
