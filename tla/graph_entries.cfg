SPECIFICATION FairSpec
CONSTANTS
    Graphs = {"lines", "cumulative"}
    Procs = {p1, p2}
    MaxDay = 4
    MaxCrashes = 1
INVARIANTS
    GraphTypeOK
    WholeJobsLeaveNoGap
    FilledFromDayBefore
PROPERTIES
    AskedDayIsCollected
