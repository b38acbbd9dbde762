SPECIFICATION FairSpec
CONSTANTS
    Columns = {1, 2}
    AutoAssign = {2}
    AutoClose = {2}
    Users = {"me", "ann"}
    Labels = {"bug"}
    Chunks = {"a"}
    IsReadonly = FALSE
    FirstStates = {"closed"}
    Uses <- FiveUses
    MaxComments = 3
    MaxClicks = 3
    MaxCalls = 3
    MaxMishaps = 2
INVARIANTS
    WindowTypeOK
    
    PatientBoardAgrees
    
    SubmittedTextSafe
PROPERTY SavingEnds
CHECK_DEADLOCK FALSE
