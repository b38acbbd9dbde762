SPECIFICATION Spec
CONSTANTS
    Numbers = {1, 2}
    Procs = {p1, p2}
    Kinds = {"read", "change", "move", "comment", "uncomment", "sync"}
    None = None
    Repositories <- OneIssue
    MaxVersion <- Versions
    MaxComments <- Comments
    MaxPayloads = 2
SYMMETRY AllProcs
INVARIANTS
    CacheTypeOK
    SerialCacheAgrees

    
    
CHECK_DEADLOCK FALSE
