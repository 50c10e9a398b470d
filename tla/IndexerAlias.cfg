SPECIFICATION Spec
CONSTANTS
    c1 = c1
    c2 = c2
    w1 = w1
    w2 = w2
    NProducts = 2
    Channels = {c1, c2}
    Default = c1
    Workers = {w1, w2}
    ChunkSize = 1
    Starts = {"alias", "index", "nothing"}
    QuietDeletes = FALSE
    OutsideRemovals = FALSE
    MaxChanges = 1
    MaxReindexes = 2
    MaxFailures = 1
    MaxCrashes = 1
SYMMETRY Symmetry
INVARIANTS
    SwitchInv
    NoStrayIndices
PROPERTIES
    AliasStays
CHECK_DEADLOCK FALSE
