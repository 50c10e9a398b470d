SPECIFICATION FairSpec
CONSTANTS
    c1 = c1
    c2 = c2
    w1 = w1
    w2 = w2
    NProducts = 2
    Channels = {c1, c2}
    Default = c1
    Workers = {w1}
    ChunkSize = 1
    Starts = {"alias", "index"}
    QuietDeletes = TRUE
    OutsideRemovals = TRUE
    MaxChanges = 3
    MaxReindexes = 1
    MaxFailures = 0
    MaxCrashes = 0
INVARIANTS
    TypeOK
    CurrentUnlessPending
PROPERTIES
    EventuallyCurrent
CHECK_DEADLOCK FALSE
