SPECIFICATION FairSpec
CONSTANTS
    u1 = u1
    u2 = u2
    q1 = q1
    q2 = q2
    p1 = p1
    Upserts = {u1}
    Queries = {q1}
    Publishers = {p1}
    Debounce = 2
    CacheTtl = 1
    Calm = TRUE
    SlowRuns = TRUE
    MaxTime = 4
    MaxChanges = 2
    MaxRuns = 2
    MaxFailures = 1
INVARIANTS
    TypeOK
    RecordedWithinDebounce
    IdleWhenDeployed
PROPERTIES
    StatusClears
CHECK_DEADLOCK FALSE
