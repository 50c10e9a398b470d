SPECIFICATION FairSpec
CONSTANTS
    server = server
    worker = worker
    NoNameRow = NoNameRow
    NoName = NoNameRow
    Processes <- MCProcesses
    Server = server
    Workers <- MCWorkers
    Keys <- MCKeys
    Watched <- MCWatched
    MaxEdits = 1
    Jobs <- MCJobs
    Concurrency = 2
    MaxFaults = 1
    Uploads <- MCUploads
    FileOf <- MCFileOf
    Requests = {1}
    DebugLogging = FALSE
    LogLimit = 5
    QuickFills = TRUE
INVARIANTS
    TypeOK
    VariantsOfTheirProduct
    DoneMeansImported
    CommittedOnce
    
PROPERTIES
    QueuedIsImported
CHECK_DEADLOCK FALSE
