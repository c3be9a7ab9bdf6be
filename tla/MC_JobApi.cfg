\* One request, one client that pages, or two appenders, beside the others.
SPECIFICATION Spec
CONSTANTS
    Inputs <- MCInputs
    RootInputs <- MCRootInputs
    Paths <- MCPaths
    FirstNas <- MCFirstNas
    MaxMoves = 2
    MaxBreaks = 2
    Nowhere = Nowhere
    Uses = {"create", "mkdir", "list", "log"}
    Batches <- MCBatches
    MaxJobs = 5
    FirstJobs = 4
    PageSize = 2
    Appenders = {a1, a2}
    KeepLines = 2
    MaxLines = 5
    MaxChanges = 2
    MaxFaults = 1
    NoRow = NoRow
INVARIANTS TypeOK PlainIsAccepted QueuedStaysInside MadeInside NoOrphans PagingIsExact LogRing
CHECK_DEADLOCK FALSE
