\* No client cancels; they delete and retry, one statement fails, one crash or shutdown.
SPECIFICATION FairSpec
CONSTANTS
    MaxJobs = 2
    Workers = {w1, w2}
    Requests = {r1}
    Ops = {"delete", "retry"}
    Limits = {1, 2}
    MaxDowns = 1
    MaxFaults = 1
    NoWorker = NoWorker
INVARIANTS OneWorkerPerJob LiveAreRegistered StopReachesAll
PROPERTIES StartsWithinLimit TerminalIsFinal LifecycleSpec JobsSettle StopCompletes
CHECK_DEADLOCK FALSE
