\* One job that runs twice; two shutdowns or crashes; two failures.
SPECIFICATION Spec
CONSTANTS
    MaxRuns = 2
    Reach <- MCReach
    MaxDowns = 2
    MaxFaults = 2
INVARIANTS TypeOK NothingLeftBehind CancelEndsLftp
CHECK_DEADLOCK FALSE
