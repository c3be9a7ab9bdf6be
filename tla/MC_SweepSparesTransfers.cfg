\* One run, no failures.
SPECIFICATION Spec
CONSTANTS
    MaxRuns = 1
    Reach <- MCReach
    MaxDowns = 0
    MaxFaults = 0
PROPERTIES SweepSparesTransfers
CHECK_DEADLOCK FALSE
