\* One job, one cancel request.
SPECIFICATION Spec
CONSTANTS
    MaxJobs = 1
    Workers = {w1}
    Requests = {r1}
    Ops = {"cancel"}
    Limits = {1}
    MaxDowns = 0
    MaxFaults = 0
    NoWorker = NoWorker
PROPERTIES CancelIsFinal
