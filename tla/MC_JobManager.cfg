\* Clients cancel; two crashes or shutdowns; no statement fails.
SPECIFICATION Spec
CONSTANTS
    MaxJobs = 2
    Workers = {w1, w2}
    Requests = {r1}
    Ops = {"cancel"}
    Limits = {2}
    MaxDowns = 2
    MaxFaults = 0
    NoWorker = NoWorker
SYMMETRY Symmetry
INVARIANTS TypeOK RegisteredAreLive WithinLimit RunningRowOwned
PROPERTIES NoStartAfterStop
