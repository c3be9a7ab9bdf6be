\* One job, one browser that only listens; nothing fails.
SPECIFICATION Spec
CONSTANTS
    Jobs = {1}
    Others = {}
    Clients = {c1}
    Watchers = {}
    bufferSize = 2
    snapshotLimit = 1
    MaxEvents = 4
    MaxExtras = 0
INVARIANTS SubscribersSeeTheRow
