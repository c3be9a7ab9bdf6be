\* A followed job, another that can push it out of the list, and a browser with
\* a page that fetches; four events, and two of: a shutdown, a restart, a failing
\* read, a fetch, a dropped cache, another job's insertion or deletion.
SPECIFICATION Spec
CONSTANTS
    Jobs = {1}
    Others = {2}
    Clients = {c1}
    Watchers = {c1}
    bufferSize = 1
    snapshotLimit = 1
    MaxEvents = 4
    MaxExtras = 2
INVARIANTS TypeOK EndedIsShown
