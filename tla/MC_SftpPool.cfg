\* Two calls, two hosts, an edit, a changed host key, a failure.
SPECIFICATION FairSpec
CONSTANTS
    Callers = {c1, c2}
    Hosts = {h1, h2}
    Keys = {k1, k2}
    NoKey = NoKey
    NoRow = NoRow
    NoConn = NoConn
    NoCaller = NoCaller
    MaxEdits = 1
    MaxRekeys = 1
    MaxFaults = 1
INVARIANTS TypeOK OneConnection PooledKeyIsPinned
PROPERTIES LineSpec CallsEnd
CHECK_DEADLOCK FALSE
