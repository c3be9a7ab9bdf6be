\* Two calls, two hosts, one save of the settings page or changed host key, a failure.
SPECIFICATION FairSpec
CONSTANTS
    Callers = {c1, c2}
    Hosts = {"h1", "h2"}
    Keys = {"k1", "k2"}
    FirstHost = "h1"
    FirstKeys <- DifferentKeys
    NoKey = NoKey
    NoForm = NoForm
    NoConn = NoConn
    NoCaller = NoCaller
    MaxChanges = 1
    MaxFaults = 1
INVARIANTS TypeOK OneConnection KeyIsPinned
PROPERTIES LineSpec CallsEnd BrokenIsDropped CloseEnds
CHECK_DEADLOCK FALSE
