\* A statement of the repository that does not hold.
SPECIFICATION Spec
CONSTANTS
    Callers = {c1, c2}
    Hosts = {"h1"}
    Keys = {"k1"}
    FirstHost = "h1"
    FirstKeys <- OneKey
    NoKey = NoKey
    NoForm = NoForm
    NoConn = NoConn
    NoCaller = NoCaller
    MaxChanges = 0
    MaxFaults = 1
PROPERTY SecondAttemptHolds
CHECK_DEADLOCK FALSE
