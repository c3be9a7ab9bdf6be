\* A file whose size the remote server told, with one scanner.
SPECIFICATION Spec
CONSTANTS
    Scanners = {scan}
    Poller = poller
    Worker = worker
    Sizes = {0, 2, 3, 4}
    Percents <- MCPercents
    JobTotal = 4
INVARIANTS TypeOK RowIsCurrent
PROPERTIES Forwards
CHECK_DEADLOCK FALSE
