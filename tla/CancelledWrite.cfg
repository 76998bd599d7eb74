\* One pass over the item, which a signal may end.
CONSTANTS
    p1 = p1
    p2 = p2
    Procs = {p1, p2}
    NoProc = NoProc
    Session = Session
    Cases <- CancelledOnly
SPECIFICATION Spec
INVARIANTS
    FailedLeavesTheItem
CHECK_DEADLOCK FALSE
