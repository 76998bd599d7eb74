\* One `use --undo` of a finished swap.
CONSTANTS
    p1 = p1
    p2 = p2
    Procs = {p1}
    NoProc = NoProc
    N = 2
    Bounds <- UndoOnly
SPECIFICATION Spec
INVARIANTS
    RollbackCanBeRunAgain
CHECK_DEADLOCK FALSE
