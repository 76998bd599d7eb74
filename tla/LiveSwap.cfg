\* Histories of one and of two processes: see MCLiveSwap.  The bounds end every behaviour.
CONSTANTS
    p1 = p1
    p2 = p2
    Procs = {p1, p2}
    NoProc = NoProc
    N = 3
    Bounds <- Histories
SPECIFICATION Spec
INVARIANTS
    Kept
    FiledAtHome
PROPERTIES
    InstalledIsLive
    ConfigNamesTheItem
CHECK_DEADLOCK FALSE
