CONSTANTS
    p1 = p1
    p2 = p2
    U = U
    N = N
    Procs = {p1, p2}
    NoProc = NoProc
    Keys = {U, N}
    Unknown = U
    Starts <- Logins
    Orders <- OnlyMoves
    MaxGrants = 3
    Faults = {"park"}
SPECIFICATION Spec
PROPERTIES
    MoveKeepsTheGrant
CHECK_DEADLOCK FALSE
