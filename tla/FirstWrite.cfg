CONSTANTS
    p1 = p1
    p2 = p2
    a1 = a1
    a2 = a2
    a3 = a3
    Procs = {p1, p2}
    NoProc = NoProc
    Live = "live"
    Accounts = {a1, a2, a3}
    Spaces = {a1}
    MaxGen = 3
    Bounds <- FirstWrite
SYMMETRY Symmetric
SPECIFICATION Spec
PROPERTIES
    FileIsASecondCopy
CHECK_DEADLOCK FALSE
