CONSTANTS
    p1 = p1
    p2 = p2
    A = A
    B = B
    Procs = {p1, p2}
    NoProc = NoProc
    Keys = {A, B}
    Starts <- Registries
    Orders <- OneLogin
    MaxGrants = 2
    Elsewhere = Elsewhere
    Faulty = {}
    Faults = {}
SPECIFICATION Spec
INVARIANTS
    NamedIsItsOwn
CHECK_DEADLOCK FALSE
