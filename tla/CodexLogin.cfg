CONSTANTS
    p1 = p1
    p2 = p2
    A = A
    B = B
    Procs = {p1, p2}
    NoProc = NoProc
    Keys = {A, B}
    Starts <- Registries
    Orders <- Every
    MaxGrants = 3
    Elsewhere = Elsewhere
    Faulty = {p1}
    Faults = {"crash", "signal", "root", "keychain", "child", "audit", "write", "busy"}
SPECIFICATION Spec
INVARIANTS
    InstalledIsVerified
    StoredIsOwned
PROPERTIES
    SweepSparesTheLiving
CHECK_DEADLOCK FALSE
