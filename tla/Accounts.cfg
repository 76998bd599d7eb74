CONSTANTS
    p1 = p1
    p2 = p2
    U = U
    N = N
    Procs = {p1, p2}
    NoProc = NoProc
    Keys = {U, N}
    Unknown = U
    Starts <- Logins
    Orders <- Every
    MaxGrants = 3
    Faults = {"crash", "park", "write", "refuse"}
SPECIFICATION Spec
INVARIANTS
    RegistryAgrees
    NoSharedGrant
PROPERTIES
    OthersRecordsKept
CHECK_DEADLOCK FALSE
