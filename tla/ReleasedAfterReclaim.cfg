CONSTANTS
    r1 = r1
    u1 = u1
    u2 = u2
    s1 = s1
    s2 = s2
    f1 = f1
    Runs = {r1}
    Seeders = {u1, u2}
    Peers = {s1, s2}
    Forgets = {f1}
    NoLock = NoLock
    Account = "incoming"
    Before = "before"
    MaxVersion = 2
    Ladder = 2
    Entries = {"settings.json", "mcp.json"}
    Optional = {"mcp.json"}
    Attempts = 2
    Cases <- RewritesOnly
SPECIFICATION Spec
PROPERTY OthersLockStands
CHECK_DEADLOCK FALSE
