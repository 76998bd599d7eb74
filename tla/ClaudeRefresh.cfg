\* Passes over the file and over the item: see MCClaudeRefresh.  The bounds end every behaviour.
CONSTANTS
    p1 = p1
    p2 = p2
    Procs = {p1, p2}
    NoProc = NoProc
    Session = Session
    Cases <- Histories
SPECIFICATION Spec
INVARIANTS
    AuditTold
PROPERTIES
    GrantKept
    WindowOutlivesThePass
CHECK_DEADLOCK FALSE
