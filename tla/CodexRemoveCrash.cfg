\* A removal that dies between two unlinks.
CONSTANTS
    Procs = {p1}
    NoProc = NoProc
    MaxToken = 2
    Commands = {"proactive", "remove"}
    Codex = {}
SPECIFICATION Spec
INVARIANTS
    NoAutomaticResend
