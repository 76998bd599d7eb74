\* Every command ends, with every Codex action.
CONSTANTS
    Procs = {p1, p2}
    NoProc = NoProc
    MaxToken = 2
    Commands = {"proactive", "remove"}
    Codex = {"rewrite", "access", "delete"}
SPECIFICATION FairSpec
PROPERTIES
    CommandsEnd
