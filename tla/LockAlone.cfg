\* One agctl process beside a Claude Code process, with everything that can happen.
CONSTANTS
    Agents = {a1}
    Peers = {p1}
    NoOne = NoOne
    Depth = 2
    MaxRestarts = 1
    Modes = {"hold", "doctor"}
    Tree = "agctl"
    Beside = {"crash", "stop", "sleep", "emergency", "cancel"}
SPECIFICATION FairSpec
INVARIANTS
    LeakExplained
    WriteUnderLocks
    BreakSparesTheBeating
PROPERTIES
    CheckSeesAll
    CommandsEnd
