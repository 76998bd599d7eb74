\* Two agctl processes and a Claude Code process over two nested locks.
CONSTANTS
    Agents = {a1, a2}
    Peers = {p1}
    NoOne = NoOne
    Depth = 2
    MaxRestarts = 0
    Modes = {"hold", "doctor"}
    Tree = "live"
    Beside = {"crash", "sleep", "emergency"}
SPECIFICATION Spec
SYMMETRY Symmetry
INVARIANTS
    WriteInv
    LeakExplained
    WriteUnderLocks
PROPERTIES
    CheckSeesAll
