\* The watch loop with two slots, so that a coordinator outlives its pass.
CONSTANTS
    Commands = {"watch"}
    Slots = {s1, s2}
    Workers = {w1, w2}
    MaxJobs = 2
    Stops = {"quit"}
    NoSlot = NoSlot
SPECIFICATION Spec
SYMMETRY Symmetry
CHECK_DEADLOCK FALSE
INVARIANTS
    PassesDoNotOverlap
    TerminalCovered
