\* Either command, with a slot more than passes in flight, so that a coordinator outlives its pass.
CONSTANTS
    Commands = {"watch", "exec"}
    Slots = {s1, s2}
    Workers = {w1}
    MaxJobs = 1
    Stops = {"quit", "signal"}
    NoSlot = NoSlot
SPECIFICATION FairSpec
CHECK_DEADLOCK FALSE
INVARIANTS
    PassesDoNotOverlap
    TerminalCovered
    NoChildSurvives
    StatusIsTheSignals
    RefreshKeyKept
PROPERTIES
    CancelEnds
