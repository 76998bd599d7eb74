\* Two passes over four hours, or in the hour the third floor ends.
CONSTANTS
    Procs = {p1, p2}
    MaxTime = 5
    MaxToken = 3
    Unhelped = {0, 1, 3}
    Life = 1
    MaxWait = 2
    Beside = {"reset", "resend", "login", "codex"}
SPECIFICATION PassSpec
SYMMETRY Symmetry
PROPERTIES
    FloorKept
    ResendWaits
