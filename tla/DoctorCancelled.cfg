\* A removal by hand that is interrupted in its twelve seconds.
CONSTANTS
    Agents = {a1}
    Peers = {p1}
    NoOne = NoOne
    Depth = 1
    MaxRestarts = 0
    Modes = {"doctor"}
    Tree = "agctl"
    Beside = {"sleep", "cancel"}
SPECIFICATION Spec
INVARIANTS
    DoctorWaits
