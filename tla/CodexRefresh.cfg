\* Two processes and the Codex writer, up to two tokens.
CONSTANTS
    Procs = {p1, p2}
    NoProc = NoProc
    MaxToken = 2
    Commands = {"proactive", "after401", "resend", "install"}
    Codex = {"rewrite", "delete"}
SPECIFICATION Spec
SYMMETRY Symmetry
INVARIANTS
    TypeOK
    IInv
    Lineage
    OneConsentedResend
    ParkedIsSuccessor
    ResendOnlyWhatIsLost
PROPERTIES
    SendsAsPromised
