\* One process that crashes and restarts beside the Codex writer, with a grant more to rotate.
CONSTANTS
    Procs = {p1}
    NoProc = NoProc
    MaxToken = 3
    Commands = {"proactive", "after401", "resend", "install"}
    Codex = {"rewrite", "delete"}
SPECIFICATION Spec
INVARIANTS
    Covered
    NoAutomaticResend
    OneConsentedResend
    ParkedIsSuccessor
PROPERTIES
    NewerGrantKept
    SendsAsPromised
