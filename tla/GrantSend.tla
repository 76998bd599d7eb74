----------------------------- MODULE GrantSend -----------------------------
(***************************************************************************)
(* What the refresh protocol promises about sending a grant.  Sending may  *)
(* spend a grant, and an answer may never come.  One POST is on the wire   *)
(* at a time.  The program sends a grant on its own only when no POST of   *)
(* it is unsettled; while one is, only the user's consent sends it, once.  *)
(* Only the answer to the POST on the wire settles it: not processed, or   *)
(* processed with the grant still good.  A POST that spent its grant, or   *)
(* was never answered, stays unsettled for ever.                           *)
(***************************************************************************)
CONSTANT Grants
VARIABLES
    open,       \* the unsettled POSTs of each grant, by who sent them
    wire        \* the POST under way: its grant and who sent it

Init ==
    /\ open = [g \in Grants |-> {}]
    /\ wire = {}

AutomaticSend(g) ==
    /\ wire = {}
    /\ open[g] = {}
    /\ open' = [open EXCEPT ![g] = {"auto"}]
    /\ wire' = {<<g, "auto">>}

ConsentedSend(g) ==
    /\ wire = {}
    /\ "user" \notin open[g]
    /\ open' = [open EXCEPT ![g] = @ \cup {"user"}]
    /\ wire' = {<<g, "user">>}

NotProcessed(g, kind) ==
    /\ wire = {<<g, kind>>}
    /\ open' = [open EXCEPT ![g] = @ \ {kind}]
    /\ wire' = {}

StillGood(g, kind) ==
    /\ wire = {<<g, kind>>}
    /\ open' = [open EXCEPT ![g] = {}]
    /\ wire' = {}

Unsettled ==
    /\ wire' = {}
    /\ UNCHANGED open

Next == \/ \E g \in Grants :
             \/ AutomaticSend(g)
             \/ ConsentedSend(g)
             \/ \E kind \in {"auto", "user"} : NotProcessed(g, kind) \/ StillGood(g, kind)
        \/ Unsettled

Spec == Init /\ [][Next]_<<open, wire>>
=============================================================================
