------------------------- MODULE LiveSwapInvariant -------------------------
(* The inductive invariant behind the safety theorems of LiveSwap.         *)
EXTENDS LiveSwap

\* The steps after the read of the item, and after the read of the incoming credential.
Reading == {"incoming", "locks"} \cup Locked
Chosen == {"locks"} \cup Locked

\* The steps after the refresh, up to the write, and the steps at which a refreshed
\* credential may be saved nowhere.
Fresh == {"save", "adopt", "hold", "reread", "write"}
Carrying == Fresh \cup {"failed", "verify", "config"}

\* The steps at which the decision is made and not yet carried out, and those after it.
Decided == {"refresh", "save", "adopt"}
Filed == {"hold", "reread", "write"}

\* What the locals hold by the step that uses them, and whose it is.
LocalsOf(p) ==
    LET r == run[p] IN
    /\ r.pc # "idle" => r.inc \in Accounts
    /\ r.pc = "catchup" => r.who \in Accounts
    /\ r.pc \in Reading => r.from \in Creds /\ r.who \in Accounts /\ owner[r.from] = r.who
    /\ r.pc \in Chosen => r.cred \in Creds /\ owner[r.cred] = r.inc
    /\ r.pc = "save" => r.base \in spent
    /\ r.unsaved => r.pc \in Carrying
    /\ r.plan # "none" => r.pc \in Decided

\* Under the locks, both namespaces are the run's.
LocksOf(p) == run[p].pc \in Locked => \A a \in Needed(run[p]) : nslock[a] = p

\* What the decision is to overwrite: nothing, an earlier live parking, an older copy.
PlanOf(p) ==
    LET r == run[p] IN
    /\ r.plan = "park" => r.who # r.inc /\ (parked[r.who] = None \/ ParkedByLive(parked[r.who]))
    /\ r.plan = "file" => r.who # r.inc /\ r.prior < r.from

\* Once the decision is carried out, or was to change nothing, the displaced credential is
\* older than the incoming one of its own account, or in its own account's namespace
\* unless something else there replaced it.
Elsewhere(c, a) == c \in spent \cup given \cup {home[a], parked[a], moved[a]}

DisplacedOf(p) ==
    LET r == run[p] IN
    r.pc \in Filed \/ (r.pc \in Decided /\ r.plan = "none")
        => Discards(r) \/ (r.who # r.inc /\ Elsewhere(r.from, r.who))

\* A credential to install is rotated away only by a session that had it in the item.
InstallOf(p) == run[p].pc \in Fresh => run[p].cred \notin spent \/ item # run[p].from

\* The item is what was compared, and then what was installed.
ItemOf(p) ==
    /\ At(p, "write") => item = run[p].from
    /\ At(p, "config") => run[p].login \/ owner[item] = run[p].inc

Sound(p) ==
    /\ LocalsOf(p) /\ LocksOf(p) /\ PlanOf(p) /\ DisplacedOf(p) /\ InstallOf(p) /\ ItemOf(p)

\* Only an expired credential is refreshed.
SpentExpired == \A c \in spent : Stale(c)

\* The inductive invariant: what a run read before its locks still means, under them, what
\* it meant (use.rs phases A to C, adopt.rs).
SwapInv ==
    /\ TypeOK
    /\ Kept
    /\ FiledAtHome
    /\ SpentExpired
    /\ \A p \in Procs : Sound(p)
=============================================================================
